---------------------------- MODULE ExternalRuntime ----------------------------
(***************************************************************************)
(* Runs on a runtime of another service.  The adapter asks for the run,    *)
(* remembers the number it got in the memory of its process, and writes    *)
(* the row the commands are authorized by.  An answer may be lost after    *)
(* the run was started, a command may be carried out and not answered, and *)
(* a process that restarts has forgotten its runs.  Events have no number  *)
(* of their own: a reader's cursor counts them.                            *)
(***************************************************************************)
EXTENDS Naturals, Sequences

CONSTANTS Runs,
          MaxEvents,     \* bound: events of a remote run
          MaxCrashes,    \* bound: process restarts in a behaviour
          MaxReads       \* bound: polls of a reader that bring something

VARIABLES remote,    \* the remote run: "none", "running", "paused" or "ended"
          emitted,   \* how many events it has
          known,     \* _runs
          rows,      \* runs with a state row; the adapter never changes its status
          stage,     \* how far a start is; "failed" once it gave up
          cursor,    \* where the reader of a run is
          seen,      \* the events it was given, 0 for the one that was made up
          crashes,
          told       \* history: commands that were answered, by run

vars == <<remote, emitted, known, rows, stage, cursor, seen, crashes, told>>
service == <<remote, emitted>>
reader == <<cursor, seen>>

Move(r, to) == stage' = [stage EXCEPT ![r] = to]

Init ==
    /\ remote = [r \in Runs |-> "none"] /\ emitted = [r \in Runs |-> 0]
    /\ known = {} /\ rows = {} /\ stage = [r \in Runs |-> "new"]
    /\ cursor = [r \in Runs |-> 0] /\ seen = [r \in Runs |-> <<>>]
    /\ crashes = 0 /\ told = [r \in Runs |-> {}]

-----------------------------------------------------------------------------
(*                                  A start                                  *)

\* POST /runs: it is answered, or fails before the run exists, or the run
\* exists and its number does not arrive.
Post(r) ==
    /\ stage[r] = "new"
    /\ \/ remote' = [remote EXCEPT ![r] = "running"] /\ Move(r, "answered")
       \/ remote' = [remote EXCEPT ![r] = "running"] /\ Move(r, "failed")
       \/ UNCHANGED remote /\ Move(r, "failed")
    /\ UNCHANGED <<emitted, known, rows, reader, crashes, told>>

Remember(r) ==
    /\ stage[r] = "answered"
    /\ known' = known \cup {r} /\ Move(r, "known")
    /\ UNCHANGED <<service, rows, reader, crashes, told>>

\* state_store.create, which may fail and leaves the run without a row.
CreateRow(r) ==
    /\ stage[r] = "known"
    /\ \/ rows' = rows \cup {r} /\ Move(r, "started")
       \/ UNCHANGED rows /\ Move(r, "failed")
    /\ UNCHANGED <<service, known, reader, crashes, told>>

-----------------------------------------------------------------------------
(*                        Commands and the reader                          *)

\* adapter_for_task: the adapter that remembers the run, and its row.
Reachable(r) == r \in known /\ r \in rows

Commands == {"pause", "resume", "cancel"}
After(status, command) ==
    IF status = "ended" THEN status
    ELSE CASE command = "pause"  -> "paused"
           [] command = "resume" -> "running"
           [] command = "cancel" -> "ended"

\* The command is carried out and answered, carried out and not answered, or
\* lost.  The row keeps its status.
Command(r) ==
    /\ Reachable(r)
    /\ \E c \in Commands, done \in BOOLEAN, answered \in BOOLEAN :
        /\ answered => done
        /\ remote' = [remote EXCEPT ![r] = IF done THEN After(@, c) ELSE @]
        /\ told' = [told EXCEPT ![r] = IF answered THEN @ \cup {c} ELSE @]
    /\ UNCHANGED <<emitted, known, rows, stage, reader, crashes>>

\* What the adapter makes of the remote events: one, made up, when there is none.
Numbered(r) == IF emitted[r] = 0 THEN <<0>> ELSE [i \in 1..emitted[r] |-> i]

\* A poll brings what is behind the cursor.
StreamEvents(r) ==
    /\ Reachable(r) /\ Len(seen[r]) < MaxReads
    /\ LET events == Numbered(r)
       IN  /\ Len(events) > cursor[r]
           /\ seen' = [seen EXCEPT ![r] = @ \o SubSeq(events, cursor[r] + 1, Len(events))]
           /\ cursor' = [cursor EXCEPT ![r] = Len(events)]
    /\ UNCHANGED <<service, known, rows, stage, crashes, told>>

-----------------------------------------------------------------------------
(*                      The other service, and crashes                       *)

Emit(r) ==
    /\ remote[r] = "running" /\ emitted[r] < MaxEvents
    /\ emitted' = [emitted EXCEPT ![r] = @ + 1]
    /\ \E to \in {"running", "ended"} : remote' = [remote EXCEPT ![r] = to]
    /\ UNCHANGED <<known, rows, stage, reader, crashes, told>>

Crash ==
    /\ crashes < MaxCrashes
    /\ crashes' = crashes + 1
    /\ known' = {}
    /\ stage' = [r \in Runs |-> IF stage[r] \in {"answered", "known"} THEN "failed" ELSE stage[r]]
    /\ UNCHANGED <<service, rows, reader, told>>

Serve(r) == Post(r) \/ Remember(r) \/ CreateRow(r) \/ Command(r) \/ StreamEvents(r) \/ Emit(r)

Next == (\E r \in Runs : Serve(r)) \/ Crash

Spec == Init /\ [][Next]_vars

-----------------------------------------------------------------------------
(*                                Properties                               *)

\* Every variable has its type.
TypeOK ==
    /\ remote \in [Runs -> {"none", "running", "paused", "ended"}]
    /\ emitted \in [Runs -> 0..MaxEvents] /\ known \subseteq Runs /\ rows \subseteq Runs
    /\ stage \in [Runs -> {"new", "answered", "known", "started", "failed"}]
    /\ cursor \in [Runs -> 0..MaxEvents + 1] /\ seen \in [Runs -> Seq(0..MaxEvents)]
    /\ crashes \in 0..MaxCrashes /\ told \in [Runs -> SUBSET Commands]

\* A reader gets every event once and in order.  The one that is made up while
\* there is none takes the place of the first, which the reader never gets.
EventsAreInOrder ==
    \A r \in Runs : \E first \in {0, 1} :
        seen[r] = [i \in 1..Len(seen[r]) |-> IF i = 1 THEN first ELSE i]

\* A remote run nobody can command belongs to a start that failed or is under
\* way, or its process has restarted; a run that was cancelled is over.
RemoteIsHeld ==
    \A r \in Runs :
        /\ remote[r] # "none" /\ ~Reachable(r) => stage[r] # "started" \/ crashes > 0
        /\ "cancel" \in told[r] => remote[r] = "ended"
=============================================================================
