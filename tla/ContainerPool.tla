----------------------------- MODULE ContainerPool -----------------------------
(***************************************************************************)
(* The executor runs a tool in a container of its own, and a background    *)
(* thread removes the containers its process does not track.  What is      *)
(* tracked is kept in the memory of one process, the containers belong to  *)
(* a daemon they all share: to a process the containers of another are     *)
(* leftovers, and so is its own between creation and tracking.             *)
(***************************************************************************)
EXTENDS Naturals, FiniteSets

CONSTANTS Processes, Workers,  \* each process executes with every worker
          MaxContainers,       \* bound: containers created in a behaviour
          OrphanLimit,         \* orphan_limit
          Mortal,              \* processes that may restart, once each
          NoContainer

VARIABLES boxes,     \* containers the daemon has, with the managed label
          created,   \* how many containers were created; they are numbered
          live,      \* _live, by process
          sweep,     \* by process: what cleanup_orphans has still to remove
          serving,   \* processes whose startup handlers are done
          at, mine,  \* where an execution is, and its container
          exit,      \* how the command of the container ended, "none" until then
          outcome,   \* what the execution ends with, "none" until then
          restarted, \* the processes that did
          early      \* history: executions whose own process listed the container
                     \* before it tracked it

vars == <<boxes, created, live, sweep, serving, at, mine, exit, outcome, restarted, early>>
daemon == <<boxes, created>>
making == <<mine, exit, outcome>>

Executions == Processes \X Workers
Own(p) == {p} \X Workers

Go(e, place) == at' = [at EXCEPT ![e] = place]
End(e, how) == outcome' = [outcome EXCEPT ![e] = how] /\ Go(e, "finally")
Leave(e) == /\ outcome' = [outcome EXCEPT ![e] = "none"]
            /\ exit' = [exit EXCEPT ![e] = "none"]
            /\ early' = early \ {e}
            /\ mine' = [mine EXCEPT ![e] = NoContainer]
            /\ Go(e, "idle")

\* Managed containers the process does not track.
Orphans(p) == boxes \ live[p]

Init ==
    /\ boxes = {} /\ created = 0
    /\ live = [p \in Processes |-> {}] /\ sweep = [p \in Processes |-> {}]
    /\ serving = Processes
    /\ at = [e \in Executions |-> "idle"] /\ mine = [e \in Executions |-> NoContainer]
    /\ exit = [e \in Executions |-> "none"] /\ outcome = [e \in Executions |-> "none"]
    /\ restarted = {} /\ early = {}

-----------------------------------------------------------------------------
(*                              One execution                              *)

\* Variant: nobody counts the orphans.
EnforceNothing(e) ==
    /\ at[e] = "idle" /\ e[1] \in serving
    /\ Go(e, "create")
    /\ UNCHANGED <<daemon, live, sweep, serving, making, restarted, early>>

\* With more orphans than the limit the execution is refused, and nothing changes.
EnforceLimit(e) ==
    /\ at[e] = "idle" /\ e[1] \in serving
    /\ Cardinality(Orphans(e[1])) <= OrphanLimit
    /\ Go(e, "create")
    /\ UNCHANGED <<daemon, live, sweep, serving, making, restarted, early>>

NewContainer ==
    /\ created < MaxContainers
    /\ created' = created + 1
    /\ boxes' = boxes \cup {created'}

\* The network is not internal or cannot be made, or the daemon does not create
\* the container, or it creates it and fails to start it.
CreateFails(e) ==
    /\ at[e] = "create"
    /\ UNCHANGED daemon \/ NewContainer
    /\ Leave(e)
    /\ UNCHANGED <<live, sweep, serving, restarted>>

\* The container runs, and is not tracked yet.
Create(e) ==
    /\ at[e] = "create"
    /\ NewContainer /\ mine' = [mine EXCEPT ![e] = created']
    /\ Go(e, "track")
    /\ UNCHANGED <<exit, live, sweep, serving, outcome, restarted, early>>

Track(e) ==
    /\ at[e] = "track"
    /\ live' = [live EXCEPT ![e[1]] = @ \cup {mine[e]}]
    /\ Go(e, "wait")
    /\ UNCHANGED <<daemon, sweep, serving, making, restarted, early>>

\* The command has ended: the answer has its code.  A container that is removed
\* under its command ends the wait with an error or with a code of its own.
Waited(e) ==
    /\ at[e] = "wait"
    /\ \/ exit[e] = "ok" /\ End(e, "ok")
       \/ exit[e] = "failed" /\ End(e, "failed")
       \/ mine[e] \notin boxes /\ (End(e, "error") \/ End(e, "failed"))
    /\ UNCHANGED <<daemon, live, sweep, serving, mine, exit, restarted, early>>

\* The time is over: the container is killed, if the daemon does it.
TimedOut(e) ==
    /\ at[e] = "wait" /\ exit[e] = "none" /\ mine[e] \in boxes
    /\ \/ exit' = [exit EXCEPT ![e] = "failed"]
       \/ UNCHANGED exit
    /\ End(e, "timeout")
    /\ UNCHANGED <<daemon, live, sweep, serving, mine, restarted, early>>

\* remove_container stops tracking the container before it asks for its removal.
Forget(e) ==
    /\ at[e] = "finally"
    /\ live' = [live EXCEPT ![e[1]] = @ \ {mine[e]}]
    /\ Go(e, "remove")
    /\ UNCHANGED <<daemon, sweep, serving, making, restarted, early>>

\* A removal that fails is logged; the container is left to the next sweep.
Remove(e) ==
    /\ at[e] = "remove"
    /\ boxes' \in {boxes, boxes \ {mine[e]}}
    /\ Leave(e)
    /\ UNCHANGED <<created, live, sweep, serving, restarted>>

-----------------------------------------------------------------------------
(*                               Orphan cleanup                              *)

\* cleanup_orphans lists what to remove ...
ListOrphans(p) ==
    /\ sweep[p] = {} /\ p \in serving /\ Orphans(p) # {}
    /\ sweep' = [sweep EXCEPT ![p] = Orphans(p)]
    /\ early' = early \cup {e \in Own(p) : at[e] = "track"}
    /\ UNCHANGED <<daemon, live, serving, at, making, restarted>>

\* ... and removes it one by one, whatever has happened to it since.
SweepOne(p) ==
    /\ \E c \in sweep[p] :
        /\ sweep' = [sweep EXCEPT ![p] = @ \ {c}]
        /\ boxes' \in {boxes, boxes \ {c}}
    /\ UNCHANGED <<created, live, serving, at, making, restarted, early>>

\* A process that starts serves requests once its first sweep is over.
Serve(p) ==
    /\ p \notin serving /\ sweep[p] = {}
    /\ serving' = serving \cup {p}
    /\ UNCHANGED <<daemon, live, sweep, at, making, restarted, early>>

-----------------------------------------------------------------------------

\* The command of an execution ends.
Exit(e) ==
    /\ mine[e] \in boxes /\ exit[e] = "none"
    /\ \E how \in {"ok", "failed"} : exit' = [exit EXCEPT ![e] = how]
    /\ UNCHANGED <<daemon, live, sweep, serving, at, mine, outcome, restarted, early>>

\* A process dies with what it tracks, and the one that replaces it sweeps
\* before it serves.
Restart(p) ==
    /\ p \in Mortal \ restarted
    /\ restarted' = restarted \cup {p}
    /\ live' = [live EXCEPT ![p] = {}]
    /\ \/ sweep' = [sweep EXCEPT ![p] = boxes]
       \/ sweep' = [sweep EXCEPT ![p] = {}]        \* the daemon does not answer
    /\ serving' = serving \ {p}
    /\ at' = [e \in Executions |-> IF e \in Own(p) THEN "idle" ELSE at[e]]
    /\ mine' = [e \in Executions |-> IF e \in Own(p) THEN NoContainer ELSE mine[e]]
    /\ exit' = [e \in Executions |-> IF e \in Own(p) THEN "none" ELSE exit[e]]
    /\ outcome' = [e \in Executions |-> IF e \in Own(p) THEN "none" ELSE outcome[e]]
    /\ early' = early \ Own(p)
    /\ UNCHANGED daemon

Execute(e) == \/ EnforceLimit(e) \/ CreateFails(e) \/ Create(e) \/ Track(e)
              \/ Waited(e) \/ TimedOut(e) \/ Forget(e) \/ Remove(e)
              \/ Exit(e)

CleanUp(p) == ListOrphans(p) \/ SweepOne(p) \/ Serve(p)

Next == \/ \E e \in Executions : Execute(e)
        \/ \E p \in Processes : CleanUp(p) \/ Restart(p)

Spec == Init /\ [][Next]_vars

-----------------------------------------------------------------------------
(*                                Properties                               *)

\* Every variable has its type.
TypeOK ==
    /\ created \in 0..MaxContainers /\ boxes \subseteq 1..created
    /\ live \in [Processes -> SUBSET (1..created)] /\ sweep \in [Processes -> SUBSET (1..created)]
    /\ serving \subseteq Processes
    /\ at \in [Executions -> {"idle", "create", "track", "wait", "finally", "remove"}]
    /\ exit \in [Executions -> {"none", "ok", "failed"}]
    /\ mine \in [Executions -> (1..created) \cup {NoContainer}]
    /\ outcome \in [Executions -> {"none", "ok", "failed", "error", "timeout"}]
    /\ restarted \subseteq Mortal /\ early \subseteq Executions

\* The check for leftovers and the creation are apart, so executions pass it
\* together; the daemon still never holds more than the limit and one container
\* for each execution.
ContainersAreBounded ==
    Cardinality(boxes) + Cardinality({e \in Executions : at[e] = "create"})
        <= OrphanLimit + Cardinality(Executions)

\* An execution ends with the code of its own command, unless the command was
\* ended by the removal of its container.
OutcomesAreEarned ==
    \A e \in Executions :
        /\ outcome[e] = "ok" => exit[e] = "ok"
        /\ outcome[e] = "failed" => exit[e] = "failed" \/ mine[e] \notin boxes

\* A process sweeps away none of the containers it tracks, but those it listed
\* before it tracked them.
OwnAreKept ==
    \A e \in Executions :
        at[e] = "wait" /\ mine[e] \in sweep[e[1]] => e \in early
=============================================================================
