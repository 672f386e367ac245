----------------------------- MODULE RunEvents ------------------------------
(***************************************************************************)
(* What the event log of one run promises its readers: the stream endpoint *)
(* (MockRuntime.stream_events) hands out `workbench_runtime_events` in     *)
(* sequence order and the clients rebuild the run's story from it.  The    *)
(* specification is the log alone, one atomic append at a time; RunState   *)
(* shows that concurrent request threads working on stale copies of the    *)
(* row still produce only such logs.                                       *)
(***************************************************************************)
EXTENDS Naturals, Sequences

CONSTANTS Ids, NoId

VARIABLE log

Ending == {"run.failed", "run.completed"}

Happened(type, a) == \E i \in 1 .. Len(log) : log[i].type = type /\ log[i].ref = a

Ended == \E i \in 1 .. Len(log) : log[i].type \in Ending

Granted(a) ==
    \E i \in 1 .. Len(log) :
        log[i].type = "approval.decided" /\ log[i].ref = a /\ log[i].ok

Undecided(a) == Happened("approval.requested", a) /\ ~Happened("approval.decided", a)

\* When an event may come next.  An approval is registered once, even on a
\* run that is over (request_approval checks no status); it is decided once;
\* a tool runs once, after it was started by the plan or approved; a run
\* ends once, completes only with no approval open, and does nothing else
\* after its end.
Admissible(type, a) ==
    \/ type = "plan.created" /\ log = << >>
    \/ type = "approval.requested" /\ ~Happened("approval.requested", a)
    \/ /\ ~Ended
       /\ \/ type \in {"step.started", "run.paused", "run.failed"}
          \/ type = "approval.decided" /\ Undecided(a)
          \/ /\ type = "tool.result"
             /\ ~Happened("tool.result", a)
             /\ Happened("step.started", a) \/ Granted(a)
          \/ type = "run.completed" /\ \A b \in Ids : ~Undecided(b)

Happen(type, a, ok) ==
    /\ log' = Append(log, [seq |-> Len(log) + 1, type |-> type,
                           ref |-> a, ok |-> ok])
    /\ Admissible(type, a)

Init == log = << >>

Next ==
    \E type \in {"plan.created", "step.started", "tool.result",
                 "approval.requested", "approval.decided",
                 "run.paused", "run.failed", "run.completed"},
       a \in Ids \cup {NoId}, ok \in BOOLEAN : Happen(type, a, ok)

Spec == Init /\ [][Next]_log

=============================================================================
