------------------------------ MODULE RunState ------------------------------
(***************************************************************************)
(* One run of the mock runtime (app/runtime/mock.py) over the PostgreSQL   *)
(* state store (app/runtime/state_postgres.py), operated on by concurrent  *)
(* request threads.                                                        *)
(*                                                                         *)
(* A request thread reads the state row once (`get`, a fresh copy), works  *)
(* on that copy, and writes it back with one transaction per `_emit`       *)
(* (event INSERT + whole-row upsert) and one per `save_checkpoint`         *)
(* (whole-row upsert).  Nothing locks the row in between.  What orders two *)
(* writers is only the primary key (run_id, sequence) of the event table:  *)
(* the second INSERT of a sequence raises, its transaction is rolled back  *)
(* and the request ends there.                                             *)
(*                                                                         *)
(* Runs share nothing but the primary key's run_id, so one run is enough.  *)
(* A step's id is its position in the plan; `request_approval` numbers its *)
(* ids in a range of their own ("approval-N").  The abstractions: event    *)
(* payloads keep only the approval or step they name and a verdict; the    *)
(* checkpoint keeps only whether it was ever written (all its readers ask).*)
(***************************************************************************)
EXTENDS Integers, Sequences, FiniteSets

CONSTANTS
    Handlers,      \* request threads of the API processes
    Plans,         \* the plans a run may be started with
    Ops,           \* operations clients invoke on the run
    MaxSteps,      \* bound: longest plan
    MaxRequests,   \* bound: approvals registered by request_approval
    MaxLog,        \* bound: no request is taken once that many events exist
    MayCrash,      \* a thread may die between two transactions
    MayPurge,      \* the retention task deletes old events
    NoState        \* the row does not exist, or a thread holds no copy

\* What start_run does with a step: fail.* tools fail, steps that require
\* approval wait, read and search steps run, any other step is passed over.
Modes == {"fail", "approve", "auto", "skip"}

\* Longest list of approvals: one per step, then the registered ones.
MaxId == 2 * MaxSteps + MaxRequests
Ids == 1 .. MaxId
NoId == 0

ASSUME BoundsAssumption ==
    /\ MaxSteps \in Nat /\ MaxRequests \in Nat /\ MaxLog \in Nat

\* RuntimeService.start replaces an empty plan by a one-step read plan.
ASSUME PlansAssumption ==
    \A plan \in Plans : plan \in Seq(Modes) /\ Len(plan) \in 1 .. MaxSteps

ASSUME SwitchAssumption ==
    /\ Ops \subseteq {"pause", "resume", "cancel", "request", "decide"}
    /\ MayCrash \in BOOLEAN
    /\ MayPurge \in BOOLEAN

-----------------------------------------------------------------------------
(*                      The row and the event table                        *)

Statuses == {"running", "paused", "completed", "failed", "cancelled"}
Terminal == {"completed", "failed", "cancelled"}
Verdicts == {"none", "pending", "approved", "rejected"}  \* "none": no such key

State == [status    : Statuses,
          plan      : Plans,
          approvals : [Ids -> Verdicts],
          done      : SUBSET (1 .. MaxSteps),  \* completed_steps
          calls     : Nat,                     \* usage["tool_calls"]
          count     : Nat,                     \* event_count
          saved     : BOOLEAN]                 \* checkpoint is not NULL

EventTypes == {"plan.created", "step.started", "tool.result",
               "approval.requested", "approval.decided",
               "run.paused", "run.failed", "run.completed"}

Event == [seq : Nat, type : EventTypes, ref : Ids \cup {NoId}, ok : BOOLEAN]

VARIABLES
    row,      \* the row of workbench_runtime_states, or NoState
    log,      \* every event ever inserted, in commit order
    purged,   \* how many of them the retention task has deleted (the oldest)
    pc,       \* where each thread is
    mem,      \* its copy of the row
    arg       \* the approval and verdict it decides, or its plan position

vars == <<row, log, purged, pc, mem, arg>>
store == <<row, log, purged>>

Pcs == {"idle", "plan", "step", "result", "fail", "next",
        "pause", "resume", "cancel", "request", "decide", "reject", "tool",
        "close", "save"}

\* Sequences now in workbench_runtime_events.
Sequences == {log[i].seq : i \in (purged + 1) .. Len(log)}

TypeOK ==
    /\ row \in State \cup {NoState}
    /\ log \in Seq(Event)
    /\ purged \in 0 .. Len(log)
    /\ pc \in [Handlers -> Pcs]
    /\ mem \in [Handlers -> State \cup {NoState}]
    /\ arg \in [Handlers -> [id : Ids \cup {NoId}, ok : BOOLEAN]]

NoArg == [id |-> NoId, ok |-> FALSE]

Init ==
    /\ row = NoState
    /\ log = << >>
    /\ purged = 0
    /\ pc = [h \in Handlers |-> "idle"]
    /\ mem = [h \in Handlers |-> NoState]
    /\ arg = [h \in Handlers |-> NoArg]

\* The request is over: answered, refused, failed or dead.
Leave(h) ==
    /\ pc' = [pc EXCEPT ![h] = "idle"]
    /\ mem' = [mem EXCEPT ![h] = NoState]
    /\ arg' = [arg EXCEPT ![h] = NoArg]

Say(type, ref, ok) == [type |-> type, ref |-> ref, ok |-> ok]

\* _emit then store.append: one transaction inserts event e, numbered
\* event_count + 1, and upserts the whole row from the thread's copy s.  A
\* sequence already in the table violates the primary key: nothing is
\* written and the exception ends the request.
Emit(h, s, e, next) ==
    \/ /\ s.count + 1 \notin Sequences
       /\ log' = Append(log, [seq |-> s.count + 1, type |-> e.type,
                              ref |-> e.ref, ok |-> e.ok])
       /\ row' = [s EXCEPT !.count = s.count + 1]
       /\ mem' = [mem EXCEPT ![h] = [s EXCEPT !.count = s.count + 1]]
       /\ pc' = [pc EXCEPT ![h] = next]
       /\ UNCHANGED <<purged, arg>>
    \/ /\ s.count + 1 \in Sequences
       /\ Leave(h)
       /\ UNCHANGED store

\* save_checkpoint, the last write of a request: an unconditional upsert of
\* the whole row from the thread's copy.
Save(h, s) ==
    /\ row' = [s EXCEPT !.saved = TRUE]
    /\ Leave(h)
    /\ UNCHANGED <<log, purged>>

-----------------------------------------------------------------------------
(*                               start_run                                 *)

Fresh(plan) == [status |-> "running", plan |-> plan,
                approvals |-> [a \in Ids |-> "none"], done |-> {},
                calls |-> 0, count |-> 0, saved |-> FALSE]

Create(h, plan) ==
    /\ pc[h] = "idle"
    /\ row = NoState
    /\ row' = Fresh(plan)
    /\ mem' = [mem EXCEPT ![h] = Fresh(plan)]
    /\ pc' = [pc EXCEPT ![h] = "plan"]
    /\ UNCHANGED <<log, purged, arg>>

PlanCreated(h) ==
    /\ pc[h] = "plan"
    /\ Emit(h, mem[h], Say("plan.created", NoId, TRUE), "step")

\* The loop over plan.steps; arg.id counts the steps already passed.
Position(h) == arg[h].id + 1
AtStep(h, mode) ==
    /\ pc[h] = "step"
    /\ Position(h) <= Len(mem[h].plan)
    /\ mem[h].plan[Position(h)] = mode

StepStarted(h) ==
    \E mode \in {"auto", "fail"} :
        /\ AtStep(h, mode)
        /\ Emit(h, mem[h], Say("step.started", Position(h), TRUE), "result")

\* Variant: the tool call is counted after its event was written.
StepResultLate(h) ==
    /\ pc[h] = "result"
    /\ Emit(h, [mem[h] EXCEPT !.done = @ \cup {Position(h)}],
            Say("tool.result", Position(h), TRUE), "next")

StepResult(h) ==
    /\ pc[h] = "result"
    /\ LET counted == [mem[h] EXCEPT !.calls = @ + 1]
       IN  \/ /\ mem[h].plan[Position(h)] = "auto"
              /\ Emit(h, [counted EXCEPT !.done = @ \cup {Position(h)}],
                      Say("tool.result", Position(h), TRUE), "next")
           \/ /\ mem[h].plan[Position(h)] = "fail"
              /\ Emit(h, counted, Say("tool.result", Position(h), FALSE), "fail")

StepFailed(h) ==
    /\ pc[h] = "fail"
    /\ Emit(h, [mem[h] EXCEPT !.status = "failed"],
            Say("run.failed", Position(h), FALSE), "save")

StepNeedsApproval(h) ==
    /\ AtStep(h, "approve")
    /\ Emit(h, [mem[h] EXCEPT !.approvals[Position(h)] = "pending"],
            Say("approval.requested", Position(h), FALSE), "next")

\* Variant: the loop runs past the end of the plan.
NextStepForever(h) ==
    /\ pc[h] \in {"next", "step"}
    /\ arg' = [arg EXCEPT ![h].id = @ + 1]
    /\ pc' = [pc EXCEPT ![h] = "step"]
    /\ UNCHANGED <<row, log, purged, mem>>

NextStep(h) ==
    /\ pc[h] = "next" \/ AtStep(h, "skip")
    /\ arg' = [arg EXCEPT ![h].id = @ + 1]
    /\ pc' = [pc EXCEPT ![h] = "step"]
    /\ UNCHANGED <<row, log, purged, mem>>

\* After the loop: a plan that asks for no approval is complete.
PlanDone(h) ==
    /\ pc[h] = "step"
    /\ Position(h) > Len(mem[h].plan)
    /\ IF \A a \in Ids : mem[h].approvals[a] = "none"
       THEN Emit(h, [mem[h] EXCEPT !.status = "completed"],
                 Say("run.completed", NoId, TRUE), "save")
       ELSE Save(h, mem[h])

-----------------------------------------------------------------------------
(*        pause_run, resume_run, cancel_run and request_approval           *)

\* A request reads the row.  RuntimeService.adapter_for only finds a run
\* whose checkpoint was written; every reader gets a copy of its own.
Read(h, op) ==
    /\ op \in Ops
    /\ Len(log) < MaxLog
    /\ pc[h] = "idle"
    /\ row # NoState
    /\ row.saved
    /\ pc' = [pc EXCEPT ![h] = op]
    /\ mem' = [mem EXCEPT ![h] = row]
    /\ UNCHANGED store

\* RunNotActionable refuses all three once the copy just read is terminal.
Intervene(h, op) ==
    /\ op \in {"pause", "resume", "cancel"}
    /\ Read(h, op)
    /\ row.status \notin Terminal
    /\ UNCHANGED arg

Pause(h) ==
    /\ pc[h] = "pause"
    /\ Emit(h, [mem[h] EXCEPT !.status = "paused"],
            Say("run.paused", NoId, TRUE), "save")

\* resume_run writes no event: its only write is the checkpoint.
Resume(h) ==
    /\ pc[h] = "resume"
    /\ Save(h, [mem[h] EXCEPT !.status = "running"])

Cancel(h) ==
    /\ pc[h] = "cancel"
    /\ Emit(h, [mem[h] EXCEPT !.status = "cancelled"],
            Say("run.failed", NoId, FALSE), "save")

\* "approval-" followed by the number of approvals plus one.
RequestId(s) ==
    MaxSteps + Cardinality({a \in Ids : s.approvals[a] # "none"}) + 1

\* request_approval looks at no status: a finished run accepts it too.
BeginRequest(h) ==
    /\ Read(h, "request")
    /\ RequestId(row) \in Ids
    /\ UNCHANGED arg

\* It returns right after the event, without a checkpoint.
RequestApproval(h) ==
    /\ pc[h] = "request"
    /\ \/ /\ mem[h].count + 1 \notin Sequences
          /\ log' = Append(log, [seq |-> mem[h].count + 1,
                                 type |-> "approval.requested",
                                 ref |-> RequestId(mem[h]), ok |-> FALSE])
          /\ row' = [mem[h] EXCEPT !.count = @ + 1,
                                   !.approvals[RequestId(mem[h])] = "pending"]
          /\ UNCHANGED purged
       \/ /\ mem[h].count + 1 \in Sequences
          /\ UNCHANGED store
    /\ Leave(h)

-----------------------------------------------------------------------------
(*                            decide_approval                              *)

\* Variant: an approval already decided may be decided again.
BeginRedecide(h, id, ok) ==
    /\ Read(h, "decide")
    /\ row.status \notin Terminal
    /\ row.approvals[id] # "none"
    /\ arg' = [arg EXCEPT ![h] = [id |-> id, ok |-> ok]]

\* RunNotDecidable, ApprovalNotFound and ApprovalAlreadyDecided are judged
\* on the copy just read.
BeginDecide(h, id, ok) ==
    /\ Read(h, "decide")
    /\ row.status \notin Terminal
    /\ row.approvals[id] = "pending"
    /\ arg' = [arg EXCEPT ![h] = [id |-> id, ok |-> ok]]

Decide(h) ==
    /\ pc[h] = "decide"
    /\ LET a == arg[h]
       IN  Emit(h, [mem[h] EXCEPT !.approvals[a.id] =
                        IF a.ok THEN "approved" ELSE "rejected"],
                Say("approval.decided", a.id, a.ok),
                IF a.ok THEN "tool" ELSE "reject")

\* Variant: a rejection leaves the run open.
RejectOnly(h) ==
    /\ pc[h] = "reject"
    /\ Save(h, mem[h])

Reject(h) ==
    /\ pc[h] = "reject"
    /\ Emit(h, [mem[h] EXCEPT !.status = "failed"],
            Say("run.failed", arg[h].id, FALSE), "save")

\* The approved step still has to run (a registered approval names no step).
ToolDue(h) ==
    /\ arg[h].id <= Len(mem[h].plan)
    /\ arg[h].id \notin mem[h].done

RunTool(h) ==
    /\ pc[h] = "tool"
    /\ ToolDue(h)
    /\ Emit(h, [mem[h] EXCEPT !.calls = @ + 1, !.done = @ \cup {arg[h].id}],
            Say("tool.result", arg[h].id, TRUE), "close")

Close(h) ==
    /\ \/ pc[h] = "close"
       \/ pc[h] = "tool" /\ ~ToolDue(h)
    /\ IF \A a \in Ids : mem[h].approvals[a] # "pending"
       THEN Emit(h, [mem[h] EXCEPT !.status = "completed"],
                 Say("run.completed", NoId, TRUE), "save")
       ELSE Save(h, mem[h])

SaveCheckpoint(h) ==
    /\ pc[h] = "save"
    /\ Save(h, mem[h])

-----------------------------------------------------------------------------
(*                     The environment and the whole                       *)

\* The process dies, or the connection is lost, between two transactions.
Crash(h) ==
    /\ MayCrash
    /\ pc[h] # "idle"
    /\ Leave(h)
    /\ UNCHANGED store

\* purge_events_before: deletes the events written before the cutoff.  The
\* cutoff is at least a day old (30 by default): no request spans it.
PurgeEvents ==
    /\ MayPurge
    /\ \A h \in Handlers : pc[h] = "idle"
    /\ \E n \in (purged + 1) .. Len(log) : purged' = n
    /\ UNCHANGED <<row, log, pc, mem, arg>>

StartRun(h) ==
    \/ \E plan \in Plans : Create(h, plan)
    \/ PlanCreated(h) \/ StepStarted(h) \/ StepResult(h) \/ StepFailed(h)
    \/ StepNeedsApproval(h) \/ NextStep(h) \/ PlanDone(h)

OperateRun(h) ==
    \/ \E op \in {"pause", "resume", "cancel"} : Intervene(h, op)
    \/ Pause(h) \/ Resume(h) \/ Cancel(h)
    \/ BeginRequest(h) \/ RequestApproval(h)
    \/ \E id \in Ids, ok \in BOOLEAN : BeginDecide(h, id, ok)
    \/ Decide(h) \/ Reject(h) \/ RunTool(h) \/ Close(h)
    \/ SaveCheckpoint(h)

Next ==
    \/ \E h \in Handlers : StartRun(h) \/ OperateRun(h) \/ Crash(h)
    \/ PurgeEvents

Spec == Init /\ [][Next]_vars

-----------------------------------------------------------------------------
(*                              Correctness                                *)

\* What the first n events of a log l say.
Happened(l, n, type, a) ==
    \E i \in 1 .. n : l[i].type = type /\ l[i].ref = a
Judged(l, n, a, ok) ==
    \E i \in 1 .. n : l[i].type = "approval.decided" /\ l[i].ref = a /\ l[i].ok = ok
Ended(l, n) == \E i \in 1 .. n : l[i].type \in {"run.failed", "run.completed"}
Results(l, n) == {i \in 1 .. n : l[i].type = "tool.result"}

\* s says about approvals, executed steps, tool calls and the end of the run
\* exactly what the first s.count events of l say.
Explained(l, s) ==
    /\ s.count <= Len(l)
    /\ \A a \in Ids :
        /\ s.approvals[a] # "none" <=> Happened(l, s.count, "approval.requested", a)
        /\ s.approvals[a] = "approved" <=> Judged(l, s.count, a, TRUE)
        /\ s.approvals[a] = "rejected" <=> Judged(l, s.count, a, FALSE)
        /\ a \in s.done => Happened(l, s.count, "tool.result", a)
        /\ Happened(l, s.count, "tool.result", a) =>
              a \in s.done \/ s.approvals[a] = "none"
    /\ s.calls = Cardinality(Results(l, s.count))
    /\ s.status \in Terminal <=> Ended(l, s.count)

\* The state row, and every copy a request thread works on, is the account
\* of a prefix of the event log: a stale copy is old, never a mixture of two
\* histories.  (_emit writes the event and the row it explains in one
\* transaction; save_checkpoint rewrites the row without one.)
StateExplainedByEvents ==
    /\ row # NoState => Explained(log, row)
    /\ \A h \in Handlers : mem[h] # NoState => Explained(log, mem[h])

\* The log of a run operated on by any number of threads is one the abstract
\* specification allows: approvals are decided once, tools run once and only
\* when started or approved, the run ends once and is silent afterwards.
EventLog == INSTANCE RunEvents
LogIsLinear == EventLog!Spec

\* runtime/contracts.py and docs/api-contract.md: a run that has ended is
\* never brought back by an intervention ("terminal is terminal").
TerminalIsFinal ==
    [][row # NoState /\ row.status \in Terminal => row'.status = row.status]_vars

\* docs/api-contract.md: a rejection fails the run at once and the steps left
\* are not executed; so a run with a rejected approval never completes.
RejectionStopsRun ==
    \A a \in Ids : Judged(log, Len(log), a, FALSE) =>
                       ~Happened(log, Len(log), "run.completed", NoId)

\* runtime/state_postgres.py: the sequence of a purged event is not used again.
SequenceNeverReused ==
    \A i, j \in 1 .. Len(log) : log[i].seq = log[j].seq => i = j

\* Between requests the row has seen every event.
RowIsCurrent ==
    (row # NoState /\ \A h \in Handlers : pc[h] = "idle") => row.count = Len(log)

=============================================================================
