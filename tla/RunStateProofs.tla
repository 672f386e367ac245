--------------------------- MODULE RunStateProofs ---------------------------
(***************************************************************************)
(* Theorems about RunState, for every set of threads, every set of plans   *)
(* and every bound.                                                        *)
(*                                                                         *)
(* While no event is purged, the event log of RunState implements          *)
(* RunEvents, whatever the threads interleave and wherever they crash.     *)
(*                                                                         *)
(* The inductive invariant says that the i-th event has sequence i, that   *)
(* the row and every copy explain a prefix of the log, and what a thread   *)
(* in the middle of a handler still knows about its own copy.  A thread    *)
(* that succeeds in writing sequence count + 1 has a copy that explains    *)
(* the whole log, so what it checked on the copy holds of the log.         *)
(***************************************************************************)
EXTENDS RunState, FiniteSetTheorems, TLAPS

-----------------------------------------------------------------------------
(*                           Type correctness                              *)

\* What the place of a thread says about the copy and argument it holds.
PlaceOK(h) ==
    /\ IF pc[h] = "idle" THEN mem[h] = NoState ELSE mem[h] \in State
    /\ pc[h] \in {"result", "fail", "next"} =>
          Position(h) \in 1 .. Len(mem[h].plan)
    /\ pc[h] = "request" => RequestId(mem[h]) \in Ids
    /\ pc[h] \in {"decide", "reject", "tool", "close"} => arg[h].id \in Ids

TypeInv == TypeOK /\ \A h \in Handlers : PlaceOK(h)

LEMMA PlanFacts ==
    ASSUME NEW s \in State
    PROVE  /\ Len(s.plan) \in 1 .. MaxSteps
           /\ 1 .. Len(s.plan) \subseteq Ids
           /\ \A i \in 1 .. Len(s.plan) : s.plan[i] \in Modes
<1>1. s.plan \in Seq(Modes) /\ Len(s.plan) \in 1 .. MaxSteps
  BY PlansAssumption DEF State
<1> QED
  BY <1>1, BoundsAssumption DEF Ids, MaxId

\* A thread that leaves, whatever was written to the row before, owes nothing.
LEMMA LeaveTyped ==
    ASSUME TypeInv, NEW h \in Handlers, Leave(h),
           row' \in State \cup {NoState}, log' \in Seq(Event),
           purged' \in 0 .. Len(log')
    PROVE  TypeInv'
<1>1. TypeOK'
  BY DEF Leave, TypeInv, TypeOK, NoArg, Pcs
<1>2. ASSUME NEW k \in Handlers PROVE PlaceOK(k)'
  <2>1. CASE k = h
    BY <2>1 DEF Leave, TypeInv, TypeOK, PlaceOK
  <2>2. CASE k # h
    BY <2>2 DEF Leave, TypeInv, TypeOK, PlaceOK, Position, RequestId
  <2> QED BY <2>1, <2>2
<1> QED BY <1>1, <1>2 DEF TypeInv

\* One transaction of _emit keeps the types, and moves the thread to a place
\* the rest of the handler is entitled to.
LEMMA EmitTyped ==
    ASSUME TypeInv, NEW h \in Handlers, NEW s \in State, NEW e, NEW next \in Pcs,
           e \in [type : EventTypes, ref : Ids \cup {NoId}, ok : BOOLEAN],
           Emit(h, s, e, next),
           next # "request", next # "idle",
           next \in {"result", "fail", "next"} => Position(h) \in 1 .. Len(s.plan),
           next \in {"decide", "reject", "tool", "close"} => arg[h].id \in Ids
    PROVE  TypeInv'
<1> DEFINE n == [s EXCEPT !.count = s.count + 1]
<1>0. n \in State /\ n.plan = s.plan
  BY DEF State
<1>1. CASE /\ log' = Append(log, [seq |-> s.count + 1, type |-> e.type,
                                  ref |-> e.ref, ok |-> e.ok])
           /\ row' = n
           /\ mem' = [mem EXCEPT ![h] = n]
           /\ pc' = [pc EXCEPT ![h] = next]
           /\ UNCHANGED <<purged, arg>>
  <2>1. [seq |-> s.count + 1, type |-> e.type, ref |-> e.ref, ok |-> e.ok] \in Event
    BY DEF State, Event
  <2>2. log' \in Seq(Event) /\ purged' \in 0 .. Len(log')
    BY <1>1, <2>1 DEF TypeInv, TypeOK
  <2>3. TypeOK'
    BY <1>0, <1>1, <2>2 DEF TypeInv, TypeOK
  <2>4. ASSUME NEW k \in Handlers PROVE PlaceOK(k)'
    <3>1. CASE k = h
      <4>1. pc'[k] = next /\ mem'[k] = n /\ arg'[k] = arg[k]
        BY <1>1, <3>1 DEF TypeInv, TypeOK
      <4> HIDE DEF n
      <4> QED BY <1>0, <3>1, <4>1 DEF PlaceOK, Position
    <3>2. CASE k # h
      BY <1>1, <3>2 DEF TypeInv, TypeOK, PlaceOK, Position, RequestId
    <3> QED BY <3>1, <3>2
  <2> QED BY <2>3, <2>4 DEF TypeInv
<1>2. CASE Leave(h) /\ UNCHANGED store
  BY <1>2, LeaveTyped DEF store, TypeInv, TypeOK
<1> QED BY <1>1, <1>2 DEF Emit

LEMMA SaveTyped ==
    ASSUME TypeInv, NEW h \in Handlers, NEW s \in State, Save(h, s)
    PROVE  TypeInv'
<1>1. [s EXCEPT !.saved = TRUE] \in State
  BY DEF State
<1> QED
  BY <1>1, LeaveTyped DEF Save, TypeInv, TypeOK

\* A request that has just read the row.
LEMMA ReadTyped ==
    ASSUME TypeInv, NEW h \in Handlers, NEW op \in Ops, Read(h, op),
           arg' \in [Handlers -> [id : Ids \cup {NoId}, ok : BOOLEAN]],
           \A k \in Handlers \ {h} : arg'[k] = arg[k],
           op = "request" => RequestId(row) \in Ids,
           op = "decide" => arg'[h].id \in Ids
    PROVE  TypeInv'
<1>1. op \in {"pause", "resume", "cancel", "request", "decide"}
  BY SwitchAssumption
<1>2. row \in State
  BY DEF Read, TypeInv, TypeOK
<1>3. TypeOK'
  BY <1>1, <1>2 DEF Read, TypeInv, TypeOK, store, Pcs
<1>4. ASSUME NEW k \in Handlers PROVE PlaceOK(k)'
  <2>1. CASE k = h
    BY <1>1, <1>2, <2>1 DEF Read, TypeInv, TypeOK, PlaceOK, Position, RequestId
  <2>2. CASE k # h
    BY <2>2 DEF Read, TypeInv, TypeOK, PlaceOK, Position, RequestId
  <2> QED BY <2>1, <2>2
<1> QED BY <1>3, <1>4 DEF TypeInv

LEMMA TypeInit == Init => TypeInv
BY BoundsAssumption DEF Init, TypeInv, TypeOK, PlaceOK, NoArg, Pcs

LEMMA TypeStart ==
    ASSUME TypeInv, NEW h \in Handlers, StartRun(h)
    PROVE  TypeInv'
<1> USE DEF Say, NoId, EventTypes, Pcs
<1>0. pc[h] # "idle" => /\ mem[h] \in State
                        /\ arg[h] \in [id : Ids \cup {NoId}, ok : BOOLEAN]
                        /\ arg[h].id \in Int
  BY BoundsAssumption DEF TypeInv, TypeOK, PlaceOK, Ids, MaxId
<1>1. ASSUME NEW plan \in Plans, Create(h, plan) PROVE TypeInv'
  <2>1. Fresh(plan) \in State
    BY DEF Fresh, State, Statuses, Verdicts
  <2>2. TypeOK'
    BY <1>1, <2>1 DEF Create, TypeInv, TypeOK
  <2>3. ASSUME NEW k \in Handlers PROVE PlaceOK(k)'
    <3>1. CASE k = h
      BY <1>1, <2>1, <3>1 DEF Create, TypeInv, TypeOK, PlaceOK
    <3>2. CASE k # h
      BY <1>1, <3>2 DEF Create, TypeInv, TypeOK, PlaceOK, Position, RequestId
    <3> QED BY <3>1, <3>2
  <2> QED BY <2>2, <2>3 DEF TypeInv
<1>2. CASE PlanCreated(h)
  BY <1>0, <1>2, EmitTyped DEF PlanCreated
<1>3. CASE StepStarted(h)
  <2>1. /\ mem[h] \in State
        /\ Position(h) \in 1 .. Len(mem[h].plan) /\ Position(h) \in Ids
    BY <1>0, <1>3, PlanFacts DEF StepStarted, AtStep, Position, Ids
  <2> QED
    BY <1>3, <2>1, EmitTyped DEF StepStarted
<1>4. CASE StepResult(h)
  <2> DEFINE counted == [mem[h] EXCEPT !.calls = @ + 1]
  <2>1. /\ mem[h] \in State
        /\ Position(h) \in 1 .. Len(mem[h].plan) /\ Position(h) \in Ids
        /\ Position(h) \in 1 .. MaxSteps
    BY <1>0, <1>4, PlanFacts, BoundsAssumption DEF StepResult, TypeInv, PlaceOK
  <2>2. counted \in State /\ counted.plan = mem[h].plan
    BY <2>1 DEF State
  <2>3. /\ [counted EXCEPT !.done = @ \cup {Position(h)}] \in State
        /\ [counted EXCEPT !.done = @ \cup {Position(h)}].plan = mem[h].plan
    BY <2>1, <2>2 DEF State
  <2>4. CASE Emit(h, counted, Say("tool.result", Position(h), FALSE), "fail")
    BY <2>1, <2>2, <2>4, EmitTyped
  <2>5. CASE Emit(h, [counted EXCEPT !.done = @ \cup {Position(h)}],
                  Say("tool.result", Position(h), TRUE), "next")
    <3> HIDE DEF counted
    <3> QED BY <2>1, <2>3, <2>5, EmitTyped
  <2> QED BY <1>4, <2>4, <2>5 DEF StepResult
<1>5. CASE StepFailed(h)
  <2>1. /\ mem[h] \in State /\ Position(h) \in Ids
    BY <1>0, <1>5, PlanFacts DEF StepFailed, TypeInv, PlaceOK
  <2>2. [mem[h] EXCEPT !.status = "failed"] \in State
    BY <2>1 DEF State, Statuses
  <2> QED BY <1>5, <2>1, <2>2, EmitTyped DEF StepFailed
<1>6. CASE StepNeedsApproval(h)
  <2> DEFINE s == [mem[h] EXCEPT !.approvals[Position(h)] = "pending"]
  <2>1. /\ mem[h] \in State
        /\ Position(h) \in 1 .. Len(mem[h].plan) /\ Position(h) \in Ids
    BY <1>0, <1>6, PlanFacts DEF StepNeedsApproval, AtStep, Position, Ids
  <2>2. s \in State /\ s.plan = mem[h].plan
    BY <2>1 DEF State, Verdicts
  <2>3. Emit(h, s, Say("approval.requested", Position(h), FALSE), "next")
    BY <1>6 DEF StepNeedsApproval
  <2> HIDE DEF s
  <2> QED BY <2>1, <2>2, <2>3, EmitTyped
<1>7. CASE NextStep(h)
  <2>1. /\ mem[h] \in State
        /\ Position(h) \in 1 .. Len(mem[h].plan) /\ Position(h) \in Ids
    BY <1>0, <1>7, PlanFacts DEF NextStep, AtStep, Position, Ids, TypeInv, PlaceOK
  <2>2. TypeOK'
    BY <1>0, <1>7, <2>1 DEF NextStep, Position, TypeInv, TypeOK
  <2>3. ASSUME NEW k \in Handlers PROVE PlaceOK(k)'
    <3>1. CASE k = h
      BY <1>7, <2>1, <3>1 DEF NextStep, TypeInv, TypeOK, PlaceOK
    <3>2. CASE k # h
      BY <1>7, <3>2 DEF NextStep, TypeInv, TypeOK, PlaceOK, Position, RequestId
    <3> QED BY <3>1, <3>2
  <2> QED BY <2>2, <2>3 DEF TypeInv
<1>8. CASE PlanDone(h)
  <2>1. mem[h] \in State /\ [mem[h] EXCEPT !.status = "completed"] \in State
    BY <1>0, <1>8 DEF PlanDone, State, Statuses
  <2>2. CASE Emit(h, [mem[h] EXCEPT !.status = "completed"],
                  Say("run.completed", NoId, TRUE), "save")
    BY <2>1, <2>2, EmitTyped
  <2>3. CASE Save(h, mem[h])
    BY <2>1, <2>3, SaveTyped
  <2> QED BY <1>8, <2>2, <2>3 DEF PlanDone
<1> QED
  BY <1>1, <1>2, <1>3, <1>4, <1>5, <1>6, <1>7, <1>8 DEF StartRun

LEMMA TypeOperate ==
    ASSUME TypeInv, NEW h \in Handlers, OperateRun(h)
    PROVE  TypeInv'
<1> USE DEF Say, NoId, EventTypes, Pcs
<1>0. pc[h] # "idle" => /\ mem[h] \in State
                        /\ arg[h] \in [id : Ids \cup {NoId}, ok : BOOLEAN]
  BY DEF TypeInv, TypeOK, PlaceOK
<1>1. ASSUME NEW op \in {"pause", "resume", "cancel"}, Intervene(h, op)
      PROVE  TypeInv'
  BY <1>1, ReadTyped DEF Intervene, Read, TypeInv, TypeOK
<1>2. CASE Pause(h)
  <2>1. [mem[h] EXCEPT !.status = "paused"] \in State
    BY <1>0, <1>2 DEF Pause, State, Statuses
  <2> QED BY <1>2, <2>1, EmitTyped DEF Pause
<1>3. CASE Resume(h)
  <2>1. [mem[h] EXCEPT !.status = "running"] \in State
    BY <1>0, <1>3 DEF Resume, State, Statuses
  <2> QED BY <1>3, <2>1, SaveTyped DEF Resume
<1>4. CASE Cancel(h)
  <2>1. [mem[h] EXCEPT !.status = "cancelled"] \in State
    BY <1>0, <1>4 DEF Cancel, State, Statuses
  <2> QED BY <1>4, <2>1, EmitTyped DEF Cancel
<1>5. CASE BeginRequest(h)
  BY <1>5, ReadTyped DEF BeginRequest, Read, TypeInv, TypeOK
<1>6. CASE RequestApproval(h)
  <2>1. mem[h] \in State /\ RequestId(mem[h]) \in Ids
    BY <1>6 DEF RequestApproval, TypeInv, PlaceOK
  <2>2. CASE UNCHANGED store
    BY <1>6, <2>2, LeaveTyped DEF RequestApproval, store, TypeInv, TypeOK
  <2>3. CASE /\ log' = Append(log, [seq |-> mem[h].count + 1,
                                    type |-> "approval.requested",
                                    ref |-> RequestId(mem[h]), ok |-> FALSE])
             /\ row' = [mem[h] EXCEPT !.count = @ + 1,
                                      !.approvals[RequestId(mem[h])] = "pending"]
             /\ UNCHANGED purged
    <3> DEFINE q == [mem[h] EXCEPT !.approvals[RequestId(mem[h])] = "pending"]
    <3>0. q \in State
      BY <2>1 DEF State, Verdicts
    <3>1. row' \in State
      <4>1. row' = [q EXCEPT !.count = mem[h].count + 1]
        BY <2>1, <2>3 DEF State
      <4>2. mem[h].count + 1 \in Nat
        BY <2>1 DEF State
      <4> HIDE DEF q
      <4> QED BY <3>0, <4>1, <4>2 DEF State
    <3>2. [seq |-> mem[h].count + 1, type |-> "approval.requested",
           ref |-> RequestId(mem[h]), ok |-> FALSE] \in Event
      BY <2>1 DEF State, Event
    <3>3. log' \in Seq(Event) /\ purged' \in 0 .. Len(log')
      BY <2>3, <3>2 DEF TypeInv, TypeOK
    <3> QED BY <1>6, <3>1, <3>3, LeaveTyped DEF RequestApproval
  <2> QED BY <1>6, <2>2, <2>3 DEF RequestApproval
<1>7. ASSUME NEW id \in Ids, NEW ok \in BOOLEAN, BeginDecide(h, id, ok)
      PROVE  TypeInv'
  BY <1>7, ReadTyped DEF BeginDecide, Read, TypeInv, TypeOK
<1>8. CASE Decide(h)
  <2> DEFINE s == [mem[h] EXCEPT !.approvals[arg[h].id] =
                       IF arg[h].ok THEN "approved" ELSE "rejected"]
  <2>1. mem[h] \in State /\ arg[h].id \in Ids /\ arg[h].ok \in BOOLEAN
    BY <1>0, <1>8 DEF Decide, TypeInv, PlaceOK
  <2>2. s \in State
    BY <2>1 DEF State, Verdicts
  <2>3. Emit(h, s, Say("approval.decided", arg[h].id, arg[h].ok),
             IF arg[h].ok THEN "tool" ELSE "reject")
    BY <1>8 DEF Decide
  <2> HIDE DEF s
  <2> QED BY <2>1, <2>2, <2>3, EmitTyped
<1>9. CASE Reject(h)
  <2>1. [mem[h] EXCEPT !.status = "failed"] \in State /\ arg[h].id \in Ids
    BY <1>0, <1>9 DEF Reject, State, Statuses, TypeInv, PlaceOK
  <2> QED BY <1>9, <2>1, EmitTyped DEF Reject
<1>10. CASE RunTool(h)
  <2> DEFINE s == [mem[h] EXCEPT !.calls = @ + 1, !.done = @ \cup {arg[h].id}]
  <2>1. /\ mem[h] \in State /\ arg[h].id \in Ids
        /\ arg[h].id \in 1 .. MaxSteps
    BY <1>0, <1>10, PlanFacts, BoundsAssumption
    DEF RunTool, ToolDue, TypeInv, PlaceOK, Ids
  <2>2. s \in State
    <3> DEFINE q == [mem[h] EXCEPT !.done = @ \cup {arg[h].id}]
    <3>1. q \in State
      BY <2>1 DEF State
    <3>2. s = [q EXCEPT !.calls = mem[h].calls + 1]
      BY <2>1 DEF State
    <3>3. mem[h].calls + 1 \in Nat
      BY <2>1 DEF State
    <3> HIDE DEF q, s
    <3> QED BY <3>1, <3>2, <3>3 DEF State
  <2>3. Emit(h, s, Say("tool.result", arg[h].id, TRUE), "close")
    BY <1>10 DEF RunTool
  <2> HIDE DEF s
  <2> QED BY <2>1, <2>2, <2>3, EmitTyped
<1>11. CASE Close(h)
  <2>1. mem[h] \in State /\ [mem[h] EXCEPT !.status = "completed"] \in State
    BY <1>0, <1>11 DEF Close, State, Statuses
  <2>2. CASE Emit(h, [mem[h] EXCEPT !.status = "completed"],
                  Say("run.completed", NoId, TRUE), "save")
    BY <2>1, <2>2, EmitTyped
  <2>3. CASE Save(h, mem[h])
    BY <2>1, <2>3, SaveTyped
  <2> QED BY <1>11, <2>2, <2>3 DEF Close
<1>12. CASE SaveCheckpoint(h)
  BY <1>0, <1>12, SaveTyped DEF SaveCheckpoint
<1> QED
  BY <1>1, <1>2, <1>3, <1>4, <1>5, <1>6, <1>7, <1>8, <1>9, <1>10, <1>11, <1>12
  DEF OperateRun

LEMMA TypeStep == TypeInv /\ [Next]_vars => TypeInv'
<1> SUFFICES ASSUME TypeInv, [Next]_vars PROVE TypeInv'
  OBVIOUS
<1>1. ASSUME NEW h \in Handlers, Crash(h) PROVE TypeInv'
  BY <1>1, LeaveTyped DEF Crash, store, TypeInv, TypeOK
<1>2. CASE PurgeEvents
  <2>1. TypeOK'
    BY <1>2 DEF PurgeEvents, TypeInv, TypeOK
  <2>2. ASSUME NEW k \in Handlers PROVE PlaceOK(k)'
    BY <1>2 DEF PurgeEvents, TypeInv, PlaceOK, Position, RequestId
  <2> QED BY <2>1, <2>2 DEF TypeInv
<1>3. CASE UNCHANGED vars
  BY <1>3 DEF vars, TypeInv, TypeOK, PlaceOK, Position, RequestId
<1> QED
  BY <1>1, <1>2, <1>3, TypeStart, TypeOperate DEF Next

\* Every variable keeps its type: whatever the threads interleave, a row is
\* a complete RuntimeState, an event names a known approval or step, and a
\* thread in the middle of a handler holds a copy of the row.
THEOREM TypeCorrect == Spec => []TypeOK
<1>1. TypeInv => TypeOK
  BY DEF TypeInv
<1> QED BY <1>1, TypeInit, TypeStep, PTL DEF Spec

-----------------------------------------------------------------------------
(*             The log and its readers: inductive invariant                *)

LogNumbered ==
    /\ purged = 0
    /\ \A i \in 1 .. Len(log) :
        /\ log[i].seq = i
        /\ log[i].type = "tool.result" => log[i].ref \in 1 .. MaxSteps

\* The ids request_approval has given out so far lie below the next one.
Numbered(s) ==
    \A a \in Ids : s.approvals[a] # "none" /\ a > MaxSteps => a < RequestId(s)

\* Plan positions from p on have asked for no approval and run no tool.
Untouched(l, s, p) ==
    \A a \in Ids : a >= p => /\ s.approvals[a] = "none"
                             /\ ~Happened(l, s.count, "tool.result", a)

\* What a thread at place p, with copy s and argument a, may rely on.
Entitled(l, p, s, a) ==
    /\ p \in Pcs \ {"idle", "request", "save"} => s.status \notin Terminal
    /\ p = "plan" => s.count = 0
    /\ p \in {"plan", "step", "result"} => Untouched(l, s, a.id + 1)
    /\ p \in {"next", "fail"} => Untouched(l, s, a.id + 2)
    /\ p = "result" => Happened(l, s.count, "step.started", a.id + 1)
    /\ p = "decide" => s.approvals[a.id] = "pending"
    /\ p = "tool" => s.approvals[a.id] = "approved"

Accounted(l, s) == Explained(l, s) /\ Numbered(s)

LogInv ==
    /\ LogNumbered
    /\ row # NoState => Accounted(log, row)
    /\ \A h \in Handlers : pc[h] # "idle" =>
          /\ Accounted(log, mem[h])
          /\ Entitled(log, pc[h], mem[h], arg[h])

-----------------------------------------------------------------------------
(*                       Lemmas about growing logs                         *)

LEMMA OldPrefix ==
    ASSUME NEW l \in Seq(Event), NEW e \in Event, NEW n \in Nat, n <= Len(l)
    PROVE  /\ \A type, a : Happened(Append(l, e), n, type, a) <=> Happened(l, n, type, a)
           /\ \A a, ok : Judged(Append(l, e), n, a, ok) <=> Judged(l, n, a, ok)
           /\ Ended(Append(l, e), n) <=> Ended(l, n)
           /\ Results(Append(l, e), n) = Results(l, n)
<1>1. \A i \in 1 .. n : Append(l, e)[i] = l[i]
  OBVIOUS
<1> QED
  BY <1>1 DEF Happened, Judged, Ended, Results

LEMMA NewPrefix ==
    ASSUME NEW l \in Seq(Event), NEW e \in Event, NEW n, n = Len(l)
    PROVE  /\ \A type, a : Happened(Append(l, e), n + 1, type, a) <=>
                 Happened(l, n, type, a) \/ (e.type = type /\ e.ref = a)
           /\ \A a, ok : Judged(Append(l, e), n + 1, a, ok) <=>
                 \/ Judged(l, n, a, ok)
                 \/ e.type = "approval.decided" /\ e.ref = a /\ e.ok = ok
           /\ Ended(Append(l, e), n + 1) <=>
                 Ended(l, n) \/ e.type \in {"run.failed", "run.completed"}
           /\ Results(Append(l, e), n + 1) =
                 IF e.type = "tool.result" THEN Results(l, n) \cup {n + 1}
                                           ELSE Results(l, n)
<1> DEFINE m == Append(l, e)
<1>1. n \in Nat /\ m[n + 1] = e /\ \A i \in 1 .. n : m[i] = l[i]
  OBVIOUS
<1>2. 1 .. (n + 1) = (1 .. n) \cup {n + 1}
  BY <1>1
<1> HIDE DEF m
<1>3. \A type, a : Happened(m, n + 1, type, a) <=>
          Happened(l, n, type, a) \/ (e.type = type /\ e.ref = a)
  BY <1>1, <1>2 DEF Happened
<1>4. \A a, ok : Judged(m, n + 1, a, ok) <=>
          \/ Judged(l, n, a, ok)
          \/ e.type = "approval.decided" /\ e.ref = a /\ e.ok = ok
  BY <1>1, <1>2 DEF Judged
<1>5. Ended(m, n + 1) <=> Ended(l, n) \/ e.type \in {"run.failed", "run.completed"}
  BY <1>1, <1>2 DEF Ended
<1>6. Results(m, n + 1) = IF e.type = "tool.result" THEN Results(l, n) \cup {n + 1}
                                                   ELSE Results(l, n)
  BY <1>1, <1>2 DEF Results
<1> QED BY <1>3, <1>4, <1>5, <1>6 DEF m

LEMMA ResultsCounted ==
    ASSUME NEW l, NEW n \in Nat
    PROVE  /\ IsFiniteSet(Results(l, n))
           /\ Cardinality(Results(l, n)) \in Nat
           /\ n + 1 \notin Results(l, n)
           /\ Cardinality(Results(l, n) \cup {n + 1}) = Cardinality(Results(l, n)) + 1
<1>1. IsFiniteSet(1 .. n)
  BY FS_Interval
<1>2. Results(l, n) \in SUBSET (1 .. n)
  BY DEF Results
<1>3. IsFiniteSet(Results(l, n))
  BY <1>1, <1>2, FS_Subset
<1>4. n + 1 \notin Results(l, n)
  BY <1>2
<1> QED BY <1>3, <1>4, FS_AddElement, FS_CardinalityType

\* A state explained by a log is explained by every longer one.
LEMMA OldAccount ==
    ASSUME NEW l \in Seq(Event), NEW e \in Event, NEW s \in State, Explained(l, s)
    PROVE  Explained(Append(l, e), s)
<1>1. s.count \in Nat /\ s.count <= Len(l)
  BY DEF State, Explained
<1>2. s.count <= Len(Append(l, e))
  BY <1>1
<1> QED
  BY <1>1, <1>2, OldPrefix DEF Explained

LEMMA OldEntitlement ==
    ASSUME NEW l \in Seq(Event), NEW e \in Event, NEW s \in State, Explained(l, s),
           NEW p, NEW a, Entitled(l, p, s, a)
    PROVE  Entitled(Append(l, e), p, s, a)
<1>1. s.count \in Nat /\ s.count <= Len(l)
  BY DEF State, Explained
<1> QED
  BY <1>1, OldPrefix DEF Entitled, Untouched

\* new is old brought up to date with the event e.
Follows(l, old, new, e) ==
    /\ \A a \in Ids :
        /\ new.approvals[a] # "none" <=>
              \/ old.approvals[a] # "none"
              \/ e.type = "approval.requested" /\ e.ref = a
        /\ new.approvals[a] = "approved" <=>
              \/ old.approvals[a] = "approved"
              \/ e.type = "approval.decided" /\ e.ref = a /\ e.ok
        /\ new.approvals[a] = "rejected" <=>
              \/ old.approvals[a] = "rejected"
              \/ e.type = "approval.decided" /\ e.ref = a /\ ~e.ok
        /\ a \in new.done =>
              a \in old.done \/ (e.type = "tool.result" /\ e.ref = a)
        /\ a \in old.done => a \in new.done
        /\ e.type = "tool.result" /\ e.ref = a =>
              a \in new.done \/ new.approvals[a] = "none"
        /\ old.approvals[a] = "none" /\ new.approvals[a] # "none" =>
              ~Happened(l, Len(l), "tool.result", a)
    /\ new.calls = IF e.type = "tool.result" THEN old.calls + 1 ELSE old.calls
    /\ new.status \in Terminal <=>
          old.status \in Terminal \/ e.type \in {"run.failed", "run.completed"}

LEMMA NewAccount ==
    ASSUME NEW l \in Seq(Event), NEW e \in Event,
           NEW old \in State, NEW new \in State,
           Explained(l, old), old.count = Len(l), Follows(l, old, new, e),
           new.count = old.count + 1
    PROVE  Explained(Append(l, e), new)
<1> DEFINE m == Append(l, e)
           n == Len(l)
<1>1. n \in Nat /\ new.count = n + 1 /\ Len(m) = n + 1 /\ e.ok \in BOOLEAN
  BY DEF Event
<1>2. /\ \A type, a : Happened(m, n + 1, type, a) <=>
            Happened(l, n, type, a) \/ (e.type = type /\ e.ref = a)
      /\ \A a, ok : Judged(m, n + 1, a, ok) <=>
            \/ Judged(l, n, a, ok)
            \/ e.type = "approval.decided" /\ e.ref = a /\ e.ok = ok
      /\ Ended(m, n + 1) <=>
            Ended(l, n) \/ e.type \in {"run.failed", "run.completed"}
      /\ Results(m, n + 1) = IF e.type = "tool.result" THEN Results(l, n) \cup {n + 1}
                                                      ELSE Results(l, n)
  BY NewPrefix
<1>3. /\ old.calls = Cardinality(Results(l, n))
      /\ old.status \in Terminal <=> Ended(l, n)
  BY DEF Explained
<1> HIDE DEF m
<1>4. ASSUME NEW a \in Ids
      PROVE  /\ new.approvals[a] # "none" <=> Happened(m, n + 1, "approval.requested", a)
             /\ new.approvals[a] = "approved" <=> Judged(m, n + 1, a, TRUE)
             /\ new.approvals[a] = "rejected" <=> Judged(m, n + 1, a, FALSE)
             /\ a \in new.done => Happened(m, n + 1, "tool.result", a)
             /\ Happened(m, n + 1, "tool.result", a) =>
                   a \in new.done \/ new.approvals[a] = "none"
  <2>1. /\ old.approvals[a] # "none" <=> Happened(l, n, "approval.requested", a)
        /\ old.approvals[a] = "approved" <=> Judged(l, n, a, TRUE)
        /\ old.approvals[a] = "rejected" <=> Judged(l, n, a, FALSE)
        /\ a \in old.done => Happened(l, n, "tool.result", a)
        /\ Happened(l, n, "tool.result", a) =>
              a \in old.done \/ old.approvals[a] = "none"
    BY DEF Explained
  <2>2. new.approvals[a] # "none" <=> Happened(m, n + 1, "approval.requested", a)
    BY <1>2, <2>1 DEF Follows
  <2>3. new.approvals[a] = "approved" <=> Judged(m, n + 1, a, TRUE)
    BY <1>1, <1>2, <2>1 DEF Follows
  <2>4. new.approvals[a] = "rejected" <=> Judged(m, n + 1, a, FALSE)
    BY <1>1, <1>2, <2>1 DEF Follows
  <2>5. a \in new.done => Happened(m, n + 1, "tool.result", a)
    BY <1>2, <2>1 DEF Follows
  <2>6. Happened(m, n + 1, "tool.result", a) =>
            a \in new.done \/ new.approvals[a] = "none"
    BY <1>2, <2>1 DEF Follows
  <2> QED BY <2>2, <2>3, <2>4, <2>5, <2>6
<1>5. new.calls = Cardinality(Results(m, n + 1))
  BY <1>1, <1>2, <1>3, ResultsCounted DEF Follows
<1>6. new.status \in Terminal <=> Ended(m, n + 1)
  BY <1>2, <1>3 DEF Follows
<1> HIDE DEF n
<1>7. Explained(m, new)
  <2>1. new.count <= Len(m)
    BY <1>1
  <2> QED
    BY <2>1, <1>1, <1>4, <1>5, <1>6, Zenon DEF Explained
<1> QED
  BY <1>7 DEF m

-----------------------------------------------------------------------------
(*                           One step of a thread                          *)

\* The abstract log takes this step, or none.
LogStep == [EventLog!Next]_log

\* A thread that leaves, having written nothing but an account of the log.
LEMMA LeaveLog ==
    ASSUME TypeInv, LogInv, NEW h \in Handlers, Leave(h),
           UNCHANGED <<log, purged>>,
           row' # NoState => Accounted(log, row')
    PROVE  LogInv' /\ LogStep
<1>1. LogNumbered'
  BY DEF LogInv, LogNumbered
<1>2. row' # NoState => Accounted(log', row')
  BY DEF Accounted
<1>3. ASSUME NEW k \in Handlers, pc'[k] # "idle"
      PROVE  Accounted(log', mem'[k]) /\ Entitled(log', pc'[k], mem'[k], arg'[k])
  <2>1. k # h /\ pc'[k] = pc[k] /\ mem'[k] = mem[k] /\ arg'[k] = arg[k]
    BY <1>3 DEF Leave, TypeInv, TypeOK
  <2> QED
    BY <1>3, <2>1 DEF LogInv
<1>4. LogInv'
  BY <1>1, <1>2, <1>3 DEF LogInv, Accounted, Entitled
<1> QED BY <1>4 DEF LogStep

LEMMA SaveLog ==
    ASSUME TypeInv, LogInv, NEW h \in Handlers, NEW s \in State, Save(h, s),
           Accounted(log, s)
    PROVE  LogInv' /\ LogStep
<1> DEFINE t == [s EXCEPT !.saved = TRUE]
<1>1. /\ t.count = s.count /\ t.approvals = s.approvals /\ t.done = s.done
      /\ t.calls = s.calls /\ t.status = s.status
  BY DEF State
<1> HIDE DEF t
<1>2. Accounted(log, t)
  BY <1>1 DEF Accounted, Explained, Numbered, RequestId
<1>3. row' = t
  BY DEF Save, t
<1> QED BY <1>2, <1>3, LeaveLog DEF Save

\* One event written from a copy that explains the whole log.
LEMMA AppendLog ==
    ASSUME TypeInv, LogInv, NEW h \in Handlers, pc[h] # "idle",
           NEW n \in State, NEW e \in Event,
           log' = Append(log, e), row' = n, UNCHANGED purged,
           e.seq = Len(log) + 1,
           e.type = "tool.result" => e.ref \in 1 .. MaxSteps,
           Follows(log, mem[h], n, e), mem[h] \in State, mem[h].count = Len(log),
           n.count = Len(log) + 1,
           Numbered(n),
           EventLog!Admissible(e.type, e.ref),
           \A k \in Handlers \ {h} :
              pc'[k] = pc[k] /\ mem'[k] = mem[k] /\ arg'[k] = arg[k],
           pc'[h] # "idle" => mem'[h] = n /\ Entitled(log', pc'[h], n, arg'[h])
    PROVE  LogInv' /\ LogStep
<1>1. log \in Seq(Event) /\ Len(log') = Len(log) + 1
      /\ log'[Len(log) + 1] = e /\ \A i \in 1 .. Len(log) : log'[i] = log[i]
  BY DEF TypeInv, TypeOK
<1>2. LogNumbered'
  <2>1. purged' = 0
    BY DEF LogInv, LogNumbered
  <2>2. ASSUME NEW i \in 1 .. Len(log')
        PROVE  /\ log'[i].seq = i
               /\ log'[i].type = "tool.result" => log'[i].ref \in 1 .. MaxSteps
    <3>1. CASE i = Len(log) + 1
      BY <1>1, <3>1
    <3>2. CASE i # Len(log) + 1
      <4>1. i \in 1 .. Len(log) /\ log'[i] = log[i]
        BY <1>1, <2>2, <3>2
      <4> QED BY <4>1 DEF LogInv, LogNumbered
    <3> QED BY <3>1, <3>2
  <2> QED BY <2>1, <2>2 DEF LogNumbered
<1>3. Accounted(log', n)
  BY <1>1, NewAccount DEF LogInv, Accounted
<1>4. ASSUME NEW k \in Handlers, pc'[k] # "idle"
      PROVE  Accounted(log', mem'[k]) /\ Entitled(log', pc'[k], mem'[k], arg'[k])
  <2>1. CASE k = h
    BY <1>3, <1>4, <2>1
  <2>2. CASE k # h
    <3>1. pc'[k] = pc[k] /\ mem'[k] = mem[k] /\ arg'[k] = arg[k]
      BY <2>2
    <3>2. mem[k] \in State /\ Accounted(log, mem[k])
          /\ Entitled(log, pc[k], mem[k], arg[k])
      BY <1>4, <3>1 DEF TypeInv, PlaceOK, LogInv
    <3>3. Accounted(log', mem[k])
      BY <1>1, <3>2, OldAccount DEF Accounted
    <3>4. Entitled(log', pc[k], mem[k], arg[k])
      BY <1>1, <3>2, OldEntitlement DEF Accounted
    <3> QED BY <3>1, <3>3, <3>4
  <2> QED BY <2>1, <2>2
<1>5. LogInv'
  <2>1. row' # NoState => Accounted(log', row')
    BY <1>3
  <2> QED
    BY <1>2, <2>1, <1>4 DEF LogInv, Accounted, Entitled
<1>6. EventLog!Next
  <2>1. e = [seq |-> Len(log) + 1, type |-> e.type, ref |-> e.ref, ok |-> e.ok]
        /\ e.type \in EventTypes /\ e.ref \in Ids \cup {NoId} /\ e.ok \in BOOLEAN
    BY DEF Event
  <2>2. EventLog!Happen(e.type, e.ref, e.ok)
    BY <2>1 DEF EventLog!Happen
  <2> QED BY <2>1, <2>2 DEF EventLog!Next, EventTypes
<1> QED BY <1>5, <1>6 DEF LogStep

\* A free sequence is the next one.
LEMMA FreeSequence ==
    ASSUME TypeInv, LogInv, NEW s \in State, s.count <= Len(log),
           s.count + 1 \notin Sequences
    PROVE  s.count = Len(log)
<1>1. s.count \in Nat /\ Len(log) \in Nat
  BY DEF State, TypeInv, TypeOK
<1>2. ASSUME s.count + 1 <= Len(log) PROVE FALSE
  <2>1. s.count + 1 \in (purged + 1) .. Len(log) /\ log[s.count + 1].seq = s.count + 1
    BY <1>1, <1>2 DEF LogInv, LogNumbered
  <2> QED BY <2>1 DEF Sequences
<1> QED BY <1>1, <1>2

\* _emit, the event written or the sequence refused.
LEMMA EmitLog ==
    ASSUME TypeInv, LogInv, NEW h \in Handlers, pc[h] # "idle",
           NEW s \in State, s.count = mem[h].count, Numbered(s),
           NEW e \in [type : EventTypes, ref : Ids \cup {NoId}, ok : BOOLEAN],
           NEW next \in Pcs \ {"idle"}, Emit(h, s, e, next),
           e.type = "tool.result" => e.ref \in 1 .. MaxSteps,
           mem[h].count = Len(log) =>
              /\ Follows(log, mem[h], s, e)
              /\ EventLog!Admissible(e.type, e.ref)
              /\ \A n \in State :
                    /\ n.count = s.count + 1 /\ n.approvals = s.approvals
                    /\ n.status = s.status
                    => Entitled(log', next, n, arg[h])
    PROVE  LogInv' /\ LogStep
<1> DEFINE n == [s EXCEPT !.count = s.count + 1]
           v == [seq |-> s.count + 1, type |-> e.type, ref |-> e.ref, ok |-> e.ok]
<1>1. CASE Leave(h) /\ UNCHANGED store
  BY <1>1, LeaveLog DEF store, LogInv
<1>2. CASE /\ s.count + 1 \notin Sequences
           /\ log' = Append(log, v)
           /\ row' = n
           /\ mem' = [mem EXCEPT ![h] = n]
           /\ pc' = [pc EXCEPT ![h] = next]
           /\ UNCHANGED <<purged, arg>>
  <2>1. mem[h] \in State /\ Accounted(log, mem[h])
    BY DEF TypeInv, PlaceOK, LogInv
  <2>2. s.count = Len(log)
    BY <1>2, <2>1, FreeSequence DEF Accounted, Explained
  <2>3. /\ n \in State /\ n.count = s.count + 1 /\ n.approvals = s.approvals
        /\ n.done = s.done /\ n.calls = s.calls /\ n.status = s.status
    BY DEF State
  <2>4. v \in Event /\ v.type = e.type /\ v.ref = e.ref /\ v.ok = e.ok
        /\ v.seq = Len(log) + 1
    BY <2>2 DEF Event, State
  <2>5. /\ pc'[h] = next /\ mem'[h] = n /\ arg'[h] = arg[h]
        /\ \A k \in Handlers \ {h} :
              pc'[k] = pc[k] /\ mem'[k] = mem[k] /\ arg'[k] = arg[k]
    BY <1>2 DEF TypeInv, TypeOK
  <2> HIDE DEF n, v
  <2>6. Follows(log, mem[h], n, v)
    BY <2>2, <2>3, <2>4 DEF Follows
  <2>7. Numbered(n)
    BY <2>3 DEF Numbered, RequestId
  <2>8. Entitled(log', next, n, arg[h])
    BY <2>2, <2>3
  <2>9. EventLog!Admissible(v.type, v.ref)
    BY <2>2, <2>4
  <2> QED
    BY <1>2, <2>1, <2>2, <2>3, <2>4, <2>5, <2>6, <2>7, <2>8, <2>9, AppendLog
<1> QED BY <1>1, <1>2 DEF Emit

\* What a copy that explains the whole log says about the abstract log.
LEMMA Readings ==
    ASSUME TypeInv, NEW s \in State, Explained(log, s), s.count = Len(log)
    PROVE  /\ EventLog!Ended <=> s.status \in Terminal
           /\ \A a \in Ids :
               /\ EventLog!Happened("approval.requested", a) <=> s.approvals[a] # "none"
               /\ EventLog!Happened("approval.decided", a) <=>
                     s.approvals[a] \in {"approved", "rejected"}
               /\ EventLog!Granted(a) <=> s.approvals[a] = "approved"
               /\ s.approvals[a] \in Verdicts
           /\ \A type, a : EventLog!Happened(type, a) <=> Happened(log, Len(log), type, a)
<1>1. EventLog!Ended <=> s.status \in Terminal
  BY DEF Explained, Ended, EventLog!Ended, EventLog!Ending
<1>2. \A type, a : EventLog!Happened(type, a) <=> Happened(log, Len(log), type, a)
  BY DEF Happened, EventLog!Happened
<1>3. ASSUME NEW a \in Ids
      PROVE  /\ EventLog!Happened("approval.requested", a) <=> s.approvals[a] # "none"
             /\ EventLog!Happened("approval.decided", a) <=>
                   s.approvals[a] \in {"approved", "rejected"}
             /\ EventLog!Granted(a) <=> s.approvals[a] = "approved"
             /\ s.approvals[a] \in Verdicts
  <2>1. EventLog!Happened("approval.requested", a) <=> s.approvals[a] # "none"
    BY <1>2 DEF Explained
  <2>2. \A i \in 1 .. Len(log) : log[i].ok \in BOOLEAN
    <3>1. \A i \in 1 .. Len(log) : log[i] \in Event
      BY DEF TypeInv, TypeOK
    <3> QED BY <3>1 DEF Event
  <2>3. /\ s.approvals[a] = "approved" <=> Judged(log, Len(log), a, TRUE)
        /\ s.approvals[a] = "rejected" <=> Judged(log, Len(log), a, FALSE)
    BY DEF Explained
  <2>4. EventLog!Happened("approval.decided", a) <=>
            s.approvals[a] \in {"approved", "rejected"}
    BY <2>2, <2>3 DEF Judged, EventLog!Happened
  <2>5. EventLog!Granted(a) <=> s.approvals[a] = "approved"
    BY <2>2, <2>3 DEF Judged, EventLog!Granted
  <2>6. s.approvals[a] \in Verdicts
    BY DEF State
  <2> QED BY <2>1, <2>4, <2>5, <2>6
<1> QED BY <1>1, <1>2, <1>3

\* Giving a verdict to i keeps the numbering, if i is known, a step, or new.
LEMMA NumberedGrows ==
    ASSUME NEW s \in State, NEW t \in State, NEW i \in Ids, NEW v,
           t.approvals = [s.approvals EXCEPT ![i] = v], v # "none", Numbered(s),
           s.approvals[i] # "none" \/ i <= MaxSteps \/ i = RequestId(s)
    PROVE  Numbered(t)
<1> DEFINE A == {a \in Ids : s.approvals[a] # "none"}
           B == {a \in Ids : t.approvals[a] # "none"}
<1>1. B = A \cup {i}
  BY DEF State
<1>2. IsFiniteSet(A)
  <2>1. IsFiniteSet(Ids)
    BY FS_Interval, BoundsAssumption DEF Ids, MaxId
  <2> QED BY <2>1, FS_Subset
<1>3. /\ Cardinality(A) \in Nat /\ Cardinality(B) \in Nat
      /\ Cardinality(B) = IF i \in A THEN Cardinality(A) ELSE Cardinality(A) + 1
  BY <1>1, <1>2, FS_AddElement, FS_CardinalityType
<1>4. /\ RequestId(s) = MaxSteps + Cardinality(A) + 1
      /\ RequestId(t) = MaxSteps + Cardinality(B) + 1
  BY DEF RequestId
<1>5. \A a \in A : a > MaxSteps => a < RequestId(s)
  BY DEF Numbered
<1> HIDE DEF A, B
<1>6. \A a \in Ids : a \in B /\ a > MaxSteps => a < RequestId(t)
  <2> SUFFICES ASSUME NEW a \in Ids, a \in B, a > MaxSteps
               PROVE  a < RequestId(t)
    OBVIOUS
  <2>1. a \in Int /\ MaxSteps \in Nat
    BY BoundsAssumption DEF Ids, MaxId
  <2>2. CASE a \in A
    BY <1>3, <1>4, <1>5, <2>1, <2>2
  <2>3. CASE a \notin A
    <3>1. a = i /\ i \notin A
      BY <1>1, <2>3
    <3>2. i = RequestId(s)
      BY <3>1, <2>1 DEF A
    <3> QED BY <1>3, <1>4, <2>1, <3>1, <3>2
  <2> QED BY <2>2, <2>3
<1> QED BY <1>6 DEF Numbered, B

\* A new event leaves the positions untouched that it does not name.
LEMMA UntouchedGrows ==
    ASSUME NEW l \in Seq(Event), NEW e \in Event, NEW s \in State, NEW t \in State,
           s.count = Len(l), t.count = Len(l) + 1, NEW p \in Int, NEW q \in Int,
           Untouched(l, s, p), q >= p,
           \A a \in Ids : a >= q => /\ t.approvals[a] = s.approvals[a]
                                    /\ e.type = "tool.result" => e.ref # a
    PROVE  Untouched(Append(l, e), t, q)
<1> SUFFICES ASSUME NEW a \in Ids, a >= q
             PROVE  /\ t.approvals[a] = "none"
                    /\ ~Happened(Append(l, e), t.count, "tool.result", a)
  BY DEF Untouched
<1>1. a \in Int /\ a >= p
  BY BoundsAssumption DEF Ids, MaxId
<1>2. s.approvals[a] = "none" /\ ~Happened(l, Len(l), "tool.result", a)
  BY <1>1 DEF Untouched
<1>3. e.type = "tool.result" => e.ref # a
  OBVIOUS
<1>4. ~Happened(Append(l, e), Len(l) + 1, "tool.result", a)
  BY <1>2, <1>3, NewPrefix
<1> QED BY <1>2, <1>4

\* _emit from a copy that explains the whole log does write.
LEMMA EmitAppends ==
    ASSUME TypeInv, LogInv, NEW h \in Handlers, NEW s, s.count = Len(log),
           NEW e, NEW next, Emit(h, s, e, next)
    PROVE  log' = Append(log, [seq |-> Len(log) + 1, type |-> e.type,
                               ref |-> e.ref, ok |-> e.ok])
<1>1. Len(log) \in Nat
  BY DEF TypeInv, TypeOK
<1>2. \A i \in 1 .. Len(log) : log[i].seq = i
  BY DEF LogInv, LogNumbered
<1>3. Sequences \subseteq 1 .. Len(log)
  BY <1>1, <1>2 DEF Sequences, LogInv, LogNumbered
<1>4. s.count + 1 \notin Sequences
  BY <1>1, <1>3
<1> QED BY <1>4 DEF Emit

LEMMA EmitUntouched ==
    ASSUME TypeInv, LogInv, NEW h \in Handlers, mem[h] \in State,
           mem[h].count = Len(log), NEW s \in State, s.count = Len(log),
           NEW e \in [type : EventTypes, ref : Ids \cup {NoId}, ok : BOOLEAN],
           NEW next, Emit(h, s, e, next),
           NEW n \in State, n.count = s.count + 1, n.approvals = s.approvals,
           NEW p \in Int, NEW q \in Int, Untouched(log, mem[h], p), q >= p,
           \A a \in Ids : a >= q => /\ s.approvals[a] = mem[h].approvals[a]
                                    /\ e.type = "tool.result" => e.ref # a
    PROVE  Untouched(log', n, q)
<1> DEFINE v == [seq |-> Len(log) + 1, type |-> e.type, ref |-> e.ref, ok |-> e.ok]
<1>1. log' = Append(log, v)
  BY EmitAppends
<1>2. v \in Event /\ v.type = e.type /\ v.ref = e.ref /\ log \in Seq(Event)
  BY DEF Event, TypeInv, TypeOK
<1> HIDE DEF v
<1> QED BY <1>1, <1>2, UntouchedGrows

\* A thread that moves on without writing an event.
LEMMA MoveLog ==
    ASSUME TypeInv, LogInv, NEW h \in Handlers, UNCHANGED <<log, purged>>,
           row' # NoState => Accounted(log, row'),
           \A k \in Handlers \ {h} :
              pc'[k] = pc[k] /\ mem'[k] = mem[k] /\ arg'[k] = arg[k],
           Accounted(log, mem'[h]), Entitled(log, pc'[h], mem'[h], arg'[h])
    PROVE  LogInv' /\ LogStep
<1>1. LogNumbered'
  BY DEF LogInv, LogNumbered
<1>2. ASSUME NEW k \in Handlers, pc'[k] # "idle"
      PROVE  Accounted(log', mem'[k]) /\ Entitled(log', pc'[k], mem'[k], arg'[k])
  <2>1. CASE k = h
    BY <2>1
  <2>2. CASE k # h
    <3>1. pc'[k] = pc[k] /\ mem'[k] = mem[k] /\ arg'[k] = arg[k]
      BY <2>2
    <3> QED BY <1>2, <3>1 DEF LogInv
  <2> QED BY <2>1, <2>2
<1>3. row' # NoState => Accounted(log', row')
  OBVIOUS
<1>4. LogInv'
  BY <1>1, <1>2, <1>3 DEF LogInv, Accounted, Entitled
<1> QED BY <1>4 DEF LogStep

\* What a thread in the middle of a handler knows.
LEMMA Holding ==
    ASSUME TypeInv, LogInv, NEW h \in Handlers, pc[h] # "idle"
    PROVE  /\ mem[h] \in State /\ Explained(log, mem[h]) /\ Numbered(mem[h])
           /\ Entitled(log, pc[h], mem[h], arg[h])
           /\ arg[h] \in [id : Ids \cup {NoId}, ok : BOOLEAN]
           /\ arg[h].id \in Int
           /\ pc[h] \in {"result", "fail", "next"} => Position(h) \in 1 .. Len(mem[h].plan)
           /\ MaxSteps \in Nat /\ Ids \subseteq Nat \ {0}
BY BoundsAssumption DEF TypeInv, TypeOK, PlaceOK, LogInv, Accounted, Ids, MaxId, NoId

-----------------------------------------------------------------------------
(*                               start_run                                 *)

LEMMA LogCreate ==
    ASSUME TypeInv, LogInv, NEW h \in Handlers, NEW plan \in Plans, Create(h, plan)
    PROVE  LogInv' /\ LogStep
<1> DEFINE s == Fresh(plan)
<1>1. /\ s.count = 0 /\ s.done = {} /\ s.calls = 0 /\ s.status = "running"
      /\ \A a \in Ids : s.approvals[a] = "none"
  BY DEF Fresh
<1>2. row' = s /\ mem'[h] = s /\ pc'[h] = "plan" /\ arg'[h] = arg[h]
      /\ \A k \in Handlers \ {h} :
            pc'[k] = pc[k] /\ mem'[k] = mem[k] /\ arg'[k] = arg[k]
  BY DEF Create, TypeInv, TypeOK
<1> HIDE DEF s
<1>3. Results(log, 0) = {}
  BY DEF Results
<1>4. Explained(log, s)
  <2>1. 0 <= Len(log)
    BY DEF TypeInv, TypeOK
  <2>2. \A type, a, ok : ~Happened(log, 0, type, a) /\ ~Judged(log, 0, a, ok)
    BY DEF Happened, Judged
  <2>3. ~Ended(log, 0)
    BY DEF Ended
  <2>4. s.calls = Cardinality(Results(log, 0))
    BY <1>1, <1>3, FS_EmptySet
  <2> QED
    BY <1>1, <2>1, <2>2, <2>3, <2>4 DEF Explained, Terminal
<1>5. Numbered(s)
  BY <1>1 DEF Numbered
<1>6. Entitled(log, "plan", s, arg[h])
  BY <1>1 DEF Entitled, Untouched, Happened, Terminal
<1> QED
  BY <1>2, <1>4, <1>5, <1>6, MoveLog DEF Create, Accounted

LEMMA LogPlanCreated ==
    ASSUME TypeInv, LogInv, NEW h \in Handlers, PlanCreated(h)
    PROVE  LogInv' /\ LogStep
<1> DEFINE s == mem[h]
           e == Say("plan.created", NoId, TRUE)
<1>1. pc[h] = "plan" /\ Emit(h, s, e, "step")
  BY DEF PlanCreated
<1>2. /\ s \in State /\ Explained(log, s) /\ Numbered(s)
      /\ Entitled(log, "plan", s, arg[h]) /\ arg[h].id \in Int
  BY <1>1, Holding
<1>3. e \in [type : EventTypes, ref : Ids \cup {NoId}, ok : BOOLEAN]
      /\ e.type = "plan.created"
  BY DEF Say, EventTypes
<1>4. s.status \notin Terminal /\ s.count = 0 /\ Untouched(log, s, arg[h].id + 1)
  BY <1>2 DEF Entitled, Pcs
<1> HIDE DEF s, e
<1>5. ASSUME s.count = Len(log)
      PROVE  /\ Follows(log, s, s, e)
             /\ EventLog!Admissible(e.type, e.ref)
             /\ \A n \in State :
                   /\ n.count = s.count + 1 /\ n.approvals = s.approvals
                   /\ n.status = s.status
                   => Entitled(log', "step", n, arg[h])
  <2>1. log = << >>
    BY <1>4, <1>5 DEF TypeInv, TypeOK
  <2>2. Follows(log, s, s, e)
    BY <1>3 DEF Follows
  <2>3. EventLog!Admissible(e.type, e.ref)
    BY <1>3, <2>1 DEF EventLog!Admissible
  <2>4. ASSUME NEW n \in State, n.count = s.count + 1, n.approvals = s.approvals,
               n.status = s.status
        PROVE  Entitled(log', "step", n, arg[h])
    <3>1. Untouched(log', n, arg[h].id + 1)
      BY <1>1, <1>2, <1>3, <1>4, <1>5, <2>4, EmitUntouched DEF s
    <3> QED BY <1>4, <2>4, <3>1 DEF Entitled
  <2> QED BY <2>2, <2>3, <2>4
<1> QED
  BY <1>1, <1>2, <1>3, <1>5, EmitLog DEF s, Pcs

LEMMA LogStepStarted ==
    ASSUME TypeInv, LogInv, NEW h \in Handlers, StepStarted(h)
    PROVE  LogInv' /\ LogStep
<1> DEFINE s == mem[h]
           i == arg[h].id + 1
           e == Say("step.started", i, TRUE)
<1>1. pc[h] = "step" /\ Emit(h, s, e, "result") /\ i <= Len(s.plan)
  BY DEF StepStarted, AtStep, Position
<1>2. /\ s \in State /\ Explained(log, s) /\ Numbered(s)
      /\ Entitled(log, "step", s, arg[h]) /\ arg[h].id \in Nat
  BY <1>1, Holding DEF NoId
<1>3. i \in Ids
  BY <1>1, <1>2, PlanFacts
<1>4. e \in [type : EventTypes, ref : Ids \cup {NoId}, ok : BOOLEAN]
      /\ e.type = "step.started" /\ e.ref = i
  BY <1>3 DEF Say, EventTypes
<1>5. s.status \notin Terminal /\ Untouched(log, s, i)
  BY <1>2 DEF Entitled, Pcs
<1> HIDE DEF s, e
<1>6. ASSUME s.count = Len(log)
      PROVE  /\ Follows(log, s, s, e)
             /\ EventLog!Admissible(e.type, e.ref)
             /\ \A n \in State :
                   /\ n.count = s.count + 1 /\ n.approvals = s.approvals
                   /\ n.status = s.status
                   => Entitled(log', "result", n, arg[h])
  <2>1. Follows(log, s, s, e)
    BY <1>4 DEF Follows
  <2>2. EventLog!Admissible(e.type, e.ref)
    BY <1>2, <1>4, <1>5, <1>6, Readings DEF EventLog!Admissible
  <2>3. ASSUME NEW n \in State, n.count = s.count + 1, n.approvals = s.approvals,
               n.status = s.status
        PROVE  Entitled(log', "result", n, arg[h])
    <3>1. Untouched(log', n, i)
      BY <1>1, <1>2, <1>4, <1>5, <1>6, <2>3, EmitUntouched DEF s
    <3>2. Happened(log', n.count, "step.started", i)
      <4> DEFINE v == [seq |-> Len(log) + 1, type |-> e.type, ref |-> e.ref,
                       ok |-> e.ok]
      <4>1. log' = Append(log, v)
        BY <1>1, <1>2, <1>6, EmitAppends
      <4>2. v \in Event /\ v.type = "step.started" /\ v.ref = i /\ log \in Seq(Event)
        BY <1>4 DEF Event, TypeInv, TypeOK
      <4>3. n.count = Len(log) + 1 /\ v.type = "step.started" /\ v.ref = i
        BY <1>6, <2>3, <4>2
      <4> HIDE DEF v
      <4>4. Happened(Append(log, v), Len(log) + 1, "step.started", i)
        BY <4>2, NewPrefix
      <4> QED BY <4>1, <4>3, <4>4
    <3> QED BY <1>5, <2>3, <3>1, <3>2 DEF Entitled
  <2> QED BY <2>1, <2>2, <2>3
<1> QED
  BY <1>1, <1>2, <1>4, <1>6, EmitLog DEF s, Pcs

\* The two outcomes of a tool call started by the plan.
LEMMA LogStepResult ==
    ASSUME TypeInv, LogInv, NEW h \in Handlers, StepResult(h)
    PROVE  LogInv' /\ LogStep
<1> DEFINE m == mem[h]
           i == arg[h].id + 1
<1>1. pc[h] = "result"
  BY DEF StepResult
<1>2. /\ m \in State /\ Explained(log, m) /\ Numbered(m)
      /\ Entitled(log, "result", m, arg[h]) /\ arg[h].id \in Nat
      /\ i \in 1 .. Len(m.plan)
  BY <1>1, Holding DEF NoId, Position
<1>3. i \in Ids /\ i \in 1 .. MaxSteps
  BY <1>2, PlanFacts, BoundsAssumption
<1>4. /\ m.status \notin Terminal /\ Untouched(log, m, i)
      /\ Happened(log, m.count, "step.started", i)
  BY <1>2 DEF Entitled, Pcs
<1>5. m.approvals[i] = "none" /\ ~Happened(log, m.count, "tool.result", i)
  BY <1>3, <1>4 DEF Untouched
<1> HIDE DEF m
<1>6. ASSUME NEW s \in State, NEW ok \in BOOLEAN, NEW next \in {"fail", "next"},
             s.count = m.count, s.approvals = m.approvals, s.status = m.status,
             s.calls = m.calls + 1, s.done \in {m.done, m.done \cup {i}},
             Emit(h, s, Say("tool.result", i, ok), next)
      PROVE  LogInv' /\ LogStep
  <2> DEFINE e == Say("tool.result", i, ok)
  <2>1. e \in [type : EventTypes, ref : Ids \cup {NoId}, ok : BOOLEAN]
        /\ e.type = "tool.result" /\ e.ref = i
    BY <1>3 DEF Say, EventTypes
  <2>2. Numbered(s)
    BY <1>2, <1>6 DEF Numbered, RequestId
  <2> HIDE DEF e
  <2>3. ASSUME m.count = Len(log)
        PROVE  /\ Follows(log, m, s, e)
               /\ EventLog!Admissible(e.type, e.ref)
               /\ \A n \in State :
                     /\ n.count = s.count + 1 /\ n.approvals = s.approvals
                     /\ n.status = s.status
                     => Entitled(log', next, n, arg[h])
    <3>1. Follows(log, m, s, e)
      BY <1>5, <1>6, <2>1 DEF Follows
    <3>2. EventLog!Admissible(e.type, e.ref)
      BY <1>2, <1>4, <1>5, <2>1, <2>3, Readings DEF EventLog!Admissible
    <3>3. ASSUME NEW n \in State, n.count = s.count + 1, n.approvals = s.approvals,
                 n.status = s.status
          PROVE  Entitled(log', next, n, arg[h])
      <4>1. Untouched(log', n, arg[h].id + 2)
        <5>1. arg[h].id + 2 \in Int /\ i \in Int /\ arg[h].id + 2 >= i
              /\ \A a \in Ids : a >= arg[h].id + 2 => a # i
          BY <1>2
        <5> QED
          BY <1>2, <1>4, <1>6, <2>1, <2>3, <3>3, <5>1, EmitUntouched DEF m, e
      <4> QED BY <1>4, <1>6, <3>3, <4>1 DEF Entitled
    <3> QED BY <3>1, <3>2, <3>3
  <2> QED
    BY <1>1, <1>3, <1>6, <2>1, <2>2, <2>3, EmitLog DEF m, e, Pcs
<1> DEFINE counted == [m EXCEPT !.calls = @ + 1]
           both == [counted EXCEPT !.done = @ \cup {i}]
<1>7. /\ counted \in State /\ counted.count = m.count
      /\ counted.approvals = m.approvals /\ counted.status = m.status
      /\ counted.calls = m.calls + 1 /\ counted.done = m.done
  BY <1>2 DEF State
<1>8. /\ both \in State /\ both.count = m.count
      /\ both.approvals = m.approvals /\ both.status = m.status
      /\ both.calls = m.calls + 1 /\ both.done = m.done \cup {i}
  BY <1>3, <1>7 DEF State
<1>9. \/ Emit(h, both, Say("tool.result", i, TRUE), "next")
      \/ Emit(h, counted, Say("tool.result", i, FALSE), "fail")
  BY DEF StepResult, Position, m
<1> HIDE DEF counted, both
<1> QED BY <1>6, <1>7, <1>8, <1>9

LEMMA LogStepNeedsApproval ==
    ASSUME TypeInv, LogInv, NEW h \in Handlers, StepNeedsApproval(h)
    PROVE  LogInv' /\ LogStep
<1> DEFINE m == mem[h]
           i == arg[h].id + 1
           s == [m EXCEPT !.approvals[i] = "pending"]
           e == Say("approval.requested", i, FALSE)
<1>1. pc[h] = "step" /\ Emit(h, s, e, "next") /\ i <= Len(m.plan)
  BY DEF StepNeedsApproval, AtStep, Position
<1>2. /\ m \in State /\ Explained(log, m) /\ Numbered(m)
      /\ Entitled(log, "step", m, arg[h]) /\ arg[h].id \in Nat /\ MaxSteps \in Nat
  BY <1>1, Holding DEF NoId
<1>3. i \in Ids /\ i <= MaxSteps
  BY <1>1, <1>2, PlanFacts
<1>4. e \in [type : EventTypes, ref : Ids \cup {NoId}, ok : BOOLEAN]
      /\ e.type = "approval.requested" /\ e.ref = i
  BY <1>3 DEF Say, EventTypes
<1>5. m.status \notin Terminal /\ Untouched(log, m, i)
  BY <1>2 DEF Entitled, Pcs
<1>6. m.approvals[i] = "none" /\ ~Happened(log, m.count, "tool.result", i)
  BY <1>2, <1>3, <1>5 DEF Untouched
<1>7. /\ s \in State /\ s.count = m.count /\ s.status = m.status
      /\ s.calls = m.calls /\ s.done = m.done
      /\ s.approvals = [m.approvals EXCEPT ![i] = "pending"]
  BY <1>2, <1>3 DEF State, Verdicts
<1>8. \A a \in Ids : s.approvals[a] = IF a = i THEN "pending" ELSE m.approvals[a]
  BY <1>2, <1>3, <1>7 DEF State
<1> HIDE DEF m, s, e, i
<1>9. Numbered(s)
  BY <1>2, <1>3, <1>7, NumberedGrows
<1>10. ASSUME m.count = Len(log)
       PROVE  /\ Follows(log, m, s, e)
              /\ EventLog!Admissible(e.type, e.ref)
              /\ \A n \in State :
                    /\ n.count = s.count + 1 /\ n.approvals = s.approvals
                    /\ n.status = s.status
                    => Entitled(log', "next", n, arg[h])
  <2>1. Follows(log, m, s, e)
    BY <1>3, <1>4, <1>6, <1>7, <1>8, <1>10 DEF Follows
  <2>2. EventLog!Admissible(e.type, e.ref)
    BY <1>2, <1>3, <1>4, <1>6, <1>10, Readings DEF EventLog!Admissible
  <2>3. ASSUME NEW n \in State, n.count = s.count + 1, n.approvals = s.approvals,
               n.status = s.status
        PROVE  Entitled(log', "next", n, arg[h])
    <3>1. Untouched(log', n, arg[h].id + 2)
      <4>1. arg[h].id + 2 \in Int /\ i \in Int /\ arg[h].id + 2 >= i
            /\ \A a \in Ids : a >= arg[h].id + 2 => a # i
        BY <1>2 DEF i
      <4>2. \A a \in Ids : a >= arg[h].id + 2 =>
               /\ s.approvals[a] = mem[h].approvals[a]
               /\ e.type = "tool.result" => e.ref # a
        BY <1>4, <1>8, <4>1 DEF m
      <4>3. /\ mem[h] \in State /\ mem[h].count = Len(log) /\ s.count = Len(log)
            /\ Untouched(log, mem[h], i) /\ s \in State
        BY <1>2, <1>5, <1>7, <1>10 DEF m
      <4>4. Emit(h, s, e, "next")
            /\ e \in [type : EventTypes, ref : Ids \cup {NoId}, ok : BOOLEAN]
        BY <1>1, <1>4
      <4> QED
        BY <2>3, <4>1, <4>2, <4>3, <4>4, EmitUntouched
    <3> QED BY <1>5, <1>7, <2>3, <3>1 DEF Entitled
  <2> QED BY <2>1, <2>2, <2>3
<1> QED
  BY <1>1, <1>2, <1>4, <1>7, <1>9, <1>10, EmitLog DEF m, Pcs

LEMMA LogNextStep ==
    ASSUME TypeInv, LogInv, NEW h \in Handlers, NextStep(h)
    PROVE  LogInv' /\ LogStep
<1>1. pc[h] \in {"next", "step"}
  BY DEF NextStep, AtStep
<1>2. /\ Explained(log, mem[h]) /\ Numbered(mem[h])
      /\ Entitled(log, pc[h], mem[h], arg[h]) /\ arg[h].id \in Int
      /\ Ids \subseteq Nat
  BY <1>1, Holding
<1>3. mem[h].status \notin Terminal
  BY <1>1, <1>2 DEF Entitled, Pcs
<1>4. Untouched(log, mem[h], arg[h].id + 2)
  BY <1>1, <1>2 DEF Entitled, Untouched
<1>5. /\ pc'[h] = "step" /\ mem'[h] = mem[h] /\ arg'[h].id = arg[h].id + 1
      /\ \A k \in Handlers \ {h} :
            pc'[k] = pc[k] /\ mem'[k] = mem[k] /\ arg'[k] = arg[k]
  BY DEF NextStep, TypeInv, TypeOK
<1>6. arg'[h].id + 1 = arg[h].id + 2
  BY <1>2, <1>5
<1>7. Entitled(log, pc'[h], mem'[h], arg'[h])
  BY <1>3, <1>4, <1>5, <1>6 DEF Entitled
<1>8. row' # NoState => Accounted(log, row')
  BY DEF NextStep, LogInv
<1> QED
  BY <1>2, <1>5, <1>7, <1>8, MoveLog DEF NextStep, Accounted

\* An event that ends the run, from a copy of a run that is not over.
LEMMA LogEnding ==
    ASSUME TypeInv, LogInv, NEW h \in Handlers, pc[h] \notin {"idle", "request", "save"},
           NEW status \in Terminal, NEW type \in {"run.failed", "run.completed"},
           NEW ref \in Ids \cup {NoId}, NEW ok \in BOOLEAN,
           Emit(h, [mem[h] EXCEPT !.status = status], Say(type, ref, ok), "save"),
           type = "run.completed" => \A a \in Ids : mem[h].approvals[a] # "pending"
    PROVE  LogInv' /\ LogStep
<1> DEFINE m == mem[h]
           s == [m EXCEPT !.status = status]
           e == Say(type, ref, ok)
<1>1. /\ m \in State /\ Explained(log, m) /\ Numbered(m)
      /\ Entitled(log, pc[h], m, arg[h]) /\ pc[h] \in Pcs
  BY Holding DEF TypeInv, TypeOK
<1>2. m.status \notin Terminal
  BY <1>1 DEF Entitled
<1>3. /\ s \in State /\ s.count = m.count /\ s.status \in Terminal
      /\ s.calls = m.calls /\ s.done = m.done /\ s.approvals = m.approvals
  BY <1>1 DEF State, Statuses, Terminal
<1>4. e \in [type : EventTypes, ref : Ids \cup {NoId}, ok : BOOLEAN]
      /\ e.type = type /\ e.ref = ref
  BY DEF Say, EventTypes
<1>5. Emit(h, s, e, "save")
  OBVIOUS
<1>6. \A a \in Ids : type = "run.completed" => m.approvals[a] # "pending"
  OBVIOUS
<1> HIDE DEF m, s, e
<1>7. Numbered(s)
  BY <1>1, <1>3 DEF Numbered, RequestId
<1>8. ASSUME m.count = Len(log)
      PROVE  /\ Follows(log, m, s, e)
             /\ EventLog!Admissible(e.type, e.ref)
             /\ \A n \in State :
                   /\ n.count = s.count + 1 /\ n.approvals = s.approvals
                   /\ n.status = s.status
                   => Entitled(log', "save", n, arg[h])
  <2>1. Follows(log, m, s, e)
    BY <1>3, <1>4 DEF Follows
  <2>2. EventLog!Admissible(e.type, e.ref)
    <3>1. ~EventLog!Ended
      BY <1>1, <1>2, <1>8, Readings
    <3>2. type = "run.completed" => \A b \in Ids : ~EventLog!Undecided(b)
      BY <1>1, <1>6, <1>8, Readings DEF EventLog!Undecided, Verdicts
    <3> QED BY <1>4, <3>1, <3>2 DEF EventLog!Admissible
  <2>3. \A n \in State : Entitled(log', "save", n, arg[h])
    BY DEF Entitled
  <2> QED BY <2>1, <2>2, <2>3
<1> QED
  BY <1>1, <1>3, <1>4, <1>5, <1>7, <1>8, EmitLog DEF m, Pcs

LEMMA LogStepFailed ==
    ASSUME TypeInv, LogInv, NEW h \in Handlers, StepFailed(h)
    PROVE  LogInv' /\ LogStep
<1>1. pc[h] = "fail" /\ Position(h) \in Ids
  BY PlanFacts, Holding DEF StepFailed
<1> QED
  BY <1>1, LogEnding DEF StepFailed, Terminal

LEMMA LogPlanDone ==
    ASSUME TypeInv, LogInv, NEW h \in Handlers, PlanDone(h)
    PROVE  LogInv' /\ LogStep
<1>1. pc[h] = "step"
  BY DEF PlanDone
<1>2. CASE Save(h, mem[h])
  BY <1>1, <1>2, Holding, SaveLog DEF Accounted
<1>3. CASE /\ \A a \in Ids : mem[h].approvals[a] = "none"
           /\ Emit(h, [mem[h] EXCEPT !.status = "completed"],
                   Say("run.completed", NoId, TRUE), "save")
  BY <1>1, <1>3, LogEnding DEF Terminal
<1> QED BY <1>2, <1>3 DEF PlanDone

LEMMA LogStart ==
    ASSUME TypeInv, LogInv, NEW h \in Handlers, StartRun(h)
    PROVE  LogInv' /\ LogStep
BY LogCreate, LogPlanCreated, LogStepStarted, LogStepResult, LogStepFailed,
   LogStepNeedsApproval, LogNextStep, LogPlanDone DEF StartRun

-----------------------------------------------------------------------------
(*              The operations on a run that was started                   *)

\* A request that has just read the row.
LEMMA LogRead ==
    ASSUME TypeInv, LogInv, NEW h \in Handlers, NEW op \in Ops, Read(h, op),
           \A k \in Handlers \ {h} : arg'[k] = arg[k],
           op # "request" => row.status \notin Terminal,
           op = "decide" => row.approvals[arg'[h].id] = "pending"
    PROVE  LogInv' /\ LogStep
<1>1. op \in {"pause", "resume", "cancel", "request", "decide"}
  BY SwitchAssumption
<1>2. /\ row # NoState /\ row' = row /\ UNCHANGED <<log, purged>>
      /\ pc'[h] = op /\ mem'[h] = row
      /\ \A k \in Handlers \ {h} :
            pc'[k] = pc[k] /\ mem'[k] = mem[k] /\ arg'[k] = arg[k]
  BY DEF Read, store, TypeInv, TypeOK
<1>3. Accounted(log, row)
  BY <1>2 DEF LogInv
<1>4. Entitled(log, pc'[h], mem'[h], arg'[h])
  BY <1>1, <1>2 DEF Entitled
<1> QED BY <1>2, <1>3, <1>4, MoveLog

LEMMA LogPause ==
    ASSUME TypeInv, LogInv, NEW h \in Handlers, Pause(h)
    PROVE  LogInv' /\ LogStep
<1> DEFINE m == mem[h]
           s == [m EXCEPT !.status = "paused"]
           e == Say("run.paused", NoId, TRUE)
<1>1. pc[h] = "pause" /\ Emit(h, s, e, "save")
  BY DEF Pause
<1>2. /\ m \in State /\ Explained(log, m) /\ Numbered(m)
      /\ Entitled(log, "pause", m, arg[h])
  BY <1>1, Holding
<1>3. m.status \notin Terminal
  BY <1>2 DEF Entitled, Pcs
<1>4. /\ s \in State /\ s.count = m.count /\ s.status \notin Terminal
      /\ s.calls = m.calls /\ s.done = m.done /\ s.approvals = m.approvals
  BY <1>2 DEF State, Statuses, Terminal
<1>5. e \in [type : EventTypes, ref : Ids \cup {NoId}, ok : BOOLEAN]
      /\ e.type = "run.paused"
  BY DEF Say, EventTypes
<1> HIDE DEF m, s, e
<1>6. Numbered(s)
  BY <1>2, <1>4 DEF Numbered, RequestId
<1>7. ASSUME m.count = Len(log)
      PROVE  /\ Follows(log, m, s, e)
             /\ EventLog!Admissible(e.type, e.ref)
             /\ \A n \in State : Entitled(log', "save", n, arg[h])
  <2>1. Follows(log, m, s, e)
    BY <1>3, <1>4, <1>5 DEF Follows
  <2>2. EventLog!Admissible(e.type, e.ref)
    BY <1>2, <1>3, <1>5, <1>7, Readings DEF EventLog!Admissible
  <2>3. \A n \in State : Entitled(log', "save", n, arg[h])
    BY DEF Entitled
  <2> QED BY <2>1, <2>2, <2>3
<1> QED
  BY <1>1, <1>4, <1>5, <1>6, <1>7, EmitLog DEF m, Pcs

LEMMA LogResume ==
    ASSUME TypeInv, LogInv, NEW h \in Handlers, Resume(h)
    PROVE  LogInv' /\ LogStep
<1> DEFINE m == mem[h]
           s == [m EXCEPT !.status = "running"]
<1>1. pc[h] = "resume" /\ Save(h, s)
  BY DEF Resume
<1>2. /\ m \in State /\ Explained(log, m) /\ Numbered(m)
      /\ Entitled(log, "resume", m, arg[h])
  BY <1>1, Holding
<1>3. m.status \notin Terminal
  BY <1>2 DEF Entitled, Pcs
<1>4. /\ s \in State /\ s.count = m.count /\ s.status \notin Terminal
      /\ s.calls = m.calls /\ s.done = m.done /\ s.approvals = m.approvals
  BY <1>2 DEF State, Statuses, Terminal
<1> HIDE DEF m, s
<1>5. Accounted(log, s)
  BY <1>2, <1>3, <1>4 DEF Accounted, Explained, Numbered, RequestId
<1> QED BY <1>1, <1>4, <1>5, SaveLog

LEMMA LogRequestApproval ==
    ASSUME TypeInv, LogInv, NEW h \in Handlers, RequestApproval(h)
    PROVE  LogInv' /\ LogStep
<1> DEFINE m == mem[h]
           i == RequestId(m)
           n == [m EXCEPT !.count = @ + 1, !.approvals[i] = "pending"]
           e == [seq |-> m.count + 1, type |-> "approval.requested",
                 ref |-> i, ok |-> FALSE]
<1>1. pc[h] = "request" /\ Leave(h)
  BY DEF RequestApproval
<1>2. /\ m \in State /\ Explained(log, m) /\ Numbered(m)
      /\ Ids \subseteq Nat /\ MaxSteps \in Nat
  BY <1>1, Holding
<1>3. i \in Ids
  BY <1>1 DEF TypeInv, PlaceOK
<1>4. CASE UNCHANGED store
  BY <1>1, <1>4, LeaveLog DEF store, LogInv
<1>5. CASE /\ m.count + 1 \notin Sequences
           /\ log' = Append(log, e) /\ row' = n /\ UNCHANGED purged
  <2>1. m.count = Len(log)
    BY <1>2, <1>5, FreeSequence DEF Explained
  <2>2. /\ n \in State /\ n.count = Len(log) + 1 /\ n.status = m.status
        /\ n.calls = m.calls /\ n.done = m.done
        /\ n.approvals = [m.approvals EXCEPT ![i] = "pending"]
    <3> DEFINE q == [m EXCEPT !.approvals[i] = "pending"]
    <3>1. /\ q \in State /\ q.count = m.count /\ q.status = m.status
          /\ q.calls = m.calls /\ q.done = m.done
          /\ q.approvals = [m.approvals EXCEPT ![i] = "pending"]
      BY <1>2, <1>3 DEF State, Verdicts
    <3>2. n = [q EXCEPT !.count = m.count + 1]
      BY <1>2, <1>3 DEF State
    <3>3. m.count + 1 \in Nat
      BY <1>2 DEF State
    <3> HIDE DEF q, n, m, i
    <3> QED BY <2>1, <3>1, <3>2, <3>3 DEF State
  <2>3. \A a \in Ids : n.approvals[a] = IF a = i THEN "pending" ELSE m.approvals[a]
    BY <1>2, <1>3, <2>2 DEF State
  <2>4. e \in Event /\ e.seq = Len(log) + 1 /\ e.type = "approval.requested"
        /\ e.ref = i
    BY <1>2, <1>3, <2>1 DEF Event, EventTypes, State
  <2>5. i > MaxSteps
    <3>1. IsFiniteSet({a \in Ids : m.approvals[a] # "none"})
      <4>1. IsFiniteSet(Ids)
        BY FS_Interval, BoundsAssumption DEF Ids, MaxId
      <4> QED BY <4>1, FS_Subset
    <3>2. Cardinality({a \in Ids : m.approvals[a] # "none"}) \in Nat
      BY <3>1, FS_CardinalityType
    <3> QED BY <1>2, <3>2 DEF RequestId
  <2>6. m.approvals[i] = "none"
    <3>1. \A a \in Ids : m.approvals[a] # "none" /\ a > MaxSteps => a < i
      BY <1>2 DEF Numbered
    <3>2. i \in Int /\ ~(i < i)
      BY <1>3 DEF Ids
    <3> HIDE DEF m, n, e, i
    <3> QED BY <1>3, <2>5, <3>1, <3>2
  <2>7. ~Happened(log, Len(log), "tool.result", i)
    BY <1>2, <2>5 DEF Happened, LogInv, LogNumbered
  <2>8. /\ mem[h] = m /\ mem[h] \in State /\ mem[h].count = Len(log)
        /\ \A k \in Handlers \ {h} :
              pc'[k] = pc[k] /\ mem'[k] = mem[k] /\ arg'[k] = arg[k]
        /\ pc'[h] = "idle"
    BY <1>1, <1>2, <2>1 DEF Leave, TypeInv, TypeOK
  <2> HIDE DEF m, n, e, i
  <2>9. Follows(log, m, n, e)
    BY <1>3, <2>2, <2>3, <2>4, <2>6, <2>7 DEF Follows
  <2>10. Numbered(n)
    BY <1>2, <1>3, <2>2, NumberedGrows DEF i
  <2>11. EventLog!Admissible(e.type, e.ref)
    BY <1>2, <1>3, <2>1, <2>4, <2>6, Readings DEF EventLog!Admissible
  <2> QED
    BY <1>1, <1>5, <2>2, <2>4, <2>8, <2>9, <2>10, <2>11, AppendLog
<1> QED BY <1>4, <1>5 DEF RequestApproval

LEMMA LogDecide ==
    ASSUME TypeInv, LogInv, NEW h \in Handlers, Decide(h)
    PROVE  LogInv' /\ LogStep
<1> DEFINE m == mem[h]
           i == arg[h].id
           ok == arg[h].ok
           v == IF ok THEN "approved" ELSE "rejected"
           s == [m EXCEPT !.approvals[i] = v]
           e == Say("approval.decided", i, ok)
           next == IF ok THEN "tool" ELSE "reject"
<1>1. pc[h] = "decide" /\ Emit(h, s, e, next)
  BY DEF Decide
<1>2. /\ m \in State /\ Explained(log, m) /\ Numbered(m)
      /\ Entitled(log, "decide", m, arg[h]) /\ ok \in BOOLEAN
  BY <1>1, Holding
<1>3. i \in Ids
  BY <1>1 DEF TypeInv, PlaceOK
<1>4. m.status \notin Terminal /\ m.approvals[i] = "pending"
  BY <1>2 DEF Entitled, Pcs
<1>5. e \in [type : EventTypes, ref : Ids \cup {NoId}, ok : BOOLEAN]
      /\ e.type = "approval.decided" /\ e.ref = i /\ e.ok = ok
  BY <1>2, <1>3 DEF Say, EventTypes
<1>6. /\ s \in State /\ s.count = m.count /\ s.status = m.status
      /\ s.calls = m.calls /\ s.done = m.done
      /\ s.approvals = [m.approvals EXCEPT ![i] = v]
  BY <1>2, <1>3 DEF State, Verdicts
<1>7. \A a \in Ids : s.approvals[a] = IF a = i THEN v ELSE m.approvals[a]
  BY <1>2, <1>3, <1>6 DEF State
<1>8. v \in {"approved", "rejected"} /\ (v = "approved" <=> ok)
      /\ next \in {"tool", "reject"} /\ (next = "tool" <=> ok)
  OBVIOUS
<1> HIDE DEF m, s, e, i, v, next, ok
<1>9. Numbered(s)
  <2>1. v # "none" /\ m.approvals[i] # "none"
    BY <1>4, <1>8
  <2> QED BY <1>2, <1>3, <1>6, <2>1, NumberedGrows
<1>10. ASSUME m.count = Len(log)
       PROVE  /\ Follows(log, m, s, e)
              /\ EventLog!Admissible(e.type, e.ref)
              /\ \A n \in State :
                    /\ n.count = s.count + 1 /\ n.approvals = s.approvals
                    /\ n.status = s.status
                    => Entitled(log', next, n, arg[h])
  <2>1. Follows(log, m, s, e)
    BY <1>2, <1>3, <1>4, <1>5, <1>6, <1>7, <1>8 DEF Follows
  <2>2. EventLog!Admissible(e.type, e.ref)
    BY <1>2, <1>3, <1>4, <1>5, <1>10, Readings
    DEF EventLog!Admissible, EventLog!Undecided
  <2>3. ASSUME NEW n \in State, n.approvals = s.approvals, n.status = s.status
        PROVE  Entitled(log', next, n, arg[h])
    BY <1>3, <1>4, <1>6, <1>7, <1>8, <2>3 DEF Entitled, i
  <2> QED BY <2>1, <2>2, <2>3
<1> QED
  BY <1>1, <1>5, <1>6, <1>8, <1>9, <1>10, EmitLog DEF m, Pcs

LEMMA LogRunTool ==
    ASSUME TypeInv, LogInv, NEW h \in Handlers, RunTool(h)
    PROVE  LogInv' /\ LogStep
<1> DEFINE m == mem[h]
           i == arg[h].id
           s == [m EXCEPT !.calls = @ + 1, !.done = @ \cup {i}]
           e == Say("tool.result", i, TRUE)
<1>1. pc[h] = "tool" /\ Emit(h, s, e, "close") /\ i <= Len(m.plan) /\ i \notin m.done
  BY DEF RunTool, ToolDue
<1>2. /\ m \in State /\ Explained(log, m) /\ Numbered(m)
      /\ Entitled(log, "tool", m, arg[h]) /\ Ids \subseteq Nat \ {0}
      /\ MaxSteps \in Nat
  BY <1>1, Holding
<1>3. i \in Ids /\ i \in 1 .. MaxSteps
  <2>1. i \in Ids
    BY <1>1 DEF TypeInv, PlaceOK
  <2>2. Len(m.plan) \in 1 .. MaxSteps
    BY <1>2, PlanFacts
  <2> QED BY <1>1, <1>2, <2>1, <2>2
<1>4. m.status \notin Terminal /\ m.approvals[i] = "approved"
  BY <1>2 DEF Entitled, Pcs
<1>5. ~Happened(log, m.count, "tool.result", i)
  BY <1>1, <1>2, <1>3, <1>4 DEF Explained
<1>6. e \in [type : EventTypes, ref : Ids \cup {NoId}, ok : BOOLEAN]
      /\ e.type = "tool.result" /\ e.ref = i
  BY <1>3 DEF Say, EventTypes
<1>7. /\ s \in State /\ s.count = m.count /\ s.status = m.status
      /\ s.calls = m.calls + 1 /\ s.done = m.done \cup {i}
      /\ s.approvals = m.approvals
  <2> DEFINE q == [m EXCEPT !.done = @ \cup {i}]
  <2>1. /\ q \in State /\ q.count = m.count /\ q.status = m.status
        /\ q.done = m.done \cup {i} /\ q.approvals = m.approvals
    BY <1>2, <1>3 DEF State
  <2>2. s = [q EXCEPT !.calls = m.calls + 1]
    BY <1>2, <1>3 DEF State
  <2>3. m.calls + 1 \in Nat
    BY <1>2 DEF State
  <2> HIDE DEF q, s, m, i
  <2> QED BY <2>1, <2>2, <2>3 DEF State
<1> HIDE DEF m, s, e, i
<1>8. Numbered(s)
  BY <1>2, <1>7 DEF Numbered, RequestId
<1>9. ASSUME m.count = Len(log)
      PROVE  /\ Follows(log, m, s, e)
             /\ EventLog!Admissible(e.type, e.ref)
             /\ \A n \in State :
                   /\ n.count = s.count + 1 /\ n.approvals = s.approvals
                   /\ n.status = s.status
                   => Entitled(log', "close", n, arg[h])
  <2>1. Follows(log, m, s, e)
    BY <1>6, <1>7 DEF Follows
  <2>2. EventLog!Admissible(e.type, e.ref)
    BY <1>2, <1>3, <1>4, <1>5, <1>6, <1>9, Readings DEF EventLog!Admissible
  <2>3. ASSUME NEW n \in State, n.status = s.status
        PROVE  Entitled(log', "close", n, arg[h])
    BY <1>4, <1>7, <2>3 DEF Entitled
  <2> QED BY <2>1, <2>2, <2>3
<1> QED
  BY <1>1, <1>3, <1>6, <1>7, <1>8, <1>9, EmitLog DEF m, Pcs

LEMMA LogClose ==
    ASSUME TypeInv, LogInv, NEW h \in Handlers, Close(h)
    PROVE  LogInv' /\ LogStep
<1>1. pc[h] \in {"close", "tool"}
  BY DEF Close
<1>2. CASE Save(h, mem[h])
  BY <1>1, <1>2, Holding, SaveLog DEF Accounted
<1>3. CASE /\ \A a \in Ids : mem[h].approvals[a] # "pending"
           /\ Emit(h, [mem[h] EXCEPT !.status = "completed"],
                   Say("run.completed", NoId, TRUE), "save")
  BY <1>1, <1>3, LogEnding DEF Terminal
<1> QED BY <1>2, <1>3 DEF Close

LEMMA LogOperate ==
    ASSUME TypeInv, LogInv, NEW h \in Handlers, OperateRun(h)
    PROVE  LogInv' /\ LogStep
<1>1. ASSUME NEW op \in {"pause", "resume", "cancel"}, Intervene(h, op)
      PROVE  LogInv' /\ LogStep
  BY <1>1, LogRead DEF Intervene, Read
<1>2. CASE Cancel(h)
  BY <1>2, LogEnding DEF Cancel, Terminal
<1>3. CASE BeginRequest(h)
  BY <1>3, LogRead DEF BeginRequest, Read
<1>4. ASSUME NEW id \in Ids, NEW ok \in BOOLEAN, BeginDecide(h, id, ok)
      PROVE  LogInv' /\ LogStep
  <2>1. arg'[h].id = id /\ \A k \in Handlers \ {h} : arg'[k] = arg[k]
    BY <1>4 DEF BeginDecide, TypeInv, TypeOK
  <2> QED BY <1>4, <2>1, LogRead DEF BeginDecide, Read
<1>5. CASE Reject(h)
  <2>1. pc[h] = "reject" /\ arg[h].id \in Ids
    BY <1>5 DEF Reject, TypeInv, PlaceOK
  <2> QED BY <1>5, <2>1, LogEnding DEF Reject, Terminal
<1>6. CASE SaveCheckpoint(h)
  BY <1>6, Holding, SaveLog DEF SaveCheckpoint, Accounted
<1> QED
  BY <1>1, <1>2, <1>3, <1>4, <1>5, <1>6, LogPause, LogResume, LogRequestApproval,
     LogDecide, LogRunTool, LogClose DEF OperateRun

-----------------------------------------------------------------------------
(*                              The theorems                               *)

LEMMA LogInit == Init => LogInv /\ EventLog!Init
BY DEF Init, LogInv, LogNumbered, EventLog!Init

\* The events stay in the table: no retention purge.
LEMMA LogNext ==
    ASSUME ~MayPurge, TypeInv, LogInv, [Next]_vars
    PROVE  LogInv' /\ LogStep
<1>1. ASSUME NEW h \in Handlers, Crash(h) PROVE LogInv' /\ LogStep
  BY <1>1, LeaveLog DEF Crash, store, LogInv
<1>2. ~PurgeEvents
  BY DEF PurgeEvents
<1>3. CASE UNCHANGED vars
  BY <1>3 DEF vars, LogInv, LogNumbered, LogStep, Accounted, Entitled
<1> QED
  BY <1>1, <1>2, <1>3, LogStart, LogOperate DEF Next

LEMMA InvExplains ==
    ASSUME TypeInv, LogInv
    PROVE  StateExplainedByEvents
BY DEF TypeInv, PlaceOK, LogInv, Accounted, StateExplainedByEvents

\* The row and every copy in a request thread are the account of a prefix of
\* the event log, for any number of threads, any plans and crashes anywhere.
THEOREM StateIsExplained ==
    ASSUME ~MayPurge PROVE Spec => []StateExplainedByEvents
<1>1. Init => TypeInv /\ LogInv
  BY TypeInit, LogInit
<1>2. TypeInv /\ LogInv /\ [Next]_vars => TypeInv' /\ LogInv'
  BY TypeStep, LogNext
<1>3. TypeInv /\ LogInv => StateExplainedByEvents
  BY InvExplains
<1> QED BY <1>1, <1>2, <1>3, PTL DEF Spec

\* The concurrent handlers write only logs that the one-append-at-a-time
\* specification RunEvents allows.
THEOREM RunImplementsLog ==
    ASSUME ~MayPurge PROVE Spec => LogIsLinear
<1>1. Init => TypeInv /\ LogInv /\ EventLog!Init
  BY TypeInit, LogInit
<1>2. TypeInv /\ LogInv /\ [Next]_vars => TypeInv' /\ LogInv' /\ [EventLog!Next]_log
  BY TypeStep, LogNext DEF LogStep
<1> QED BY <1>1, <1>2, PTL DEF Spec, LogIsLinear, EventLog!Spec

=============================================================================
