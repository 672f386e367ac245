----------------------- MODULE MessageExecutionProofs -----------------------
(***************************************************************************)
(* Theorems about MessageExecution, for every set of requests and calls,   *)
(* whether threads die and rows fail to be stored or not.                  *)
(***************************************************************************)
EXTENDS MessageExecution, FiniteSetTheorems, TLAPS

-----------------------------------------------------------------------------
(*                       The inductive invariant                           *)

Active(r) == pc[r] \notin {"idle", "done"}

BeforeTask == {"idle", "lookup", "rebuild", "task"}
BeforeRun == BeforeTask \cup {"start", "run"}
BeforeEffect == BeforeRun \cup {"gates", "execute", "persist"}
Undoing == {"unrun", "unstate", "untask"}
Writing == {"user", "userInsert", "reply", "replyInsert"}
WithRecord == {"gates", "execute", "persist", "unrun", "mark"} \cup Writing
WithRun == WithRecord \cup {"unstate"}
WithTask == {"start", "run", "gates", "execute", "persist", "mark"} \cup Undoing

\* The locals a request needs for its next step are set.
PlaceTyped(r) ==
    /\ Active(r) => call[r] \in Calls
    /\ pc[r] = "rebuild" => found[r] \in Records
    /\ pc[r] \in Writing \cup {"mark", "remember"} => result[r] \in Outcomes

\* Only a pending action is approved.
ApproverHoldsAction == approving # NoRow => approving \in actions

TypeInv == TypeOK /\ ApproverHoldsAction /\ \A r \in Requests : PlaceTyped(r)

\* The requests whose call was executed, or may be after an approval, but for
\* those a 503 left behind.
Effects == {r \in actions \cup executed : ~LeftBehind(r, "action")}

\* The result a request holds tells what was done.
ResultTells(r) ==
    /\ result[r] \in {"executed", "failed"} => r \in executed \cap runs \cap recorded
    /\ result[r] = "pending" => r \in actions \cap runs \cap recorded
    /\ result[r] = "rejected" => r \notin actions \cup executed

\* What the place of a request says of the rows written in its name.
PlaceOK(r) ==
    /\ pc[r] \in BeforeRun => r \notin runs \cup recorded
    /\ pc[r] \in WithRun => r \in runs
    /\ pc[r] \in WithRecord => r \in recorded
    /\ pc[r] \in BeforeEffect => r \notin actions \cup executed
    /\ pc[r] \in BeforeEffect \cup Undoing => \A role \in Roles : <<r, role>> \notin messages
    /\ pc[r] \in Undoing /\ r \in actions \cup executed => LeftBehind(r, "action")
    /\ pc[r] \in {"unstate", "untask"} /\ r \in recorded => LeftBehind(r, "record")
    /\ pc[r] = "untask" /\ r \in runs => LeftBehind(r, "state")
    /\ pc[r] \notin Undoing \cup {"done"} => \A what \in Residues : ~LeftBehind(r, what)
    /\ pc[r] = "mark" => result[r] = "pending"
    /\ pc[r] \in Writing => result[r] \in {"executed", "pending"}
    /\ pc[r] \in Writing \cup {"mark", "remember"} => ResultTells(r)
    /\ pc[r] \in WithTask \cup WithRun \cup {"task"} => mode[r] # "ask"
    /\ answer[r] # "none" => pc[r] = "done"

\* The request a remembered row names has ended.
RowIsOld ==
    remembered # NoRow /\ remembered.run # NoRow => pc[remembered.run] = "done"

\* The carrier task belongs to the request that created it and holds it.
TaskIsHeld ==
    task # NoRow => held[task.id] = task.id /\ pc[task.id] \notin BeforeTask

\* Of a request answered 503 only failures remain.
Remains == \A r \in Requests : answer[r] = "unavailable" => OnlyFailuresRemain(r)

RowInv ==
    /\ \A r \in Requests : PlaceOK(r)
    /\ RowIsTrue /\ RowIsOld /\ TaskIsHeld
    /\ Remains

-----------------------------------------------------------------------------
(*                   As long as nothing overlaps (calm)                    *)

\* One at a time: a request, the content of a deletion, or an approval.
OneAtATime ==
    /\ \A r \in Requests : Active(r) =>
          /\ \A q \in Requests \ {r} : ~Active(q)
          /\ deletion # "content" /\ approving = NoRow
    /\ deletion = "content" => approving = NoRow

\* A request in progress sees the rows as it found or left them.
SeesItsRows(r) ==
    /\ Active(r) => ~conversation.deleted /\ mode[r] = conversation.mode
    /\ Active(r) /\ pc[r] \notin {"lookup", "rebuild"} => remembered = NoRow
    /\ pc[r] \in WithTask =>
          /\ TaskExists(r)
          /\ held[r] = r => \A k \in runs : k = r \/ LeftBehind(k, "state")
    /\ pc[r] = "remember" /\ result[r] \in {"executed", "pending"} =>
          <<r, "assistant">> \in messages

\* Whoever had an effect is still at it, or is remembered, unless the
\* conversation was deleted or archived first.
EffectIsKnown(r) ==
    \/ Active(r)
    \/ deletion = "content" \/ conversation.deleted
    \/ remembered # NoRow /\ remembered.run = r
    \/ conversation.archived /\ conversation.mode # "ask"

CalmInv ==
    /\ OneAtATime
    /\ \A r \in Requests : SeesItsRows(r)
    /\ \A r \in Effects : EffectIsKnown(r)
    /\ ~conversation.archived => \A r, q \in Effects : r = q
    /\ ~conversation.archived =>
          \A r \in Requests : answer[r] = "refused" => r \notin Effects
    /\ deletion = "content" => remembered = NoRow
    /\ conversation.deleted => messages = {} /\ remembered = NoRow
    /\ \A r \in runs : TaskExists(r) \/ LeftBehind(r, "state")
    /\ approving # NoRow /\ ~LeftBehind(approving, "action") /\ ~conversation.deleted =>
          conversation.mode # "ask"
    /\ \A r \in Requests, what \in Residues :
          LeftBehind(r, what) => Active(r) \/ answer[r] = "unavailable"
    /\ \A r \in executed : LeftBehind(r, "action") =>
          answer[r] = "unavailable" /\ LeftBehind(r, "record") /\ LeftBehind(r, "state")

IInv == TypeInv /\ RowInv /\ (calm => CalmInv)

-----------------------------------------------------------------------------
(*                           Type correctness                              *)

LEMMA TypeInit == Init => TypeInv
<1> SUFFICES ASSUME Init PROVE TypeInv
  OBVIOUS
<1>1. conversation \in Conversations
  BY DEF Init, Conversations
<1>2. TypeOK
  BY <1>1 DEF Init, TypeOK, Pcs, Modes, Answers
<1>3. \A r \in Requests : PlaceTyped(r)
  BY DEF Init, PlaceTyped, Active, Writing
<1>4. ApproverHoldsAction
  BY DEF Init, ApproverHoldsAction
<1> QED BY <1>2, <1>3, <1>4 DEF TypeInv

\* Coming in can only end the calm.
LEMMA ComeInCalm ==
    ASSUME calm \in BOOLEAN, ComeIn
    PROVE  calm' \in BOOLEAN /\ (calm' => calm /\ Quiet)
BY DEF ComeIn

LEMMA TypeBegin ==
    ASSUME TypeInv, NEW r \in Requests, NEW c \in Calls, Begin(r, c)
    PROVE  TypeInv'
<1>1. calm' \in BOOLEAN
  BY ComeInCalm DEF Begin, TypeInv, TypeOK
<1>2. CASE conversation.deleted
  BY <1>1, <1>2 DEF Begin, Refuse, Answer, Go, TypeInv, TypeOK, ApproverHoldsAction, PlaceTyped, Writing, Active, Pcs, Answers, rows
<1>3. CASE ~conversation.deleted
  BY <1>1, <1>3 DEF Begin, Go, TypeInv, TypeOK, ApproverHoldsAction, PlaceTyped, Writing, Active, Pcs, Conversations, rows
<1> QED BY <1>2, <1>3

LEMMA TypeRequest ==
    ASSUME TypeInv, NEW r \in Requests, RequestStep(r)
    PROVE  TypeInv'
<1> USE DEF Refuse, Answer, Conclude, Go, TypeInv, TypeOK, ApproverHoldsAction,
           PlaceTyped, Writing, Active, Pcs, Outcomes, Answers, Residues, rows, others
<1>1. CASE Lookup(r)
  BY <1>1 DEF Lookup
<1>2. CASE Rebuild(r)
  BY <1>2 DEF Rebuild, Records
<1>3. CASE CreateTask(r)
  BY <1>3 DEF CreateTask, Tasks
<1>4. CASE StartRead(r)
  BY <1>4 DEF StartRead
<1>5. CASE StartRun(r)
  BY <1>5 DEF StartRun
<1>6. CASE Gates(r)
  BY <1>6 DEF Gates
<1>7. CASE Execute(r)
  BY <1>7 DEF Execute
<1>8. CASE Persist(r)
  BY <1>8 DEF Persist, Leave
<1>9. CASE UndoRun(r)
  BY <1>9 DEF UndoRun, Leave
<1>10. CASE UndoState(r) \/ UndoTask(r)
  BY <1>10 DEF UndoState, UndoTask, Leave
<1>11. CASE Mark(r)
  BY <1>11 DEF Mark, Tasks, TaskExists
<1>12. CASE Append(r)
  <2>1. ASSUME NEW here \in Writing, NEW next \in Writing, AppendRead(r, here, next)
        PROVE  TypeInv'
    BY <2>1 DEF AppendRead
  <2>2. AppendInsert(r, "userInsert", "user", "reply") => TypeInv'
    BY DEF AppendInsert, Roles
  <2>3. AppendInsert(r, "replyInsert", "assistant", "remember") => TypeInv'
    BY DEF AppendInsert, Roles
  <2> QED BY <1>12, <2>1, <2>2, <2>3 DEF Append
<1>13. CASE Remember(r)
  <2>1. Result(r) \in Records
    BY <1>13 DEF Remember, Result, Records
  <2> QED BY <1>13, <2>1 DEF Remember
<1> QED BY <1>1, <1>2, <1>3, <1>4, <1>5, <1>6, <1>7, <1>8, <1>9, <1>10, <1>11, <1>12, <1>13 DEF RequestStep

LEMMA TypeOwner ==
    ASSUME TypeInv, \/ \E m \in Modes : SetMode(m)
                    \/ Archive \/ AskDelete \/ DeleteStep \/ CrashDelete
    PROVE  TypeInv'
<1> USE DEF TypeInv, TypeOK, ApproverHoldsAction, PlaceTyped, Active, rows, locals
<1>1. ComeIn => calm' \in BOOLEAN
  BY ComeInCalm
<1>2. ASSUME NEW m \in Modes, SetMode(m) PROVE TypeInv'
  BY <1>1, <1>2 DEF SetMode, OwnerMay, Conversations
<1>3. CASE Archive
  BY <1>1, <1>3 DEF Archive, OwnerMay, Conversations
<1>4. CASE AskDelete
  BY <1>4 DEF AskDelete
<1>5. CASE DeleteKeys
  BY <1>1, <1>5 DEF DeleteKeys
<1>6. CASE DeleteContent
  BY <1>6 DEF DeleteContent, Conversations
<1>7. CASE CrashDelete
  BY <1>7 DEF CrashDelete
<1> QED BY <1>2, <1>3, <1>4, <1>5, <1>6, <1>7 DEF DeleteStep

LEMMA TypeApprover ==
    ASSUME TypeInv, (\E r \in Requests : EnsureResume(r) \/ Crash(r)) \/ Resume
    PROVE  TypeInv'
<1> USE DEF TypeInv, TypeOK, ApproverHoldsAction, PlaceTyped, Writing, Active, rows, locals
<1>1. ASSUME NEW r \in Requests, EnsureResume(r) PROVE TypeInv'
  <2>1. calm' \in BOOLEAN
    BY <1>1, ComeInCalm DEF EnsureResume
  <2> QED BY <1>1, <2>1 DEF EnsureResume
<1>2. ASSUME NEW r \in Requests, Crash(r) PROVE TypeInv'
  BY <1>2 DEF Crash, Go, Pcs
<1>3. CASE Resume
  BY <1>3 DEF Resume
<1> QED BY <1>1, <1>2, <1>3

LEMMA TypeStep == TypeInv /\ [Next]_vars => TypeInv'
<1>1. TypeInv /\ Next => TypeInv'
  BY TypeBegin, TypeRequest, TypeOwner, TypeApprover DEF Next
<1>2. TypeInv /\ UNCHANGED vars => TypeInv'
  BY DEF vars, rows, locals, others, TypeInv, TypeOK, ApproverHoldsAction, PlaceTyped, Active
<1> QED BY <1>1, <1>2

\* Every reachable state is well typed: a request has the locals its next step
\* reads.
THEOREM TypeCorrect == Spec => []TypeOK
<1>1. Spec => []TypeInv
  BY TypeInit, TypeStep, PTL DEF Spec
<1>2. TypeInv => TypeOK
  BY DEF TypeInv
<1> QED BY <1>1, <1>2, PTL

-----------------------------------------------------------------------------
(*                What the rows of a request say of it                     *)

LEMMA RowInit == Init => RowInv
BY DEF Init, RowInv, PlaceOK, RowIsTrue, RowTellsTruth, RowHasMessage, NamesMessage,
       RowIsOld, TaskIsHeld, Remains, BeforeTask, BeforeRun, BeforeEffect, Undoing, Writing,
       WithRecord, WithRun, WithTask, LeftBehind

LEMMA RowPlaces ==
    ASSUME TypeInv, \A k \in Requests : PlaceOK(k), NEW r \in Requests, RequestStep(r), NEW k \in Requests
    PROVE  PlaceOK(k)'
<1> USE DEF Refuse, Answer, Conclude, Go, TypeInv, TypeOK, Pcs, rows, others, PlaceOK, LeftBehind, ResultTells,
            BeforeTask, BeforeRun, BeforeEffect, Undoing, Writing, WithRecord, WithRun, WithTask
<1>1. CASE Lookup(r)
  BY <1>1 DEF Lookup
<1>2. CASE Rebuild(r)
  BY <1>2 DEF Rebuild, Records
<1>3. CASE CreateTask(r)
  BY <1>3 DEF CreateTask, Tasks
<1>4. CASE StartRead(r)
  BY <1>4 DEF StartRead
<1>5. CASE StartRun(r)
  BY <1>5 DEF StartRun
<1>6. CASE Gates(r)
  BY <1>6 DEF Gates
<1>7. CASE Execute(r)
  BY <1>7 DEF Execute
<1>8. CASE Persist(r)
  BY <1>8 DEF Persist, Leave
<1>9. CASE UndoRun(r)
  BY <1>9 DEF UndoRun, Leave
<1>10. CASE UndoState(r) \/ UndoTask(r)
  BY <1>10 DEF UndoState, UndoTask, Leave
<1>11. CASE Mark(r)
  BY <1>11 DEF Mark, Tasks, TaskExists
<1>12. CASE Append(r)
  BY <1>12 DEF Append, AppendRead, AppendInsert
<1>13. CASE Remember(r)
  BY <1>13 DEF Remember, Result, Records
<1> QED BY <1>1, <1>2, <1>3, <1>4, <1>5, <1>6, <1>7, <1>8, <1>9, <1>10, <1>11, <1>12, <1>13 DEF RequestStep

\* A step of a request writes nothing in the name of another one.
LEMMA OthersUntouched ==
    ASSUME TypeInv, NEW r \in Requests, RequestStep(r), NEW k \in Requests \ {r}
    PROVE  /\ pc'[k] = pc[k] /\ answer'[k] = answer[k] /\ held'[k] = held[k]
           /\ k \in runs' <=> k \in runs
           /\ k \in recorded' <=> k \in recorded
           /\ k \in actions' <=> k \in actions
           /\ k \in executed' <=> k \in executed
           /\ \A role \in Roles : <<k, role>> \in messages' <=> <<k, role>> \in messages
           /\ \A what \in Residues : LeftBehind(k, what)' <=> LeftBehind(k, what)
BY DEF RequestStep, Lookup, Rebuild, CreateTask, StartRead, StartRun, Gates, Execute, Persist,
       UndoRun, UndoState, UndoTask, Leave, Mark, Append, AppendRead, AppendInsert, Remember,
       Refuse, Answer, Conclude, Go, TypeInv, TypeOK, rows, LeftBehind

\* One step remembers, three write the carrier task, and one answers 503.
LEMMA KeyRowsWritten ==
    ASSUME TypeInv, NEW r \in Requests, RequestStep(r)
    PROVE  /\ Active(r) /\ UNCHANGED others
           /\ ~Remember(r) => remembered' = remembered
           /\ ~CreateTask(r) => held' = held
           /\ ~CreateTask(r) /\ ~UndoTask(r) /\ ~Mark(r) => task' = task
<1> USE DEF Refuse, Conclude, rows, others
<1>1. Active(r) /\ UNCHANGED others
  BY DEF Active, RequestStep, Lookup, Rebuild, CreateTask, StartRead, StartRun, Gates, Execute, Persist,
         UndoRun, UndoState, UndoTask, Leave, Mark, Append, AppendRead, AppendInsert, Remember
<1>2. ~Remember(r) => remembered' = remembered
  BY DEF RequestStep, Lookup, Rebuild, CreateTask, StartRead, StartRun, Gates, Execute, Persist,
         UndoRun, UndoState, UndoTask, Leave, Mark, Append, AppendRead, AppendInsert, Remember
<1>3. ~CreateTask(r) => held' = held
  BY DEF RequestStep, Lookup, Rebuild, CreateTask, StartRead, StartRun, Gates, Execute, Persist,
         UndoRun, UndoState, UndoTask, Leave, Mark, Append, AppendRead, AppendInsert, Remember
<1>4. ~CreateTask(r) /\ ~UndoTask(r) /\ ~Mark(r) => task' = task
  BY DEF RequestStep, Lookup, Rebuild, CreateTask, StartRead, StartRun, Gates, Execute, Persist,
         UndoRun, UndoState, UndoTask, Leave, Mark, Append, AppendRead, AppendInsert, Remember
<1> QED BY <1>1, <1>2, <1>3, <1>4

\* A request that has its task does not go back to ask for one.
LEMMA NoWayBack ==
    ASSUME TypeInv, NEW r \in Requests, RequestStep(r), pc[r] \notin BeforeTask
    PROVE  pc'[r] \notin BeforeTask
BY DEF BeforeTask, Refuse, Answer, Conclude, Go, TypeInv, TypeOK, RequestStep, Lookup, Rebuild, CreateTask, StartRead, StartRun, Gates, Execute, Persist,
       UndoRun, UndoState, UndoTask, Leave, Mark, Append, AppendRead, AppendInsert, Remember

LEMMA AnswersUnavailable ==
    ASSUME TypeInv, NEW r \in Requests, PlaceOK(r), RequestStep(r), answer'[r] = "unavailable"
    PROVE  UndoTask(r)
<1>1. answer[r] = "none"
  BY KeyRowsWritten DEF PlaceOK, Active
<1>2. CASE Rebuild(r)
  BY <1>2 DEF Rebuild, Refuse, Answer, TypeInv, TypeOK, PlaceTyped, Records, Outcomes
<1>3. CASE Remember(r)
  BY <1>3 DEF Remember, Refuse, Answer, TypeInv, TypeOK, PlaceTyped, Outcomes
<1>4. CASE ~Rebuild(r) /\ ~Remember(r) /\ ~UndoTask(r)
  BY <1>1, <1>4 DEF RequestStep, Lookup, CreateTask, StartRead, StartRun, Gates, Execute, Persist,
         UndoRun, UndoState, Leave, Mark, Append, AppendRead, AppendInsert, Refuse, Answer, Conclude, TypeInv, TypeOK, rows
<1> QED BY <1>2, <1>3, <1>4

LEMMA RowRest ==
    ASSUME TypeInv, RowInv, NEW r \in Requests, RequestStep(r)
    PROVE  RowIsTrue' /\ RowIsOld' /\ TaskIsHeld' /\ Remains'
<1>0. Active(r) /\ PlaceOK(r)
  BY KeyRowsWritten DEF RowInv
<1>1. RowIsTrue' /\ RowIsOld'
  <2>1. CASE ~Remember(r) /\ remembered # NoRow /\ remembered.run # NoRow
    <3> DEFINE k == remembered.run
    <3>1. remembered' = remembered
      BY <2>1, KeyRowsWritten
    <3>2. k \in Requests \ {r}
      BY <1>0, <2>1 DEF RowInv, RowIsOld, TypeInv, TypeOK, Records, Active
    <3> HIDE DEF k
    <3> QED BY <2>1, <3>1, <3>2, OthersUntouched
            DEF k, RowInv, RowIsOld, RowIsTrue, RowTellsTruth, RowHasMessage, NamesMessage, Roles
  <2>2. CASE ~Remember(r) /\ (remembered = NoRow \/ remembered.run = NoRow)
    <3>1. remembered' = remembered
      BY <2>2, KeyRowsWritten
    <3>2. NoRow \notin actions' \cup executed'
      BY TypeRequest, NoRowAssumption DEF TypeInv, TypeOK
    <3>3. \A role : <<NoRow, role>> \notin messages
      BY NoRowAssumption DEF TypeInv, TypeOK
    <3> QED BY <2>2, <3>1, <3>2, <3>3, NoRowAssumption
            DEF TypeInv, TypeOK, RowInv, RowIsOld, RowIsTrue, RowTellsTruth, RowHasMessage, NamesMessage
  <2>3. CASE Remember(r)
    <3>1. /\ UNCHANGED <<runs, recorded, actions, executed, messages>>
          /\ pc' = [pc EXCEPT ![r] = "done"]
      BY <2>3 DEF Remember, Refuse, Answer, Go, rows
    <3>2. CASE remembered' = remembered
      BY <3>1, <3>2 DEF TypeInv, TypeOK, Records, RowInv, RowIsOld, RowIsTrue, RowTellsTruth, RowHasMessage, NamesMessage
    <3>3. CASE remembered = NoRow /\ remembered' = Result(r) /\ ~Dangling(r)
      <4>1. ResultTells(r) /\ (r \notin runs \cap recorded => result[r] = "rejected")
        BY <1>0, <2>3 DEF Remember, PlaceOK, ResultTells, TypeInv, TypeOK, PlaceTyped, Outcomes
      <4>2. NoRow \notin actions \cup executed
        BY NoRowAssumption DEF TypeInv, TypeOK
      <4> QED BY <3>1, <3>3, <4>1, <4>2 DEF Result, Dangling, ResultTells, RowIsOld, RowIsTrue, RowTellsTruth, RowHasMessage, NamesMessage, TypeInv, TypeOK
    <3> QED BY <2>3, <3>2, <3>3 DEF Remember, Refuse, rows
  <2> QED BY <2>1, <2>2, <2>3
<1>2. TaskIsHeld'
  <2>1. CASE CreateTask(r)
    BY <1>0, <2>1 DEF CreateTask, TaskIsHeld, RowInv, Go, Refuse, Answer, rows, BeforeTask, BeforeRun, TypeInv, TypeOK, Tasks
  <2>2. CASE UndoTask(r)
    BY <2>2 DEF UndoTask, TaskIsHeld, RowInv, Go, Answer, BeforeTask, BeforeRun, TypeInv, TypeOK, Tasks
  <2>3. CASE Mark(r)
    BY <2>3 DEF Mark, TaskIsHeld, RowInv, Go, Refuse, Answer, rows, BeforeTask, BeforeRun, TypeInv, TypeOK, Tasks, TaskExists
  <2>4. CASE task' = task /\ held' = held
    <3> SUFFICES ASSUME task # NoRow PROVE pc'[task.id] \notin BeforeTask
      BY <2>4 DEF TaskIsHeld, RowInv
    <3>1. task.id \in Requests /\ pc[task.id] \notin BeforeTask
      BY DEF RowInv, TaskIsHeld, TypeInv, TypeOK, Tasks
    <3> QED BY <3>1, NoWayBack, OthersUntouched
  <2> QED BY <2>1, <2>2, <2>3, <2>4, KeyRowsWritten
<1>3. Remains'
  <2> SUFFICES ASSUME NEW k \in Requests, answer'[k] = "unavailable"
               PROVE  OnlyFailuresRemain(k)'
    BY DEF Remains
  <2>1. CASE k # r
    <3>1. answer[k] = "unavailable" /\ OnlyFailuresRemain(k)
      BY <2>1, OthersUntouched DEF RowInv, Remains
    <3>2. /\ k \in actions' \cup executed' => LeftBehind(k, "action")'
          /\ k \in recorded' => LeftBehind(k, "record")'
          /\ k \in runs' => LeftBehind(k, "state")'
          /\ \A role \in Roles : <<k, role>> \notin messages'
      BY <2>1, <3>1, OthersUntouched DEF OnlyFailuresRemain, Residues
    <3>3. task' # NoRow /\ task'.id = k => task # NoRow /\ task.id = k
      BY <2>1, KeyRowsWritten DEF CreateTask, UndoTask, Mark, Refuse, rows, Tasks, TypeInv, TypeOK, TaskExists
    <3>4. LeftBehind(k, "task") => LeftBehind(k, "task")'
      BY <2>1, OthersUntouched DEF Residues
    <3> QED BY <3>1, <3>2, <3>3, <3>4 DEF OnlyFailuresRemain
  <2>2. CASE k = r
    <3>1. UndoTask(r)
      BY <1>0, <2>2, AnswersUnavailable
    <3>2. UNCHANGED <<actions, executed, recorded, runs, messages>> /\ left \subseteq left' /\ pc[r] = "untask"
      BY <3>1 DEF UndoTask, Leave
    <3>3. task' # NoRow /\ task'.id = r => LeftBehind(r, "task")'
      BY <3>1 DEF UndoTask, Leave, LeftBehind, RowInv, TaskIsHeld, TaskExists
    <3> QED BY <1>0, <2>2, <3>2, <3>3 DEF PlaceOK, Undoing, OnlyFailuresRemain, LeftBehind
  <2> QED BY <2>1, <2>2
<1> QED BY <1>1, <1>2, <1>3

\* Beside the requests only the approver has an effect, and only a deletion
\* removes a message or the row of the key.
LEMMA RowOutside ==
    ASSUME TypeInv, RowInv,
           UNCHANGED <<runs, recorded, actions, left, task, held, result, mode, answer, pc>>,
           executed' = executed \/ (approving # NoRow /\ executed' = executed \cup {approving}),
           \/ remembered' = remembered /\ messages' = messages
           \/ remembered' = NoRow /\ messages' = messages
           \/ remembered' = remembered /\ messages' = {} /\ ~NamesMessage
    PROVE  RowInv'
<1>1. executed' \subseteq executed \cup actions /\ executed \subseteq executed'
  BY DEF TypeInv, ApproverHoldsAction
<1>2. messages' \subseteq messages
  OBVIOUS
<1>3. ASSUME NEW r \in Requests PROVE PlaceOK(r)'
  BY <1>1, <1>2 DEF RowInv, PlaceOK, ResultTells, LeftBehind
<1>4. RowIsTrue' /\ RowIsOld'
  BY <1>1 DEF RowInv, RowIsTrue, RowTellsTruth, RowHasMessage, NamesMessage, RowIsOld
<1>5. TaskIsHeld' /\ Remains'
  BY <1>1, <1>2 DEF RowInv, TaskIsHeld, Remains, OnlyFailuresRemain, LeftBehind
<1> QED BY <1>3, <1>4, <1>5 DEF RowInv

LEMMA RowBegin ==
    ASSUME TypeInv, RowInv, NEW r \in Requests, NEW c \in Calls, Begin(r, c)
    PROVE  RowInv'
<1>1. /\ pc[r] = "idle" /\ UNCHANGED <<rows, held, result>>
      /\ pc'[r] \in {"lookup", "done"}
      /\ answer'[r] # "none" => pc'[r] = "done"
      /\ answer'[r] # "unavailable"
      /\ \A k \in Requests \ {r} : pc'[k] = pc[k] /\ answer'[k] = answer[k] /\ mode'[k] = mode[k]
  BY DEF Begin, Refuse, Answer, Go, TypeInv, TypeOK, RowInv, PlaceOK
<1>2. ASSUME NEW k \in Requests PROVE PlaceOK(k)'
  BY <1>1 DEF rows, RowInv, PlaceOK, ResultTells, LeftBehind, BeforeTask, BeforeRun, BeforeEffect, Undoing, WithRecord, WithRun, WithTask, Writing
<1>3. RowIsTrue' /\ RowIsOld' /\ TaskIsHeld' /\ Remains'
  BY <1>1 DEF rows, RowInv, RowIsTrue, RowTellsTruth, RowHasMessage, NamesMessage, RowIsOld, TaskIsHeld,
          Remains, OnlyFailuresRemain, LeftBehind, BeforeTask, TypeInv, TypeOK, Records, Tasks
<1> QED BY <1>2, <1>3 DEF RowInv

LEMMA RowCrash ==
    ASSUME TypeInv, RowInv, NEW r \in Requests, Crash(r)
    PROVE  RowInv'
<1>1. /\ UNCHANGED <<rows, held, result, answer, mode>>
      /\ pc' = [pc EXCEPT ![r] = "done"]
  BY DEF Crash, Go
<1>2. ASSUME NEW k \in Requests PROVE PlaceOK(k)'
  BY <1>1 DEF rows, TypeInv, TypeOK, RowInv, PlaceOK, ResultTells, LeftBehind, BeforeTask, BeforeRun, BeforeEffect, Undoing, WithRecord, WithRun, WithTask, Writing
<1>3. RowIsTrue' /\ RowIsOld' /\ TaskIsHeld' /\ Remains'
  BY <1>1 DEF rows, RowInv, RowIsTrue, RowTellsTruth, RowHasMessage, NamesMessage, RowIsOld, TaskIsHeld,
          Remains, OnlyFailuresRemain, LeftBehind, BeforeTask, TypeInv, TypeOK, Records, Tasks
<1> QED BY <1>2, <1>3 DEF RowInv

LEMMA RowStep == TypeInv /\ RowInv /\ [Next]_vars => RowInv'
<1> SUFFICES ASSUME TypeInv, RowInv, [Next]_vars PROVE RowInv'
  OBVIOUS
<1>1. ASSUME NEW r \in Requests, NEW c \in Calls, Begin(r, c) PROVE RowInv'
  BY <1>1, RowBegin
<1>2. ASSUME NEW r \in Requests, RequestStep(r) PROVE RowInv'
  BY <1>2, RowPlaces, RowRest DEF RowInv
<1>3. ASSUME NEW r \in Requests, Crash(r) PROVE RowInv'
  BY <1>3, RowCrash
<1>4. ASSUME NEW r \in Requests, EnsureResume(r) PROVE RowInv'
  BY <1>4, RowOutside DEF EnsureResume, rows, locals
<1>5. CASE Resume
  BY <1>5, RowOutside DEF Resume, locals
<1>6. CASE (\E m \in Modes : SetMode(m)) \/ Archive \/ AskDelete \/ CrashDelete
  BY <1>6, RowOutside DEF SetMode, Archive, AskDelete, CrashDelete, rows, locals
<1>7. CASE DeleteStep
  BY <1>7, RowOutside DEF DeleteStep, DeleteKeys, DeleteContent, locals
<1>8. CASE UNCHANGED vars
  BY <1>8, RowOutside DEF vars, rows, locals
<1> QED BY <1>1, <1>2, <1>3, <1>4, <1>5, <1>6, <1>7, <1>8 DEF Next

LEMMA RowsCorrect == Spec => [](TypeInv /\ RowInv)
BY TypeInit, TypeStep, RowInit, RowStep, PTL DEF Spec

\* Whatever the requests, the owner, the approver and crashes do, the row of
\* the key tells the truth about the run it names, whose message is there.
THEOREM RowsAreTrue == Spec => []RowIsTrue
<1>1. RowInv => RowIsTrue
  BY DEF RowInv
<1> QED BY <1>1, RowsCorrect, PTL

-----------------------------------------------------------------------------
(*                  One request after the other (calm)                     *)

LEMMA CalmInit == Init => CalmInv
<1> SUFFICES ASSUME Init PROVE CalmInv
  OBVIOUS
<1>1. OneAtATime /\ \A r \in Requests : SeesItsRows(r)
  BY DEF Init, OneAtATime, SeesItsRows, Active, WithTask, Undoing
<1>2. Effects = {}
  BY DEF Init, Effects
<1>3. \A r \in Requests, what \in Residues : ~LeftBehind(r, what)
  BY DEF Init, LeftBehind
<1>4. /\ deletion = "none" /\ approving = NoRow /\ runs = {} /\ executed = {}
      /\ ~conversation.deleted
  BY DEF Init
<1> QED BY <1>1, <1>2, <1>3, <1>4 DEF CalmInv

\* What a request in progress can rely on.
LEMMA AloneFacts ==
    ASSUME TypeInv, RowInv, CalmInv, NEW r \in Requests, RequestStep(r)
    PROVE  /\ Active(r) /\ PlaceOK(r) /\ SeesItsRows(r)
           /\ UNCHANGED conversation /\ ~conversation.deleted
           /\ UNCHANGED others /\ deletion # "content" /\ approving = NoRow
           /\ \A k \in Requests \ {r} : ~Active(k) /\ ~Active(k)'
           /\ pc[r] \notin {"lookup", "rebuild"} => remembered = NoRow
<1>1. Active(r) /\ UNCHANGED others
  BY KeyRowsWritten
<1>2. UNCHANGED conversation
  BY DEF Refuse, Conclude, rows, RequestStep, Lookup, Rebuild, CreateTask, StartRead, StartRun, Gates, Execute, Persist,
         UndoRun, UndoState, UndoTask, Leave, Mark, Append, AppendRead, AppendInsert, Remember
<1>3. \A k \in Requests \ {r} : ~Active(k) /\ pc'[k] = pc[k]
  BY <1>1, OthersUntouched DEF CalmInv, OneAtATime
<1> QED BY <1>1, <1>2, <1>3 DEF CalmInv, OneAtATime, SeesItsRows, RowInv, Active

\* A request goes on seeing the rows as it left them.
LEMMA CalmSees ==
    ASSUME TypeInv, RowInv, CalmInv, NEW r \in Requests, RequestStep(r)
    PROVE  SeesItsRows(r)'
<1> USE AloneFacts DEF Refuse, Answer, Conclude, Go, TypeInv, TypeOK, Pcs, rows, others, SeesItsRows, LeftBehind, Active, WithTask, Undoing
<1>1. CASE Lookup(r)
  BY <1>1 DEF Lookup
<1>2. CASE Rebuild(r)
  BY <1>2 DEF Rebuild
<1>3. CASE CreateTask(r)
  <2>1. CASE task = NoRow
    <3>1. \A k \in runs : <<k, "state">> \in left
      BY <2>1 DEF CalmInv, TaskExists
    <3>2. TaskExists(r)' /\ UNCHANGED <<runs, left>>
      <4>1. task' \in Tasks
        BY <1>3, <2>1 DEF CreateTask, Tasks, PlaceTyped
      <4> QED BY <1>3, <2>1, <4>1, NoRowAssumption DEF CreateTask, TaskExists
    <3> QED BY <1>3, <2>1, <3>1, <3>2 DEF CreateTask
  <2>2. CASE task # NoRow /\ task.call = call[r]
    <3>1. task.id # r
      BY <1>3, <2>2 DEF CreateTask, RowInv, TaskIsHeld, BeforeTask
    <3>2. TaskExists(r)' /\ held'[r] # r
      BY <1>3, <2>2, <3>1 DEF CreateTask, TaskExists
    <3> QED BY <1>3, <2>2, <3>2 DEF CreateTask
  <2>3. CASE task # NoRow /\ task.call # call[r]
    BY <1>3, <2>3 DEF CreateTask
  <2> QED BY <2>1, <2>2, <2>3
<1>4. CASE StartRead(r)
  BY <1>4 DEF StartRead, TaskExists
<1>5. CASE StartRun(r)
  BY <1>5 DEF StartRun, TaskExists
<1>6. CASE Gates(r)
  BY <1>6 DEF Gates, TaskExists
<1>7. CASE Execute(r)
  BY <1>7 DEF Execute
<1>8. CASE Persist(r)
  BY <1>8 DEF Persist, Leave, TaskExists
<1>9. CASE UndoRun(r)
  BY <1>9 DEF UndoRun, Leave, TaskExists
<1>10. CASE UndoState(r) \/ UndoTask(r)
  BY <1>10 DEF UndoState, UndoTask, Leave, TaskExists
<1>11. CASE Mark(r)
  BY <1>11 DEF Mark
<1>12. CASE Append(r)
  BY <1>12 DEF Append, AppendRead, AppendInsert
<1>13. CASE Remember(r)
  BY <1>13 DEF Remember
<1> QED BY <1>1, <1>2, <1>3, <1>4, <1>5, <1>6, <1>7, <1>8, <1>9, <1>10, <1>11, <1>12, <1>13 DEF RequestStep

\* The effect of a request that ends is remembered, unless the conversation was
\* archived; one that is refused had none.
LEMMA EndIsKnown ==
    ASSUME TypeInv, RowInv, CalmInv, NEW r \in Requests, RequestStep(r), r \in Effects'
    PROVE  /\ EffectIsKnown(r)'
           /\ answer'[r] = "refused" => conversation.archived
<1> USE AloneFacts DEF Active
<1>1. CASE Remember(r)
  <2>1. pc[r] = "remember"
    BY <1>1 DEF Remember
  <2>2. r \in Effects
    BY <1>1 DEF Remember, Refuse, rows, Effects, LeftBehind
  <2>3. r \in runs /\ ~Dangling(r)
    BY <2>1, <2>2 DEF PlaceOK, ResultTells, Effects, TypeInv, PlaceTyped, Outcomes, SeesItsRows, Dangling, Result
  <2>4. remembered' = Result(r) /\ answer' = [answer EXCEPT ![r] = result[r]]
    BY <1>1, <2>1, <2>3 DEF Remember, Answer
  <2>5. Result(r) \in Records
    BY <2>1 DEF Result, Records, TypeInv, PlaceTyped
  <2> QED BY <2>1, <2>3, <2>4, <2>5, NoRowAssumption DEF EffectIsKnown, Result, TypeInv, TypeOK, PlaceTyped, Outcomes
<1>2. CASE ~Remember(r) /\ pc'[r] = "done"
  <2>1. r \in Effects /\ pc[r] \in Writing \cup {"mark"}
    BY <1>2 DEF LeftBehind, Undoing, RequestStep, Lookup, Rebuild, CreateTask, StartRead, StartRun, Gates, Execute, Persist,
         UndoRun, UndoState, UndoTask, Leave, Mark, Append, AppendRead, AppendInsert, Remember, Refuse, Answer, Conclude, Go, rows, PlaceOK, Effects, BeforeTask, BeforeRun, BeforeEffect, Writing, TypeInv, TypeOK, Pcs
  <2>2. conversation.archived
    BY <1>2, <2>1 DEF RequestStep, Lookup, Rebuild, CreateTask, StartRead, StartRun, Gates, Execute, Persist,
         UndoRun, UndoState, UndoTask, Leave, Mark, Append, AppendRead, AppendInsert, Remember, Conclude, Go, SeesItsRows, WithTask, Undoing, Writing, Open, TypeInv, TypeOK
  <2> QED BY <2>1, <2>2 DEF EffectIsKnown, PlaceOK, WithTask, WithRun, WithRecord, Writing, SeesItsRows
<1>3. CASE pc'[r] # "done"
  <2>1. answer'[r] # "refused" /\ pc'[r] # "idle"
    BY <1>3 DEF RequestStep, Lookup, Rebuild, CreateTask, StartRead, StartRun, Gates, Execute, Persist,
         UndoRun, UndoState, UndoTask, Leave, Mark, Append, AppendRead, AppendInsert, Remember, Refuse, Answer, Conclude, Go, PlaceOK, TypeInv, TypeOK
  <2> QED BY <1>3, <2>1 DEF EffectIsKnown
<1> QED BY <1>1, <1>2, <1>3

LEMMA CalmRequest ==
    ASSUME TypeInv, RowInv, CalmInv, NEW r \in Requests, RequestStep(r)
    PROVE  CalmInv'
<1> USE AloneFacts
<1>1. OneAtATime'
  BY DEF OneAtATime, others
<1>2. ASSUME NEW k \in Requests PROVE SeesItsRows(k)'
  BY CalmSees DEF SeesItsRows, Active, WithTask, Undoing
<1>3. \A k \in Requests \ {r} : k \in Effects' <=> k \in Effects
  BY OthersUntouched DEF Effects, Residues
<1>4. ASSUME NEW k \in Requests \ {r}, k \in Effects
      PROVE  \/ remembered # NoRow /\ remembered.run = k /\ remembered' = remembered
             \/ conversation.archived /\ conversation.mode # "ask"
  BY <1>4, KeyRowsWritten DEF CalmInv, EffectIsKnown, Remember
<1>5. Effects' \subseteq Requests /\ Effects \subseteq Requests
  BY TypeRequest DEF TypeInv, TypeOK, Effects
<1>6. ASSUME NEW k \in Effects' PROVE EffectIsKnown(k)'
  BY <1>3, <1>4, <1>5, EndIsKnown DEF EffectIsKnown
<1>7. ASSUME ~conversation.archived, NEW k \in Effects', NEW q \in Effects' PROVE k = q
  <2>1. ASSUME NEW x \in Effects \ {r} PROVE r \notin Effects'
    <3>1. r \notin Effects
      BY <1>7, <2>1 DEF CalmInv
    <3>2. pc[r] \in {"lookup", "rebuild"}
      BY <1>4, <1>7, <2>1, <1>5, <1>3
    <3> QED BY <3>1, <3>2 DEF RequestStep, Lookup, Rebuild, CreateTask, StartRead, StartRun, Gates, Execute, Persist,
         UndoRun, UndoState, UndoTask, Leave, Mark, Append, AppendRead, AppendInsert, Remember, Refuse, Conclude, rows, Effects, LeftBehind
  <2> QED BY <1>3, <1>5, <1>7, <2>1 DEF CalmInv
<1>8. ASSUME ~conversation.archived, NEW k \in Requests, answer'[k] = "refused" PROVE k \notin Effects'
  BY <1>3, <1>8, EndIsKnown, OthersUntouched DEF CalmInv
<1>9. ASSUME NEW k \in runs' PROVE TaskExists(k)' \/ LeftBehind(k, "state")'
  <2>1. k \in Requests /\ k \in runs \cup {r}
    BY OthersUntouched, TypeRequest DEF TypeInv, TypeOK
  <2>2. left \subseteq left'
    BY DEF RequestStep, Lookup, Rebuild, CreateTask, StartRead, StartRun, Gates, Execute, Persist,
         UndoRun, UndoState, UndoTask, Leave, Mark, Append, AppendRead, AppendInsert, Remember, Refuse, Conclude, rows
  <2>3. CASE CreateTask(r)
    BY <2>1, <2>2, <2>3 DEF CreateTask, Refuse, rows, CalmInv, TaskExists, PlaceOK, LeftBehind, BeforeTask, BeforeRun, TypeInv, TypeOK
  <2>4. CASE UndoTask(r)
    <3>1. pc[r] = "untask" /\ runs' = runs /\ held' = held
      BY <2>4 DEF UndoTask
    <3>2. TaskExists(k) \/ <<k, "state">> \in left
      BY <3>1 DEF CalmInv, LeftBehind
    <3>3. held[r] = r => <<k, "state">> \in left
      BY <3>1 DEF SeesItsRows, WithTask, Undoing, PlaceOK, LeftBehind
    <3>4. held[r] = r \/ task' = task
      BY <2>4 DEF UndoTask
    <3> QED BY <2>2, <3>1, <3>2, <3>3, <3>4 DEF TaskExists, LeftBehind
  <2>5. CASE Mark(r)
    <3>1. task' \in Tasks \/ task' = task
      BY <2>5 DEF Mark, Refuse, rows, TaskExists, TypeInv, TypeOK, Tasks
    <3>2. runs' = runs /\ held' = held /\ (task' = task \/ task'.id = task.id)
      BY <2>5 DEF Mark, Refuse, rows, TaskExists, TypeInv, TypeOK, Tasks
    <3> QED BY <2>1, <2>2, <3>1, <3>2, NoRowAssumption DEF CalmInv, TaskExists, LeftBehind
  <2>6. CASE StartRun(r)
    BY <2>1, <2>2, <2>6 DEF StartRun, CalmInv, TaskExists, SeesItsRows, WithTask, LeftBehind
  <2>7. CASE ~CreateTask(r) /\ ~UndoTask(r) /\ ~Mark(r) /\ ~StartRun(r)
    <3>1. runs' \subseteq runs
      BY <2>7 DEF RequestStep, Lookup, Rebuild, StartRead, Gates, Execute, Persist,
         UndoRun, UndoState, Leave, Append, AppendRead, AppendInsert, Remember, Refuse, Conclude, rows
    <3> QED BY <2>2, <2>7, <3>1, KeyRowsWritten DEF CalmInv, TaskExists, LeftBehind
  <2> QED BY <2>3, <2>4, <2>5, <2>6, <2>7
<1>10. ASSUME NEW k \in Requests, NEW what \in Residues, LeftBehind(k, what)'
       PROVE  Active(k)' \/ answer'[k] = "unavailable"
  <2>1. CASE k # r
    BY <1>10, <2>1, OthersUntouched DEF CalmInv
  <2>2. CASE k = r /\ Active(r)'
    BY <2>2
  <2>3. CASE k = r /\ ~Active(r)'
    <3>1. pc[r] \in Undoing \cup {"done"} \/ ~LeftBehind(r, what)
      BY DEF PlaceOK
    <3>2. Persist(r) => Active(r)'
      BY DEF Persist, Go, Active, TypeInv, TypeOK
    <3>3. UndoRun(r) \/ UndoState(r) => Active(r)'
      BY DEF UndoRun, UndoState, Go, Active, TypeInv, TypeOK
    <3>4. UndoTask(r) => answer'[r] = "unavailable"
      BY DEF UndoTask, Answer, TypeInv, TypeOK
    <3>5. pc[r] \in Undoing => UndoRun(r) \/ UndoState(r) \/ UndoTask(r)
      BY DEF Undoing, RequestStep, Lookup, Rebuild, CreateTask, StartRead, StartRun, Gates, Execute, Persist,
             Mark, Append, AppendRead, AppendInsert, Remember
    <3>6. pc[r] # "done"
      BY DEF Active
    <3>7. ~Persist(r) /\ ~UndoRun(r) /\ ~UndoState(r) /\ ~UndoTask(r) => left' = left
      BY DEF RequestStep, Lookup, Rebuild, CreateTask, StartRead, StartRun, Gates, Execute,
             Mark, Append, AppendRead, AppendInsert, Remember, Refuse, Conclude, rows
    <3> QED BY <1>10, <2>3, <3>1, <3>2, <3>3, <3>4, <3>5, <3>6, <3>7 DEF LeftBehind
  <2> QED BY <2>1, <2>2, <2>3
<1>11. ASSUME NEW k \in executed', LeftBehind(k, "action")'
       PROVE  answer'[k] = "unavailable" /\ LeftBehind(k, "record")' /\ LeftBehind(k, "state")'
  <2>0. k \in Requests
    BY TypeRequest DEF TypeInv, TypeOK
  <2>1. CASE k # r
    BY <1>11, <2>0, <2>1, OthersUntouched DEF CalmInv, Residues
  <2>2. CASE k = r
    <3>1. LeftBehind(r, "action") => r \notin executed
      BY DEF CalmInv, PlaceOK, Active
    <3>2. Persist(r) => r \notin executed'
      BY DEF Persist, PlaceOK, BeforeEffect
    <3>3. Execute(r) => ~LeftBehind(r, "action")'
      BY DEF Execute, PlaceOK, Undoing, LeftBehind, Residues
    <3>4. ~Persist(r) => (LeftBehind(r, "action")' => LeftBehind(r, "action"))
      BY DEF RequestStep, Lookup, Rebuild, CreateTask, StartRead, StartRun, Gates, Execute, UndoRun, UndoState,
             UndoTask, Leave, Mark, Append, AppendRead, AppendInsert, Remember, Refuse, Conclude, rows, LeftBehind
    <3>5. ~Execute(r) => executed' = executed
      BY DEF RequestStep, Lookup, Rebuild, CreateTask, StartRead, StartRun, Gates, Persist, UndoRun, UndoState,
             UndoTask, Leave, Mark, Append, AppendRead, AppendInsert, Remember, Refuse, Conclude, rows
    <3> QED BY <1>11, <2>2, <3>1, <3>2, <3>3, <3>4, <3>5
  <2> QED BY <2>1, <2>2
<1> QED BY <1>1, <1>2, <1>6, <1>7, <1>8, <1>9, <1>10, <1>11 DEF CalmInv, others

LEMMA CalmBegin ==
    ASSUME TypeInv, RowInv, CalmInv, NEW r \in Requests, NEW c \in Calls, Begin(r, c), calm'
    PROVE  CalmInv'
<1>1. Quiet /\ pc[r] = "idle" /\ UNCHANGED <<rows, held, result, deletion, approving>>
  BY ComeInCalm DEF Begin, Refuse, TypeInv, TypeOK
<1>2. \A k \in Requests : ~Active(k)
  BY <1>1 DEF Quiet, Active
<1>3. /\ \A k \in Requests \ {r} : pc'[k] = pc[k] /\ answer'[k] = answer[k]
      /\ \/ pc'[r] = "done"
         \/ pc'[r] = "lookup" /\ ~conversation.deleted /\ mode'[r] = conversation.mode
  BY DEF Begin, Refuse, Answer, Go, TypeInv, TypeOK
<1>4. r \notin Effects
  BY <1>1 DEF RowInv, PlaceOK, Effects, BeforeTask, BeforeRun, BeforeEffect
<1>5. OneAtATime'
  BY <1>1, <1>2, <1>3 DEF OneAtATime, Quiet, Active
<1>6. ASSUME NEW k \in Requests PROVE SeesItsRows(k)'
  BY <1>1, <1>2, <1>3 DEF SeesItsRows, Active, WithTask, Undoing, rows
<1>7. ASSUME NEW k \in Effects PROVE EffectIsKnown(k)'
  BY <1>1, <1>2, <1>4, <1>7 DEF CalmInv, EffectIsKnown, rows, Effects, TypeInv, TypeOK
<1>8. Effects' = Effects /\ \A k \in runs : TaskExists(k)' \/ LeftBehind(k, "state")'
  BY <1>1 DEF CalmInv, Effects, rows, TaskExists, LeftBehind
<1>9. \A what \in Residues : ~LeftBehind(r, what)
  BY <1>1 DEF RowInv, PlaceOK, Undoing
<1>10. \A k \in Requests, what \in Residues :
          LeftBehind(k, what)' => Active(k)' \/ answer'[k] = "unavailable"
  BY <1>1, <1>2, <1>3, <1>9 DEF CalmInv, rows, LeftBehind
<1>11. \A k \in executed' : LeftBehind(k, "action")' =>
          answer'[k] = "unavailable" /\ LeftBehind(k, "record")' /\ LeftBehind(k, "state")'
  BY <1>1, <1>3, <1>9 DEF CalmInv, rows, LeftBehind, Residues, TypeInv, TypeOK
<1>12. /\ ~conversation.archived => \A k \in Requests : answer'[k] = "refused" => k \notin Effects'
       /\ approving = NoRow /\ deletion # "content"
  BY <1>1, <1>3, <1>4, <1>8 DEF CalmInv, Quiet
<1> QED BY <1>1, <1>5, <1>6, <1>7, <1>8, <1>10, <1>11, <1>12 DEF CalmInv, rows

LEMMA CalmOwner ==
    ASSUME TypeInv, RowInv, CalmInv, calm',
           (\E m \in Modes : SetMode(m)) \/ Archive \/ AskDelete \/ DeleteStep
    PROVE  CalmInv'
<1>1. UNCHANGED <<task, runs, actions, executed, left, locals, approving>>
  BY DEF SetMode, Archive, AskDelete, DeleteStep, DeleteKeys, DeleteContent, rows
<1>2. Effects' = Effects
  BY <1>1 DEF Effects, LeftBehind, locals
<1> USE <1>1, <1>2 DEF locals, CalmInv, OneAtATime, SeesItsRows, EffectIsKnown, Active, TaskExists, LeftBehind
<1>3. CASE (\E m \in Modes : SetMode(m)) \/ Archive
  <2>1. Quiet /\ Open /\ UNCHANGED <<remembered, messages, deletion>>
    BY <1>3, ComeInCalm DEF SetMode, Archive, OwnerMay, TypeInv, TypeOK
  <2>2. conversation'.deleted = conversation.deleted
    BY <1>3 DEF SetMode, Archive, TypeInv, TypeOK, Conversations
  <2> QED BY <2>1, <2>2 DEF Quiet, Open, WithTask, Undoing
<1>4. CASE AskDelete
  BY <1>4 DEF AskDelete, rows
<1>5. CASE DeleteKeys
  <2>1. Quiet
    BY <1>5, ComeInCalm DEF DeleteKeys, TypeInv, TypeOK
  <2> QED BY <1>5, <2>1 DEF DeleteKeys, Quiet, WithTask, Undoing
<1>6. CASE DeleteContent
  <2>1. /\ remembered' = NoRow /\ messages' = {}
        /\ conversation' = [conversation EXCEPT !.deleted = TRUE] /\ deletion' = "done"
        /\ \A k \in Requests : ~Active(k)
    BY <1>6 DEF DeleteContent, NamesMessage
  <2>2. conversation'.deleted
    BY <2>1 DEF TypeInv, TypeOK, Conversations
  <2> QED BY <2>1, <2>2 DEF WithTask, Undoing
<1> QED BY <1>3, <1>4, <1>5, <1>6 DEF DeleteStep

LEMMA CalmApprover ==
    ASSUME TypeInv, RowInv, CalmInv, calm', (\E r \in Requests : EnsureResume(r)) \/ Resume
    PROVE  CalmInv'
<1>1. UNCHANGED <<conversation, remembered, task, runs, recorded, actions, messages, left, locals, deletion>>
  BY DEF EnsureResume, Resume, rows
<1>2. Effects' = Effects /\ \A k \in runs : TaskExists(k)' \/ LeftBehind(k, "state")'
  BY <1>1 DEF CalmInv, Effects, TaskExists, LeftBehind, locals, EnsureResume, Resume, rows, TypeInv, ApproverHoldsAction
<1>3. ASSUME NEW k \in Requests PROVE SeesItsRows(k)'
  BY <1>1 DEF CalmInv, SeesItsRows, TaskExists, LeftBehind, Active, locals
<1>4. ASSUME NEW k \in Effects PROVE EffectIsKnown(k)'
  BY <1>1, <1>4 DEF CalmInv, EffectIsKnown, Active, locals
<1>5. ASSUME NEW r \in Requests, EnsureResume(r)
      PROVE  /\ approving' = r /\ executed' = executed
             /\ OneAtATime'
             /\ ~LeftBehind(r, "action") /\ ~conversation.deleted => conversation.mode # "ask"
  <2>1. Quiet /\ r \in actions /\ approving' = r /\ executed' = executed
    BY <1>5, ComeInCalm DEF EnsureResume, rows, TypeInv, TypeOK
  <2>2. ~Active(r) /\ deletion # "content" /\ (~LeftBehind(r, "action") => EffectIsKnown(r))
    BY <2>1 DEF CalmInv, Effects, Quiet, Active
  <2>3. ~LeftBehind(r, "action") /\ ~conversation.deleted => conversation.mode # "ask"
    BY <1>5, <2>2 DEF EnsureResume, EffectIsKnown
  <2>4. OneAtATime'
    BY <1>1, <2>1 DEF Quiet, OneAtATime, Active, locals
  <2> QED BY <2>1, <2>3, <2>4
<1>6. CASE Resume
  <2>1. OneAtATime' /\ approving' = NoRow
    BY <1>1, <1>6 DEF Resume, CalmInv, OneAtATime, Active, locals
  <2>2. ASSUME NEW k \in executed', LeftBehind(k, "action")
        PROVE  answer[k] = "unavailable" /\ LeftBehind(k, "record") /\ LeftBehind(k, "state")
    <3>1. CASE k \in executed
      BY <2>2, <3>1 DEF CalmInv
    <3>2. CASE k \notin executed
      <4>1. k = approving /\ Decidable(k) /\ k \in Requests
        BY <1>6, <2>2, <3>2 DEF Resume, TypeInv, TypeOK
      <4>2. ~Active(k) /\ answer[k] = "unavailable"
        BY <1>6, <2>2, <4>1 DEF Resume, CalmInv, OneAtATime, Residues
      <4> QED BY <4>1, <4>2 DEF Decidable, RowInv, Remains, OnlyFailuresRemain
    <3> QED BY <3>1, <3>2
  <2>3. /\ \A k \in executed' : LeftBehind(k, "action")' =>
              answer'[k] = "unavailable" /\ LeftBehind(k, "record")' /\ LeftBehind(k, "state")'
        /\ \A k \in Requests, what \in Residues :
              LeftBehind(k, what)' => Active(k)' \/ answer'[k] = "unavailable"
    BY <1>1, <2>2 DEF CalmInv, LeftBehind, Active, locals
  <2> QED BY <1>1, <1>2, <1>3, <1>4, <2>1, <2>3 DEF CalmInv, locals
<1>7. ASSUME NEW r \in Requests, EnsureResume(r) PROVE CalmInv'
  <2>1. executed' = executed /\ approving' = r /\ OneAtATime'
        /\ (~LeftBehind(r, "action") /\ ~conversation.deleted => conversation.mode # "ask")
    BY <1>5, <1>7
  <2>2. /\ \A k \in executed' : LeftBehind(k, "action")' =>
              answer'[k] = "unavailable" /\ LeftBehind(k, "record")' /\ LeftBehind(k, "state")'
        /\ \A k \in Requests, what \in Residues :
              LeftBehind(k, what)' => Active(k)' \/ answer'[k] = "unavailable"
        /\ ~LeftBehind(r, "action")' /\ ~conversation'.deleted => conversation'.mode # "ask"
    BY <1>1, <2>1 DEF CalmInv, LeftBehind, Active, locals
  <2> QED BY <1>1, <1>2, <1>3, <1>4, <2>1, <2>2 DEF CalmInv, locals
<1> QED BY <1>6, <1>7

LEMMA CalmStep == TypeInv /\ RowInv /\ (calm => CalmInv) /\ [Next]_vars => (calm => CalmInv)'
<1> SUFFICES ASSUME TypeInv, RowInv, calm => CalmInv, [Next]_vars, calm' PROVE CalmInv'
  OBVIOUS
<1>1. CASE UNCHANGED vars
  BY <1>1 DEF vars, rows, locals, others, CalmInv, OneAtATime, SeesItsRows, EffectIsKnown, Active, Effects, TaskExists, LeftBehind
<1>2. CASE Next
  <2>1. calm
    BY <1>2, ComeInCalm, KeyRowsWritten
       DEF Next, Begin, Crash, EnsureResume, Resume, SetMode, Archive, OwnerMay, AskDelete,
           DeleteStep, DeleteKeys, DeleteContent, CrashDelete, others, TypeInv, TypeOK
  <2>2. ASSUME NEW r \in Requests PROVE ~Crash(r) /\ ~CrashDelete
    BY DEF Crash, CrashDelete
  <2>3. ~CrashDelete
    BY DEF CrashDelete
  <2> QED BY <1>2, <2>1, <2>2, <2>3, CalmBegin, CalmRequest, CalmOwner, CalmApprover DEF Next
<1> QED BY <1>1, <1>2

LEMMA EverythingHolds == Spec => []IInv
<1>1. Init => IInv
  BY TypeInit, RowInit, CalmInit DEF IInv
<1>2. IInv /\ [Next]_vars => IInv'
  BY TypeStep, RowStep, CalmStep DEF IInv
<1> QED BY <1>1, <1>2, PTL DEF Spec

\* What remains of a request answered 503 is what a failed deletion left, or an
\* action whose storing was not answered; its call is executed, one after the
\* other, only if neither its record nor its state could be deleted either.
THEOREM UnavailableLeavesNothing == Spec => []NothingLeftBehind
<1>1. IInv => NothingLeftBehind
  <2> SUFFICES ASSUME IInv, NEW r \in Requests, answer[r] = "unavailable"
               PROVE  /\ OnlyFailuresRemain(r)
                      /\ calm /\ r \in executed =>
                            \A what \in {"action", "record", "state"} : LeftBehind(r, what)
    BY DEF NothingLeftBehind
  <2>1. OnlyFailuresRemain(r)
    BY DEF IInv, RowInv, Remains
  <2>2. calm /\ r \in executed => LeftBehind(r, "record") /\ LeftBehind(r, "state")
    BY <2>1 DEF IInv, CalmInv, OnlyFailuresRemain
  <2> QED BY <2>1, <2>2 DEF OnlyFailuresRemain
<1> QED BY <1>1, EverythingHolds, PTL

\* As long as nothing overlaps, nobody dies and the conversation is not
\* archived, a key executes once, 503s aside, and a refused request has no
\* effect; until something overlaps a deletion leaves nothing, and a run keeps
\* its task unless the undoing of its request could not delete its state.
THEOREM PromisesHold == Spec => []PromisesHoldInTurn
<1>1. IInv => PromisesHoldInTurn
  <2> SUFFICES ASSUME IInv, calm PROVE PromisesHoldInTurn
    BY DEF PromisesHoldInTurn, KeyExecutesOnceInTurn, OpenRefusalHasNoEffect, DeletedIsEmpty, RunHasTask
  <2>1. Answered \subseteq Effects
    BY DEF Answered, Effects, IInv, CalmInv
  <2>2. ~conversation.archived => Cardinality(Answered) <= 1
    <3> SUFFICES ASSUME ~conversation.archived PROVE Cardinality(Answered) <= 1
      OBVIOUS
    <3>1. CASE Answered = {}
      BY <3>1, FS_EmptySet
    <3>2. ASSUME NEW r \in Answered PROVE Cardinality(Answered) <= 1
      <4>1. Answered = {r}
        BY <2>1, <3>2 DEF IInv, CalmInv
      <4>2. Cardinality({r}) = 1
        BY FS_Singleton, Zenon
      <4> QED BY <4>1, <4>2
    <3> QED BY <3>1, <3>2
  <2>3. ~conversation.archived => RefusedWithoutEffect
    <3> SUFFICES ASSUME ~conversation.archived, NEW r \in executed, r \in Requests, answer[r] = "refused"
                 PROVE  FALSE
      BY DEF RefusedWithoutEffect
    <3>1. r \in Answered
      BY DEF Answered
    <3> QED BY <2>1, <3>1 DEF IInv, CalmInv
  <2>4. DeletedIsEmpty /\ RunHasTask
    BY DEF IInv, CalmInv, DeletedIsEmpty, RunHasTask
  <2> QED BY <2>2, <2>3, <2>4 DEF PromisesHoldInTurn, KeyExecutesOnceInTurn, OpenRefusalHasNoEffect
<1> QED BY <1>1, EverythingHolds, PTL

\* "Mode ask refuses every execution", where it starts and where an approval
\* resumes it, as long as nobody changes the mode of a request in progress, but
\* for an action a 503 left behind.
THEOREM AskRefuses == Spec => AskNeverExecutes
<1>1. IInv /\ [Next]_vars => [calm /\ ~conversation.deleted /\ conversation.mode = "ask"
                                => Answered' \subseteq Answered]_vars
  <2> SUFFICES ASSUME IInv, Next, calm, ~conversation.deleted, conversation.mode = "ask", NEW k \in Answered'
               PROVE  k \in Answered
    OBVIOUS
  <2>1. ASSUME NEW r \in Requests, RequestStep(r) PROVE ~Execute(r)
    BY <2>1 DEF Execute, IInv, CalmInv, SeesItsRows, Active, RowInv, PlaceOK, WithTask
  <2>2. k \in executed
    <3>1. CASE Resume
      <4>1. executed' = executed \/ executed' = executed \cup {approving}
        BY <3>1 DEF Resume
      <4>2. approving \in Requests /\ approving # NoRow
        BY <3>1, NoRowAssumption DEF Resume, IInv, TypeInv, TypeOK
      <4>3. LeftBehind(approving, "action") /\ ~Active(approving)
        BY <4>2 DEF IInv, CalmInv, OneAtATime
      <4>4. answer'[approving] = "unavailable"
        BY <3>1, <4>2, <4>3 DEF IInv, CalmInv, Residues, Resume, locals
      <4> QED BY <4>1, <4>4 DEF Answered
    <3>2. ASSUME NEW r \in Requests, RequestStep(r) PROVE k \in executed
      BY <2>1, <3>2 DEF RequestStep, Lookup, Rebuild, CreateTask, StartRead, StartRun, Gates, Persist, UndoRun, UndoState,
         UndoTask, Leave, Mark, Append, AppendRead, AppendInsert, Remember, Refuse, Conclude, rows, Answered
    <3>3. CASE ~Resume /\ \A r \in Requests : ~RequestStep(r)
      BY <3>3 DEF Next, Begin, Refuse, Crash, EnsureResume, SetMode, Archive, AskDelete, DeleteStep,
         DeleteKeys, DeleteContent, CrashDelete, rows, Answered
    <3> QED BY <3>1, <3>2, <3>3
  <2>3. answer[k] # "unavailable"
    <3>1. k \in Requests
      BY <2>2 DEF IInv, TypeInv, TypeOK
    <3> SUFFICES ASSUME answer[k] = "unavailable" PROVE answer'[k] = "unavailable"
      BY DEF Answered
    <3>2. pc[k] = "done"
      BY <3>1 DEF IInv, RowInv, PlaceOK
    <3>3. ASSUME NEW r \in Requests, RequestStep(r) PROVE answer'[k] = answer[k]
      <4>1. Active(r)
        BY <3>3, KeyRowsWritten DEF IInv
      <4>2. k # r
        BY <3>2, <4>1 DEF Active
      <4> QED BY <3>1, <3>3, <4>2, OthersUntouched DEF IInv
    <3>4. ASSUME NEW r \in Requests, NEW c \in Calls, Begin(r, c) PROVE answer'[k] = answer[k]
      BY <3>1, <3>2, <3>4 DEF Begin, Refuse, Answer, IInv, TypeInv, TypeOK
    <3>5. CASE \A r \in Requests : ~RequestStep(r) /\ \A c \in Calls : ~Begin(r, c)
      BY <3>5 DEF Next, Crash, EnsureResume, Resume, SetMode, Archive, AskDelete, DeleteStep,
         DeleteKeys, DeleteContent, CrashDelete, locals
    <3> QED BY <3>3, <3>4, <3>5
  <2> QED BY <2>2, <2>3 DEF Answered
<1> QED BY <1>1, EverythingHolds, PTL DEF Spec, AskNeverExecutes
=============================================================================
