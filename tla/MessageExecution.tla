-------------------------- MODULE MessageExecution --------------------------
(***************************************************************************)
(* The messages sent to one conversation under one Idempotency-Key         *)
(* (app/conversation/execution.py): each request looks the key up, creates *)
(* or finds the carrier task, starts a run of its own, passes the tool     *)
(* pipeline, appends two messages and remembers its result.  Beside the    *)
(* requests, the owner changes the mode, archives or deletes the           *)
(* conversation (app/conversation/service.py) and an approver lets a       *)
(* pending action go on (app/main.py decide_run_approval).                 *)
(*                                                                         *)
(* The repositories share no transaction: every action below is one        *)
(* transaction of one of them, or one read.  RunState and ToolApproval     *)
(* model a run and its approval in detail; here the state and the record   *)
(* of a run exist or not, and the decision of the approver is the mode     *)
(* check and then the execution.  Storing a pending action may fail,       *)
(* before or after it was committed, and so may each deletion that undoes  *)
(* the request then, which is swallowed: left keeps what remains of it.    *)
(* A request is named after the run it may start and the task it may       *)
(* create.  Modes goal and craft are one ("craft"); agents, catalog and    *)
(* risk are the choice to refuse; stream frames and audit are left out.    *)
(***************************************************************************)
EXTENDS Naturals, FiniteSets

CONSTANTS
    Requests,      \* the requests sent under the key, by one account
    Calls,         \* the tool calls a message may hold
    Gated,         \* the calls that need an approval in every mode
    MayCrash,      \* a thread may die between two transactions
    MayFail,       \* storing the 027 row may fail, and so may undoing the request
    NoRow          \* a row that does not exist, or a copy not held

ASSUME GatedAssumption == Gated \subseteq Calls
ASSUME SwitchAssumption ==
    {MayCrash, MayFail} \subseteq BOOLEAN
Modes == {"ask", "plan", "craft"}
Roles == {"user", "assistant"}
Outcomes == {"executed", "pending", "rejected", "failed"}
\* What undoing a request deletes, and the action it cannot take back.
Residues == {"action", "record", "state", "task"}
\* What a client is told: a remembered outcome, 503, or an error that nobody
\* remembers.
Answers == Outcomes \cup {"unavailable", "refused", "none"}

Conversations == [mode : Modes, archived : BOOLEAN, deleted : BOOLEAN]
Records == [outcome : Outcomes, run : Requests \cup {NoRow}, message : BOOLEAN]
Tasks == [id : Requests, call : Calls, status : {"queued", "pending_approval"}]

ASSUME NoRowAssumption == NoRow \notin Requests \cup Records \cup Tasks

VARIABLES
    conversation,   \* the conversation row
    remembered,     \* the key's row in workbench_execution_idempotency
    task,           \* the carrier task row of the key
    runs,           \* the requests whose run has a state
    recorded,       \* the requests whose run has a record
    actions,        \* the requests that have a 027 row
    decided,        \* those whose row the approver decided
    executed,       \* the requests for which the executor was called
    messages,       \* the message rows, by request and role
    left,           \* what a failure left of a request that was undone
    pc, call, mode, held, found, result, answer,   \* per request: its locals
    deletion,       \* where the owner's deletion is
    approving,      \* the request whose action the approver is about to execute
    calm            \* so far nothing overlapped and no thread died

rows == <<conversation, remembered, task, runs, recorded, actions, decided, executed,
          messages, left>>
locals == <<pc, call, mode, held, found, result, answer>>
others == <<deletion, approving, calm>>
vars == <<rows, locals, others>>

Pcs == {"idle", "lookup", "rebuild", "task", "start", "run", "gates", "execute",
        "persist", "mark", "user", "userInsert", "reply", "replyInsert",
        "remember", "unrun", "unstate", "untask", "done"}

TypeOK ==
    /\ conversation \in Conversations
    /\ remembered \in Records \cup {NoRow}
    /\ task \in Tasks \cup {NoRow}
    /\ runs \subseteq Requests /\ recorded \subseteq Requests
    /\ actions \subseteq Requests /\ decided \subseteq actions
    /\ executed \subseteq Requests
    /\ messages \subseteq Requests \X Roles
    /\ left \subseteq Requests \X Residues
    /\ pc \in [Requests -> Pcs]
    /\ call \in [Requests -> Calls \cup {NoRow}]
    /\ mode \in [Requests -> Modes]
    /\ held \in [Requests -> Requests \cup {NoRow}]
    /\ found \in [Requests -> Records \cup {NoRow}]
    /\ result \in [Requests -> Outcomes \cup {"none"}]
    /\ answer \in [Requests -> Answers]
    /\ deletion \in {"none", "keys", "content", "done"}
    /\ approving \in Requests \cup {NoRow}
    /\ calm \in BOOLEAN

Init ==
    /\ conversation \in [mode : Modes, archived : {FALSE}, deleted : {FALSE}]
    /\ remembered = NoRow
    /\ task = NoRow
    /\ runs = {} /\ recorded = {} /\ actions = {} /\ decided = {} /\ executed = {}
    /\ messages = {} /\ left = {}
    /\ pc = [r \in Requests |-> "idle"]
    /\ call = [r \in Requests |-> NoRow]
    /\ mode = [r \in Requests |-> "craft"]
    /\ held = [r \in Requests |-> NoRow]
    /\ found = [r \in Requests |-> NoRow]
    /\ result = [r \in Requests |-> "none"]
    /\ answer = [r \in Requests |-> "none"]
    /\ deletion = "none"
    /\ approving = NoRow
    /\ calm = TRUE

\* Nothing is in progress.
Quiet ==
    /\ \A r \in Requests : pc[r] \in {"idle", "done"}
    /\ deletion # "content"
    /\ approving = NoRow

\* Somebody comes in; calm ends when somebody else is in progress.
ComeIn == calm' = (calm /\ Quiet)

Go(r, next) == pc' = [pc EXCEPT ![r] = next]

Answer(r, a) == Go(r, "done") /\ answer' = [answer EXCEPT ![r] = a]

\* An error nobody remembers ends the request.
Refuse(r) ==
    /\ Answer(r, "refused")
    /\ UNCHANGED <<rows, call, mode, held, found, result>>

\* The request goes on to remember its result.
Conclude(r, outcome) ==
    /\ result' = [result EXCEPT ![r] = outcome]
    /\ Go(r, "remember")

Open == ~conversation.deleted /\ ~conversation.archived

NamesMessage == remembered # NoRow /\ remembered.message

Loadable(record) ==
    record.message =>
        ~conversation.deleted /\ <<record.run, "assistant">> \in messages

-----------------------------------------------------------------------------
(*                        The key and the task                             *)

\* _execute reads the conversation, which may be archived, and keeps its mode.
Begin(r, c) ==
    /\ pc[r] = "idle"
    /\ ComeIn
    /\ \/ /\ conversation.deleted
          /\ Refuse(r)
       \/ /\ ~conversation.deleted
          /\ call' = [call EXCEPT ![r] = c]
          /\ mode' = [mode EXCEPT ![r] = conversation.mode]
          /\ Go(r, "lookup")
          /\ UNCHANGED <<rows, held, found, result, answer>>
    /\ UNCHANGED <<deletion, approving>>

\* Variant: the row of the key is looked up under a key that never matches.
LookupNothing(r) ==
    /\ pc[r] = "lookup"
    /\ \/ /\ mode[r] = "ask"
          /\ Conclude(r, "rejected")
          /\ UNCHANGED <<rows, call, mode, held, found, answer>>
       \/ /\ mode[r] # "ask"
          /\ Go(r, "task")
          /\ UNCHANGED <<rows, call, mode, held, found, result, answer>>
    /\ UNCHANGED others

\* A remembered result is rebuilt; mode ask is rejected, and remembered so;
\* agent, invocation, tool and risk may refuse.
Lookup(r) ==
    /\ pc[r] = "lookup"
    /\ \/ /\ remembered # NoRow
          /\ found' = [found EXCEPT ![r] = remembered]
          /\ Go(r, "rebuild")
          /\ UNCHANGED <<rows, call, mode, held, result, answer>>
       \/ /\ remembered = NoRow /\ mode[r] = "ask"
          /\ Conclude(r, "rejected")
          /\ UNCHANGED <<rows, call, mode, held, found, answer>>
       \/ /\ remembered = NoRow /\ mode[r] # "ask"
          /\ \/ Refuse(r)
             \/ Go(r, "task") /\ UNCHANGED <<rows, call, mode, held, found, result, answer>>
    /\ UNCHANGED others

\* _rebuild from the row that was read; the message it names is loaded, and
\* when conversation or message are gone the answer is 409.
Rebuild(r) ==
    /\ pc[r] = "rebuild"
    /\ \/ /\ Loadable(found[r])
          /\ Answer(r, found[r].outcome)
          /\ UNCHANGED <<rows, call, mode, held, found, result>>
       \/ /\ ~Loadable(found[r])
          /\ Refuse(r)
    /\ UNCHANGED others

\* _create_task: ON CONFLICT DO NOTHING; another call under the key is 409.
CreateTask(r) ==
    /\ pc[r] = "task"
    /\ \/ /\ task = NoRow
          /\ task' = [id |-> r, call |-> call[r], status |-> "queued"]
          /\ held' = [held EXCEPT ![r] = r]
          /\ Go(r, "start")
          /\ UNCHANGED <<conversation, remembered, runs, recorded, actions, decided, executed, messages, left,
                         call, mode, found, result, answer>>
       \/ /\ task # NoRow /\ task.call = call[r]
          /\ held' = [held EXCEPT ![r] = task.id]
          /\ Go(r, "start")
          /\ UNCHANGED <<rows, call, mode, found, result, answer>>
       \/ /\ task # NoRow /\ task.call # call[r]
          /\ Refuse(r)
    /\ UNCHANGED others

TaskExists(r) == task # NoRow /\ task.id = held[r]

\* RuntimeService.start reads the task ...
StartRead(r) ==
    /\ pc[r] = "start"
    /\ \/ ~TaskExists(r) /\ Refuse(r)
       \/ /\ TaskExists(r)
          /\ Go(r, "run")
          /\ UNCHANGED <<rows, call, mode, held, found, result, answer>>
    /\ UNCHANGED others

\* ... and starts a run, a new one whatever the key; _sync_run_record reads
\* the task again before it writes the record.
StartRun(r) ==
    /\ pc[r] = "run"
    /\ runs' = runs \cup {r}
    /\ \/ ~TaskExists(r) /\ Answer(r, "refused") /\ UNCHANGED recorded
       \/ TaskExists(r) /\ recorded' = recorded \cup {r} /\ Go(r, "gates") /\ UNCHANGED answer
    /\ UNCHANGED <<conversation, remembered, task, actions, decided, executed, messages, left,
                   call, mode, held, found, result, others>>

-----------------------------------------------------------------------------
(*                          The tool pipeline                              *)

\* Steps 1 to 5 reject the call, or tell whether it needs an approval: the
\* tool's own need, or mode plan's.
Gates(r) ==
    /\ pc[r] = "gates"
    /\ \/ /\ Conclude(r, "rejected")
          /\ UNCHANGED <<rows, call, mode, held, found, answer>>
       \/ /\ Go(r, IF call[r] \in Gated \/ mode[r] = "plan" THEN "persist" ELSE "execute")
          /\ UNCHANGED <<rows, call, mode, held, found, result, answer>>
    /\ UNCHANGED others

\* Variant: a result that no status code goes with.
ExecuteTimingOut(r) ==
    /\ pc[r] = "execute"
    /\ executed' = executed \cup {r}
    /\ \/ /\ result' = [result EXCEPT ![r] = "executed"]
          /\ Go(r, "user")
       \/ Conclude(r, "timeout")
    /\ UNCHANGED <<conversation, remembered, task, runs, recorded, actions, decided, messages, left,
                   call, mode, held, found, answer, others>>

\* Variant: a failed execution is remembered as a rejection.
ExecuteRejecting(r) ==
    /\ pc[r] = "execute"
    /\ executed' = executed \cup {r}
    /\ \/ /\ result' = [result EXCEPT ![r] = "executed"]
          /\ Go(r, "user")
       \/ Conclude(r, "rejected")
    /\ UNCHANGED <<conversation, remembered, task, runs, recorded, actions, decided, messages, left,
                   call, mode, held, found, answer, others>>

\* Step 8: the executor answers, or fails or times out, which is remembered.
Execute(r) ==
    /\ pc[r] = "execute"
    /\ executed' = executed \cup {r}
    /\ \/ /\ result' = [result EXCEPT ![r] = "executed"]
          /\ Go(r, "user")
       \/ Conclude(r, "failed")
    /\ UNCHANGED <<conversation, remembered, task, runs, recorded, actions, decided, messages, left,
                   call, mode, held, found, answer, others>>

\* A failure leaves something of a request that is undone.
Leave(r, what) == left' = left \cup {<<r, what>>}

\* Step 6: the 027 row is stored, or the request is undone: storing failed, or
\* only its answer was lost.
Persist(r) ==
    /\ pc[r] = "persist"
    /\ \/ /\ actions' = actions \cup {r}
          /\ result' = [result EXCEPT ![r] = "pending"]
          /\ Go(r, "mark")
          /\ UNCHANGED left
       \/ /\ MayFail
          /\ Go(r, "unrun")
          /\ \/ UNCHANGED <<actions, left>>
             \/ actions' = actions \cup {r} /\ Leave(r, "action")
          /\ UNCHANGED result
    /\ UNCHANGED <<conversation, remembered, task, runs, recorded, decided, executed, messages,
                   call, mode, held, found, answer, others>>

\* _compensate: each deletion is tried, and one that fails is logged and
\* swallowed.  The record goes first, which the foreign key of an action that
\* was stored after all refuses, ...
UndoRun(r) ==
    /\ pc[r] = "unrun"
    /\ \/ r \notin actions /\ recorded' = recorded \ {r} /\ UNCHANGED left
       \/ (r \in actions \/ MayFail) /\ Leave(r, "record") /\ UNCHANGED recorded
    /\ Go(r, "unstate")
    /\ UNCHANGED <<conversation, remembered, task, runs, actions, decided, executed, messages,
                   call, mode, held, found, result, answer, others>>

\* Variant: the compensation forgets the state of the run.
UndoNothing(r) ==
    /\ pc[r] = "unstate"
    /\ Go(r, "untask")
    /\ UNCHANGED <<rows, call, mode, held, found, result, answer, others>>

\* ... then the state, ...
UndoState(r) ==
    /\ pc[r] = "unstate"
    /\ \/ runs' = runs \ {r} /\ UNCHANGED left
       \/ MayFail /\ Leave(r, "state") /\ UNCHANGED runs
    /\ Go(r, "untask")
    /\ UNCHANGED <<conversation, remembered, task, recorded, actions, decided, executed, messages,
                   call, mode, held, found, result, answer, others>>

\* ... then the task, if this request created it; the answer is 503 anyway.
UndoTask(r) ==
    /\ pc[r] = "untask"
    /\ LET mine == held[r] = r /\ TaskExists(r)
       IN \/ task' = (IF mine THEN NoRow ELSE task) /\ UNCHANGED left
          \/ MayFail /\ mine /\ Leave(r, "task") /\ UNCHANGED task
    /\ Answer(r, "unavailable")
    /\ UNCHANGED <<conversation, remembered, runs, recorded, actions, decided, executed, messages,
                   call, mode, held, found, result, others>>

\* set_pending_approval: a conditional UPDATE, then the task is read back,
\* which raises when it is gone.
Mark(r) ==
    /\ pc[r] = "mark"
    /\ \/ ~TaskExists(r) /\ Refuse(r)
       \/ /\ TaskExists(r)
          /\ task' = [task EXCEPT !.status = "pending_approval"]
          /\ Go(r, "user")
          /\ UNCHANGED <<conversation, remembered, runs, recorded, actions, decided, executed, messages, left,
                         call, mode, held, found, result, answer>>
    /\ UNCHANGED others

-----------------------------------------------------------------------------
(*                     The messages and the result                         *)

\* append_message reads the conversation, which refuses when it is archived
\* or deleted, ...
AppendRead(r, here, next) ==
    /\ pc[r] = here
    /\ \/ ~Open /\ Refuse(r)
       \/ /\ Open
          /\ Go(r, next)
          /\ UNCHANGED <<rows, call, mode, held, found, result, answer>>
    /\ UNCHANGED others

\* ... and inserts: the foreign key only asks for the row of the conversation.
AppendInsert(r, here, role, next) ==
    /\ pc[r] = here
    /\ messages' = messages \cup {<<r, role>>}
    /\ Go(r, next)
    /\ UNCHANGED <<conversation, remembered, task, runs, recorded, actions, decided, executed, left,
                   call, mode, held, found, result, answer, others>>

Append(r) ==
    \/ AppendRead(r, "user", "userInsert")
    \/ AppendInsert(r, "userInsert", "user", "reply")
    \/ AppendRead(r, "reply", "replyInsert")
    \/ AppendInsert(r, "replyInsert", "assistant", "remember")

Result(r) == [outcome |-> result[r],
              run |-> IF r \in runs THEN r ELSE NoRow,
              message |-> result[r] \in {"executed", "pending"}]

\* The insert would name a message that is gone.
Dangling(r) ==
    remembered = NoRow /\ Result(r).message /\ <<r, "assistant">> \notin messages

\* _remember: the first row stands, the request answers its own result.  A
\* message deleted meanwhile violates the foreign key, and the insert raises.
Remember(r) ==
    /\ pc[r] = "remember"
    /\ \/ /\ Dangling(r)
          /\ Refuse(r)
       \/ /\ ~Dangling(r)
          /\ remembered' = IF remembered = NoRow THEN Result(r) ELSE remembered
          /\ Answer(r, result[r])
          /\ UNCHANGED <<conversation, task, runs, recorded, actions, decided, executed, messages, left,
                         call, mode, held, found, result>>
    /\ UNCHANGED others

-----------------------------------------------------------------------------
(*                    The owner of the conversation                        *)

OwnerMay == Open /\ ComeIn

SetMode(m) ==
    /\ OwnerMay
    /\ m # conversation.mode
    /\ conversation' = [conversation EXCEPT !.mode = m]
    /\ UNCHANGED <<remembered, task, runs, recorded, actions, decided, executed, messages, left, locals, deletion, approving>>

Archive ==
    /\ OwnerMay
    /\ conversation' = [conversation EXCEPT !.archived = TRUE]
    /\ UNCHANGED <<remembered, task, runs, recorded, actions, decided, executed, messages, left, locals, deletion, approving>>

AskDelete ==
    /\ deletion = "none"
    /\ deletion' = "keys"
    /\ UNCHANGED <<rows, locals, approving, calm>>

\* Variant: the rows that hold a result are kept.
DeleteRejectedKeys ==
    /\ deletion = "keys"
    /\ ComeIn
    /\ remembered' = IF NamesMessage THEN remembered ELSE NoRow
    /\ deletion' = "content"
    /\ UNCHANGED <<conversation, task, runs, recorded, actions, decided, executed, messages, left, locals, approving>>

\* delete_conversation: the keys first ...
DeleteKeys ==
    /\ deletion = "keys"
    /\ ComeIn
    /\ remembered' = NoRow
    /\ deletion' = "content"
    /\ UNCHANGED <<conversation, task, runs, recorded, actions, decided, executed, messages, left, locals, approving>>

\* ... then messages and conversation in one transaction, which the foreign
\* key refuses while a row of the key names a message: the owner tries again.
DeleteContent ==
    /\ deletion = "content"
    /\ \/ /\ NamesMessage
          /\ deletion' = "keys"
          /\ UNCHANGED <<conversation, messages>>
       \/ /\ ~NamesMessage
          /\ messages' = {}
          /\ conversation' = [conversation EXCEPT !.deleted = TRUE]
          /\ deletion' = "done"
    /\ UNCHANGED <<remembered, task, runs, recorded, actions, decided, executed, left, locals, approving, calm>>

-----------------------------------------------------------------------------
(*                     The approver, crashes, the system                   *)

\* Variant: the mode is not checked where an approval resumes.
EnsureNothing(r) ==
    /\ approving = NoRow
    /\ ComeIn
    /\ r \in actions \ decided
    /\ approving' = r
    /\ UNCHANGED <<rows, locals, deletion>>

\* ensure_resume_allowed finds the conversation through the row of the key; a
\* run without such a row, or of a deleted conversation, is let through.
EnsureResume(r) ==
    /\ approving = NoRow
    /\ ComeIn
    /\ r \in actions \ decided
    /\ remembered # NoRow /\ remembered.run = r /\ ~conversation.deleted
          => conversation.mode # "ask"
    /\ approving' = r
    /\ UNCHANGED <<rows, locals, deletion>>

\* What a decision needs of a run: its state, its record and its task.
Decidable(r) == r \in runs \cap recorded /\ TaskExists(r)

\* The decision, and after an approval that passes the gates the execution.
Resume ==
    /\ approving # NoRow
    /\ \/ /\ Decidable(approving)
          /\ decided' = decided \cup {approving}
          /\ executed' \in {executed, executed \cup {approving}}
       \/ /\ ~Decidable(approving)
          /\ UNCHANGED <<decided, executed>>
    /\ approving' = NoRow
    /\ UNCHANGED <<conversation, remembered, task, runs, recorded, actions, messages, left, locals, deletion, calm>>

\* The process of a thread dies: its client gets no answer.
Crash(r) ==
    /\ MayCrash
    /\ pc[r] \notin {"idle", "done"}
    /\ Go(r, "done")
    /\ calm' = FALSE
    /\ UNCHANGED <<rows, call, mode, held, found, result, answer, deletion, approving>>

CrashDelete ==
    /\ MayCrash
    /\ deletion = "content"
    /\ deletion' = "keys"
    /\ calm' = FALSE
    /\ UNCHANGED <<rows, locals, approving>>

RequestStep(r) ==
    \/ Lookup(r) \/ Rebuild(r) \/ CreateTask(r) \/ StartRead(r) \/ StartRun(r)
    \/ Gates(r) \/ Execute(r) \/ Persist(r) \/ UndoRun(r) \/ UndoState(r)
    \/ UndoTask(r) \/ Mark(r) \/ Append(r) \/ Remember(r)
DeleteStep == DeleteKeys \/ DeleteContent

Next ==
    \/ \E r \in Requests :
          \/ \E c \in Calls : Begin(r, c)
          \/ RequestStep(r)
          \/ Crash(r)
          \/ EnsureResume(r)
    \/ Resume
    \/ \E m \in Modes : SetMode(m)
    \/ Archive
    \/ AskDelete \/ DeleteStep \/ CrashDelete

Spec == Init /\ [][Next]_vars

\* Requests that began go on; an owner who asked for the deletion asks until
\* it is done.
FairSpec ==
    /\ Spec
    /\ WF_vars(\E r \in Requests : RequestStep(r))
    /\ WF_vars(DeleteStep)

-----------------------------------------------------------------------------
(*                               Properties                                *)

\* The row of the key tells the truth about the run it names, whatever other
\* requests, deletions and crashes do: an executed or failed result was
\* executed, a pending one has its action, a rejected one neither, and the run
\* is there, state and record.
RowTellsTruth ==
    remembered # NoRow =>
        /\ remembered.outcome \in {"executed", "failed"} =>
              remembered.run \in executed \cap runs \cap recorded
        /\ remembered.outcome = "pending" =>
              remembered.run \in actions \cap runs \cap recorded
        /\ remembered.outcome = "rejected" => remembered.run \notin actions \cup executed

\* The message a replay rebuilds its answer from is always there.
RowHasMessage ==
    NamesMessage => <<remembered.run, "assistant">> \in messages

\* The row of a key tells the truth about the run it names, whose message is
\* there.
RowIsTrue == RowTellsTruth /\ RowHasMessage

\* An undoing of its request that failed left it behind.
LeftBehind(r, what) == <<r, what>> \in left

\* What remains of a request answered 503 is what a failed deletion left, or an
\* action whose storing was not answered, and never a message.
OnlyFailuresRemain(r) ==
    /\ r \in actions \cup executed => LeftBehind(r, "action")
    /\ r \in recorded => LeftBehind(r, "record")
    /\ r \in runs => LeftBehind(r, "state")
    /\ task # NoRow /\ task.id = r => LeftBehind(r, "task")
    /\ \A role \in Roles : <<r, role>> \notin messages

\* "Zero residue" as far as the code keeps it: a request answered 503 leaves
\* nothing but what the compensation could not delete, and its call is executed
\* only if, one after the other, its action was stored unseen and neither its
\* record nor its state could be deleted.
NothingLeftBehind ==
    \A r \in Requests : answer[r] = "unavailable" =>
        /\ OnlyFailuresRemain(r)
        /\ calm /\ r \in executed =>
              \A what \in {"action", "record", "state"} : LeftBehind(r, what)

\* A deletion that was asked for is completed, though requests that were in
\* progress write the rows that hold it up, fail or die, unless the process that
\* deletes keeps dying.
DeletionConverges ==
    <>[][~CrashDelete]_vars => (deletion = "keys" ~> conversation.deleted)

\* "A replay must return the first result ... and not execute twice".
KeyExecutesOnce == Cardinality(executed) <= 1

\* The executions of requests that were not answered 503.
Answered == {r \in executed : answer[r] # "unavailable"}

\* Of the requests not answered 503, a key executes one as long as nothing
\* overlaps, nobody dies and the conversation is not archived: the next request
\* finds what was executed.
KeyExecutesOnceInTurn == calm /\ ~conversation.archived => Cardinality(Answered) <= 1

\* A request that is refused, archived conversations included, has no effect:
\* its call is not executed, now or after an approval.
RefusedWithoutEffect ==
    \A r \in Requests : answer[r] = "refused" => r \notin executed

\* As long as nothing overlaps and the conversation is not archived, a refusal
\* has no effect.
OpenRefusalHasNoEffect == calm /\ ~conversation.archived => RefusedWithoutEffect

\* "It never happens that nothing is visible but content remains", as long as
\* no request is in progress beside the deletion.
DeletedIsEmpty ==
    calm /\ conversation.deleted => messages = {} /\ remembered = NoRow

\* "Must not delete the data of others": as long as nothing overlaps a run
\* keeps its task, through failures and retries; a state without a task is one
\* that undoing its own request could not delete.
RunHasTask == calm => \A r \in runs : TaskExists(r) \/ LeftBehind(r, "state")

\* As long as nothing overlaps and the conversation is not archived, a key
\* executes once, refusals have no effect, a deletion leaves nothing and every
\* run keeps its task.
PromisesHoldInTurn ==
    KeyExecutesOnceInTurn /\ OpenRefusalHasNoEffect /\ DeletedIsEmpty /\ RunHasTask

\* "Mode ask refuses every execution", where it starts and where it resumes,
\* as long as nobody changes the mode of a request in progress, but for an
\* action a 503 left behind, whose run has no row of the key.
AskNeverExecutes ==
    [][calm /\ ~conversation.deleted /\ conversation.mode = "ask"
          => Answered' \subseteq Answered]_vars
=============================================================================
