---------------------------- MODULE ToolApproval ----------------------------
(***************************************************************************)
(* One tool action that needs a human decision: the message request that   *)
(* registers it (app/conversation/execution.py), the requests that decide  *)
(* the approval or cancel the run (app/main.py decide_run_approval,        *)
(* app/runtime/service.py), the execution after an approval                *)
(* (app/tool_execution/service.py) and the cleanup thread that expires it  *)
(* (app/tool_execution/cleanup.py).                                        *)
(*                                                                         *)
(* Three rows say where the action stands, and no transaction spans two of *)
(* them: the runtime state with its event table, the run record with the   *)
(* execution authorization of migration 026, and the tool action of        *)
(* migration 027.  Every step below is one transaction or one read.        *)
(*                                                                         *)
(* A conversation's run has a single step, whose id is also its approval,  *)
(* so the runtime state is its status, that approval's verdict and the     *)
(* event count.  RunState models the runtime's own transactions: here its  *)
(* start is one step, and so are the events that follow a decision.  Roles *)
(* and ownership are checked before anything is read and never change; the *)
(* conversation's mode, audit and notifications are left out.              *)
(***************************************************************************)
EXTENDS Naturals, FiniteSets

CONSTANTS
    Deciders,      \* threads that decide the approval or cancel the run
    Sender,        \* the thread of the message that registered the action
    HasBody,       \* the tool has a body parameter, stored encrypted
    MaxRuns,       \* bound: executions after which no other one starts
    MayCrash,      \* a thread may die between two transactions
    MayFail,       \* the 027 row may fail to be stored (answered 503)
    NoRow          \* a row that does not exist, or a copy not held

Processes == Deciders \cup {Sender}

Choices == {"approve", "reject", "cancel"}
Statuses == {"running", "completed", "failed", "cancelled"}
Terminal == Statuses \ {"running"}
Verdicts == {"pending", "approved", "rejected"}

Runs == [status : Statuses, verdict : Verdicts, count : Nat]
Records == [status : Statuses, authorized : BOOLEAN]
Actions == [status : Verdicts \cup {"expired"}, body : BOOLEAN]

VARIABLES
    run,         \* the runtime state row
    sequences,   \* the sequences in the run's event table
    record,      \* the run record with its 026 columns
    action,      \* the 027 row; body: both body columns are set
    due,         \* body_expires_at has passed
    billed,      \* the usage entry of the run is in the ledger
    ran,         \* how often the executor was called
    calm,        \* so far nothing overlapped and no thread died
    pc, choice, mem, row   \* per thread: place, request, copies of run and action

rows == <<run, sequences, record, action>>
effects == <<due, billed, ran, calm>>
locals == <<pc, choice, mem, row>>
vars == <<rows, effects, locals>>

Pcs == {"idle", "authorize", "read", "decide", "end", "cancel", "list", "settle",
        "snapshot", "record", "bill", "resume", "mark", "check", "execute",
        "start", "persist", "unrecord", "unstate", "done"}

TypeOK ==
    /\ run \in Runs \cup {NoRow}
    /\ sequences \subseteq Nat
    /\ record \in Records \cup {NoRow}
    /\ action \in Actions \cup {NoRow}
    /\ due \in BOOLEAN
    /\ billed \in BOOLEAN
    /\ ran \in 0 .. MaxRuns
    /\ calm \in BOOLEAN
    /\ pc \in [Processes -> Pcs]
    /\ choice \in [Processes -> Choices \cup {"none"}]
    /\ mem \in [Processes -> Runs \cup {NoRow}]
    /\ row \in [Processes -> Actions \cup {NoRow}]

Init ==
    /\ run = NoRow /\ sequences = {}
    /\ record = NoRow
    /\ action = NoRow
    /\ due = FALSE /\ billed = FALSE /\ ran = 0 /\ calm = TRUE
    /\ pc = [p \in Processes |-> IF p = Sender THEN "start" ELSE "idle"]
    /\ choice = [p \in Processes |-> "none"]
    /\ mem = [p \in Processes |-> NoRow]
    /\ row = [p \in Processes |-> NoRow]

\* Nothing is in progress.
Quiet == \A p \in Processes : pc[p] \in {"idle", "done"}

\* An actor comes in; calm ends when another one is in progress.
ComeIn == calm' = (calm /\ Quiet)

Go(p, next) == pc' = [pc EXCEPT ![p] = next]

\* The request is over: answered, refused, failed or dead.
Leave(p) ==
    /\ Go(p, IF p = Sender THEN "done" ELSE "idle")
    /\ choice' = [choice EXCEPT ![p] = "none"]
    /\ mem' = [mem EXCEPT ![p] = NoRow]
    /\ row' = [row EXCEPT ![p] = NoRow]

Refuse(p) == Leave(p) /\ UNCHANGED <<rows, effects>>

-----------------------------------------------------------------------------
(*                        Registering the action                           *)

\* RuntimeService.start: plan.created and approval.requested are committed.
Start ==
    /\ pc[Sender] = "start"
    /\ run' = [status |-> "running", verdict |-> "pending", count |-> 2]
    /\ sequences' = {1, 2}
    /\ Go(Sender, "snapshot")
    /\ UNCHANGED <<record, action, effects, choice, mem, row>>

\* _persist_pending: the 027 row, unless encrypting or storing it fails.
Persist ==
    /\ pc[Sender] = "persist"
    /\ \/ /\ action' = [status |-> "pending", body |-> HasBody]
          /\ Leave(Sender)
          /\ UNCHANGED <<run, sequences, record, effects>>
       \/ /\ MayFail
          /\ Go(Sender, "unrecord")
          /\ UNCHANGED <<rows, effects, choice, mem, row>>

\* _compensate: the run record goes first, then the state and its events.
Unrecord ==
    /\ pc[Sender] = "unrecord"
    /\ record' = NoRow
    /\ Go(Sender, "unstate")
    /\ UNCHANGED <<run, sequences, action, effects, choice, mem, row>>

Unstate ==
    /\ pc[Sender] = "unstate"
    /\ run' = NoRow
    /\ sequences' = {}
    /\ Leave(Sender)
    /\ UNCHANGED <<record, action, effects>>

-----------------------------------------------------------------------------
(*                  Deciding the approval, cancelling the run              *)

\* adapter_for_task finds the run.  Only a decision touches the 026 columns.
Begin(d, c) ==
    /\ pc[d] = "idle"
    /\ ComeIn
    /\ run # NoRow
    /\ choice' = [choice EXCEPT ![d] = c]
    /\ Go(d, IF c = "cancel" THEN "read" ELSE "authorize")
    /\ UNCHANGED <<rows, due, billed, ran, mem, row>>

\* _write_execution_authorization / _clear_execution_authorization: an UPDATE
\* that finds no record raises, and the endpoint answers 409.
Authorize(d) ==
    /\ pc[d] = "authorize"
    /\ \/ /\ record = NoRow
          /\ Refuse(d)
       \/ /\ record # NoRow
          /\ record' = [record EXCEPT !.authorized = choice[d] = "approve"]
          /\ Go(d, "read")
          /\ UNCHANGED <<run, sequences, action, effects, choice, mem, row>>

\* The adapter reads its own copy and judges that: a terminal run takes
\* neither, an approval no longer pending takes no decision.
Read(d) ==
    /\ pc[d] = "read"
    /\ IF \/ run = NoRow
          \/ run.status \in Terminal
          \/ choice[d] # "cancel" /\ run.verdict # "pending"
       THEN Refuse(d)
       ELSE /\ mem' = [mem EXCEPT ![d] = run]
            /\ Go(d, IF choice[d] = "cancel" THEN "cancel" ELSE "decide")
            /\ UNCHANGED <<rows, effects, choice, row>>

\* Variant: an event whose sequence is taken is dropped silently.
EmitIgnoringConflict(d, s, next) ==
    /\ run' = s
    /\ sequences' = sequences \cup {s.count}
    /\ mem' = [mem EXCEPT ![d] = s]
    /\ Go(d, next)
    /\ UNCHANGED <<record, action, effects, choice, row>>

\* Events added to copy s and the row upserted from it, in one transaction; a
\* sequence already taken rolls it back and ends the request.
Emit(d, s, next) ==
    \/ /\ s.count \notin sequences
       /\ run' = s
       /\ sequences' = sequences \cup {s.count}
       /\ mem' = [mem EXCEPT ![d] = s]
       /\ Go(d, next)
       /\ UNCHANGED <<record, action, effects, choice, row>>
    \/ /\ s.count \in sequences
       /\ Refuse(d)

\* approval.decided.
Decide(d) ==
    /\ pc[d] = "decide"
    /\ Emit(d, [mem[d] EXCEPT !.verdict = IF choice[d] = "approve" THEN "approved" ELSE "rejected",
                              !.count = @ + 1], "end")

\* run.failed, or tool.result and run.completed: the plan has no other step.
End(d) ==
    /\ pc[d] = "end"
    /\ Emit(d, [mem[d] EXCEPT !.status = IF choice[d] = "approve" THEN "completed" ELSE "failed",
                              !.count = @ + 1], "list")

Cancel(d) ==
    /\ pc[d] = "cancel"
    /\ Emit(d, [mem[d] EXCEPT !.status = "cancelled", !.count = @ + 1], "snapshot")

\* _decide_tool_actions reads the 027 row ...
List(d) ==
    /\ pc[d] = "list"
    /\ IF action = NoRow \/ action.status # "pending"
       THEN Go(d, "snapshot") /\ UNCHANGED row
       ELSE Go(d, "settle") /\ row' = [row EXCEPT ![d] = action]
    /\ UNCHANGED <<rows, effects, choice, mem>>

\* ... and upserts the whole row from that copy, whatever it is by now.  An
\* approval keeps the ciphertext for the execution, a rejection clears it.
Settle(d) ==
    /\ pc[d] = "settle"
    /\ action' = [status |-> IF choice[d] = "approve" THEN "approved" ELSE "rejected",
                  body |-> row[d].body /\ choice[d] = "approve"]
    /\ Go(d, "snapshot")
    /\ UNCHANGED <<run, sequences, record, effects, choice, mem, row>>

-----------------------------------------------------------------------------
(*                   _sync_run_record: record and ledger                   *)

\* The snapshot; a run removed meanwhile ends the request with 404.
Snapshot(p) ==
    /\ pc[p] = "snapshot"
    /\ IF run = NoRow
       THEN Refuse(p)
       ELSE /\ mem' = [mem EXCEPT ![p] = run]
            /\ Go(p, "record")
            /\ UNCHANGED <<rows, effects, choice, row>>

\* What follows the synchronisation in each kind of request.
Synced(p) ==
    IF p # Sender /\ choice[p] # "approve"
    THEN Leave(p)
    ELSE /\ Go(p, IF p = Sender THEN "persist" ELSE "resume")
         /\ mem' = [mem EXCEPT ![p] = NoRow]
         /\ row' = [row EXCEPT ![p] = NoRow]
         /\ UNCHANGED choice

\* The upsert of record_state writes every column but the 026 ones.
WriteRecord(p) ==
    /\ pc[p] = "record"
    /\ record' = [status |-> mem[p].status,
                  authorized |-> IF record = NoRow THEN FALSE ELSE record.authorized]
    /\ IF mem[p].status \in Terminal
       THEN Go(p, "bill") /\ UNCHANGED <<choice, mem, row>>
       ELSE Synced(p)
    /\ UNCHANGED <<run, sequences, action, effects>>

\* Variant: only a completed run is billed.
BillCompleted(p) ==
    /\ pc[p] = "bill"
    /\ billed' = (billed \/ mem[p].status = "completed")
    /\ Synced(p)
    /\ UNCHANGED <<rows, due, ran, calm>>

\* _record_usage_on_terminal: one ledger entry, keyed by task and run.
Bill(p) ==
    /\ pc[p] = "bill"
    /\ billed' = TRUE
    /\ Synced(p)
    /\ UNCHANGED <<rows, due, ran, calm>>

-----------------------------------------------------------------------------
(*                     The execution after an approval                     *)

\* Variant: the frozen action is taken from the request, not from 027.
ResumeUnchecked(d) ==
    /\ pc[d] = "resume"
    /\ Go(d, "execute")
    /\ UNCHANGED <<rows, effects, choice, mem, row>>

\* resume takes the approved row and decrypts its body; then the gates of the
\* pipeline judge it again: they pass, or block it (tool withdrawn,
\* parameters, path), or find it on the blacklist.
Resume(d) ==
    /\ pc[d] = "resume"
    /\ \/ Refuse(d)
       \/ /\ action # NoRow
          /\ action.status = "approved"
          /\ HasBody => action.body
          /\ row' = [row EXCEPT ![d] = action]
          /\ \E next \in {"check", "mark"} : Go(d, next)
          /\ UNCHANGED <<rows, effects, choice, mem>>

\* _mark_rejected; a failure to store it is swallowed.
Mark(d) ==
    /\ pc[d] = "mark"
    /\ action' \in {action, [status |-> "rejected", body |-> FALSE]}
    /\ Leave(d)
    /\ UNCHANGED <<run, sequences, record, effects>>

\* _step_authorize: every action of the run must be approved.
Check(d) ==
    /\ pc[d] = "check"
    /\ IF action.status = "approved"
       THEN Go(d, "execute") /\ UNCHANGED <<rows, effects, choice, mem, row>>
       ELSE Refuse(d)

\* _step_execute: the executor answers, fails or times out.
Execute(d) ==
    /\ pc[d] = "execute"
    /\ ran < MaxRuns
    /\ ran' = ran + 1
    /\ Leave(d)
    /\ UNCHANGED <<rows, due, billed, calm>>

-----------------------------------------------------------------------------
(*                        Time, cleanup and crashes                        *)

\* The expiry time passes.
Expire ==
    /\ action # NoRow
    /\ HasBody /\ ~due
    /\ due' = TRUE
    /\ UNCHANGED <<rows, billed, ran, calm, locals>>

\* expire_pending_bodies: a single conditional UPDATE.
Cleanup ==
    /\ ComeIn
    /\ action # NoRow
    /\ action.status = "pending" /\ action.body /\ due
    /\ action' = [status |-> "expired", body |-> FALSE]
    /\ UNCHANGED <<run, sequences, record, due, billed, ran, locals>>

Crash(p) ==
    /\ MayCrash
    /\ pc[p] \notin {"idle", "done", "start"}
    /\ Leave(p)
    /\ calm' = FALSE
    /\ UNCHANGED <<rows, due, billed, ran>>

SendStep == Start \/ Persist \/ Unrecord \/ Unstate
SyncStep(p) == Snapshot(p) \/ WriteRecord(p) \/ Bill(p)
DecideStep(d) ==
    \/ Authorize(d) \/ Read(d) \/ Decide(d) \/ End(d) \/ Cancel(d)
    \/ List(d) \/ Settle(d)
ExecuteStep(d) == Resume(d) \/ Mark(d) \/ Check(d) \/ Execute(d)

Next ==
    \/ SendStep
    \/ \E p \in Processes : SyncStep(p) \/ Crash(p)
    \/ \E d \in Deciders :
          \/ \E c \in Choices : Begin(d, c)
          \/ DecideStep(d)
          \/ ExecuteStep(d)
    \/ Expire
    \/ Cleanup

Spec == Init /\ [][Next]_vars

\* A request that began goes on, the cleanup thread runs for ever, and time
\* passes; nobody is bound to decide anything.
Fairness ==
    /\ WF_vars(SendStep)
    /\ \A p \in Processes : WF_vars(SyncStep(p))
    /\ \A d \in Deciders : WF_vars(DecideStep(d)) /\ WF_vars(ExecuteStep(d))
    /\ WF_vars(Expire)
    /\ WF_vars(Cleanup)

FairSpec == Spec /\ Fairness

-----------------------------------------------------------------------------
(*                               Properties                                *)

\* The executor is called at most once for the action: 027 keeps no mark of
\* it, and what stops a second decision that passed every guard on its own
\* copy is only the primary key of the event table.
ExecutedAtMostOnce == ran <= 1

\* The executor is never called for an action that is not approved, now, by
\* the 027 row and by the runtime alike, whatever was decided, expired or
\* removed while the request was on its way through the gates.
OnlyApprovedIsExecuted ==
    [][ran' > ran => /\ action # NoRow /\ action.status = "approved"
                     /\ run # NoRow /\ run.verdict = "approved"]_vars

\* "Written after the adapter's decision, so that no 027 row is approved by a
\* decision that did not take effect": nobody's decision reaches 027 unless
\* the runtime holds the same verdict.  A blacklisted action is rejected by
\* the gate, after an approval.
AuthorityFollowsDecision ==
    action # NoRow =>
        /\ action.status = "approved" =>
              run # NoRow /\ run.verdict = "approved"
        /\ action.status = "rejected" =>
              run # NoRow /\ run.verdict \in {"approved", "rejected"}

\* The ciphertext is there exactly as long as the action may still be
\* executed: no settled action keeps it, no pending or approved one loses it.
BodyLivesWithAction ==
    action # NoRow =>
        (action.body <=> HasBody /\ action.status \in {"pending", "approved"})

\* Without crashes a run that ends is billed, unless it is undone first.
TerminalRunIsBilled ==
    (run # NoRow /\ run.status \in Terminal) ~> (billed \/ run = NoRow)

\* An action with a body does not stay pending: decided, or expired.
PendingSettles ==
    (action # NoRow /\ action.status = "pending" /\ HasBody)
        ~> (action # NoRow /\ action.status # "pending")

\* As long as nothing overlaps, a decision the runtime took has reached 027
\* when its request is over: "or resume never finds an approved row, the
\* execution is unreachable".
DecisionReachesAuthority ==
    calm /\ Quiet /\ action # NoRow /\ run # NoRow /\ run.verdict # "pending"
        => action.status # "pending"

\* "A decision and the cleanup never overwrite each other, the first to write
\* wins", as long as they do not overlap: what has left pending changes only
\* from approved to rejected, by the blacklist.
FirstDecisionStands ==
    [][calm /\ action # NoRow /\ action.status # "pending" /\ action' # NoRow =>
          \/ action'.status = action.status
          \/ action.status = "approved" /\ action'.status = "rejected"]_vars

\* "An approval registers the authorization, a rejection revokes it", even as
\* long as nothing overlaps: once the runtime's verdict is a rejection and no
\* request is in progress, the 026 columns are empty.
RejectionRevokes ==
    calm /\ Quiet /\ record # NoRow /\ run # NoRow /\ run.verdict = "rejected"
        => ~record.authorized
=============================================================================
