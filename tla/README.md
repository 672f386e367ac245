# Verification of the company workbench (cangku)

TLA+ models of the server under `src/app`, TLC runs that check them on small
instances, and TLAPS proofs of what matters most for every instance.

The server is a FastAPI application: employees talk to digital employees in
conversations; a message may hold a tool call, which starts a *run* on an agent
runtime; a call that is risky, or made in a careful mode, waits for an
administrator's approval; an approved call is executed in a sandbox.  In
production every request runs in a thread of one of several API processes over
PostgreSQL, beside a Celery worker with periodic tasks and cleanup threads.
Each call of a store or repository is a transaction of its own (`_connection` of
each `*_postgres.py`), so **a handler is a sequence of transactions between
which anything may happen**: another handler, a periodic task, or the death of
the process.  That is where this system is hard, and what the models are about.

## 1. Inventory

### Components

| Component | State it keeps | Operations | Hard behaviour | What makes it correct | Module |
|---|---|---|---|---|---|
| Run state and events (`runtime/mock.py`, `state_postgres.py`) | one row per run (status, plan, approvals, completed steps, event count), append-only events keyed by (run, sequence) | start, pause, resume, cancel, request and decide an approval, purge of old events, streaming of events | read–modify–write of a whole row without a lock; events and row share a transaction, row upserts alone check nothing | the row accounts for the events; approvals decided once; an ended run stays ended | `RunState`, `RunEvents` |
| Runtime service (`runtime/service.py`, `records.py`, `run_metrics.py`, `inbox.py`) | run record with execution authorization (026 columns), usage entries, notices | decide, cancel, pause, resume, synchronise the record, bill, notify | four rows in four transactions per decision; a record is written from a snapshot | the rows that speak of an approval agree; an end is billed and told | `ToolApproval`, `RunNotices` |
| External runtimes (`runtime/adapters/`, `registry.py`) | numbers of remote runs in memory, the row commands are authorized by | start, command, stream, cancel | lost answers, restarts | events once and in order, no run lost but by a failure | `ExternalRuntime` |
| Acceptance, promotion (`runtime/acceptance*.py`, `promotions.py`) | decisions about finished runs, promotion rows | accept, send back, promote | claim, create, release in three transactions | one task per run | `RunAcceptance` |
| Tool execution (`tool_execution/service.py`, `store.py`, `cleanup.py`) | the pending action (027 row) with its encrypted body and expiry, the file register | nine gates, persist, decide, resume, mark, expire | the row is created after the run it belongs to; cleanup races decisions; the world changes between the passes | nothing is executed twice, unapproved or past a gate; bodies live as long as they are needed | `ToolPipeline`, `ToolApproval` |
| Containers (`tool_execution/executor.py`, `cleanup.py`) | containers tracked in memory, the daemon's list | create, wait, remove, sweep | several processes over one daemon, timeouts, failed removals | the limit, outcomes that were earned, own containers kept | `ContainerPool` |
| Turn tokens, callbacks (`turn_token.py`, `token_binding.py`, `callback_guard.py`) | minted tokens and bindings in memory | open, close, authorize | revocation beside callbacks in flight, restarts | a token serves its turn and nothing after it | `TurnTokens` |
| Model gateway (`model_gateway/`) | tokens, rate counters, meter, none under a lock | mint, revoke, proxy with retry | threads share all of it | limits hold within the racing requests, what goes upstream is accounted for | `ModelGateway` |
| Keyed execution (`conversation/execution.py`, `idempotency.py`, `repository.py`) | row per Idempotency-Key, carrier task | send a message with a call, replay, compensate | the key is inserted after the effect; compensation over three repositories | once per key; a refusal has no effect; nothing is left behind | `MessageExecution` |
| Conversations (`conversation/store.py`, `service.py`, `members.py`) | conversations, messages, members | create, append, archive, mode, share, delete, export | three connections per request of a member; pages of a list that changes | shown to members, written by who may; exports miss nothing silently | `ConversationSharing`, `ConversationExport`, `MessageExecution` |
| Conversation stream (`stream.py`, `stream_writer.py`) | frames numbered per stream, state row | append, notice, terminate, reopen, stall, purge, read from a cursor | request, decision, worker, deletion and reader touch one stream; limits; writers that die | frames without gaps, one end, nothing dropped silently, every stream ends | `ConversationStream`, `StreamLog` |
| Outbox, dead letters (`outbox.py`, `dead_letters.py`) | outbox rows with attempts and mark, dead letters | enqueue, publish a batch, record and notify a dead letter, replay | a batch is one transaction over row locks, but the bus and the dead letters do not roll back | sent at least once, marked only when sent, told and replayed once | `Outbox` |
| Accounts, SSO, sessions (`accounts/`) | accounts, failures, code steps, sign-on states, sessions | apply, decide, log in, enrol, reset, SSO | replayed codes and states under concurrency | a code or state serves once; what an applicant was told is true | `Accounts` |
| Tenants (`commercial/`) | tenant, deletion and export jobs, packages, usage ledger | request, confirm, cancel, purge, retention, carry over | jobs are saved as copies; workers die between layers; requests beside a purge | purge only after export and cool-down; no dangling rows; balances kept; due work done | `TenantLifecycle`, `Retention`, `UsageLedger` |
| Memory (`memory/`) | facts, rules in versions, profiles, a budget in memory | create, supersede, set, erase | two requests start from one version; the budget is read before it is charged | one chain of versions; the budget overrun by the racing requests only | `Memory` |
| Skills (`skills/`) | package versions, bindings | submit, review, enable, bind, repair | review and bind read before they write | tools in use were reviewed by another person | `Skills` |
| Evolution (`evolution/`) | cases, evaluation runs | write, publish, replace, archive, import, judge | edits during a run | what a run was judged by stays | `Evolution` |
| Knowledge (`knowledge_governance/`, import script) | documents with state, owner, review date; grants | register, publish, review, grant, search, scan, import | the guard's reads age before WeKnora answers; lists that change under the import | answers are entitled; published is owned; due is flagged | `KnowledgeGovernance`, `KnowledgeImport` |
| Planner and orchestration (`planner/`, `orchestration/`) | proposals, suggestions, runs | propose, review, start, suggest | two reviewers, one key twice | what runs was approved by another; authors hear the verdict | `Planning` |
| Content (`content/`) | drafts with revisions, publications | regenerate, edit, confirm, publish, verify | copies, a platform that answers late | what is sent was confirmed; a revision once (it is not) | `ContentPublication` |
| CRM (`crm/`) | quotes, contracts, leads, opportunities, customers, activities | the life of a sale and of a customer | check then write, events in their own transaction, periodic writers | amounts are confirmed ones; histories are paths; plans cite their customer | `Deals`, `SalesPipeline`, `CustomerCare` |
| Workforce, tasks (`workforce/`, `domain.py`) | roles, employees, configuration, task intake | manage, configure, create, approve | configuration read before the task is written | an approval that is due is not waived | `Workforce` |
| API, assembly (`main.py`, `bootstrap.py`, `settings.py`, `worker.py`) | migrations, the parts of a process | boot, migrate, serve, run a task | processes come up together, a worker builds lazily in threads | who serves is complete; a worker builds once | `Assembly` |
| Monitoring probe (`scripts/monitoring_probe.py`) | none | read nine signals, report, notify | signals change and fail while read | the report tells what was seen | `MonitoringProbe` |
| Audit, other scripts, front ends | entries; none | append, list, redact | - | - | not on their own |

### How they interact

A message endpoint calls `ConversationExecutionService.execute`, which looks up
the key, creates a carrier task, starts a run through `RuntimeService.start`
(state row, events, run record, usage), passes `ToolExecutionService` (027 row or
execution), appends messages and remembers the key.  An administrator's decision
enters through `main.py decide_run_approval`: mode check, 026 authorization,
adapter decision (events, row), 027 row, run record, usage, and after an approval
`ToolExecutionService.resume`.  The cleanup thread and the worker's periodic
tasks touch the same rows without asking anybody.  Deletion of a conversation
or a tenant reaches into all of them.  `PROJECT.json` "hazards" lists where
each of these bites, line by line, with the properties aimed at it.

## 2. What is modelled

`PROJECT.json` "map" gives the lines of every definition, "components" what is
left out of each part.  One convention runs through all modules: a request thread is
a variable that holds what the request has read and where it stands (`pc`, `at`,
`desk`, `mind`, `hand`, ...), an action is one transaction, and a copy that is
written back is written as it was read.  Nobody's roles and permissions change
within a request; where a role decides something, the sets of constants
(`Reviewers`, `Approvers`, `Chiefs`, ...) say who has it.

### RunState (with RunEvents)

One run of the reference adapter over the PostgreSQL store, operated on by any
number of request threads.  `row` is the state row, `log` every event ever
inserted, `purged` how many the retention deleted.  A thread reads the row into
`mem`, then takes one action per transaction: `Emit` is `_emit` with
`store.append` (event INSERT and row upsert together, refused as a whole by the
primary key), `Save` is `save_checkpoint` (an unconditional upsert).  Each operation
has its actions in the order of the code: `Create`, `PlanCreated`, the loop over
the plan (`StepStarted`, `StepResult`, `StepFailed`, `StepNeedsApproval`,
`NextStep`), `PlanDone`; `Intervene` then `Pause`, `Resume` or `Cancel`;
`BeginRequest`, `RequestApproval`; `BeginDecide`, `Decide`, then `Reject`, or `RunTool` and
`Close`; `SaveCheckpoint`; and `Crash` and `PurgeEvents`.

Data abstracted: a step's id is its position; `request_approval` draws its ids from
a separate range, as its names are distinct from step ids; a payload keeps only
what it names and a verdict; the checkpoint keeps only whether it was
written, which is all its readers ask.  The service's gate on permission and
authorization is not in this module, so `resume` is possible whenever the
adapter allows it.  Runs share nothing, so one is enough.

`RunEvents` is the abstract specification: the log alone, growing by one admissible
event at a time (approvals requested once, decided once and only if requested; a
tool result only for a step started or approved, and at most one; one end;
after it only requests for approval, which nothing prevents).  `LogIsLinear`
is that specification under the mapping `log <- log`.

### ToolApproval

One pending tool action, from the message that registers it to its end.  Three
rows speak about it: the runtime's (`run`, with the `sequences` of its events), the
run record with the 026 authorization (`record`) and the 027 row
(`action`), which the docs call the only authority for execution.  `Sender` is
the message request that creates them in three transactions or undoes them
(`Start`, `Snapshot`, `WriteRecord`, `Persist`, `Unrecord`, `Unstate`).
`Deciders` are administrators who approve, reject or cancel: `Authorize` (026, before
anything is judged), `Read`, `Decide`, `End`, `Cancel` (each an `Emit`), `List` and
`Settle` (027, an upsert of a copy), `Snapshot`, `WriteRecord`, `Bill`, then after
an approval `Resume`, `Mark`, `Check`, `Execute`.  `Expire` and `Cleanup` are time and the cleanup
thread.  A run has the one step its message gave it, so `Start` may be one action:
no request can find the run before its checkpoint is saved.  `End` joins
`tool.result` and `run.completed`, which no other transaction of this module can tell
apart.  Left out: roles and ownership (judged before any state is
read), the run-level plan gate, which `resume` does not consult, audit and
notifications; stream frames are ConversationStream's.  `calm` is a history variable: it is true
until two actors are in progress at once (`ComeIn`) or one dies.

### MessageExecution

The requests one account sends under one Idempotency-Key to one conversation,
each with a call that needs an approval or not.  One action per transaction of
`execution.py`: `Begin`, `Lookup`, `Rebuild`; `CreateTask`; `StartRead`, `StartRun`; `Gates`;
`Execute` or `Persist`; `UndoRun`, `UndoTask` (the compensation); `Mark`; `Append` (two
messages, each read then insert, as READ COMMITTED allows); `Remember`.  Beside them
the owner (`SetMode`, `Archive`, `AskDelete`, `DeleteKeys`, `DeleteContent`) and the approver
(`EnsureResume`, `Resume`).  A request is named after the run it may start
and the task it may create, so a stale id is never mistaken for a new one.  A run exists or
not (`runs`); its inner life is RunState's.  The foreign key from the remembered row
to the message is a guard: an insert that would dangle and a deletion that would
orphan are refused.  Modes goal and craft are the same here; agents, catalog and
risk are the choice to refuse.  `calm` is as in ToolApproval.

### ConversationStream (with StreamLog)

The stream of one run.  `stream` is the state row and `frames` the frames by their
number.  Two threads write: `sender`, the message request, whose frames follow the
branches of `_execute` (`Following`: the plan, the call, then its result, its failure or an
approval, the two messages unless the append is refused, the end), and `resumer`, an
approval's decision (`Decide`, `Lookup`, `Look`, `Reopen`).  `Write` is one call of `append_frame` with
its limits, `Tell` the notice `append_unavailable` stores when that is refused or fails, `Mark` the
transaction of `set_terminal` after a terminal frame; each may fail before its commit,
`Write` also after it.  `Remember` stores the row of the key, by which a decision finds the
stream.  `Stall` and `Purge` are the worker's two jobs, `Age` lets their cut-offs pass.
A deletion is its transactions `DeleteKeys`, `DeleteStreams`, `DeleteContent`, between which it
may die (`DieDeleting`).  The reader is `List` and `ReadState`, two reads of the database, with
`Deliver` and `Cut`, after which it comes back with its cursor.

Left out: payloads, the byte limit (the frame limit stands for both), the
watermark, `latest_run_id`, the batch size of the reader (a client that is cut
off within a batch reads it in pieces), heartbeats.  `dropped`, `mute`, `unsure`, `missed`, `heard` and
`invented` are history.

`StreamLog` is what the stream promises, one step at a time: `Open`, `Grow` by a frame while there is no
end, `Close` with the status of the end that is the last frame, `GiveUp` for good and with at most one notice, `Erase` as a
whole.  `ConversationStream` implements it (`StreamIsLog`) with its own `frames` and with the status of
its row, or none.  The log has no action that takes a closed stream up again: `Reopen` never
meets one, since a decision finds the stream by the remembered key, and a request that wrote an end has not remembered it.

### Outbox

`outbox` has the rows in the order they are selected.  A task's transactions
(`Create`, `SetPendingApproval`, `Approve`, `Delete`) enqueue or remove events.  A worker's batch is
one transaction: `Take` locks up to `Limit` rows that nobody else has locked, `Publish` calls the bus
row by row, `Record`, `MarkNotified` and `Notify` are the dead letter, committed on connections of
their own, `Commit` makes marks and attempts visible, `Rollback` throws them away.  A call to
the bus that fails may have added the event.  `Replay` and `EndReplay` are an
administrator's, under the lock of the dead letter's row.  The store of dead letters is the notifying
one, as assembled when a webhook is configured.  The consumer groups of
`events.py` are used by no module of the application.

### MCGovernance: what people administer

- `TenantLifecycle`: `tenant` (its status), `deletions` and `exports` (jobs), `layers` (what
  is still to purge).  A round of the worker takes its jobs in order, so its lists are sets of which the first is next.  `RequestExport`, the steps of a deletion's request
  (`BeginDeletion`, `MarkDeleting`, `CreateExported`, `CreateDeletion`), `ConfirmDeletion`, `CancelDeletion` with
  `Revive` and `SaveCopy`; the worker's round (`Export`, `ListDeletions`,
  `TakeConfirmed`, `ExecuteDeletion` with `SealTenant`, `PurgeLayer`, `CloseDeletion`), which dies anywhere.
- `Retention`: dates of a task, its runs, their artifacts and packages. `PurgeRuns`
  selects the oldest expired runs, one purger at a time, and deletes their children before them;
  a child that a `Request` added meanwhile makes the whole purge roll back.
- `UsageLedger`: `ledger` entries with a key, `AppendUsage`, `Reverse`, and `Carry`, which
  nets what is overdue and waits for rows another worker has locked.
- `Skills`: `skills`, `bindings`; checks and writes apart (`SubmitChecks`, `SubmitInserts`, ...),
  `Repair` the script, `Wipe` the tenant's purge.
- `KnowledgeGovernance`: `docs`, `grants`; requests read, then `UpdateStatus`; the search is
  `SearchResolves`, `SearchLists`, `SearchAnswers`; `ScanReviewDue` re-checks in its UPDATE.
- `Memory`: `facts`, `rules`, `profile`, and `accrued`, the budget in memory.
  Embedding may fail after the budget was charged.
- `Evolution`: `cases`, `evalRuns`; a run freezes its paper (`RunReads`, `RunCreates`) and records one
  result at a time.
- `ContentPublication`: `article` with `drafts`, `publications`; everybody saves copies,
  `CallPlatform` has an outcome that may never arrive.
- `MessageExecution` appears here with one request, whose deletion must converge.
- `Planning`: `plans`, `planRuns`, `suggestions`, `notices`; decisions are conditional
  updates, `Tell` the notice after them.

### MCBusiness: selling, staffing, signing on, coming up

- `Deals`: `quotes`, `contracts`; conditional transitions (`TransitionQuote`, `IncrementPaid`), whole-row
  writes (`ReplaceLines`, `UpdateContract`) and the constraints of the tables, which have the last word.
- `SalesPipeline`: `leads`, `opportunities`, `stageEvents`; the event is a transaction of its own.
- `CustomerCare`: edits and two periodic tasks that write rows back as they were read.
- `Workforce`: `jobs`, `staff`, `orders`; `CreateReads` judges the approval by a configuration
  that `UpdateAgentConfig` may change before `CreateTask`.
- `TurnTokens`: `bound`, `gateway`, `held`, `registered`; the lock covers `Open`, not the three steps of `OnTerminal`.
- `RunAcceptance`: `decisions`, `promotions`, `tasks`; `Claim`, `StoreTask`, `Release`, and deaths between them.
- `Accounts`: `accounts`, `failures`, `ssoStates`, `sessions`; every write is a statement with a condition.
- `Assembly`: processes boot stage by stage over settings that may be wrong, migrate under
  one lock, and a worker's threads build the runtime under another.
- `ToolApproval` and `RunState` appear here with the instances of section 3.

### MCOperations: what runs beside it

- `ConversationSharing`: `EnsureCanSpeak` and `EnsureCanView` read conversation and
  membership on two connections; sharing is `EnsureShareable`, `PermissionFor`, `Upsert` or `Delete`, `Record`.
- `ConversationExport`: `SelectPage`, `CountConversations`, `CountMessages`, `Answer`
  (the cap, `Packed`) are statements that each see their own moment.
- `RunNotices`: a request moves the run, takes a `Snapshot`, writes the record (`Upsert`, which
  overwrites the status with the snapshot's), bills and `Add`s a notice; the inbox marks and skips.
- `ModelGateway`: `table`, `count`, `meter`; scanning, judging and charging are separate steps of a thread.  `ReadRate` and
  `Allow` are the read and the write of the limiter; a thread in `late` read its clock before the window turned (`NextWindow`) and
  judges by the one that is over.
- `ContainerPool`: `EnforceLimit`, `Create`, `Track`, `TimedOut`, `Remove`, `Forget`; `ListOrphans` and `SweepOne`
  see the containers of other processes.
- `ExternalRuntime`: `Post`, `Remember`, `CreateRow`, `Command`, `StreamEvents`, with lost answers and `Crash`.
- `ToolPipeline`: `Gate` after gate over a world that drifts (`Drift`, `Redeploy`), then `Persist` or `Execute`; `Decide`,
  `Restore` and the second pass; `Register` reads the output for changed files.
- `MonitoringProbe`: `Probe` reads one signal at a time, `Finish` reports and notifies.
- `KnowledgeImport`: `FetchPage` while documents come and go, then `LookUp`, `RegisterReads`,
  `RegisterInserts`, `Record` per document, beside `RegisterByRequest`.

### MCSystem and the compositions

`MCSystem`, `MCGovernance`, `MCBusiness` and `MCOperations` compose components that share no
variable: a behaviour picks the `part` it is of and leaves the others alone, so a run over
`Parts` checks each part on its own instance, with the fairness its module states.  Their
properties are conjunctions of those the modules state, grouped by question.  What two components do share
is modelled on both sides: an approval is decided in ToolApproval and is one
atomic choice in ConversationStream (`Decide`) and ToolPipeline, the row of the key is MessageExecution's and
`remembered` in the stream, the purge of conversations is a layer of TenantLifecycle.

## 3. Runs

| Run | Question | Instance |
|---|---|---|
| `run_state` | do row and copies account for the log, is the log linear, whatever overlaps and crashes? | 2 threads, plans with one or two approvals, a step run at start, a failing one; 1 registered approval, `MaxLog` 6 |
| `rejection_lost` | may a run go on after a rejection? (violated) | 2 threads, two approvals |
| `refused_decision_authorizes` | does a rejection revoke the authorization? (violated while calm) | 1 administrator, no crash |
| `message_execution` | does the remembered row tell the truth and keep its message, is a 503 without residue, does ask never execute? while calm: once per key, refusals without effect, deleted empty | 2 requests, 2 calls, crashes and failures |
| `archived_conversation_executes` | is a refusal without effect? (violated) | 1 request, archiving |
| `concurrent_key_executes_twice` | does the key execute once? (violated) | 2 overlapping requests |
| `delivery` | stream: frames dense, end last, drops announced, readers complete; is it an append-only log with one end? outbox: is a mark the truth, every duplicate explained, do dead letters come in time, once? | both writers, 1 failing call, 1 cut, `MaxFrames` 7; 1 task, 2 workers, 2 administrators, 4 errors |
| `liveness` | are ended runs billed, do pending actions settle, do streams end and readers hear it, do orphans vanish, does the outbox drain? | fair; 2 administrators, 3 errors |
| `governance` | are purges preceded by export and cool-down, do balances hold, is what agents use vetted, what a search shows entitled, memory bounded, what is sent confirmed, what runs approved, and is due work done, a deleted conversation emptied? | 2 people per component, 1 or 2 objects each, 1 keyed request with crashes and failures; fair |
| `published_twice` | does the platform get a revision once? (violated) | the content part of it |
| `business` | is an action executed once and approved, one request at a time is a run orderly, are sales true, approvals not waived, ended turns refused, repeats absorbed, and who serves complete? | 2 people or processes per component; ToolApproval with crashes and failures; RunState with 1 thread and purges |
| `operations` | is a conversation shown and written by who may, are calls within their limits and gates, are runs told and billed truthfully, do the scripts tell the truth? | 2 callers, threads or processes per component |

**Bounds.** They stand in the .cfg files under their names.  Every race here is between a
reader of a copy and a writer, so two actors and one or two objects reach it; where a third
does more than repeat one of the two, as in the limiter, the theorem of section 5 is for any number.  In `RunState` two steps suffice for every
interaction of approvals (the last pending one closes the run), and a log of
`MaxLog` holds a whole life of a run plus a request that lost a race.  `MaxRuns = 2`
allows one call of the executor more than there may be, `MaxFrames = 7` the sender's frames of a
run that waits and the beginning of the decision's, so that the limit is met by the resumer too;
`Limit = 2` lets two workers share or split a task's two events, four errors exhaust
an event's two attempts and leave two for the replay and a rollback.  `MaxCrashes`, `MaxDeaths`,
`MaxRestarts`, `MaxFailures`, `MaxTroubles` bound what the environment does; one of each hits every place it can.
`MaxTime`, `LastDay` and `GraceDays` let a cut-off pass and one day more.  In `RunState.cfg` an action
constraint, `PurgedWhenCurrent`, lets the retention purge once and only while the row has seen all events: after a
stale checkpoint put an older count back, the sequence of a purged event is
used again (`state_postgres.py:206`), and a purge spread over days multiplies states
without a new case.  `RunIsOrderly` checks purges at any time, with one thread.

**Calm and switches.** A property that the documents promise and only concurrency breaks is stated
under `calm`, a history variable that is true until two actors are in progress at once or
one dies, or checked with one thread; the same formula without that guard says precisely what
breaks it.  `MayCrash`, `MayFail`, `MayPurge`, `MayDie` and `MayDrift` name what else the environment may do.
Besides the violation runs these divergences can be reproduced by dropping the guard, or, in RunState, by a
second thread: a stale resume brings a cancelled run back (`TerminalIsFinal`), a pause beside a resume
writes an old event count (`RowIsCurrent`, and after a purge
`SequenceNeverReused`), the decision of an approval whose 027 row is not stored yet is lost
(`DecisionReachesAuthority`), a decision overwrites an expiry
(`FirstDecisionStands`), content survives a deletion (`DeletedIsEmpty`), a compensation
deletes the task of another request's run (`RunHasTask`), and after a crash a retry under a key executes again
(`KeyExecutesOnceInTurn`).

**Fairness.** All of it is weak.  A request that began takes its next step (a thread is
scheduled; no lock is held between its transactions), unless it dies; the cleanup thread, the
publisher, the retention jobs, the review scan and the job that gives up stalled streams come round with the beat;
a connected reader polls; a replay's transaction ends.  Nobody is bound to send, decide, cancel
or purge by hand: `OrphansVanish` assumes the purge in its own premise.  The
owner who asked for a deletion repeats it when it answers an error.  Approvals
are checked for liveness without crashes, since a dead
request owes nothing, and without the compensation,
because a decision in flight can re-create a removed run.  The deletion of a conversation is checked with crashes and
failures of the request beside it.  Streams and tenants are checked with crashes: it is the worker
that ends them.  Errors of the outbox are finitely many, each wherever it likes.

**Deadlock** is not checked: every system here stops when all requests were
sent and answered.

## 4. Findings and observations

`PROJECT.json` "findings" states these with the line of the code and the words they
contradict; each has its run.

- A rejection is two transactions; between them another approval may complete the run.
- The 026 authorization is written before the decision is judged and stays when it is refused.
- The archive status is looked at only after the execution.
- An Idempotency-Key is not reserved during the execution.
- The pending row of a publication is no claim: two requests under one revision both call the platform.

What follows was met while reading; no run states it.

- An approved action whose execution failed is never retried: its run is over and
  every later decision is refused before `resume`.  The body of an approved action is
  never cleared, as the cleanup looks at pending rows only.
- A row of the outbox with a dead letter is selected and tried again for ever; a batch full of
  such rows lets nothing behind them through (`outbox.py:40`).
- `crm.activity.log` has two body parameters (`catalog.py:205`) of which the first is stored:
  once approved, restoring it raises an error nobody handles (`service.py:758`), so such
  an action is approved and can never run.
- The output of a file that is *read* may hold the marker line of a file change and is registered
  as one.  A refused path or parameter on the second pass names the step, not the action.
- Pausing and resuming a run notifies nobody; the PostgreSQL inbox never purges what expired.
- Commands to an external runtime never change the workbench's state row, and after a
  restart an external run is unknown.
- A bad webhook timeout makes the probe raise after all checks, without a report; a silent
  beat with an empty log is skipped, not an alert (the runbook's line 67 expects one).
- A document withdrawn from WeKnora between two pages shifts others over the border, and the import
  misses them.  Its dry run announces ids that `--apply` rejects, and lists duplicates twice.  A
  request that registers between the script's SELECT and INSERT kills it; a run that
  died between row and audit leaves a row without an entry that no later run makes up for.

## 5. Proofs

TLAPS checks them; TLC has checked what they state on the instances of section 3.  Eight modules
hold theorems, and between them they state every invariant the runs check and every action property.  All follow one pattern: the property is not inductive, an invariant that says what
every thread's copy still shares with the rows is, and the step lemmas show action by action that it
stays.  Threads, objects, keys, bounds, crashes and failures are arbitrary.  A part of a composition has an
invariant over its own variables only, and a step of another part leaves those alone, so that every step of the
composition keeps it.

**`RunStateProofs`** (module `RunState`).
- `TypeCorrect`: what a thread may do to its copy depends on where it is, so `TypeInv` adds that a thread inside a
  handler holds a state, a plan position within the plan or an approval id.
- `StateIsExplained` and `RunImplementsLog` (`Spec => RunEvents!Spec` under `log <- log`): `LogInv` says that the i-th event has
  sequence i, that the row and every copy account for a prefix of the log, and what each place in a handler
  still knows of its copy (`Entitled`).  A thread whose insert succeeds holds a copy that accounts for the
  *whole* log, since its count plus one was free; so what it checked on the copy holds of the log, and the
  event it appends keeps the account.  Both assume that nothing is purged.  So the concurrency of the handlers, which does
  lose updates of the *row* (section 3), never makes the *log* inadmissible, for any number of threads.

**`MessageExecutionProofs`**.  `TypeCorrect`, `RowsAreTrue` (`RowIsTrue`), `UnavailableLeavesNothing`
(`NothingLeftBehind`), `PromisesHold` (`PromisesHoldInTurn`), `AskRefuses` (`AskNeverExecutes`).  `IInv` is `TypeInv`,
`RowInv` and, while calm, `CalmInv`.  `PlaceOK` ties a request's place to the run, task, 027 row and messages that are its
own: before its effect it has executed nothing, past it its result tells what happened.  The remembered row is a copy of such a result;
the messages it names stay because the foreign key refuses their deletion.  `CalmInv` adds that nobody else is under way,
which is what makes the lookup of the key still true at the insert.

**`SystemProofs`** (`MCSystem`).
- `StreamsAreWhole`, `ReaderFollows`, `UnavailableStays`: `StreamInv` says that frames are numbered without a gap, that the
  two writers write in turn and whoever wrote an end has yet to mark it, that what a reader listed continues its cursor, and
  that a notice among the frames means the state is `unavailable`.
- `StreamImplementsLog` (`Spec => StreamIsLog`): `LogInv` adds to `StreamInv` that frames are a sequence, that the end a
  thread is about to mark is the last frame, and that once the status tells an end nobody is about to write, mark or
  reopen.  Each step of the writers, the worker and the owner, failed or not, is then one of `StreamLog` or leaves the log as it is
  (`Logged`).  `UnavailableStays` is one of its consequences.
- `EventsAccounted`: `OutboxInv` says that the batches of workers are apart (SKIP LOCKED), that a row in a batch is
  not yet published, that letters are recorded, marked and told in turn, and that an event was sent at most once more than the
  errors, replays and rolled-back batches account for.
- `SystemTypes`: `TypeOK` of the composition, from both invariants.

**`ApprovalProofs`** (`ToolApproval` as `MCBusiness` instances it).  `ActionsAreSafe` (`ActionIsSafe`), `ApprovedIsExecuted`,
`DecisionIsFirst`.  `ApprovalInv` says of every decider that a copy whose next sequence is free *is* the row, that at most one
decider is past its decision, and that the second pass runs over a body that is still there; `CalmOK` what holds
while one actor at a time is under way.

**`BusinessProofs`** (extends it).
- `TokensEnd` (`EndedTurnIsRefused`): `TokenInv` says that a token names one turn among those anything remembers, that a turn being
  opened has a token nobody knows, and that the token of an ended turn is bound nowhere, although generations start anew after a restart.
- `ApprovalsAreNotWaived` (`ApprovalIsNotWaived`): `WorkforceInv` says that what a configuration, a request that read one, or a queued
  task exempts from approval was exempted by an administrator, and never a critical risk.
- `RepeatsAbsorbed` (`RepeatsAreAbsorbed`): `PromotionInv` says that the id a promotion carries is its own, that one request at a time has
  claimed a run, none whose task is stored, and that at most one link dangles for each death; `AccountInv` that a sign-on state
  waits, is in the hands of the one request that consumed it, or has led to a session.
- `ServersAreSound` (`ServingIsSound`): `AssemblyInv` says that whoever has a durable part found the schema complete, that a migration being
  applied is missing from the schema, and that who built the worker's runtime holds the lock until its slots are set.
- `SalesTrue` (`SalesAreTrue`): `DealInv` says that a row about to be written back has the quote and the amount its contract has, and that what is
  about to be converted was agreed on; `PipelineInv` speaks of the moves whose event is not inserted yet as of those recorded; in `CareInv`
  the notice about to be marked was sent.  These three contain the `TypeOK` of their modules.
- `BusinessTyped` (`TypeOK`): `BusinessTypes` adds to the invariants above what the types of the other parts need.  Requests carry the
  whole row that was decided (`DecisionTypes`); the containers that run, plus one for a turn that is being opened, never outnumber the
  tokens minted (`GatewayTypes`); copies name telephones, and sessions and failures stay within their bounds (`AccountTypes`); a
  worker's slots are a proper subset while it still sets one, and so fewer than seven (`AssemblyTypes`); of a thread with a run, its place says
  what its copy is (`RunTypes`, the invariant of `RunStateProofs` carried over to this instance).
- `RunsAreOrderly` (`RunIsOrderly`) and `DecisionsAreFinal` (`DecisionsStand`): `SerialInv` says that the copy of the only thread is the
  row, which counts the events.  Their hypothesis is `Handlers = {t}`, requests to the run that take turns; with two threads the code does
  not keep these properties, as the findings show.

**`GovernanceProofs`** (`MCGovernance`).
- `PurgesSafe` (`PurgesAreSafe`): in `TenantInv` a job or copy marked `exported`, wherever it is held, means that a package was
  made, and whoever seals or purges has moreover seen the end of a cooling-off period; in `HangInv` artifacts point at runs that
  are not purged.
- `KnowledgeEntitled` (`KnowledgeIsEntitled`): in `KnowInv` a search under way holds only bases that were granted and
  documents that were once published, and an update to `published` that a request is about to make has an owner and a date.
  The document may have changed since the request read it, so the row alone is not enough.
- `MemoryBounded` (`MemoryIsBounded`): in `MemoryInv` a new version follows the rule it was made of, and what is charged plus
  the requests already past the judgement stay below the budget plus the number of users; each request that passes counts
  once (`SpendingCounts`, from the library's facts on cardinality).
- `AgentsVetted` (`AgentsAreVetted`): in `SkillInv` a request that reviews is about another person's package, an approved
  row was reviewed by another, a request that binds saw its package enabled; in `EvolInv` papers hold cases that are settled, which are
  replaced by younger ones only, and a run that is judged keeps its paper.
- `ContentConfirmed` (`SentWasConfirmed`): in `ContentInv` a confirmed draft, in the record and in every copy of it, was saved by a confirmation;
  copies are written back whole, so what holds of the record must hold of all of them.
- `PlansWereApproved` (`PlansAreApproved`): in `PlanInv` a decided row keeps its decision, a request that is about to tell its author tells
  that one, and a run has the steps of the row its request read approved.
- `LedgerExact` (`LedgerIsExact`): `LedgerInv` says that an entry is known by its key and that one worker at a time holds overdue rows, which are
  still in the ledger and older than its cut-off.  So what it writes back is the sum of what it takes away, under a key no other
  row has.  The lemmas before it say what the sum of a set does when an entry is added, replaced or taken away.  `Total` takes the entries in
  the order CHOOSE names them; that the order does not matter is proved by looking at the least number of entries for which it would.
- `GovernanceTyped` (`TypeOK`): to the invariants above, `PartsInv` adds that the layers of a purge go one after the other from the
  first, that a draft without a text is one whose generation failed and revisions stop at their bound, and what a keyed request
  holds at each place.

**`ContainmentProofs`** (`MCOperations`).  `CallsContained` (`CallsAreContained`), from the first three invariants, and
`ConversationOwned` (`ConversationIsOwned`), from the other two.
- `GatewayInv`.  Two threads that read one count write it one after the other, and a thread that waits may set the count back again and
  again, so a limit of `RateLimit` does not mean `RateLimit` requests for each thread: with two threads and a limit of 2 seven
  pass in one window.  What bounds them is `StatesAreLeft`: give every thread the level it would write (what it holds, what
  is stored, 0 if it judges by a window that is over) and count the threads at or below each level.  These numbers are monotone,
  each admission moves them to a state that comes later in the lexicographic order and no step moves them back (`Before`,
  `LeavingALevelIsLater`), so a window lets through fewer than the order has states (`Progressions`), less one for each thread.  The
  lemmas count with the library's facts on cardinality, injections and surjections.
- `PoolInv`: a container belongs to one execution from its creation to its removal, what a process tracks are the containers of those of its executions that
  wait, and the containers plus those about to be created never exceed the leftovers allowed plus one for each execution; whoever passes
  the check counts the boxes of others, and his own are those that are not being created.
- `ToolsInv`: at each place of a pass, the gates that are behind it, that nothing has been executed, told or answered before it is, and that a second pass runs
  on an approved action; a pass that ended leaves one entry and one answer that agree.
- `SharingInv`: each place of a guest's request entitles him by what he was seen to hold since it began (a grant, an active
  conversation), and who grants or records a grant has vetted the guest.  While requests do not overlap, the trail lacks at most the
  change of the one request at `audit`, and a question without a reply is owed one by the request that asked it.
- `ExportInv`: the pages follow one another in a list that shrinks under them.  Of the conversations that existed at the start and
  are neither fetched nor on the page, those the pages have passed (`Hidden`) are at most the deletions so far, since a deletion
  shifts one conversation at most over the edge of a page: the last one before it, which is the `Smallest` of a set of numbers.

**`OperationsProofs`** (extends it).
- `RunsReported` (`RunsAreReported`): `NoticeInv` says that an end anybody speaks of, in a snapshot or a notice, is one the runtime wrote, that notices
  have numbers of their own, and, while requests take turns, what the one under way knows at each place between the move, the record, the bill
  and the notice (`ByItself`).  `ExternalInv` says that a reader was given the events before its cursor in order, the first of them possibly made
  up, and that a run with a row is one whose start is done and which is remembered until a restart.  That a read notice stays read is an
  action property of the same invariant.
- `ScriptsTruthful` (`ScriptsTellTruth`): in `ProbeInv` an alert is of a signal that was at fault at some moment since the probe began, and a
  signal that was at fault throughout and readable has its alert; in `ImportInv` a document that stayed is listed or on a page still ahead, unless
  the list shrank, every entry listed waits or is in the report, and what was inserted is in the trail or about to be.
- `OperationsTyped` (`TypeOK`): `PartsInv` joins the invariants of all parts with the bounds of their counters.  The one that takes an
  argument is the limiter's: for each token, those admitted plus those still to be judged are no more than the requests that were made
  (`GatewayBounds`), so nobody is let through twice, however windows turn.

**Assumptions on the constants.**  They are ASSUMEs of the modules that declare the constants, so TLC evaluates each on the instances.
`BoundsAssumption`, `PlansAssumption`, `SwitchAssumption` of `RunState` (bounds are naturals, plans are sequences of modes within `MaxSteps`, which
`RuntimeService.start` sees to); `NoRowAssumption`, `GatedAssumption` of `MessageExecution`; `StreamAssumption` and `OutboxAssumption` (an
event is tried at least once, which `outbox.py:16` demands of its setting); `ApprovalAssumption` (the message request is none of the deciders),
`TokenAssumption`, `WorkforceAssumption`, `RunAssumption`, `PromotionAssumption`, `AccountAssumption`, `AssemblyAssumption`,
`DealAssumption` (amounts are whole cents), `PipelineAssumption`, `CareAssumption` (people are not periodic tasks); `MemoryAssumption` (there are finitely many users, and one at least),
`PlanAssumption`, `ReviewAssumption`, `SkillAssumption`; `GatewayAssumption` (the limiter is not switched off, and there are threads),
`PoolAssumption`, `PipelineAssumption`, `SharingAssumption`, `ExportAssumption`, `ImportAssumption`, `ExternalAssumption`; `LedgerAssumption`; and
the `BoundsAssumption` of `MCGovernance` and of `MCBusiness` (bounds are naturals, plans are short enough, a reviewer gives a role there is).  The rest say that the value for "no row" is not a row.

**Only model-checked.**  Liveness and ENABLED are beyond the prover: `DeletionConverges`, `DueWorkIsDone` and the other properties under
fairness of `delivery`, `liveness` and `governance` stay with TLC.  So do the runs that expect a violation.  What a theorem says under a
hypothesis (`Handlers = {t}`, nothing purged) fails without it, which section 3 describes.  Induction over data, for which the library has theorems
with an operator parameter only, was done where it was needed by the least counterexample (`WFMin` over the naturals): sums over
the ledger, the layers of the limiter, pages of a list.  Functions that recurse through `CHOOSE` can be reasoned about in this way; the folds
of the community modules cannot, so the modules with theorems do without them.

## 6. Not modelled

`PROJECT.json` "components" has the reasons part by part: string judgements and formats (paths, deny lists,
digests, redaction), cryptography, the inside of calls to language models and platforms, views whose only rule
is a role check, the front ends, packaging and drill scripts.  The dsh
adapter repeats the reference adapter's machine over HTTP.  `replay_run`, `plan.py` and the consumer groups of
`events.py` are called by no part of the application.

## 7. Plan

The callback server, the dsh adapter, and pure operators: quotas, pricing, scoring.
