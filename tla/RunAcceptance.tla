---------------------------- MODULE RunAcceptance ----------------------------
(***************************************************************************)
(* What people do with a finished run: confirm it or send it back (an      *)
(* append-only history, one row per idempotency key) and store a confirmed *)
(* run as a task.  Storing claims the run's only promotion row first, then *)
(* creates the task, and gives the row back when that fails, whether or    *)
(* not the task was committed; giving it back may fail as well.            *)
(* Everyone reads before they write, and the history is ordered by the     *)
(* moment the request was stamped, not by the moment its row arrived.      *)
(***************************************************************************)
EXTENDS Naturals

CONSTANTS Owners,         \* requests of people who may decide on the runs
          RunIds,
          DecisionKeys,   \* idempotency keys
          Promoters,      \* the users they come from: a task key is its creator's
          MaxStamps,      \* decisions and claims made in a behaviour
          NoTask,         \* the run has no promotion row
          AtRest          \* the request is not under way

VARIABLES runs,        \* the run records: status, and what the structural verdict looks at
          decisions,   \* workbench_run_acceptance_decisions
          promotions,  \* workbench_run_promotions: the task of the run
          tasks,       \* tasks created by a promotion: run, creator and id
          stamp,       \* the clock and the source of new ids
          request,     \* what each request has read and is about to write
          mishaps      \* history: what went wrong with a claim, by run

acceptanceVars == <<runs, decisions, promotions, tasks, stamp, request, mishaps>>

TERMINAL_RUN_STATUSES == {"completed", "failed", "cancelled"}
DECISIONS == {"confirmed", "rejected"}

\* evaluate_acceptance: every step done, no approval pending, a normal end.
Verdict(r) ==
  IF runs[r].steps_complete /\ ~runs[r].pending /\ runs[r].status = "completed"
  THEN "met" ELSE "unmet"

\* list_for_run, newest first: what the newest row says.
History(r) == {d \in decisions : d.run = r}
Confirmed(r) == \E d \in History(r) : /\ d.decision = "confirmed"
                                      /\ \A e \in History(r) : e.stamp <= d.stamp

-----------------------------------------------------------------------------
(* The run *)

Finish(r, status, complete, pending) ==
  /\ runs[r].status = "running"
  /\ runs' = [runs EXCEPT ![r] = [status |-> status, steps_complete |-> complete,
                                  pending |-> pending]]
  /\ UNCHANGED <<decisions, promotions, tasks, stamp, request, mishaps>>

\* Retention deletes the run with its decisions and its promotion.
PurgeRun(r) ==
  /\ runs[r].status \in TERMINAL_RUN_STATUSES
  /\ runs' = [runs EXCEPT ![r].status = "purged"]
  /\ decisions' = decisions \ History(r)
  /\ promotions' = [promotions EXCEPT ![r] = NoTask]
  /\ UNCHANGED <<tasks, stamp, request, mishaps>>

-----------------------------------------------------------------------------
(* decide_run_acceptance *)

\* The run must have ended; the row is put together, its time included.
DecideReads(p, r, key, decision) ==
  /\ request[p] = AtRest
  /\ stamp < MaxStamps
  /\ runs[r].status \in TERMINAL_RUN_STATUSES
  /\ stamp' = stamp + 1
  /\ request' = [request EXCEPT ![p] =
       [step |-> "decide",
        row |-> [run |-> r, key |-> key, decision |-> decision,
                 structural_verdict |-> Verdict(r), stamp |-> stamp']]]
  /\ UNCHANGED <<runs, decisions, promotions, tasks, mishaps>>

\* ON CONFLICT DO NOTHING on the key; the foreign key refuses a run that is gone.
RecordDecision(p) ==
  /\ request[p] # AtRest /\ request[p].step = "decide"
  /\ LET row == request[p].row
     IN  decisions' = IF \/ runs[row.run].status = "purged"
                         \/ \E d \in decisions : d.key = row.key
                      THEN decisions ELSE decisions \cup {row}
  /\ request' = [request EXCEPT ![p] = AtRest]
  /\ UNCHANGED <<runs, promotions, tasks, stamp, mishaps>>

-----------------------------------------------------------------------------
(* promote_run_to_task *)

\* The run has ended, its newest decision confirms it, and it is not promoted yet.
PromoteReads(p, r, by) ==
  /\ request[p] = AtRest
  /\ stamp < MaxStamps
  /\ runs[r].status \in TERMINAL_RUN_STATUSES
  /\ Confirmed(r)
  /\ promotions[r] = NoTask
  /\ stamp' = stamp + 1
  /\ request' = [request EXCEPT ![p] = [step |-> "claim", run |-> r, by |-> by,
                                           task |-> stamp']]
  /\ UNCHANGED <<runs, decisions, promotions, tasks, mishaps>>

\* Mutant: the row is written over.
ClaimAnyway(p) ==
  /\ request[p] # AtRest /\ request[p].step = "claim"
  /\ promotions' = [promotions EXCEPT ![request[p].run] = request[p].task]
  /\ request' = [request EXCEPT ![p].step = "store"]
  /\ UNCHANGED <<runs, decisions, tasks, stamp, mishaps>>

\* One row per run: who comes second is shown the first one's task.
Claim(p) ==
  /\ request[p] # AtRest /\ request[p].step = "claim"
  /\ LET r == request[p].run
         mine == promotions[r] = NoTask /\ runs[r].status # "purged"
     IN  /\ promotions' = IF mine THEN [promotions EXCEPT ![r] = request[p].task] ELSE promotions
         /\ request' = [request EXCEPT ![p] = IF mine THEN [@ EXCEPT !.step = "store"] ELSE AtRest]
  /\ UNCHANGED <<runs, decisions, tasks, stamp, mishaps>>

\* _store_new_task, under the key promote:<run> of the user who asks.  The task is
\* created; or the user's task of an earlier attempt is found, which has another id; or
\* the gates, the key or the database refuse it; or it is created and the answer lost.
StoreTask(p) ==
  /\ request[p] # AtRest /\ request[p].step = "store"
  /\ LET r == request[p].run
         new == [run |-> r, by |-> request[p].by, task |-> request[p].task]
         found == \E t \in tasks : t.run = r /\ t.by = new.by
         stored == IF found THEN tasks ELSE tasks \cup {new}
     IN  \/ /\ tasks' = stored
            /\ request' = [request EXCEPT ![p] = AtRest]
            /\ UNCHANGED mishaps
         \/ /\ request' = [request EXCEPT ![p].step = "release"]
            /\ UNCHANGED <<tasks, mishaps>>
         \/ /\ tasks' = stored
            /\ request' = [request EXCEPT ![p].step = "release"]
            /\ mishaps' = mishaps \cup {<<r, "unanswered">>}
  /\ UNCHANGED <<runs, decisions, promotions, stamp>>

\* The row is given back, by run: whoever holds it now; or that fails too.
Release(p) ==
  /\ request[p] # AtRest /\ request[p].step = "release"
  /\ LET r == request[p].run
     IN  \/ promotions' = [promotions EXCEPT ![r] = NoTask] /\ UNCHANGED mishaps
         \/ mishaps' = mishaps \cup {<<r, "unreleased">>} /\ UNCHANGED promotions
  /\ request' = [request EXCEPT ![p] = AtRest]
  /\ UNCHANGED <<runs, decisions, tasks, stamp>>

\* The process dies between two transactions, or the answer of the claim is lost, which
\* no handler catches.
Dies(p) ==
  /\ request[p] # AtRest /\ request[p].step \in {"store", "release"}
  /\ mishaps' = mishaps \cup {<<request[p].run, "abandoned">>}
  /\ request' = [request EXCEPT ![p] = AtRest]
  /\ UNCHANGED <<runs, decisions, promotions, tasks, stamp>>

-----------------------------------------------------------------------------

Init == /\ runs = [r \in RunIds |-> [status |-> "running", steps_complete |-> FALSE,
                                     pending |-> FALSE]]
        /\ decisions = {} /\ tasks = {}
        /\ promotions = [r \in RunIds |-> NoTask]
        /\ stamp = 0 /\ mishaps = {}
        /\ request = [p \in Owners |-> AtRest]

Age == \E r \in RunIds :
  \/ \E status \in TERMINAL_RUN_STATUSES, complete, pending \in BOOLEAN :
        Finish(r, status, complete, pending)
  \/ PurgeRun(r)

Judge == \E p \in Owners :
  \/ \E r \in RunIds, key \in DecisionKeys, decision \in DECISIONS :
        DecideReads(p, r, key, decision)
  \/ RecordDecision(p)

Promote == \E p \in Owners :
  \/ \E r \in RunIds, by \in Promoters : PromoteReads(p, r, by)
  \/ Claim(p) \/ StoreTask(p) \/ Release(p) \/ Dies(p)

Next == Age \/ Judge \/ Promote

Spec == Init /\ [][Next]_acceptanceVars

-----------------------------------------------------------------------------
(* Properties *)

DecisionRow == [run : RunIds, key : DecisionKeys, decision : DECISIONS,
                structural_verdict : {"met", "unmet"}, stamp : 1 .. MaxStamps]

\* Every table and every request keeps its shape.
TypeOK ==
  /\ runs \in [RunIds -> [status : TERMINAL_RUN_STATUSES \cup {"running", "purged"},
                          steps_complete : BOOLEAN, pending : BOOLEAN]]
  /\ decisions \subseteq DecisionRow
  /\ promotions \in [RunIds -> 1 .. MaxStamps \cup {NoTask}]
  /\ tasks \subseteq [run : RunIds, by : Promoters, task : 1 .. MaxStamps]
  /\ stamp \in 0 .. MaxStamps
  /\ mishaps \subseteq RunIds \X {"abandoned", "unreleased", "unanswered"}
  /\ \A p \in Owners :
       \/ request[p] = AtRest
       \/ request[p] \in [step : {"decide"}, row : DecisionRow]
       \/ request[p] \in [step : {"claim", "store", "release"}, run : RunIds,
                           by : Promoters, task : 1 .. MaxStamps]

\* A run becomes one task of a user, whoever asks at the same time and however often an
\* attempt is refused and given back; and of one user only, unless the answer to a task
\* that was stored has been lost: the claim is given back then, and whoever promotes the
\* run next under another user's key makes a second task.
OneTaskPerRun == \A t, u \in tasks : t.run = u.run =>
  t = u \/ (t.by # u.by /\ <<t.run, "unanswered">> \in mishaps)

\* The promotion row of a run names a task that exists, unless its claimer is still at
\* work, or the run's claim was abandoned or could not be given back, or a lost answer
\* left a task behind that the next claim finds under its old id: promote_run_to_task
\* leaves no dangling link otherwise.
Dangling == {r \in RunIds :
  /\ promotions[r] # NoTask
  /\ \A t \in tasks : t.run = r => t.task # promotions[r]
  /\ \A p \in Owners : request[p] # AtRest /\ request[p].step \in {"store", "release"}
                          => request[p].task # promotions[r]}
LinksLeadSomewhere == \A r \in Dangling : \E m \in mishaps : m[1] = r

=============================================================================
