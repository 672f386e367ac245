----------------------------- MODULE MCGovernance -----------------------------
(***************************************************************************)
(* Tenants, what is kept of them, their skills, knowledge, memory,         *)
(* evaluation, content, plans and conversations, for TLC: a behaviour is   *)
(* one of the part it picks at the start, the others rest in their initial *)
(* state.                                                                  *)
(***************************************************************************)
EXTENDS Naturals, Sequences, FiniteSets, TLC

CONSTANTS Parts    \* the parts this run is about
CONSTANTS Managers, Janitors, Layers, MaxDeletions, MaxExports, MaxCrashes,
    NoJob
CONSTANTS Purgers, RunIds, RunLimit, MaxTime, MaxRetries, NoRows
CONSTANTS Carriers, UsageKeys, LastUsageDay, MaxEntries
CONSTANTS SkillPeople, Reviewers, Binders, SkillKeys, LastVersion, Agents,
    Tools, Catalogue, NoSkill, Idle
CONSTANTS Employees, KnowledgeManagers, Documents, Bases, HomeBase, GraceDays,
    LastDay, Nobody
CONSTANTS Users, Governors, FactKeys, RuleOwner, Budget, MaxFacts, MaxRules,
    MaxRestarts, Resting
CONSTANTS Admins, Snapshots, CaseCost, Repeats, MaxCost, MaxCasesPerRun,
    MaxCases, MaxEvalRuns, AtRest
CONSTANTS Author, Elevated, Bodies, RegenerationKeys, MaxRevision,
    MaxContentRuns, Receipts, Blank
CONSTANTS Planners, Approvers, PlanKeys, ToolNames, ToolList, MaxSteps,
    MaxPlanRuns, SensitiveTask, Models, Planner, Runtimes,
    DefaultRuntime, MinSamples, MaxRate, Threshold, MaxSuggestions,
    NoPlan
CONSTANTS Senders, Calls, Gated, MayCrash, MayFail, NoRow

VARIABLES tenant, deletions, exports, packages, matured, layers, at, job,
    copy, todo, now, crashes, stranded, crossed
VARIABLES clock, task, runs, artifacts, starting, purging, late, stored,
    retries, orphans
VARIABLES usageDay, ledger, balance, carrying, entries
VARIABLES skills, bindings, mind, repairing, wiped
VARIABLES docs, today, desk, grants, granted, answers
VARIABLES facts, rules, profile, accrued, thought, restarts, erased
VARIABLES cases, evalRuns, hand
VARIABLES article, pen, publications, calls, contentRuns, confirmedOnce
VARIABLES plans, planRuns, suggestions, notices, quill
VARIABLES conversation, remembered, carrier, keyedRuns, recorded, actions,
    decided, executed, messages, left, pc, call, mode, held, found,
    result, answer, deletion, approving, calm
VARIABLE part

tVars == <<tenant, deletions, exports, packages, matured, layers, at, job,
    copy, todo, now, crashes, stranded, crossed>>
rVars == <<clock, task, runs, artifacts, starting, purging, late, stored,
    retries, orphans>>
uVars == <<usageDay, ledger, balance, carrying, entries>>
sVars == <<skills, bindings, mind, repairing, wiped>>
kVars == <<docs, today, desk, grants, granted, answers>>
mVars == <<facts, rules, profile, accrued, thought, restarts, erased>>
eVars == <<cases, evalRuns, hand>>
cVars == <<article, pen, publications, calls, contentRuns, confirmedOnce>>
pVars == <<plans, planRuns, suggestions, notices, quill>>
dVars == <<conversation, remembered, carrier, keyedRuns, recorded, actions,
    decided, executed, messages, left, pc, call, mode, held, found,
    result, answer, deletion, approving, calm>>
vars == <<part, tVars, rVars, uVars, sVars, kVars, mVars, eVars, cVars, pVars,
    dVars>>

\* Two layers stand for the five that are purged, one base for the two of the
\* knowledge base's configuration.
MCLayers == <<"conversations", "memories">>
MCHome == [d \in Documents |-> CHOOSE b \in Bases : TRUE]
\* A model for sensitive tasks, g, and one that is not, h.
MCModels == [name \in {"g", "h"} |->
    [enabled |-> TRUE, plans |-> TRUE, sensitive |-> name = "g"]]

T == INSTANCE TenantLifecycle
R == INSTANCE Retention WITH
    packages <- stored
U == INSTANCE UsageLedger WITH
    today <- usageDay, LastDay <- LastUsageDay
S == INSTANCE Skills WITH
    People <- SkillPeople
K == INSTANCE KnowledgeGovernance WITH
    Managers <- KnowledgeManagers, People <- Employees
M == INSTANCE Memory
E == INSTANCE Evolution
C == INSTANCE ContentPublication WITH
    Verdicts <- Receipts
P == INSTANCE Planning
D == INSTANCE MessageExecution WITH
    task <- carrier, runs <- keyedRuns, Requests <- Senders

\* There is someone whose requests are charged.
ASSUME MemoryAssumption ==
    Users # {} /\ IsFiniteSet(Users) /\ Budget \in Nat

\* No plan is a plan.
ASSUME PlanAssumption ==
    MaxPlanRuns \in Nat /\ NoPlan \notin P!Plans

\* A review is due in some days, or at once.
ASSUME ReviewAssumption == GraceDays \in Nat

\* No package is a package.
ASSUME SkillAssumption == NoSkill \notin S!Rows

\* There is a last day, and NoRows is no selection of rows.
ASSUME LedgerAssumption ==
    LastUsageDay \in Nat /\ NoRows \notin [cutoff : U!Days, rows : SUBSET U!UsageEntry]

\* The layers are in order, and time and numbers have bounds.
ASSUME BoundsAssumption ==
    /\ Layers \in Seq(STRING) /\ MaxTime \in Nat /\ LastDay \in Nat
    /\ MaxCases \in Nat /\ MaxRules \in Nat
    /\ MaxRevision \in Nat \ {0} /\ MaxContentRuns \in Nat

Init ==
    /\ part \in Parts
    /\ T!Init /\ R!Init /\ U!Init /\ S!Init /\ K!Init /\ M!Init /\ E!Init
    /\ C!Init /\ P!Init /\ D!Init
    /\ part # "deletion" => conversation.mode = "craft"

Next ==
    \/ /\ part = "tenant" /\ T!Next
       /\ UNCHANGED <<part, rVars, uVars, sVars, kVars, mVars, eVars, cVars, pVars,
              dVars>>
    \/ /\ part = "retention" /\ R!Next
       /\ UNCHANGED <<part, tVars, uVars, sVars, kVars, mVars, eVars, cVars, pVars,
              dVars>>
    \/ /\ part = "usage" /\ U!Next
       /\ UNCHANGED <<part, tVars, rVars, sVars, kVars, mVars, eVars, cVars, pVars,
              dVars>>
    \/ /\ part = "skills" /\ S!Next
       /\ UNCHANGED <<part, tVars, rVars, uVars, kVars, mVars, eVars, cVars, pVars,
              dVars>>
    \/ /\ part = "knowledge" /\ K!Next
       /\ UNCHANGED <<part, tVars, rVars, uVars, sVars, mVars, eVars, cVars, pVars,
              dVars>>
    \/ /\ part = "memory" /\ M!Next
       /\ UNCHANGED <<part, tVars, rVars, uVars, sVars, kVars, eVars, cVars, pVars,
              dVars>>
    \/ /\ part = "evolution" /\ E!Next
       /\ UNCHANGED <<part, tVars, rVars, uVars, sVars, kVars, mVars, cVars, pVars,
              dVars>>
    \/ /\ part = "content" /\ C!Next
       /\ UNCHANGED <<part, tVars, rVars, uVars, sVars, kVars, mVars, eVars, pVars,
              dVars>>
    \/ /\ part = "planning" /\ P!Next
       /\ UNCHANGED <<part, tVars, rVars, uVars, sVars, kVars, mVars, eVars, cVars,
              dVars>>
    \/ /\ part = "deletion" /\ D!Next
       /\ UNCHANGED <<part, tVars, rVars, uVars, sVars, kVars, mVars, eVars, cVars,
              pVars>>

Spec == Init /\ [][Next]_vars

\* The fairness of the part that runs, as its module states it.
Fairness ==
    /\ \A a \in Managers : WF_tVars(part = "tenant" /\ at[a] # "idle" /\ T!Manage(a))
    /\ \A w \in Janitors : WF_tVars(part = "tenant" /\ T!RunPendingJobs(w))
    /\ WF_rVars(part = "retention" /\ \E p \in Purgers : R!PurgeRuns(p))
    /\ WF_rVars(part = "retention" /\ R!PurgePackages)
    /\ WF_uVars(part = "usage" /\ \E p \in Carriers : U!Carry(p))
    /\ WF_kVars(part = "knowledge" /\ K!ScanReviewDue)
    /\ WF_dVars(part = "deletion" /\ \E r \in Senders : D!RequestStep(r))
    /\ WF_dVars(part = "deletion" /\ D!DeleteStep)

FairSpec == Spec /\ Fairness

-----------------------------------------------------------------------------
(*                 Properties, stated in their own modules                 *)

\* Every variable has its type.
TypeOK ==
    /\ T!TypeOK /\ R!TypeOK /\ U!TypeOK /\ S!TypeOK /\ K!TypeOK
    /\ M!TypeOK /\ E!TypeOK /\ C!TypeOK /\ P!TypeOK /\ D!TypeOK

\* A tenant's data goes only after its export and its cooling-off period, and
\* what was purged once is purged to the end and stays deleted, but for a purge
\* that is cut off and a request that crosses the worker.  The retention job
\* leaves no row on a run that is gone, and takes no task from a run that is to
\* be kept, but for one whose request had read the task before.
PurgesAreSafe == T!PurgedWasExported /\ R!NothingHangs

\* Carrying expired usage over keeps the balance.
LedgerIsExact == U!LedgerIsExact

\* The periodic jobs get their work done: due deletions (unless an older one
\* nobody confirmed for stands in the way), expired runs and packages, expired
\* usage, documents due for review.
DueWorkIsDone ==
    T!DueDeletionRuns /\ R!ExpiredVanishes /\ U!UsageIsNetted /\ K!DueIsFlagged

\* A conversation that is to be deleted is deleted in the end.
DeletionConverges == D!DeletionConverges

\* What an agent may use was reviewed by another than its author, and is bound
\* only once it was enabled; what a run was judged by stays as it was, and
\* replacements of cases end.
AgentsAreVetted ==
    /\ S!ToolsWereVetted /\ S!BindingsWereEarned
    /\ E!JudgedStaysFixed /\ E!HeirsAreYounger

\* A search shows what the searcher may read, and what is published has an
\* owner and a review date.
KnowledgeIsEntitled == K!AnswersAreEntitled /\ K!PublishedIsOwned

\* The versions of a memory rule form one chain, and the budget is overrun by
\* no more than the requests that passed it together.
MemoryIsBounded == M!RuleChainIsLinear /\ M!BudgetHolds

\* What the platform got was confirmed by a person, word for word.
SentWasConfirmed == C!SentWasConfirmed

\* The code does not keep it: the platform gets a revision once.
PublishedOnce == C!PublishedOnce

\* Every run of a plan was approved by another person, and authors are told
\* what was decided.
PlansAreApproved == P!RunsWereApproved /\ P!NoticesTellTheVerdict
=============================================================================
