----------------------------- MODULE MCBusiness -----------------------------
(***************************************************************************)
(* Runs and their actions, customers and deals, the workforce, turn        *)
(* tokens, acceptance of runs, accounts and the assembly of the processes, *)
(* for TLC: a behaviour is one of the part it picks at the start, the      *)
(* others rest in their initial state.                                     *)
(***************************************************************************)
EXTENDS Naturals, Sequences, TLC

CONSTANTS Parts    \* the parts this run is about
CONSTANTS Sellers, Scanner, Totals, MaxQuotes, MaxContracts, NoDeal
CONSTANTS Employees, Heads, LeadIds, MaxAccounts, MaxOpportunities, NoCustomer
CONSTANTS Keeper, Lead, Clients, MaxActivities, MaxInsights, LastReminder,
    NoVisit
CONSTANTS Chiefs, Askers, JobRoles, AgentKeys, TaskKeys, Prompts, Injected,
    TaskRisks, Nothing
CONSTANTS TaskRuns, OrphanLimit, MaxTurns, MaxRestarts, NoTurn, Free
CONSTANTS Owners, RunIds, DecisionKeys, Promoters, MaxStamps, NoTask, AtRest
CONSTANTS Phones, Requests, Subjects, MaxFailures, LastStep, MaxStates,
    MaxSessions, ReviewedRoles, RequireAdminTotp, TrustIdpMfa,
    BootstrapAllowed, Unset, NoRequest
CONSTANTS Deciders, Sender, HasBody, MaxRuns, MayCrash, MayFail, NoRow
CONSTANTS Handlers, Ops, MaxSteps, MaxRequests, MaxLog, NoRun
CONSTANTS Deployments, Instances, Threads, Versions, MaxStarts, Nobody

VARIABLES quotes, contracts, agreed, ended, counter
VARIABLES customers, leads, opportunities, stageEvents, visit
VARIABLES clients, activities, insights, reminders, day, caring
VARIABLES jobs, staff, orders, waived, knowledgeable, tidings, intake
VARIABLES registered, bound, gateway, held, opening, closing, running, minted,
    endedTurns, restarts
VARIABLES runs, decisions, promotions, tasks, stamp, request, mishaps
VARIABLES accounts, failures, ssoStates, begun, sessions, told, copy
VARIABLES run, sequences, record, action, due, billed, ran, calm, pc, choice,
    mem, row
VARIABLES stateRow, eventLog, purgedEvents, next, seen, deciding
VARIABLES settings, schema, lock, draft, place, built, slots, mind, key,
    builds, starts
VARIABLE part

dVars == <<quotes, contracts, agreed, ended, counter>>
pVars == <<customers, leads, opportunities, stageEvents, visit>>
cVars == <<clients, activities, insights, reminders, day, caring>>
wVars == <<jobs, staff, orders, waived, knowledgeable, tidings, intake>>
tVars == <<registered, bound, gateway, held, opening, closing, running,
    minted, endedTurns, restarts>>
rVars == <<runs, decisions, promotions, tasks, stamp, request, mishaps>>
iVars == <<accounts, failures, ssoStates, begun, sessions, told, copy>>
xVars == <<run, sequences, record, action, due, billed, ran, calm, pc,
    choice, mem, row>>
lVars == <<stateRow, eventLog, purgedEvents, next, seen, deciding>>
aVars == <<settings, schema, lock, draft, place, built, slots, mind, key,
    builds, starts>>
vars == <<part, dVars, pVars, cVars, wVars, tVars, rVars, iVars, xVars, lVars,
    aVars>>

\* A sound deployment, one for development, and deployments that get one
\* setting wrong.
Good == [env |-> "production", storage |-> "postgres", contents |-> "sqlite",
    database |-> "postgres", secrets |-> "apart", origins |-> "listed", sso |-> "on",
    knora |-> "on", embedding |-> TRUE, generator |-> "mock", publisher |-> "on",
    evolution |-> TRUE, runtime |-> "dsh", pieces |-> TRUE]
Dev == [Good EXCEPT !.env = "development", !.storage = "memory", !.contents = "memory",
    !.database = "sqlite", !.secrets = "equal", !.sso = "off", !.knora = "off",
    !.embedding = FALSE, !.publisher = "off", !.evolution = FALSE, !.runtime = "mock"]
MCDeployments ==
    {Good, Dev, [Dev EXCEPT !.storage = "postgres", !.database = "postgres"],
     [Dev EXCEPT !.storage = "postgres"], [Good EXCEPT !.storage = "memory"],
     [Good EXCEPT !.contents = "memory"], [Good EXCEPT !.secrets = "equal"],
     [Good EXCEPT !.sso = "half"], [Good EXCEPT !.knora = "half"],
     [Good EXCEPT !.embedding = FALSE], [Good EXCEPT !.generator = "half"],
     [Good EXCEPT !.pieces = FALSE]}

\* Plans that wait, that run beside it, that end or fail while they start.
MCPlans == {<<"approve">>, <<"approve", "approve">>, <<"auto", "approve">>,
            <<"auto", "skip">>, <<"auto", "fail">>}

\* No module tells one phone from another, or one request.
Symmetry == Permutations(Phones) \cup Permutations(Requests)

D == INSTANCE Deals
P == INSTANCE SalesPipeline WITH
    accounts <- customers
C == INSTANCE CustomerCare
W == INSTANCE Workforce WITH
    bound <- knowledgeable
T == INSTANCE TurnTokens WITH
    ended <- endedTurns, Runs <- TaskRuns
R == INSTANCE RunAcceptance
I == INSTANCE Accounts
X == INSTANCE ToolApproval
L == INSTANCE RunState WITH
    MayCrash <- FALSE, MayPurge <- TRUE, NoState <- NoRun, Plans <- MCPlans,
    row <- stateRow, log <- eventLog, purged <- purgedEvents, pc <- next, mem
    <- seen, arg <- deciding
A == INSTANCE Assembly

\* Each request has a thread of its own, and no row is the absence of one.
ASSUME ApprovalAssumption ==
    /\ Sender \notin Deciders
    /\ HasBody \in BOOLEAN /\ MaxRuns \in Nat
    /\ NoRow \notin X!Runs \cup X!Records \cup X!Actions

\* No turn is a turn, and nothing that is open is a free place.
ASSUME TokenAssumption ==
    /\ MaxTurns \in Nat
    /\ NoTurn \notin T!Bound
    /\ Free \notin [run : TaskRuns, token : 0 .. MaxTurns, generation : 0 .. MaxTurns]

\* Tasks have one of the four risks, and no row is the absence of one.
ASSUME WorkforceAssumption ==
    /\ TaskRisks \subseteq {"low", "medium", "high", "critical"}
    /\ Nothing \notin W!StaffRows \cup W!OrderRows

\* The operations are those of the runtime, and no row is the absence of one.
ASSUME RunAssumption ==
    /\ Ops \subseteq {"pause", "resume", "cancel", "request", "decide"}
    /\ MaxSteps \in Nat /\ MaxRequests \in Nat
    /\ NoRun \notin [status : L!Statuses, plan : MCPlans, approvals : [L!Ids -> L!Verdicts],
                      done : SUBSET Nat, calls : Nat, count : Nat, saved : BOOLEAN]

\* A stamp is a number, and no task and no request is the absence of one.
ASSUME PromotionAssumption ==
    /\ MaxStamps \in Nat /\ NoTask \notin 1 .. MaxStamps
    /\ AtRest \notin [step : {"claim", "store", "release"}, run : RunIds, by : Promoters, task : 1 .. MaxStamps]

\* An account that is not there has none of the statuses.
ASSUME AccountAssumption == Unset \notin {"pending", "approved", "rejected"}

\* Nobody is no thread.
ASSUME AssemblyAssumption == Nobody \notin Threads

\* Amounts are whole cents.
ASSUME DealAssumption ==
    Totals \subseteq Nat /\ MaxQuotes \in Nat /\ MaxContracts \in Nat

\* No stage and no lead is the absence of one.
ASSUME PipelineAssumption ==
    /\ NoCustomer \notin {"qualification", "proposal", "negotiation", "won", "lost"}
    /\ NoCustomer \notin P!LeadRows
    /\ MaxAccounts \in Nat /\ MaxOpportunities \in Nat

\* Counters are counted up to a bound, every plan is short enough, and
\* applications are approved with a role there is.
ASSUME BoundsAssumption ==
    /\ MaxRestarts \in Nat
    /\ MaxFailures \in Nat /\ LastStep \in Nat /\ MaxStates \in Nat /\ MaxSessions \in Nat
    /\ \A plan \in MCPlans : Len(plan) <= MaxSteps
    /\ ReviewedRoles \subseteq I!Roles

\* People are not periodic tasks.
ASSUME CareAssumption ==
    /\ Keeper \notin {"reminder", "health"} /\ Lead \notin {"reminder", "health"}
    /\ LastReminder \in Nat \ {0}

Init ==
    /\ part \in Parts
    /\ D!Init /\ P!Init /\ C!Init /\ W!Init /\ T!Init /\ R!Init /\ I!Init
    /\ X!Init /\ L!Init /\ A!Init
    /\ part \notin {"boot", "worker"} => settings = Good

Next ==
    \/ /\ part = "deals" /\ D!Next
       /\ UNCHANGED <<part, pVars, cVars, wVars, tVars, rVars, iVars, xVars, lVars,
              aVars>>
    \/ /\ part = "pipeline" /\ P!Next
       /\ UNCHANGED <<part, dVars, cVars, wVars, tVars, rVars, iVars, xVars, lVars,
              aVars>>
    \/ /\ part = "care" /\ C!Next
       /\ UNCHANGED <<part, dVars, pVars, wVars, tVars, rVars, iVars, xVars, lVars,
              aVars>>
    \/ /\ part = "workforce" /\ W!Next
       /\ UNCHANGED <<part, dVars, pVars, cVars, tVars, rVars, iVars, xVars, lVars,
              aVars>>
    \/ /\ part = "tokens" /\ T!Next
       /\ UNCHANGED <<part, dVars, pVars, cVars, wVars, rVars, iVars, xVars, lVars,
              aVars>>
    \/ /\ part = "acceptance" /\ R!Next
       /\ UNCHANGED <<part, dVars, pVars, cVars, wVars, tVars, iVars, xVars, lVars,
              aVars>>
    \/ /\ part = "accounts" /\ I!Next
       /\ UNCHANGED <<part, dVars, pVars, cVars, wVars, tVars, rVars, xVars, lVars,
              aVars>>
    \/ /\ part = "approval" /\ X!Next
       /\ UNCHANGED <<part, dVars, pVars, cVars, wVars, tVars, rVars, iVars, lVars,
              aVars>>
    \/ /\ part = "run" /\ L!Next
       /\ UNCHANGED <<part, dVars, pVars, cVars, wVars, tVars, rVars, iVars, xVars,
              aVars>>
    \/ /\ part = "boot" /\ (A!Boot \/ A!Migrate)
       /\ UNCHANGED <<part, dVars, pVars, cVars, wVars, tVars, rVars, iVars, xVars,
              lVars>>
    \/ /\ part = "worker" /\ A!Task
       /\ UNCHANGED <<part, dVars, pVars, cVars, wVars, tVars, rVars, iVars, xVars,
              lVars>>

Spec == Init /\ [][Next]_vars

-----------------------------------------------------------------------------
(*                 Properties, stated in their own modules                 *)

\* Every variable has its type.
TypeOK ==
    /\ D!TypeOK /\ P!TypeOK /\ C!TypeOK /\ W!TypeOK
    /\ T!TypeOK /\ R!TypeOK /\ I!TypeOK /\ X!TypeOK /\ L!TypeOK /\ A!TypeOK

\* An action is executed at most once, with its body, and 027 says what the
\* runtime holds once the request is over.
ActionIsSafe ==
    /\ X!ExecutedAtMostOnce /\ X!AuthorityFollowsDecision
    /\ X!BodyLivesWithAction /\ X!DecisionReachesAuthority

\* Only an approved action is executed, the first decision stands, and a run
\* that is over stays over.
DecisionsStand ==
    X!OnlyApprovedIsExecuted /\ X!FirstDecisionStands /\ L!TerminalIsFinal

\* One request at a time a rejection stops its run, no event overwrites
\* another and the row is as far as the events are, purged or not.
RunIsOrderly ==
    L!RejectionStopsRun /\ L!SequenceNeverReused /\ L!RowIsCurrent

\* A quote and its contract are worth what was confirmed, the events of an
\* opportunity lead from its first stage to the one it is in, plans for a customer
\* cite what was known of it, and a reminder that is marked was sent.
SalesAreTrue ==
    /\ D!AmountWasConfirmed /\ P!HistoryIsAPath
    /\ C!PlansCiteTheAccount /\ C!MarksAreTold

\* A task of a sensitive employee is approved by a person.
ApprovalIsNotWaived == W!ApprovalIsNotWaived

\* A token is of no use once its turn is over.
EndedTurnIsRefused == T!EndedTurnIsRefused

\* What is asked twice happens once: one task of a user comes of a run, and of one user
\* unless the answer to a stored task was lost; the run's link leads to a task unless its
\* claim was abandoned or not given back, or such an answer was lost; a sign-on completes
\* once, and who is told of an approval is approved.
RepeatsAreAbsorbed ==
    /\ R!OneTaskPerRun /\ R!LinksLeadSomewhere
    /\ I!SignOnCompletesOnce /\ I!ApprovalToldIsTrue

\* What serves is built of sound settings, and built once.
ServingIsSound == A!ServingIsSound /\ A!BuiltOnce
=============================================================================
