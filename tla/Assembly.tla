------------------------------- MODULE Assembly -------------------------------
(***************************************************************************)
(* How the processes of a deployment come up: every API process reads the  *)
(* settings, builds its parts in the order of main.py, migrates the        *)
(* database it shares with the others, and serves or exits; the worker's   *)
(* process builds nothing until the first task it executes, in whatever    *)
(* thread that task runs.                                                  *)
(***************************************************************************)
EXTENDS Naturals, FiniteSets, Sequences

CONSTANTS
    Deployments,   \* the settings a deployment may be given
    Instances,     \* API processes
    Threads,       \* threads that execute tasks in the worker's process
    Versions,      \* how many migrations there are
    MaxStarts,     \* bound: starts of API processes
    Nobody         \* no process

VARIABLES
    settings,   \* what every process of the deployment reads
    schema,     \* version |-> times it was applied (workbench_schema_migrations)
    lock,       \* the process that migrates, under the advisory lock
    draft,      \* the versions its transaction has applied
    place,      \* API process |-> the stage it is at, 0 down, beyond the last serving
    built,      \* API process |-> stage |-> what it was built as
    slots,      \* the worker's slots that are set
    mind,       \* thread |-> where its task is
    key,        \* the thread that holds _runtime_lock
    builds,     \* how often the worker's runtime was built
    starts

assemblyVars == <<settings, schema, lock, draft, place, built, slots, mind, key, builds, starts>>

Development == settings.env = "development"
Postgres == settings.storage = "postgres"

\* validate_runtime_settings
Valid ==
    \/ Development
    \/ /\ Postgres
       /\ settings.contents # "memory"
       /\ settings.database = "postgres"
       /\ settings.secrets = "apart"
       /\ settings.origins = "listed"

-----------------------------------------------------------------------------
(*     What each stage of main.py builds: "durable", "file", "memory",     *)
(*          "ready", "off" (the feature is closed) or "refused"            *)

\* The choice every repository makes.
Store == IF Valid /\ Postgres THEN "durable"
         ELSE IF settings.storage = "memory" /\ Development THEN "memory" ELSE "refused"

Required(condition) == IF Valid /\ condition THEN "ready" ELSE "refused"
Optional(setting) == IF ~Valid \/ setting = "half" THEN "refused"
                     ELSE IF setting = "off" THEN "off" ELSE "ready"

Audit == Store
EventBus == IF Store = "durable" THEN "ready" ELSE Store
DeadLetters == Store
KnowledgeGovernance == Store
KnowledgeSearch == Optional(settings.knora)
Workforce == Store
Conversations == Store
Accounts == IF Store = "refused" \/ settings.sso = "half" THEN "refused" ELSE Store
Memory == IF Store = "refused" \/ (~settings.embedding /\ ~Development) THEN "refused" ELSE Store
Crm == Store
Skills == Store
Evolution == IF settings.evolution THEN Store ELSE "off"
RunState == Store
Commercial == Store

\* Without a piece it needs, real execution stays off and the process comes up.
ToolExecution ==
    IF ~Valid THEN "refused"
    ELSE IF settings.runtime = "dsh" /\ settings.pieces THEN "ready" ELSE "off"

Runs == Store
Streams == Store

Content ==
    IF ~Valid \/ (settings.contents = "memory" /\ ~Development) THEN "refused"
    ELSE IF settings.contents = "memory" THEN "memory" ELSE "file"

Generator == Required(settings.generator # "half")
Publisher == IF Valid THEN (IF settings.publisher = "on" THEN "ready" ELSE "off") ELSE "refused"
Publications == Store
Planner == Store
Orchestration == Store

Outcomes ==
    <<Audit, EventBus, DeadLetters, KnowledgeGovernance, KnowledgeSearch, Workforce, Conversations,
      Accounts, Memory, Crm, Skills, Evolution, RunState, Commercial, ToolExecution, Runs, Streams,
      Content, Generator, Publisher, Publications, Planner, Orchestration>>

Stages == 1..23
Serving == 24

-----------------------------------------------------------------------------
Init ==
    /\ settings \in Deployments
    /\ schema = [v \in 1..Versions |-> 0]
    /\ lock = Nobody
    /\ draft = {}
    /\ place = [p \in Instances |-> 0]
    /\ built = [p \in Instances |-> <<>>]
    /\ slots = {}
    /\ mind = [t \in Threads |-> "idle"]
    /\ key = Nobody
    /\ builds = 0
    /\ starts = 0

WorkerUnchanged == UNCHANGED <<slots, mind, key, builds>>
ApiUnchanged == UNCHANGED <<settings, schema, lock, draft, place, built, starts>>

Start(p) ==
    /\ place[p] = 0 /\ starts < MaxStarts
    /\ starts' = starts + 1
    /\ place' = [place EXCEPT ![p] = 1]
    /\ built' = [built EXCEPT ![p] = <<>>]
    /\ UNCHANGED <<settings, schema, lock, draft>> /\ WorkerUnchanged

Pending == {v \in 1..Versions : schema[v] = 0}

\* A builder that was handed no connection opens a pool of its own, which a
\* database that is not PostgreSQL never answers.
NeedsSchema(p) == place[p] \in Stages /\ Outcomes[place[p]] = "durable"
Answers(p) == NeedsSchema(p) => settings.database = "postgres"

\* The advisory lock is the transaction's: the versions are read under it.
LockMigrations(p) ==
    /\ NeedsSchema(p) /\ Answers(p) /\ Pending # {}
    /\ lock = Nobody
    /\ lock' = p /\ draft' = {}
    /\ UNCHANGED <<settings, schema, place, built, starts>> /\ WorkerUnchanged

ApplyMigration(p) ==
    /\ lock = p
    /\ \E v \in Pending \ draft : /\ \A w \in Pending \ draft : v <= w
                                  /\ draft' = draft \cup {v}
    /\ UNCHANGED <<settings, schema, lock, place, built, starts>> /\ WorkerUnchanged

CommitMigrations(p) ==
    /\ lock = p /\ Pending \ draft = {}
    /\ schema' = [v \in 1..Versions |-> schema[v] + (IF v \in draft THEN 1 ELSE 0)]
    /\ lock' = Nobody /\ draft' = {}
    /\ UNCHANGED <<settings, place, built, starts>> /\ WorkerUnchanged

\* The builder returns its part, off where it is not configured.
BuildStage(p) ==
    /\ place[p] \in Stages /\ lock # p
    /\ Outcomes[place[p]] # "refused" /\ Answers(p)
    /\ NeedsSchema(p) => Pending = {}
    /\ built' = [built EXCEPT ![p] = Append(@, Outcomes[place[p]])]
    /\ place' = [place EXCEPT ![p] = @ + 1]
    /\ UNCHANGED <<settings, schema, lock, draft, starts>> /\ WorkerUnchanged

\* A builder raises while main.py is imported: the process exits.
Refuse(p) ==
    /\ place[p] \in Stages
    /\ Outcomes[place[p]] = "refused" \/ ~Answers(p)
    /\ place' = [place EXCEPT ![p] = 0]
    /\ UNCHANGED <<settings, schema, lock, draft, built, starts>> /\ WorkerUnchanged

\* The process dies; PostgreSQL rolls its transaction back.
Dies(p) ==
    /\ place[p] # 0
    /\ place' = [place EXCEPT ![p] = 0]
    /\ IF lock = p THEN lock' = Nobody /\ draft' = {} ELSE UNCHANGED <<lock, draft>>
    /\ UNCHANGED <<settings, schema, built, starts>> /\ WorkerUnchanged

-----------------------------------------------------------------------------
(*                                The worker                               *)

\* The slots in the order configure_runtime sets them; a task reads its own.
Order == <<"outbox", "lifecycle", "knowledge", "events", "streams", "artifacts", "crm">>
SlotNames == {Order[i] : i \in DOMAIN Order}

Move(t, where) == mind' = [mind EXCEPT ![t] = where]

\* The first look of _ensure_runtime, without the lock.
EnsureRuntime(t) ==
    /\ mind[t] = "idle"
    /\ Move(t, IF slots # {} \/ Development THEN "run" ELSE "wait")
    /\ UNCHANGED <<slots, key, builds>> /\ ApiUnchanged

\* Mutant: nobody looks again under the lock.
TakeLockBlindly(t) ==
    /\ mind[t] = "wait" /\ key = Nobody
    /\ IF Store # "durable" THEN Move(t, "idle") /\ UNCHANGED <<key, builds>>
       ELSE Move(t, "build") /\ key' = t /\ builds' = builds + 1
    /\ UNCHANGED slots /\ ApiUnchanged

\* The second look, under the lock. A setting configure_runtime refuses fails
\* the task; nothing is set.
TakeLock(t) ==
    /\ mind[t] = "wait" /\ key = Nobody
    /\ IF slots # {} THEN Move(t, "run") /\ UNCHANGED <<key, builds>>
       ELSE IF Store # "durable" THEN Move(t, "idle") /\ UNCHANGED <<key, builds>>
       ELSE Move(t, "build") /\ key' = t /\ builds' = builds + 1
    /\ UNCHANGED slots /\ ApiUnchanged

\* The slots are module variables, set one after the other.
SetSlot(t) ==
    /\ mind[t] = "build" /\ slots # SlotNames
    /\ slots' = slots \cup {Order[Cardinality(slots) + 1]}
    /\ UNCHANGED <<mind, key, builds>> /\ ApiUnchanged

ReturnRuntime(t) ==
    /\ mind[t] = "build" /\ slots = SlotNames
    /\ Move(t, "run") /\ key' = Nobody
    /\ UNCHANGED <<slots, builds>> /\ ApiUnchanged

\* The periodic task: zeros when its slot is empty, otherwise one round of
\* its work, which fails while a table is missing.
RunTask(t) ==
    /\ mind[t] = "run"
    /\ Move(t, "idle")
    /\ UNCHANGED <<slots, key, builds>> /\ ApiUnchanged

Boot == \E p \in Instances : Start(p) \/ BuildStage(p) \/ Refuse(p) \/ Dies(p)
Migrate == \E p \in Instances : LockMigrations(p) \/ ApplyMigration(p) \/ CommitMigrations(p)
Task == \E t \in Threads :
    EnsureRuntime(t) \/ TakeLock(t) \/ SetSlot(t) \/ ReturnRuntime(t) \/ RunTask(t)

Next == Boot \/ Migrate \/ Task

Spec == Init /\ [][Next]_assemblyVars

-----------------------------------------------------------------------------
Kinds(p) == {built[p][i] : i \in DOMAIN built[p]}

TypeOK ==
    /\ settings \in Deployments
    /\ schema \in [1..Versions -> Nat]
    /\ lock \in Instances \cup {Nobody}
    /\ draft \subseteq 1..Versions
    /\ place \in [Instances -> 0..Serving]
    /\ \A p \in Instances : Kinds(p) \subseteq {"durable", "file", "memory", "ready", "off"}
    /\ slots \subseteq SlotNames
    /\ mind \in [Threads -> {"idle", "wait", "build", "run"}]
    /\ key \in Threads \cup {Nobody}
    /\ builds \in Nat

\* A process that serves has every table its parts use, each migration applied
\* exactly once however many processes came up together and died on the way;
\* and outside development it keeps nothing in memory.
ServingIsSound ==
    \A p \in Instances : place[p] = Serving =>
        /\ "durable" \in Kinds(p) => \A v \in 1..Versions : schema[v] = 1
        /\ ~Development => "memory" \notin Kinds(p)

\* The worker builds its runtime once, whatever number of its threads execute
\* their first task together: no second pool, no second publisher.
BuiltOnce == builds <= 1
=============================================================================
