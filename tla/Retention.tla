------------------------------ MODULE Retention ------------------------------
(***************************************************************************)
(* Retention of one tenant's data: the worker purges expired runs with what*)
(* hangs on them, then the task if it is free, and expired export packages,*)
(* while requests start runs and register artifacts.  Time is the date of  *)
(* a row; proposals go by their age alone and are left out.                *)
(***************************************************************************)
EXTENDS Integers, FiniteSets

CONSTANTS Purgers,     \* worker processes that run the retention job
          RunIds,
          RunLimit,    \* rows of one kind a round deletes
          MaxTime, MaxRetries,
          NoRows

VARIABLES clock,
          task,        \* the task's date, or -1
          runs,        \* workbench_run_records: date of each run, or -1
          artifacts,   \* runs that rows of a child table refer to
          starting,    \* runs whose request has read the task
          purging,     \* the runs a purger has deleted the children of
          late,        \* runs that got a child while they were being purged
          packages,    \* dates of export packages
          retries,
          orphans      \* history: runs whose task was purged between the request's
                       \* look at it and the record

vars == <<clock, task, runs, artifacts, starting, purging, late, packages, retries, orphans>>
runVars == <<task, runs, artifacts, starting, purging, late, retries, orphans>>

Dates == 0 .. MaxTime
\* Everything is kept for one unit of time; what is as old as that is not
\* expired yet.
Expired(date) == date # -1 /\ date < clock - 1

Init ==
    /\ clock = 0 /\ retries = 0 /\ purging = [p \in Purgers |-> NoRows]
    /\ task = 0 /\ runs = [r \in RunIds |-> -1] /\ artifacts = {} /\ starting = {} /\ late = {}
    /\ packages = {} /\ orphans = {}

Tick ==
    /\ clock < MaxTime /\ clock' = clock + 1
    /\ UNCHANGED <<runVars, packages>>

-----------------------------------------------------------------------------
(*                       Runs, tasks and proposals                         *)

\* A request that starts a run reads the task and writes the record later.
ReadTask(r) ==
    /\ runs[r] = -1 /\ task # -1 /\ r \notin starting
    /\ starting' = starting \cup {r}
    /\ UNCHANGED <<clock, task, runs, artifacts, purging, late, retries, packages, orphans>>

StartRun(r) ==
    /\ r \in starting
    /\ starting' = starting \ {r} /\ runs' = [runs EXCEPT ![r] = clock]
    /\ orphans' = IF task = -1 THEN orphans \cup {r} ELSE orphans
    /\ UNCHANGED <<clock, task, artifacts, purging, late, retries, packages>>

\* The foreign key asks for the run's record.
RegisterArtifact(r) ==
    /\ runs[r] # -1 /\ retries < MaxRetries
    /\ artifacts' = artifacts \cup {r} /\ retries' = retries + 1
    /\ late' = IF \E p \in Purgers : purging[p] # NoRows /\ r \in purging[p]
               THEN late \cup {r} ELSE late
    /\ UNCHANGED <<clock, task, runs, starting, purging, packages, orphans>>

ExpiredRuns == {r \in RunIds : Expired(runs[r])}
\* At most RunLimit of them, the oldest first.
OldestRuns(S) ==
    /\ S \subseteq ExpiredRuns
    /\ Cardinality(S) = IF Cardinality(ExpiredRuns) < RunLimit THEN Cardinality(ExpiredRuns)
                        ELSE RunLimit
    /\ \A r \in S, q \in ExpiredRuns \ S : runs[r] <= runs[q]

\* A task goes when none of its runs is younger than the cutoff.
TaskIsFree(kept) == Expired(task) /\ \A r \in RunIds : kept[r] # -1 => Expired(kept[r])

\* The transaction selects the runs and deletes the rows that hang on them.
\* A second purger waits for the rows the first has locked.
SelectExpired(p) ==
    /\ \A q \in Purgers : purging[q] = NoRows
    /\ ExpiredRuns # {} \/ TaskIsFree(runs)
    /\ \E S \in SUBSET ExpiredRuns : OldestRuns(S) /\ purging' = [purging EXCEPT ![p] = S]
    /\ UNCHANGED <<clock, task, runs, artifacts, starting, late, retries, packages, orphans>>

EndPurge(p) == purging' = [purging EXCEPT ![p] = NoRows] /\ late' = late \ purging[p]

\* Then it deletes the runs, and the task if it is free: it sees the runs that
\* were started meanwhile.
PurgeExpired(p) ==
    /\ purging[p] # NoRows /\ purging[p] \cap late = {}
    /\ LET kept == [r \in RunIds |-> IF r \in purging[p] THEN -1 ELSE runs[r]] IN
       /\ runs' = kept
       /\ task' = IF TaskIsFree(kept) THEN -1 ELSE task
    /\ artifacts' = artifacts \ purging[p]
    /\ EndPurge(p)
    /\ UNCHANGED <<clock, starting, retries, packages, orphans>>

\* A child that came meanwhile keeps its run: the database refuses to delete
\* it and the whole transaction is rolled back.
RollBackPurge(p) ==
    /\ purging[p] # NoRows /\ purging[p] \cap late # {}
    /\ EndPurge(p)
    /\ UNCHANGED <<clock, task, runs, artifacts, starting, retries, packages, orphans>>

StorePackage ==
    /\ clock \notin packages /\ packages' = packages \cup {clock}
    /\ UNCHANGED <<clock, runVars>>

\* A package is expired on the very moment.
Outdated == {d \in packages : d <= clock - 1}
PurgePackages ==
    /\ Outdated # {} /\ packages' = packages \ Outdated
    /\ UNCHANGED <<clock, runVars>>

-----------------------------------------------------------------------------

PurgeRuns(p) == SelectExpired(p) \/ PurgeExpired(p) \/ RollBackPurge(p)
Request(r) == ReadTask(r) \/ StartRun(r) \/ RegisterArtifact(r)

Next ==
    \/ Tick \/ StorePackage \/ PurgePackages
    \/ \E r \in RunIds : Request(r)
    \/ \E p \in Purgers : PurgeRuns(p)

Spec == Init /\ [][Next]_vars

\* The beat keeps the worker coming round; requests that began go on.
Fairness == /\ WF_vars(\E p \in Purgers : PurgeRuns(p))
            /\ WF_vars(PurgePackages)
FairSpec == Spec /\ Fairness

-----------------------------------------------------------------------------
(*                               Properties                                *)

\* Every variable has its type.
TypeOK ==
    /\ clock \in Dates /\ task \in Dates \cup {-1} /\ runs \in [RunIds -> Dates \cup {-1}]
    /\ artifacts \cup starting \cup late \cup orphans \subseteq RunIds /\ packages \subseteq Dates
    /\ \A p \in Purgers : purging[p] \in (SUBSET RunIds) \cup {NoRows}

\* No row hangs on a run that was purged, although requests add such rows
\* between the two deletions of the transaction.  A run may outlive its task,
\* which no foreign key forbids, but only one that has expired and waits for a
\* later round, or one whose request had read the task before it was purged: a
\* round never takes the task away from a run that is to be kept.
NothingHangs ==
    /\ \A r \in artifacts : runs[r] # -1
    /\ task = -1 => \A r \in RunIds : runs[r] = -1 \/ Expired(runs[r]) \/ r \in orphans

\* What has expired goes, although rounds are bounded and may be rolled back.
ExpiredVanishes ==
    (ExpiredRuns # {} \/ Outdated # {}) ~> (ExpiredRuns = {} /\ Outdated = {})
=============================================================================
