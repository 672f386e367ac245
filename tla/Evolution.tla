------------------------------ MODULE Evolution ------------------------------
(***************************************************************************)
(* The evaluation cases of one suite and its runs: administrators write,   *)
(* publish, replace and archive cases, import them in bulk, and have a     *)
(* subject judged by those that are published.  Every step is a            *)
(* transaction of its own, and a request may die between two.              *)
(***************************************************************************)
EXTENDS Integers, Sequences, FiniteSets

CONSTANTS Admins,
          Snapshots,                \* digests of what a case shows the subject
          CaseCost, Repeats,        \* what judging one case costs, how often
          MaxCost, MaxCasesPerRun,
          MaxCases, MaxEvalRuns,
          AtRest

VARIABLES cases,      \* workbench_eval_cases, in the order of insertion
          evalRuns,   \* workbench_eval_runs with their results
          hand        \* what an administrator's request has read and goes on to do

vars == <<cases, evalRuns, hand>>

Verdicts == {"pass", "blocked"}
Expectations == Verdicts \cup {"none"}

Init == cases = <<>> /\ evalRuns = <<>> /\ hand = [a \in Admins |-> AtRest]

Hold(a, step) == hand' = [hand EXCEPT ![a] = step]
Doing(a, op) == hand[a] # AtRest /\ hand[a].op = op
Free(a) == hand[a] = AtRest
IsOpen(i) == cases[i].status \in {"draft", "published"}

-----------------------------------------------------------------------------
(*                                 Cases                                   *)

Insert(snapshot, expectation) ==
    /\ Len(cases) < MaxCases
    /\ cases' = Append(cases, [status |-> "draft", digest |-> snapshot,
                               expectation |-> expectation, heir |-> 0])

CreateCase(a, snapshot, expectation) ==
    /\ Free(a) /\ Insert(snapshot, expectation) /\ UNCHANGED <<evalRuns, hand>>

\* The update names the states it starts from.
SetExpectation(a, i, verdict) ==
    /\ Free(a) /\ cases[i].status = "draft"
    /\ cases' = [cases EXCEPT ![i].expectation = verdict]
    /\ UNCHANGED <<evalRuns, hand>>

\* A case without an expectation is not published.
PublishReads(a, i) ==
    /\ Free(a) /\ cases[i].status = "draft" /\ cases[i].expectation # "none"
    /\ Hold(a, [op |-> "publish", case |-> i]) /\ UNCHANGED <<cases, evalRuns>>

PublishWrites(a) ==
    /\ Doing(a, "publish") /\ Hold(a, AtRest)
    /\ cases' = IF cases[hand[a].case].status = "draft"
                THEN [cases EXCEPT ![hand[a].case].status = "published"] ELSE cases
    /\ UNCHANGED evalRuns

ArchiveCase(a, i) ==
    /\ Free(a) /\ IsOpen(i) /\ cases' = [cases EXCEPT ![i].status = "archived"]
    /\ UNCHANGED <<evalRuns, hand>>

\* The new case comes first; the old one gives way if it is still open.
SupersedeCreates(a, i, verdict) ==
    /\ Free(a) /\ IsOpen(i) /\ Insert(cases[i].digest, verdict)
    /\ Hold(a, [op |-> "supersede", case |-> i, heir |-> Len(cases) + 1])
    /\ UNCHANGED evalRuns

SupersedeArchives(a) ==
    /\ Doing(a, "supersede") /\ Hold(a, AtRest)
    /\ cases' = IF IsOpen(hand[a].case)
                THEN [cases EXCEPT ![hand[a].case].status = "archived",
                                   ![hand[a].case].heir = hand[a].heir]
                ELSE cases
    /\ UNCHANGED evalRuns

\* One case of an import: what is there already is skipped, whatever its state.
ImportReads(a, snapshot, expectation) ==
    /\ Free(a) /\ \A i \in DOMAIN cases : cases[i].digest # snapshot
    /\ Hold(a, [op |-> "import", digest |-> snapshot, expectation |-> expectation])
    /\ UNCHANGED <<cases, evalRuns>>

\* It is published at once, unless it has no expectation.
ImportCreates(a) ==
    /\ Doing(a, "import") /\ Insert(hand[a].digest, hand[a].expectation)
    /\ Hold(a, IF hand[a].expectation = "none" THEN AtRest
               ELSE [op |-> "publish", case |-> Len(cases) + 1])
    /\ UNCHANGED evalRuns

-----------------------------------------------------------------------------
(*                                  Runs                                   *)

Published == {i \in DOMAIN cases : cases[i].status = "published"}

\* An empty suite is refused, and one that is too large.
RunReads(a) ==
    /\ Free(a) /\ Len(evalRuns) < MaxEvalRuns
    /\ Cardinality(Published) \in 1 .. MaxCasesPerRun
    /\ Hold(a, [op |-> "judge", paper |-> [i \in Published |-> cases[i]]])
    /\ UNCHANGED <<cases, evalRuns>>

PlannedCost(paper) == CaseCost * Cardinality(DOMAIN paper) * Repeats

\* Too dear: the run is recorded as aborted, and nothing is judged.
RunAborts(a) ==
    /\ Doing(a, "judge") /\ PlannedCost(hand[a].paper) > MaxCost
    /\ evalRuns' = Append(evalRuns, [status |-> "aborted", paper |-> hand[a].paper, count |-> 0,
                                     passed |-> {}, results |-> {}])
    /\ Hold(a, AtRest) /\ UNCHANGED cases

\* The subject passes some cases; the run is recorded, its results follow.
RunCreates(a) ==
    /\ Doing(a, "judge") /\ PlannedCost(hand[a].paper) <= MaxCost
    /\ \E passed \in SUBSET DOMAIN hand[a].paper :
          evalRuns' = Append(evalRuns, [status |-> "completed", paper |-> hand[a].paper,
                                        count |-> Cardinality(DOMAIN hand[a].paper),
                                        passed |-> passed, results |-> {}])
    /\ Hold(a, [op |-> "results", run |-> Len(evalRuns) + 1])
    /\ UNCHANGED cases

RecordResult(a) ==
    /\ Doing(a, "results")
    /\ LET r == hand[a].run   left == DOMAIN evalRuns[r].paper \ evalRuns[r].results IN
       \E i \in left : /\ evalRuns' = [evalRuns EXCEPT ![r].results = @ \cup {i}]
                       /\ Hold(a, IF left = {i} THEN AtRest ELSE hand[a])
    /\ UNCHANGED cases

\* The request dies between two transactions.
Die(a) == ~Free(a) /\ Hold(a, AtRest) /\ UNCHANGED <<cases, evalRuns>>

-----------------------------------------------------------------------------

Curate(a) ==
    \/ \E s \in Snapshots, e \in Expectations : CreateCase(a, s, e)
    \/ \E i \in DOMAIN cases, v \in Verdicts : SetExpectation(a, i, v) \/ SupersedeCreates(a, i, v)
    \/ \E i \in DOMAIN cases : PublishReads(a, i) \/ ArchiveCase(a, i)
    \/ PublishWrites(a) \/ SupersedeArchives(a)
Import(a) == \/ \E s \in Snapshots, e \in Expectations : ImportReads(a, s, e)
             \/ ImportCreates(a)
RunEval(a) == RunReads(a) \/ RunAborts(a) \/ RunCreates(a) \/ RecordResult(a)

Next == \E a \in Admins : Curate(a) \/ Import(a) \/ RunEval(a) \/ Die(a)

Spec == Init /\ [][Next]_vars

-----------------------------------------------------------------------------
(*                               Properties                                *)

\* Every variable has its type.
TypeOK ==
    /\ \A i \in DOMAIN cases : cases[i] \in [status : {"draft", "published", "archived"},
           digest : Snapshots, expectation : Expectations, heir : 0 .. MaxCases]
    /\ \A r \in DOMAIN evalRuns : /\ evalRuns[r].results \subseteq DOMAIN evalRuns[r].paper
                                  /\ Cardinality(evalRuns[r].passed) <= evalRuns[r].count
    /\ \A a \in Admins : Free(a) \/ hand[a].op \in {"publish", "supersede", "import", "judge", "results"}

\* What a run was judged by stays as it was: its cases keep the expectation of
\* the digest the run recorded, whoever edits, replaces or archives meanwhile.
JudgedStaysFixed ==
    \A r \in DOMAIN evalRuns : \A i \in DOMAIN evalRuns[r].paper :
        /\ cases[i].expectation = evalRuns[r].paper[i].expectation /\ cases[i].expectation # "none"
        /\ cases[i].status # "draft"

\* Who replaces a case is a younger one, and the replaced one is archived: the
\* chain of replacements ends.
HeirsAreYounger ==
    \A i \in DOMAIN cases : cases[i].heir # 0 =>
        cases[i].status = "archived" /\ cases[i].heir \in i + 1 .. Len(cases)
=============================================================================
