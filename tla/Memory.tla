-------------------------------- MODULE Memory --------------------------------
(***************************************************************************)
(* Memories of one tenant: facts, which a key makes idempotent, the        *)
(* versions of one rule, and profiles.  A request checks the budget, has   *)
(* the text embedded and writes in one transaction; the transactions of two*)
(* requests interleave, and only the rules have a unique index.  The budget*)
(* lives as long as the process.                                           *)
(***************************************************************************)
EXTENDS Integers, Sequences, FiniteSets

CONSTANTS Users, Governors,      \* owners of memories; who manages all of them
          FactKeys,              \* idempotency keys
          RuleOwner,             \* the owner of the rule
          Budget, MaxFacts, MaxRules, MaxRestarts,
          Resting

VARIABLES facts,      \* workbench_memory_facts, in the order of insertion
          rules,      \* workbench_memory_rules of one owner and key
          profile,    \* who wrote each owner's profile key last
          accrued,    \* _accrued_cents of the service
          thought,    \* what each user's request has read and goes on to do
          restarts, erased

vars == <<facts, rules, profile, accrued, thought, restarts, erased>>

Init ==
    /\ facts = <<>> /\ rules = <<>> /\ profile = [u \in Users |-> Resting]
    /\ accrued = 0 /\ thought = [u \in Users |-> Resting]
    /\ restarts = 0 /\ erased = FALSE

MayManage(u, owner) == u = owner \/ u \in Governors
Think(u, step) == thought' = [thought EXCEPT ![u] = step]
At(u, op) == thought[u] # Resting /\ thought[u].op = op

-----------------------------------------------------------------------------
(*                                  Facts                                  *)

AskFact(u, owner, key) ==
    /\ thought[u] = Resting /\ MayManage(u, owner) /\ accrued < Budget
    /\ Think(u, [op |-> "embed", owner |-> owner, key |-> key])
    /\ UNCHANGED <<facts, rules, profile, accrued, restarts, erased>>

\* Without the vector nothing is written.
EmbeddingFails(u) ==
    /\ At(u, "embed") /\ Think(u, Resting)
    /\ UNCHANGED <<facts, rules, profile, accrued, restarts, erased>>

SameFact(u) == {i \in DOMAIN facts : facts[i].owner = thought[u].owner /\ facts[i].key = thought[u].key}

\* A fact with the key is returned, and costs as a new one.
ReturnFact(u) ==
    /\ At(u, "embed") /\ SameFact(u) # {}
    /\ accrued' = accrued + 1 /\ Think(u, Resting)
    /\ UNCHANGED <<facts, rules, profile, restarts, erased>>

LookUpFact(u) ==
    /\ At(u, "embed") /\ SameFact(u) = {}
    /\ Think(u, [thought[u] EXCEPT !.op = "insert"])
    /\ UNCHANGED <<facts, rules, profile, accrued, restarts, erased>>

\* No index keeps a second row with the key out.
InsertFact(u) ==
    /\ At(u, "insert") /\ Len(facts) < MaxFacts
    /\ facts' = Append(facts, [owner |-> thought[u].owner, key |-> thought[u].key,
                               status |-> "active", by |-> u])
    /\ accrued' = accrued + 1 /\ Think(u, Resting)
    /\ UNCHANGED <<rules, profile, restarts, erased>>

SupersedeFact(u, i) ==
    /\ thought[u] = Resting /\ MayManage(u, facts[i].owner) /\ facts[i].status = "active"
    /\ facts' = [facts EXCEPT ![i].status = "superseded"]
    /\ UNCHANGED <<rules, profile, accrued, thought, restarts, erased>>

-----------------------------------------------------------------------------
(*                            Rules and profiles                           *)

ActiveRules == {i \in DOMAIN rules : rules[i].status = "active"}

\* The newest active version the transaction sees, 0 when there is none.
ReadRule(u) ==
    /\ thought[u] = Resting /\ MayManage(u, RuleOwner) /\ Len(rules) < MaxRules
    /\ LET seen == IF ActiveRules = {} THEN 0 ELSE CHOOSE i \in ActiveRules : TRUE IN
       Think(u, [op |-> "rule", seen |-> seen,
                 version |-> IF seen = 0 THEN 1 ELSE rules[seen].version + 1])
    /\ UNCHANGED <<facts, rules, profile, accrued, restarts, erased>>

Superseded(u) ==
    [i \in DOMAIN rules |-> IF i = thought[u].seen
                            THEN [rules[i] EXCEPT !.status = "superseded", !.by = Len(rules) + 1]
                            ELSE rules[i]]

\* Mutant: no index keeps a second active version out.
WriteRuleAnyway(u) ==
    /\ At(u, "rule")
    /\ rules' = Append(Superseded(u), [version |-> thought[u].version, status |-> "active", by |-> 0])
    /\ Think(u, Resting)
    /\ UNCHANGED <<facts, profile, accrued, restarts, erased>>

\* It supersedes the version it saw and inserts its own.
WriteRule(u) ==
    /\ At(u, "rule") /\ ActiveRules \ {thought[u].seen} = {}
    /\ rules' = Append(Superseded(u), [version |-> thought[u].version, status |-> "active", by |-> 0])
    /\ Think(u, Resting)
    /\ UNCHANGED <<facts, profile, accrued, restarts, erased>>

\* Another active version stands in the way of the index: all is rolled back.
RefuseRule(u) ==
    /\ At(u, "rule") /\ ActiveRules \ {thought[u].seen} # {}
    /\ Think(u, Resting)
    /\ UNCHANGED <<facts, rules, profile, accrued, restarts, erased>>

SetProfileKey(u, owner) ==
    /\ thought[u] = Resting /\ MayManage(u, owner)
    /\ profile' = [profile EXCEPT ![owner] = u]
    /\ UNCHANGED <<facts, rules, accrued, thought, restarts, erased>>

\* The deletion of the tenant, once; a version that was read is gone.
Erase ==
    /\ ~erased /\ erased' = TRUE
    /\ facts' = <<>> /\ rules' = <<>> /\ profile' = [u \in Users |-> Resting]
    /\ thought' = [u \in Users |-> IF At(u, "rule") THEN [thought[u] EXCEPT !.seen = 0] ELSE thought[u]]
    /\ UNCHANGED <<accrued, restarts>>

\* The budget starts again, requests are lost, transactions rolled back.
Restart ==
    /\ restarts < MaxRestarts /\ restarts' = restarts + 1
    /\ accrued' = 0 /\ thought' = [u \in Users |-> Resting]
    /\ UNCHANGED <<facts, rules, profile, erased>>

-----------------------------------------------------------------------------

CreateFact(u) ==
    \/ \E owner \in Users, key \in FactKeys : AskFact(u, owner, key)
    \/ EmbeddingFails(u) \/ ReturnFact(u) \/ LookUpFact(u) \/ InsertFact(u)
CreateRule(u) == ReadRule(u) \/ WriteRule(u) \/ RefuseRule(u)

Next ==
    \/ \E u \in Users : \/ CreateFact(u) \/ CreateRule(u)
                        \/ \E owner \in Users : SetProfileKey(u, owner)
                        \/ \E i \in DOMAIN facts : SupersedeFact(u, i)
    \/ Erase \/ Restart

Spec == Init /\ [][Next]_vars

-----------------------------------------------------------------------------
(*                               Properties                                *)

\* Every variable has its type.
TypeOK ==
    /\ \A i \in DOMAIN facts : facts[i] \in [owner : Users, key : FactKeys, by : Users,
                                             status : {"active", "superseded"}]
    /\ \A i \in DOMAIN rules : rules[i] \in [version : 1 .. 2 * MaxRules, by : 0 .. MaxRules + 1,
                                             status : {"active", "superseded"}]
    /\ profile \in [Users -> Users \cup {Resting}] /\ accrued \in Nat

\* The versions of a rule form one chain: each but the last was superseded by
\* the next, although two requests may start from the same version.
RuleChainIsLinear ==
    /\ Cardinality(ActiveRules) <= 1
    /\ ~erased => \A i \in DOMAIN rules :
          /\ rules[i].version = i
          /\ IF i = Len(rules) THEN rules[i].status = "active"
             ELSE rules[i].status = "superseded" /\ rules[i].by = i + 1

\* The budget is overrun by the requests that passed it together, and by no
\* more.
BudgetHolds == accrued < Budget + Cardinality(Users)
=============================================================================
