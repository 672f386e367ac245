-------------------------------- MODULE Skills --------------------------------
(***************************************************************************)
(* Skill packages of one tenant and their bindings to digital employees:   *)
(* people declare, review, enable and bind them, the operator repairs      *)
(* bindings that point nowhere, the tenant's deletion removes everything.  *)
(* Versions are numbers, a package is the tools it asks for.  Whether the  *)
(* directory knows an employee is a refusal that may come at any time.     *)
(***************************************************************************)
EXTENDS Integers, FiniteSets

CONSTANTS People, Reviewers, Binders,   \* who may submit, review, bind
          SkillKeys, LastVersion, Agents,
          Tools, Catalogue,             \* tools a package names, tools that exist
          NoSkill, Idle

VARIABLES skills,      \* workbench_skills, by key and version
          bindings,    \* workbench_skill_bindings, by agent and key
          mind,        \* what a person's request has read and goes on to do
          repairing,   \* the script's lists: bindings to disable
          wiped        \* the tenant's data was removed

vars == <<skills, bindings, mind, repairing, wiped>>

Versions == 1 .. LastVersion
Rows == [status : {"submitted", "approved", "rejected", "enabled", "disabled"},
         owner : People, reviewer : People \cup {NoSkill}, tools : SUBSET Tools]
Pairs == Agents \X SkillKeys
Requests ==
    [op : {"insert"}, key : SkillKeys, version : Versions, tools : SUBSET Tools]
    \cup [op : {"review"}, key : SkillKeys, version : Versions]
    \cup [op : {"bind"}, agent : Agents, key : SkillKeys]

Init ==
    /\ skills = [s \in SkillKeys \X Versions |-> NoSkill]
    /\ bindings = [b \in Pairs |-> "none"]
    /\ mind = [p \in People |-> Idle]
    /\ repairing = Idle /\ wiped = FALSE

-----------------------------------------------------------------------------
(*                                Packages                                 *)

Has(s) == skills[s] # NoSkill
StatusIn(s, allowed) == Has(s) /\ skills[s].status \in allowed
VersionsOf(k) == {v \in Versions : Has(<<k, v>>)}

\* Every tool a package names must be in the catalogue.
ValidPackage(tools) == tools \subseteq Catalogue

Begin(p, request) == mind[p] = Idle /\ mind' = [mind EXCEPT ![p] = request]
End(p, op) == mind[p] # Idle /\ mind[p].op = op /\ mind' = [mind EXCEPT ![p] = Idle]

\* A version that is declared is returned as it stands; one below another is
\* refused.
SubmitChecks(p, k, v, tools) ==
    /\ ValidPackage(tools)
    /\ ~Has(<<k, v>>) /\ ~\E w \in VersionsOf(k) : w > v
    /\ Begin(p, [op |-> "insert", key |-> k, version |-> v, tools |-> tools])
    /\ UNCHANGED <<skills, bindings, repairing, wiped>>

\* The transaction reads and inserts: the primary key refuses what another
\* inserted meanwhile.
SubmitInserts(p) ==
    /\ End(p, "insert")
    /\ LET s == <<mind[p].key, mind[p].version>> IN
       skills' = IF Has(s) THEN skills
                 ELSE [skills EXCEPT ![s] = [status |-> "submitted", owner |-> p,
                                             reviewer |-> NoSkill, tools |-> mind[p].tools]]
    /\ UNCHANGED <<bindings, repairing, wiped>>

\* Mutant: owners review their own packages.
ReviewOwn(p, k, v) ==
    /\ p \in Reviewers /\ Has(<<k, v>>)
    /\ Begin(p, [op |-> "review", key |-> k, version |-> v])
    /\ UNCHANGED <<skills, bindings, repairing, wiped>>

\* Nobody reviews a package of his own.
ReviewReads(p, k, v) ==
    /\ p \in Reviewers /\ Has(<<k, v>>) /\ skills[<<k, v>>].owner # p
    /\ Begin(p, [op |-> "review", key |-> k, version |-> v])
    /\ UNCHANGED <<skills, bindings, repairing, wiped>>

ReviewUpdates(p, verdict) ==
    /\ End(p, "review")
    /\ LET s == <<mind[p].key, mind[p].version>> IN
       skills' = IF StatusIn(s, {"submitted"})
                 THEN [skills EXCEPT ![s].status = verdict, ![s].reviewer = p]
                 ELSE skills
    /\ UNCHANGED <<bindings, repairing, wiped>>

UpdateStatus(s, allowed, status) ==
    /\ StatusIn(s, allowed) /\ skills' = [skills EXCEPT ![s].status = status]
    /\ UNCHANGED <<bindings, mind, repairing, wiped>>

Enable(p, s) == p \in Reviewers /\ mind[p] = Idle
                /\ UpdateStatus(s, {"approved", "disabled"}, "enabled")
Disable(p, s) == p \in Reviewers /\ mind[p] = Idle /\ UpdateStatus(s, {"enabled"}, "disabled")

-----------------------------------------------------------------------------
(*                                Bindings                                 *)

Enabled(k) == \E v \in Versions : StatusIn(<<k, v>>, {"enabled"})

\* The gate comes before the look at the row that is already there.
BindChecks(p, a, k) ==
    /\ p \in Binders /\ Enabled(k)
    /\ bindings[<<a, k>>] # "active"
    /\ Begin(p, [op |-> "bind", agent |-> a, key |-> k])
    /\ UNCHANGED <<skills, bindings, repairing, wiped>>

BindWrites(p) ==
    /\ End(p, "bind")
    /\ bindings' = [bindings EXCEPT ![<<mind[p].agent, mind[p].key>>] = "active"]
    /\ UNCHANGED <<skills, repairing, wiped>>

Unbind(p, b) ==
    /\ p \in Binders /\ mind[p] = Idle
    /\ bindings[b] = "active" /\ bindings' = [bindings EXCEPT ![b] = "disabled"]
    /\ UNCHANGED <<skills, mind, repairing, wiped>>

\* scripts/repair_dangling_skill_bindings.py: it lists the bindings, then the
\* skills, and disables the bindings that were active and had no enabled skill.
Dangling == {b \in Pairs : bindings[b] = "active" /\ ~Enabled(b[2])}
FindViolations ==
    /\ repairing = Idle /\ Dangling # {} /\ repairing' = Dangling
    /\ UNCHANGED <<skills, bindings, mind, wiped>>
DisableRows ==
    /\ repairing # Idle /\ repairing' = Idle
    /\ bindings' = [b \in Pairs |-> IF b \in repairing /\ bindings[b] = "active"
                                    THEN "disabled" ELSE bindings[b]]
    /\ UNCHANGED <<skills, mind, wiped>>

\* The deletion of the tenant, once, both tables in one transaction.
Wipe ==
    /\ ~wiped /\ wiped' = TRUE
    /\ skills' = [s \in DOMAIN skills |-> NoSkill] /\ bindings' = [b \in Pairs |-> "none"]
    /\ UNCHANGED <<mind, repairing>>

\* What an agent may use: the tools of the enabled packages bound to it.
EnabledFor(a) == {s \in DOMAIN skills : StatusIn(s, {"enabled"}) /\ bindings[<<a, s[1]>>] = "active"}
ExpandedTools(a) == UNION {skills[s].tools : s \in EnabledFor(a)} \cap Catalogue

-----------------------------------------------------------------------------

Declare(p) ==
    \/ \E k \in SkillKeys, v \in Versions, tools \in SUBSET Tools : SubmitChecks(p, k, v, tools)
    \/ SubmitInserts(p)
Review(p) ==
    \/ \E k \in SkillKeys, v \in Versions : ReviewReads(p, k, v)
    \/ \E verdict \in {"approved", "rejected"} : ReviewUpdates(p, verdict)
    \/ \E s \in DOMAIN skills : Enable(p, s) \/ Disable(p, s)
Bind(p) ==
    \/ \E a \in Agents, k \in SkillKeys : BindChecks(p, a, k)
    \/ BindWrites(p)
    \/ \E b \in Pairs : Unbind(p, b)
Repair == FindViolations \/ DisableRows

Next == \/ \E p \in People : Declare(p) \/ Review(p) \/ Bind(p)
        \/ Repair \/ Wipe

Spec == Init /\ [][Next]_vars

-----------------------------------------------------------------------------
(*                               Properties                                *)

\* Every variable has its type.
TypeOK ==
    /\ \A s \in DOMAIN skills : skills[s] \in Rows \cup {NoSkill}
    /\ bindings \in [Pairs -> {"none", "active", "disabled"}]
    /\ mind \in [People -> Requests \cup {Idle}]
    /\ repairing \in (SUBSET Pairs) \cup {Idle}

\* What an agent may use was approved by another than the one who declared it,
\* whatever was submitted, switched or bound meanwhile.
ToolsWereVetted ==
    \A a \in Agents : \A tool \in ExpandedTools(a) :
        \E s \in EnabledFor(a) : /\ tool \in skills[s].tools
                                 /\ skills[s].reviewer \in Reviewers \ {skills[s].owner}

\* A binding rests on a package that has been enabled, although the check and
\* the binding are apart, until the tenant's data goes.
BindingsWereEarned ==
    \A b \in Pairs : bindings[b] = "active" /\ ~wiped =>
        \E v \in Versions : StatusIn(<<b[2], v>>, {"enabled", "disabled"})
=============================================================================
