------------------------------ MODULE Workforce ------------------------------
(***************************************************************************)
(* The directory of job roles and digital employees, their governance, and *)
(* the intake of tasks that depends on it.  Whether a task needs approval  *)
(* is decided from the configuration read before the task is written.      *)
(***************************************************************************)
EXTENDS Integers, Sequences, FiniteSets

CONSTANTS Chiefs,                    \* super administrators: directory and approvals
          Askers,                    \* other people who create tasks
          JobRoles, AgentKeys,        \* keys of roles and of digital employees
          TaskKeys,                  \* idempotency keys
          Prompts, Injected,         \* system prompts; those the scan of D11 refuses
          TaskRisks,                 \* risks of the tasks that are created
          Nothing

VARIABLES jobs,        \* workbench_job_roles: status by key
          staff,       \* workbench_digital_employees, by key
          orders,      \* workbench_tasks, by key
          waived,      \* risks each employee was ever configured to do without approval
          bound,       \* employees given knowledge, workbench_knowledge_agent_bindings
          tidings,     \* inbox notices of approvals
          intake       \* the next step of each person's request

vars == <<jobs, staff, orders, waived, bound, tidings, intake>>

Callers == Chiefs \cup Askers
Risks == <<"low", "medium", "high", "critical">>
RiskOrder(r) == CHOOSE i \in DOMAIN Risks : Risks[i] = r
RiskLevels == {Risks[i] : i \in DOMAIN Risks}
AutonomyLevels == {"approval_for_all", "approval_for_risky", "full_auto"}

StaffRows == [role : JobRoles, status : {"active", "disabled"}, autonomy : AutonomyLevels,
              threshold : RiskLevels]
OrderRows == [by : Callers, agent : AgentKeys, risk : RiskLevels, waived : BOOLEAN,
              status : {"queued", "pending_approval"}, approver : Callers \cup {Nothing}]

Init ==
    /\ jobs = [r \in JobRoles |-> "none"] /\ staff = [a \in AgentKeys |-> Nothing]
    /\ orders = [k \in TaskKeys |-> Nothing] /\ waived = [a \in AgentKeys |-> {}]
    /\ bound = {} /\ tidings = {} /\ intake = [p \in Callers |-> Nothing]

Takes(p, step) == intake' = [intake EXCEPT ![p] = step]

-----------------------------------------------------------------------------
(*                              The directory                              *)

CreateRole(r) ==
    /\ jobs[r] = "none" /\ jobs' = [jobs EXCEPT ![r] = "active"]
    /\ UNCHANGED <<staff, orders, waived, bound, tidings, intake>>

UpdateRole(r, status) ==
    /\ jobs[r] # "none" /\ jobs' = [jobs EXCEPT ![r] = status]
    /\ UNCHANGED <<staff, orders, waived, bound, tidings, intake>>

\* The role is read and the row written in one transaction that locks
\* nothing: the role may be disabled in between.
RequireActiveRole(p, a, r) ==
    /\ p \in Chiefs /\ intake[p] = Nothing /\ jobs[r] = "active"
    /\ Takes(p, [op |-> "hire", agent |-> a, role |-> r])
    /\ UNCHANGED <<jobs, staff, orders, waived, bound, tidings>>

\* create_employee with its defaults, or update_employee when the key is known.
WriteEmployee(p) ==
    /\ intake[p] # Nothing /\ intake[p].op = "hire" /\ Takes(p, Nothing)
    /\ LET a == intake[p].agent
       IN staff' = [staff EXCEPT ![a] =
            IF @ = Nothing
            THEN [role |-> intake[p].role, status |-> "active", autonomy |-> "approval_for_risky",
                  threshold |-> "high"]
            ELSE [@ EXCEPT !.role = intake[p].role]]
    /\ UNCHANGED <<jobs, orders, waived, bound, tidings>>

UpdateEmployee(a, status) ==
    /\ staff[a] # Nothing /\ staff' = [staff EXCEPT ![a].status = status]
    /\ UNCHANGED <<jobs, orders, waived, bound, tidings, intake>>

\* Mutant: full autonomy exempts critical tasks.
NeedsApprovalExempt(autonomy, risk, threshold) ==
    \/ autonomy = "approval_for_all"
    \/ autonomy = "approval_for_risky" /\ RiskOrder(risk) >= RiskOrder(threshold)

\* needs_approval: critical is never exempt.
NeedsApproval(autonomy, risk, threshold) ==
    \/ autonomy = "approval_for_all" \/ risk = "critical"
    \/ autonomy = "approval_for_risky" /\ RiskOrder(risk) >= RiskOrder(threshold)

\* A prompt is scanned when it is written; one that is refused changes nothing.
UpdateAgentConfig(a, autonomy, threshold, prompt) ==
    /\ staff[a] # Nothing /\ prompt \notin Injected
    /\ staff' = [staff EXCEPT ![a].autonomy = autonomy, ![a].threshold = threshold]
    /\ waived' = [waived EXCEPT ![a] =
                    @ \cup {r \in RiskLevels : ~NeedsApproval(autonomy, r, threshold)}]
    /\ UNCHANGED <<jobs, orders, bound, tidings, intake>>

AgentIsActive(a) ==
    staff[a] # Nothing /\ staff[a].status = "active" /\ jobs[staff[a].role] = "active"

\* Knowledge goes to employees that are managed and active, when looked at.
BindingAvailable(p, a) ==
    /\ p \in Chiefs /\ intake[p] = Nothing /\ AgentIsActive(a)
    /\ Takes(p, [op |-> "bind", agent |-> a])
    /\ UNCHANGED <<jobs, staff, orders, waived, bound, tidings>>

BindKnowledge(p) ==
    /\ intake[p] # Nothing /\ intake[p].op = "bind" /\ Takes(p, Nothing)
    /\ bound' = bound \cup {intake[p].agent}
    /\ UNCHANGED <<jobs, staff, orders, waived, tidings>>

-----------------------------------------------------------------------------
(*                                  Tasks                                  *)

\* ensure_can_create; the budget of an employee's risky task is left out.
CanCreate(p, risk) == risk = "critical" => p \in Chiefs

\* Without an active employee the rule is the one of the defaults.
TaskRequiresApproval(a, risk) ==
    IF AgentIsActive(a) THEN NeedsApproval(staff[a].autonomy, risk, staff[a].threshold)
    ELSE RiskOrder(risk) >= RiskOrder("high")

CreateReads(p, k, a, risk) ==
    /\ intake[p] = Nothing /\ CanCreate(p, risk)
    /\ Takes(p, [op |-> "task", key |-> k, agent |-> a, risk |-> risk,
                 waived |-> ~TaskRequiresApproval(a, risk)])
    /\ UNCHANGED <<jobs, staff, orders, waived, bound, tidings>>

\* ON CONFLICT DO NOTHING: a key that is taken returns its task.
CreateTask(p) ==
    /\ intake[p] # Nothing /\ intake[p].op = "task" /\ Takes(p, Nothing)
    /\ LET k == intake[p].key
       IN orders' = [orders EXCEPT ![k] =
            IF @ # Nothing THEN @
            ELSE [by |-> p, agent |-> intake[p].agent, risk |-> intake[p].risk,
                  waived |-> intake[p].waived,
                  status |-> IF intake[p].waived THEN "queued" ELSE "pending_approval",
                  approver |-> Nothing]]
    /\ UNCHANGED <<jobs, staff, waived, bound, tidings>>

\* One conditional update; the notice follows and may be lost.
ApproveTask(p, k) ==
    /\ p \in Chiefs /\ orders[k] # Nothing /\ orders[k].by # p
    /\ orders[k].status = "pending_approval"
    /\ orders' = [orders EXCEPT ![k].status = "queued", ![k].approver = p]
    /\ \/ tidings' = tidings \cup {<<orders[k].by, k>>}
       \/ UNCHANGED tidings
    /\ UNCHANGED <<jobs, staff, waived, bound, intake>>

-----------------------------------------------------------------------------
\* Any super administrator, in one statement.
Configure ==
    \/ \E r \in JobRoles : CreateRole(r) \/ \E s \in {"active", "disabled"} : UpdateRole(r, s)
    \/ \E a \in AgentKeys :
          \/ \E s \in {"active", "disabled"} : UpdateEmployee(a, s)
          \/ \E l \in AutonomyLevels, t \in {"high", "critical"}, m \in Prompts :
                UpdateAgentConfig(a, l, t, m)

Manage(p) ==
    \/ \E a \in AgentKeys :
          \/ \E r \in JobRoles : RequireActiveRole(p, a, r)
          \/ BindingAvailable(p, a)
    \/ WriteEmployee(p) \/ BindKnowledge(p)

Order(p) ==
    \/ \E k \in TaskKeys, a \in AgentKeys, r \in TaskRisks : CreateReads(p, k, a, r)
    \/ CreateTask(p)
    \/ \E k \in TaskKeys : ApproveTask(p, k)

Next == Configure \/ \E p \in Callers : Manage(p) \/ Order(p)

Spec == Init /\ [][Next]_vars

-----------------------------------------------------------------------------
(*                                Properties                               *)

TypeOK ==
    /\ jobs \in [JobRoles -> {"none", "active", "disabled"}]
    /\ \A a \in AgentKeys : staff[a] \in StaffRows \cup {Nothing}
    /\ \A k \in TaskKeys : orders[k] \in OrderRows \cup {Nothing}
    /\ bound \subseteq AgentKeys

\* No task is queued unless somebody else approved it, or its risk is below
\* high, or an administrator had once waived the approval of that risk for
\* that employee; critical tasks are always approved, by another person.
ApprovalIsNotWaived ==
    \A k \in TaskKeys : orders[k] # Nothing /\ orders[k].status = "queued" =>
        \/ orders[k].approver \in Chiefs \ {orders[k].by}
        \/ /\ orders[k].waived /\ orders[k].risk # "critical"
           /\ RiskOrder(orders[k].risk) < RiskOrder("high") \/ orders[k].risk \in waived[orders[k].agent]
=============================================================================
