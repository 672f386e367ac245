------------------------------- MODULE Planning -------------------------------
(***************************************************************************)
(* Plan proposals of one task, from the model that writes the steps to the *)
(* runs that carry them out, and the suggestions to change the default     *)
(* runtime.  Both are decided once, by a conditional update, and the       *)
(* person who asked is told afterwards.                                    *)
(***************************************************************************)
EXTENDS Integers, Sequences, FiniteSets

CONSTANTS Planners, Approvers,      \* who may propose; ceo and super_admin
          PlanKeys,                 \* idempotency keys
          ToolNames, ToolList,      \* tools a model may name; the server's whitelist
          MaxSteps, MaxPlanRuns,
          SensitiveTask, Models,    \* models of the gateway, with their permissions
          Planner,                  \* the model of the generator
          Runtimes, DefaultRuntime, MinSamples, MaxRate, Threshold, MaxSuggestions,
          NoPlan

VARIABLES plans,         \* workbench_plan_proposals, by key
          planRuns,      \* run records that name a plan
          suggestions,   \* workbench_orchestration_proposals, in the order of insertion
          notices,       \* what the inboxes hold about decisions
          quill          \* the next step of each person's request

vars == <<plans, planRuns, suggestions, notices, quill>>

People == Planners \cup Approvers
Plans == [author : People, steps : SUBSET ToolNames,
          status : {"pending_review", "approved", "rejected"}, reviewer : People \cup {NoPlan},
          run : 0 .. MaxPlanRuns]
Suggestions == [author : Approvers, to : Runtimes,
                status : {"pending_review", "approved", "rejected"}, reviewer : Approvers \cup {NoPlan}]

Init ==
    /\ plans = [k \in PlanKeys |-> NoPlan] /\ planRuns = <<>> /\ suggestions = <<>>
    /\ notices = {} /\ quill = [p \in People |-> NoPlan]

Turns(p, request) == quill' = [quill EXCEPT ![p] = request]
Doing(p, op) == quill[p] # NoPlan /\ quill[p].op = op

-----------------------------------------------------------------------------
(*                           Models and their steps                        *)

\* models: [enabled, plans, sensitive].  Restricted data wants a model that
\* may have it; the preferred model is taken when it is a candidate.
Candidates == {m \in DOMAIN Models : /\ Models[m].enabled /\ Models[m].plans
                                     /\ SensitiveTask => Models[m].sensitive}

\* The gateway may route to another model than the generator's: refused.
MayPlan == Planner \in Candidates

\* Kinds and approvals come from the whitelist, whatever the model says; one
\* unknown tool refuses the plan, steps beyond the limit are cut off.
NormalizedSteps(raw) == raw # {} /\ Cardinality(raw) <= MaxSteps /\ raw \subseteq ToolList

\* A key that is known returns its plan.
Generate(p, k, raw) ==
    /\ quill[p] = NoPlan /\ MayPlan /\ plans[k] = NoPlan /\ ToolList # {}
    /\ NormalizedSteps(raw)
    /\ Turns(p, [op |-> "add", key |-> k, steps |-> raw])
    /\ UNCHANGED <<plans, planRuns, suggestions, notices>>

\* The unique index keeps the plan that came first.
AddPlan(p) ==
    /\ Doing(p, "add") /\ Turns(p, NoPlan)
    /\ LET k == quill[p].key
       IN plans' = IF plans[k] # NoPlan THEN plans
                   ELSE [plans EXCEPT ![k] = [author |-> p, steps |-> quill[p].steps,
                            status |-> "pending_review", reviewer |-> NoPlan, run |-> 0]]
    /\ UNCHANGED <<planRuns, suggestions, notices>>

-----------------------------------------------------------------------------
(*                           Deciding and running                          *)

MayDecide(p, row) == p \in Approvers /\ p # row.author

Decided(row, p, verdict) ==
    [row EXCEPT !.status = verdict, !.reviewer = p]

\* Mutant: a decision is taken whatever was decided before.
ReviewAgain(p, k, verdict) ==
    /\ quill[p] = NoPlan /\ plans[k] # NoPlan /\ MayDecide(p, plans[k])
    /\ plans' = [plans EXCEPT ![k] = Decided(@, p, verdict)]
    /\ Turns(p, [op |-> "tell", what |-> <<"plan", k>>, to |-> plans[k].author, verdict |-> verdict])
    /\ UNCHANGED <<planRuns, suggestions, notices>>

ReviewPlan(p, k, verdict) ==
    /\ quill[p] = NoPlan /\ plans[k] # NoPlan
    /\ MayDecide(p, plans[k]) /\ plans[k].status = "pending_review"
    /\ plans' = [plans EXCEPT ![k] = Decided(@, p, verdict)]
    /\ Turns(p, [op |-> "tell", what |-> <<"plan", k>>, to |-> plans[k].author, verdict |-> verdict])
    /\ UNCHANGED <<planRuns, suggestions, notices>>

MaySee(p, row) == p = row.author \/ p \in Approvers

\* An approved plan may be run again and again.
StartPlanRun(p, k) ==
    /\ quill[p] = NoPlan /\ plans[k] # NoPlan /\ MaySee(p, plans[k])
    /\ plans[k].status = "approved" /\ Len(planRuns) < MaxPlanRuns
    /\ planRuns' = Append(planRuns, [plan |-> k, steps |-> plans[k].steps])
    /\ Turns(p, [op |-> "link", key |-> k, run |-> Len(planRuns) + 1])
    /\ UNCHANGED <<plans, suggestions, notices>>

MarkRunStarted(p) ==
    /\ Doing(p, "link") /\ Turns(p, NoPlan)
    /\ plans' = [plans EXCEPT ![quill[p].key].run = quill[p].run]
    /\ UNCHANGED <<planRuns, suggestions, notices>>

-----------------------------------------------------------------------------
(*                     Suggestions for the default runtime                 *)

Qualified(metrics) == {r \in Runtimes : metrics[r].samples >= MinSamples}

Ranks(metrics, r, s) ==
    \/ metrics[r].rate > metrics[s].rate
    \/ metrics[r].rate = metrics[s].rate /\ metrics[r].samples >= metrics[s].samples

\* The qualified runtime of the best rank, when it is not the default one and
\* exceeds it by the threshold.
Better(metrics, best) ==
    /\ Cardinality(Qualified(metrics)) >= 2 /\ DefaultRuntime \in Qualified(metrics)
    /\ best \in Qualified(metrics) \ {DefaultRuntime}
    /\ \A r \in Qualified(metrics) : Ranks(metrics, best, r)
    /\ metrics[best].rate - metrics[DefaultRuntime].rate >= Threshold

\* What the metrics of the tenant may suggest.
MetricsOf == [Runtimes -> [samples : 0 .. MinSamples, rate : 0 .. MaxRate]]
Suggestible == {r \in Runtimes : \E metrics \in MetricsOf : Better(metrics, r)}

PendingFor(r) == {i \in DOMAIN suggestions : suggestions[i].to = r /\ suggestions[i].status = "pending_review"}

\* A suggestion that waits for its review is returned instead of a new one.
Suggest(p, best) ==
    /\ quill[p] = NoPlan /\ PendingFor(best) = {}
    /\ Turns(p, [op |-> "suggest", to |-> best])
    /\ UNCHANGED <<plans, planRuns, suggestions, notices>>

\* No index keeps a second one out.
AddSuggestion(p) ==
    /\ Doing(p, "suggest") /\ Turns(p, NoPlan) /\ Len(suggestions) < MaxSuggestions
    /\ suggestions' = Append(suggestions, [author |-> p, to |-> quill[p].to,
                                           status |-> "pending_review", reviewer |-> NoPlan])
    /\ UNCHANGED <<plans, planRuns, notices>>

ReviewSuggestion(p, i, verdict) ==
    /\ quill[p] = NoPlan /\ MayDecide(p, suggestions[i])
    /\ suggestions[i].status = "pending_review"
    /\ suggestions' = [suggestions EXCEPT ![i] = Decided(@, p, verdict)]
    /\ Turns(p, [op |-> "tell", what |-> <<"suggestion", i>>, to |-> suggestions[i].author, verdict |-> verdict])
    /\ UNCHANGED <<plans, planRuns, notices>>

\* The inbox of the author; a failure to notify does not undo the decision.
Tell(p) ==
    /\ Doing(p, "tell") /\ Turns(p, NoPlan)
    /\ notices' = notices \cup {[what |-> quill[p].what, to |-> quill[p].to, verdict |-> quill[p].verdict]}
    /\ UNCHANGED <<plans, planRuns, suggestions>>

\* A request that fails or dies with its process.
Drop(p) ==
    /\ quill[p] # NoPlan /\ Turns(p, NoPlan)
    /\ UNCHANGED <<plans, planRuns, suggestions, notices>>

-----------------------------------------------------------------------------
Verdicts == {"approved", "rejected"}

Propose(p) == AddPlan(p) \/ \E k \in PlanKeys, raw \in SUBSET ToolNames : Generate(p, k, raw)
Review(p) == \/ \E k \in PlanKeys, v \in Verdicts : ReviewPlan(p, k, v)
             \/ \E i \in DOMAIN suggestions, v \in Verdicts : ReviewSuggestion(p, i, v)
StartRun(p) == MarkRunStarted(p) \/ \E k \in PlanKeys : StartPlanRun(p, k)
Orchestrate(p) == AddSuggestion(p) \/ \E r \in Suggestible : Suggest(p, r)

Next ==
    \/ \E p \in People : Propose(p) \/ Review(p) \/ StartRun(p) \/ Tell(p) \/ Drop(p)
    \/ \E p \in Approvers : Orchestrate(p)

Spec == Init /\ [][Next]_vars

-----------------------------------------------------------------------------
TypeOK ==
    /\ \A k \in PlanKeys : plans[k] # NoPlan => plans[k] \in Plans
    /\ \A i \in DOMAIN suggestions : suggestions[i] \in Suggestions
    /\ \A n \in notices : n.to \in People /\ n.verdict \in Verdicts

\* Two requests with one key, two reviewers who disagree and runs started in
\* between: a run carries out the very steps that somebody other than their
\* author approved, all of them tools of the whitelist, and a plan never
\* points to a run of another one.
RunsWereApproved ==
    /\ \A i \in DOMAIN planRuns :
           LET plan == plans[planRuns[i].plan]
           IN /\ plan # NoPlan /\ plan.status = "approved"
              /\ plan.reviewer \in Approvers \ {plan.author}
              /\ planRuns[i].steps = plan.steps /\ plan.steps \subseteq ToolList
    /\ \A k \in PlanKeys : plans[k] # NoPlan /\ plans[k].run > 0 => planRuns[plans[k].run].plan = k

\* An author is told at most one verdict about a proposal, the one that stands.
NoticesTellTheVerdict ==
    \A n \in notices :
        LET row == IF n.what[1] = "plan" THEN plans[n.what[2]] ELSE suggestions[n.what[2]]
        IN n.verdict = row.status /\ n.to = row.author /\ row.reviewer # row.author
=============================================================================
