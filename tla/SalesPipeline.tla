---------------------------- MODULE SalesPipeline ----------------------------
(***************************************************************************)
(* Leads, the accounts they become and the opportunities of one tenant's   *)
(* CRM.  A request reads and checks first and writes in a transaction of   *)
(* its own; the event of a stage is inserted by one more transaction.      *)
(***************************************************************************)
EXTENDS Integers, Sequences

CONSTANTS Employees, Heads,       \* sales people; department leads and above
          LeadIds, MaxAccounts, MaxOpportunities,
          NoCustomer

VARIABLES accounts,        \* owners of the accounts
          leads,           \* by id
          opportunities,   \* account and stage
          stageEvents,     \* workbench_crm_opportunity_stage_events, in the order of insertion
          visit            \* the next step of each request

vars == <<accounts, leads, opportunities, stageEvents, visit>>

Sales == Employees \cup Heads
Stages == {"qualification", "proposal", "negotiation", "won", "lost"}
OpenStages == Stages \ {"won", "lost"}
OpportunityTransitions ==
    {<<"qualification", "proposal">>, <<"proposal", "negotiation">>, <<"negotiation", "won">>}
        \cup {<<s, "lost">> : s \in OpenStages}

LeadRows == [owner : Sales, status : {"open", "converted"}, account : 0 .. MaxAccounts]
OpportunityRows == [account : 1 .. MaxAccounts, stage : Stages]
EventRows == [opportunity : 1 .. MaxOpportunities, from : Stages \cup {NoCustomer}, to : Stages]

CanManage(p, owner) == p \in Heads \/ p = owner

Init ==
    /\ accounts = <<>> /\ opportunities = <<>> /\ stageEvents = <<>>
    /\ leads = [l \in LeadIds |-> NoCustomer]
    /\ visit = [p \in Sales |-> NoCustomer]

Visits(p, request) == visit' = [visit EXCEPT ![p] = request]
Upon(p, op) == visit[p] # NoCustomer /\ visit[p].op = op
Begins(p, request) ==
    visit[p] = NoCustomer /\ Visits(p, request) /\ UNCHANGED <<accounts, leads, opportunities, stageEvents>>

-----------------------------------------------------------------------------
(*                            Accounts and leads                           *)

\* Only who sees every account may name another owner.
CreateAccount(p, owner) ==
    /\ visit[p] = NoCustomer /\ Len(accounts) < MaxAccounts /\ CanManage(p, owner)
    /\ accounts' = Append(accounts, owner)
    /\ UNCHANGED <<leads, opportunities, stageEvents, visit>>

CreateLead(p, l) ==
    /\ visit[p] = NoCustomer /\ leads[l] = NoCustomer
    /\ leads' = [leads EXCEPT ![l] = [owner |-> p, status |-> "open", account |-> 0]]
    /\ UNCHANGED <<accounts, opportunities, stageEvents, visit>>

ConvertLeadReads(p, l, withOpportunity) ==
    /\ leads[l] # NoCustomer /\ CanManage(p, leads[l].owner) /\ leads[l].status = "open"
    /\ Begins(p, [op |-> "convert", lead |-> l, opportunity |-> withOpportunity])

\* An opportunity starts at the first stage; its event is the next transaction.
OpenOpportunity(p, a) ==
    /\ Len(opportunities) < MaxOpportunities
    /\ opportunities' = Append(opportunities, [account |-> a, stage |-> "qualification"])
    /\ Visits(p, [op |-> "event", event |-> [opportunity |-> Len(opportunities) + 1,
                                             from |-> NoCustomer, to |-> "qualification"]])

\* convert_lead_atomic: one transaction, no condition on the lead.
ConvertLead(p) ==
    /\ Upon(p, "convert") /\ Len(accounts) < MaxAccounts
    /\ LET l == visit[p].lead
           a == Len(accounts) + 1
       IN /\ accounts' = Append(accounts, leads[l].owner)
          /\ leads' = [leads EXCEPT ![l].status = "converted", ![l].account = a]
          /\ IF visit[p].opportunity THEN OpenOpportunity(p, a)
             ELSE Visits(p, NoCustomer) /\ UNCHANGED opportunities
    /\ UNCHANGED stageEvents

-----------------------------------------------------------------------------
(*                              Opportunities                              *)

CreateOpportunity(p, a) ==
    /\ visit[p] = NoCustomer /\ CanManage(p, accounts[a])
    /\ OpenOpportunity(p, a)
    /\ UNCHANGED <<accounts, leads, stageEvents>>

StageReads(p, o, to) ==
    /\ CanManage(p, accounts[opportunities[o].account])
    /\ <<opportunities[o].stage, to>> \in OpportunityTransitions
    /\ Begins(p, [op |-> "stage", opportunity |-> o, from |-> opportunities[o].stage, to |-> to])

\* UPDATE ... WHERE stage = from: the first write wins, the other is a conflict.
TransitionStage(p) ==
    /\ Upon(p, "stage")
    /\ LET o == visit[p].opportunity
       IN IF opportunities[o].stage = visit[p].from
          THEN /\ opportunities' = [opportunities EXCEPT ![o].stage = visit[p].to]
               /\ Visits(p, [op |-> "event", event |->
                                [opportunity |-> o, from |-> visit[p].from, to |-> visit[p].to]])
          ELSE Visits(p, NoCustomer) /\ UNCHANGED opportunities
    /\ UNCHANGED <<accounts, leads, stageEvents>>

AppendStageEvent(p) ==
    /\ Upon(p, "event") /\ Visits(p, NoCustomer)
    /\ stageEvents' = Append(stageEvents, visit[p].event)
    /\ UNCHANGED <<accounts, leads, opportunities>>

\* The process dies between the stage and its event.
Dies(p) ==
    /\ visit[p] # NoCustomer /\ Visits(p, NoCustomer)
    /\ UNCHANGED <<accounts, leads, opportunities, stageEvents>>

-----------------------------------------------------------------------------
Sell(p) ==
    \/ \E owner \in Sales : CreateAccount(p, owner)
    \/ \E l \in LeadIds : CreateLead(p, l) \/ \E w \in BOOLEAN : ConvertLeadReads(p, l, w)
    \/ \E a \in DOMAIN accounts : CreateOpportunity(p, a)
    \/ \E o \in DOMAIN opportunities, s \in Stages : StageReads(p, o, s)
    \/ ConvertLead(p) \/ TransitionStage(p) \/ AppendStageEvent(p) \/ Dies(p)

Next == \E p \in Sales : Sell(p)

Spec == Init /\ [][Next]_vars

-----------------------------------------------------------------------------
(*                                Properties                               *)

TypeOK ==
    /\ accounts \in Seq(Sales) /\ opportunities \in Seq(OpportunityRows)
    /\ \A l \in LeadIds : leads[l] \in LeadRows \cup {NoCustomer}
    /\ stageEvents \in Seq(EventRows)

\* The recorded stages of an opportunity lie on a path it has walked: no stage
\* is left twice, and the present stage comes after every recorded one, though
\* events are inserted after the moves, out of their order, or never.
Rank(s) == CASE s = "qualification" -> 1 [] s = "proposal" -> 2 [] s = "negotiation" -> 3
             [] OTHER -> 4
HistoryIsAPath ==
    \A i \in DOMAIN stageEvents :
        LET event == stageEvents[i]
            now == opportunities[event.opportunity].stage
        IN /\ event.to = now \/ Rank(event.to) < Rank(now)
           /\ \A j \in DOMAIN stageEvents \ {i} :
                 stageEvents[j].opportunity = event.opportunity => stageEvents[j].from # event.from
=============================================================================
