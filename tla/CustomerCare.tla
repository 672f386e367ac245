----------------------------- MODULE CustomerCare -----------------------------
(***************************************************************************)
(* What happens to the accounts of one seller: edits, contacts, activities *)
(* logged by people and by agents, reminders, health, and the follow-up    *)
(* plans a model writes.  Two periodic tasks read rows and write them back *)
(* while people edit.                                                      *)
(***************************************************************************)
EXTENDS Integers, Sequences, FiniteSets

CONSTANTS Keeper, Lead,          \* the owner of the accounts; a department lead
          Clients,               \* accounts
          MaxActivities, MaxInsights,
          LastReminder,          \* days on which the tasks run
          NoVisit

VARIABLES clients,      \* workbench_crm_accounts: edition, health and contacts
          activities,   \* workbench_crm_activities
          insights,     \* workbench_crm_insights
          reminders,    \* notices of due activities: <<activity, day>>
          day,
          caring        \* the next step of each process

vars == <<clients, activities, insights, reminders, day, caring>>

Bands == {"none", "red", "yellow", "green"}
ClientRows == [edition : 0 .. 1, band : Bands, contacts : 0 .. 1]
ActivityRows == [account : Clients, kind : {"task", "note"}, by : {Keeper, Lead, "agent"},
                 reminded : Nat]
InsightRows == [account : Clients, cites : SUBSET (1 .. MaxActivities)]
Hands == {Keeper, Lead}
Rounds == {"reminder", "health"}

Init ==
    /\ clients = [a \in Clients |-> [edition |-> 0, band |-> "none", contacts |-> 0]]
    /\ activities = <<>> /\ insights = <<>> /\ reminders = {} /\ day = 1
    /\ caring = [p \in Hands \cup Rounds |-> NoVisit]

Cares(p, step) == caring' = [caring EXCEPT ![p] = step]

-----------------------------------------------------------------------------
(*                                  People                                 *)

\* update_account writes the whole row that was read, its health included.
EditReads(p, a) ==
    /\ caring[p] = NoVisit /\ clients[a].edition = 0
    /\ Cares(p, [account |-> a, row |-> [clients[a] EXCEPT !.edition = 1]])
    /\ UNCHANGED <<clients, activities, insights, reminders, day>>

EditWrites(p) ==
    /\ caring[p] # NoVisit /\ Cares(p, NoVisit)
    /\ LET a == caring[p].account
       IN clients' = [clients EXCEPT ![a] = [caring[p].row EXCEPT !.contacts = clients[a].contacts]]
    /\ UNCHANGED <<activities, insights, reminders, day>>

CreateContact(p, a) ==
    /\ caring[p] = NoVisit /\ clients[a].contacts = 0
    /\ clients' = [clients EXCEPT ![a].contacts = 1]
    /\ UNCHANGED <<activities, insights, reminders, day, caring>>

\* An agent acts for the seller it serves and may not plan tasks.
LogActivity(by, a, kind) ==
    /\ Len(activities) < MaxActivities
    /\ by = "agent" => kind # "task"
    /\ activities' = Append(activities, [account |-> a, kind |-> kind, by |-> by, reminded |-> 0])
    /\ UNCHANGED <<clients, insights, reminders, day, caring>>

RefBelongs(a, i) == i \in DOMAIN activities /\ activities[i].account = a

\* The model may cite anything; what does not belong to the account is dropped.
GenerateFollowupPlan(a, cited) ==
    /\ Len(insights) < MaxInsights
    /\ insights' = Append(insights, [account |-> a, cites |-> {i \in cited : RefBelongs(a, i)}])
    /\ UNCHANGED <<clients, activities, reminders, day, caring>>

-----------------------------------------------------------------------------
(*                              Periodic tasks                             *)

\* Due tasks that were not reminded of today: the notice, then the mark.
Remind(t) ==
    /\ caring["reminder"] = NoVisit
    /\ activities[t].kind = "task" /\ activities[t].reminded # day
    /\ reminders' = reminders \cup {<<t, day>>}
    /\ Cares("reminder", [activity |-> t, on |-> day])
    /\ UNCHANGED <<clients, activities, insights, day>>

MarkReminded ==
    /\ caring["reminder"] # NoVisit /\ Cares("reminder", NoVisit)
    /\ activities' = [activities EXCEPT ![caring["reminder"].activity].reminded = caring["reminder"].on]
    /\ UNCHANGED <<clients, insights, reminders, day>>

\* Engagement by the activities done, relationship by the contacts; the parts
\* of opportunities and contracts are zero here.
Engagement(n) == IF n = 0 THEN 0 ELSE IF n = 1 THEN 70 ELSE 80
Relationship(n) == CASE n = 0 -> 0 [] n = 1 -> 40 [] n = 2 -> 70 [] OTHER -> 100
Score(a) ==
    (35 * Engagement(Cardinality({i \in DOMAIN activities :
                                    activities[i].account = a /\ activities[i].kind = "note"}))
       + 20 * Relationship(clients[a].contacts)) \div 100
Band(score) == IF score >= 80 THEN "green" ELSE IF score >= 60 THEN "yellow" ELSE "red"

\* recompute_health_for_tenant reads everything, then writes account by account.
HealthReads ==
    /\ caring["health"] = NoVisit
    /\ Cares("health", [bands |-> [a \in Clients |-> Band(Score(a))], left |-> Clients])
    /\ UNCHANGED <<clients, activities, insights, reminders, day>>

UpdateAccountHealth(a) ==
    /\ caring["health"] # NoVisit /\ a \in caring["health"].left
    /\ clients' = [clients EXCEPT ![a].band = caring["health"].bands[a]]
    /\ LET left == caring["health"].left \ {a}
       IN Cares("health", IF left = {} THEN NoVisit ELSE [caring["health"] EXCEPT !.left = left])
    /\ UNCHANGED <<activities, insights, reminders, day>>

NextDay ==
    /\ day < LastReminder /\ day' = day + 1
    /\ UNCHANGED <<clients, activities, insights, reminders, caring>>

-----------------------------------------------------------------------------
Care(p, a) == EditReads(p, a) \/ CreateContact(p, a) \/ \E k \in {"task", "note"} : LogActivity(p, a, k)

Next ==
    \/ \E p \in Hands : EditWrites(p) \/ \E a \in Clients : Care(p, a)
    \/ \E a \in Clients : \/ LogActivity("agent", a, "note") \/ UpdateAccountHealth(a)
                          \/ \E cited \in SUBSET (1 .. MaxActivities) : GenerateFollowupPlan(a, cited)
    \/ \E t \in DOMAIN activities : Remind(t)
    \/ MarkReminded \/ HealthReads \/ NextDay

Spec == Init /\ [][Next]_vars

-----------------------------------------------------------------------------
(*                                Properties                               *)

TypeOK ==
    /\ clients \in [Clients -> ClientRows] /\ activities \in Seq(ActivityRows)
    /\ insights \in Seq(InsightRows) /\ day \in 1 .. LastReminder

\* What a follow-up plan cites was done with the account it is about.
PlansCiteTheAccount ==
    \A i \in DOMAIN insights : \A c \in insights[i].cites :
        activities[c].account = insights[i].account

\* A task that is marked reminded was told of on that day: the mark, written
\* from a copy, claims no notice that was not sent.
MarksAreTold ==
    \A t \in DOMAIN activities :
        activities[t].reminded # 0 => <<t, activities[t].reminded>> \in reminders
=============================================================================
