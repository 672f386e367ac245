------------------------ MODULE ConversationSharing ------------------------
(***************************************************************************)
(* One conversation that its owner shares with colleagues.  A row per      *)
(* member holds what he may do; every request of his reads the row of the  *)
(* conversation and then, on another connection, that of his membership,   *)
(* and acts in a third transaction.  The owner works in several tabs.      *)
(* Who is told what, in the trail of the audit, is written last.           *)
(***************************************************************************)
EXTENDS Naturals, FiniteSets

CONSTANTS Tabs, Guests,     \* requests of the owner; colleagues, one request each
          Shareable,        \* the guests whose account is approved and of the tenant
          MaxQuestions,     \* questions that are asked
          MayDie,           \* may the process die within a request?
          NoTask

VARIABLES conversation,  \* the row: its status, and whether it is deleted
          remembered,    \* the row of the key that leads from a run to it
          members,       \* workbench_conversation_members: permission by guest
          questions, replies,   \* how many messages of users and of the assistant
          trail,         \* the last entry of the audit about each guest
          at,            \* where a request is
          task,          \* a change of members: of whom, to what, from what
          held,          \* history: what has held at a time of the request
          calm           \* history: requests did not overlap, and none died

vars == <<conversation, remembered, members, questions, replies, trail, at, task,
          held, calm>>
shared == <<conversation, remembered, members>>
said == <<questions, replies>>

Threads == Tabs \cup Guests
Permissions == {"read", "write"}
Access == Permissions \cup {"none"}
Places == {"idle", "vet", "previous", "change", "audit", "content",
           "admitQuestion", "question", "reply", "admitReply", "answer",
           "first", "again", "admit", "show"}

Active == ~conversation.deleted /\ conversation.status = "active"
Go(x, place) == at' = [at EXCEPT ![x] = place]
Leave(t) == Go(t, "idle") /\ task' = [task EXCEPT ![t] = NoTask]

Init ==
    /\ conversation = [status |-> "active", deleted |-> FALSE]
    /\ remembered = TRUE
    /\ members = [g \in Guests |-> "none"]
    /\ questions = 0 /\ replies = 0
    /\ trail = [g \in Guests |-> "none"]
    /\ at = [x \in Threads |-> "idle"]
    /\ task = [t \in Tabs |-> NoTask]
    /\ held = [g \in Guests |-> {}]
    /\ calm = TRUE

-----------------------------------------------------------------------------
(*                         Sharing and taking back                         *)

\* _require_shareable_conversation: the owner's, there and not archived.
AddMember(t, g, p) ==
    /\ at[t] = "idle" /\ Active
    /\ task' = [task EXCEPT ![t] = [guest |-> g, grant |-> p, previous |-> "none"]]
    /\ Go(t, "vet")
    /\ UNCHANGED <<shared, said, trail>>

RemoveMember(t, g) ==
    /\ at[t] = "idle" /\ Active
    /\ task' = [task EXCEPT ![t] = [guest |-> g, grant |-> "none", previous |-> "none"]]
    /\ Go(t, "previous")
    /\ UNCHANGED <<shared, said, trail>>

\* _ensure_shareable_member
EnsureShareable(t) ==
    /\ at[t] = "vet"
    /\ IF task[t].guest \in Shareable THEN Go(t, "previous") /\ UNCHANGED task ELSE Leave(t)
    /\ UNCHANGED <<shared, said, trail>>

PermissionFor(t) ==
    /\ at[t] = "previous"
    /\ task' = [task EXCEPT ![t].previous = members[task[t].guest]]
    /\ Go(t, "change")
    /\ UNCHANGED <<shared, said, trail>>

\* A grant that changes nothing and a removal of nobody leave no entry.
Upsert(t) ==
    /\ at[t] = "change" /\ task[t].grant # "none"
    /\ members' = [members EXCEPT ![task[t].guest] = task[t].grant]
    /\ IF task[t].previous # task[t].grant THEN Go(t, "audit") /\ UNCHANGED task ELSE Leave(t)
    /\ UNCHANGED <<conversation, remembered, said, trail>>

Delete(t) ==
    /\ at[t] = "change" /\ task[t].grant = "none"
    /\ members' = [members EXCEPT ![task[t].guest] = "none"]
    /\ IF members[task[t].guest] # "none" THEN Go(t, "audit") /\ UNCHANGED task ELSE Leave(t)
    /\ UNCHANGED <<conversation, remembered, said, trail>>

Record(t) ==
    /\ at[t] = "audit"
    /\ trail' = [trail EXCEPT ![task[t].guest] = task[t].grant]
    /\ Leave(t)
    /\ UNCHANGED <<shared, said>>

-----------------------------------------------------------------------------
(*                          Archiving and deleting                         *)

Archive(t) ==
    /\ at[t] = "idle" /\ ~conversation.deleted
    /\ conversation' = [conversation EXCEPT !.status = "archived"]
    /\ UNCHANGED <<remembered, members, said, trail, at, task>>

\* The rows of the keys go first, the content last; the members stay.
DeleteKeys(t) ==
    /\ at[t] = "idle" /\ ~conversation.deleted
    /\ remembered' = FALSE
    /\ Go(t, "content")
    /\ UNCHANGED <<conversation, members, said, trail, task>>

DeleteContent(t) ==
    /\ at[t] = "content"
    /\ questions' = 0 /\ replies' = 0
    /\ conversation' = [conversation EXCEPT !.deleted = TRUE]
    /\ Go(t, "idle")
    /\ UNCHANGED <<remembered, members, trail, task>>

-----------------------------------------------------------------------------
(*                                 Speaking                                *)

\* append_message reads the conversation; its status is part of what is read.
AppendReads(x, from, to) ==
    /\ at[x] = from
    /\ Go(x, IF Active THEN to ELSE "idle")
    /\ UNCHANGED <<shared, said, trail, task>>

\* Variant: whoever may read may write.
CanSpeakAsMember(x) == x \in Tabs \/ members[x] # "none"

\* ensure_can_speak: the owner, and a member with the permission to write.
CanSpeak(x) == x \in Tabs \/ members[x] = "write"

EnsureCanSpeak(x, from, to) ==
    /\ at[x] = from
    /\ Go(x, IF CanSpeak(x) THEN to ELSE "idle")
    /\ UNCHANGED <<shared, said, trail, task>>

\* send_message: the question and then the reply, each judged for itself.
SendMessage(x) == questions < MaxQuestions /\ AppendReads(x, "idle", "admitQuestion")

AppendQuestion(x) ==
    /\ at[x] = "question"
    /\ questions' = questions + 1
    /\ Go(x, "reply")
    /\ UNCHANGED <<shared, replies, trail, task>>

AppendReply(x) ==
    /\ at[x] = "answer"
    /\ replies' = replies + 1
    /\ Go(x, "idle")
    /\ UNCHANGED <<shared, questions, trail, task>>

-----------------------------------------------------------------------------
(*                                 Reading                                 *)

\* get_conversation, for its participants or, judged a second time by
\* list_messages, for its messages.
GetConversation(g, from, to) ==
    /\ at[g] = from
    /\ Go(g, IF conversation.deleted THEN "idle" ELSE to)
    /\ UNCHANGED <<shared, said, trail, task>>

\* ensure_can_view: a member, whatever he may do.
CanView(g) == members[g] # "none"

EnsureCanView(g, from, to) ==
    /\ at[g] = from
    /\ Go(g, IF CanView(g) THEN to ELSE "idle")
    /\ UNCHANGED <<shared, said, trail, task>>

\* One statement selects what the list shows.
ListConversations(g) ==
    /\ at[g] = "idle" /\ ~conversation.deleted /\ members[g] # "none"
    /\ Go(g, "show")
    /\ UNCHANGED <<shared, said, trail, task>>

\* A run is shown to the members of the conversation its key belongs to.
MemberCanReadRun(g) ==
    /\ at[g] = "idle" /\ remembered
    /\ Go(g, "admit")
    /\ UNCHANGED <<shared, said, trail, task>>

Show(g) ==
    /\ at[g] = "show"
    /\ Go(g, "idle")
    /\ UNCHANGED <<shared, said, trail, task>>

-----------------------------------------------------------------------------

Share(t) == \/ \E g \in Guests : RemoveMember(t, g) \/ \E p \in Permissions : AddMember(t, g, p)
            \/ EnsureShareable(t) \/ PermissionFor(t) \/ Upsert(t) \/ Delete(t) \/ Record(t)
            \/ DeleteKeys(t) \/ DeleteContent(t)

Speak(x) == \/ SendMessage(x) \/ EnsureCanSpeak(x, "admitQuestion", "question") \/ AppendQuestion(x)
            \/ AppendReads(x, "reply", "admitReply")
            \/ EnsureCanSpeak(x, "admitReply", "answer") \/ AppendReply(x)

Look(g) == \/ GetConversation(g, "idle", "first") \/ EnsureCanView(g, "first", "again")
           \/ GetConversation(g, "again", "admit") \/ GetConversation(g, "idle", "admit")
           \/ EnsureCanView(g, "admit", "show")
           \/ ListConversations(g) \/ MemberCanReadRun(g) \/ Show(g)

Busy == {x \in Threads : at[x] # "idle"}

\* What a guest may do now, and whether the conversation is active.
Facts(g) == {members[g]} \cup {s \in {"active"} : Active}

Remember == held' = [g \in Guests |-> IF at'[g] = "idle" THEN {} ELSE held[g] \cup Facts(g)']

\* The process dies.
Die(x) ==
    /\ MayDie /\ at[x] # "idle"
    /\ Go(x, "idle") /\ calm' = FALSE
    /\ task' = [t \in Tabs |-> IF t = x THEN NoTask ELSE task[t]]
    /\ UNCHANGED <<shared, said, trail>>

Step == (\E t \in Tabs : Share(t)) \/ (\E x \in Threads : Speak(x)) \/ (\E g \in Guests : Look(g))

Next == /\ \/ Step /\ calm' = (calm /\ Cardinality(Busy') <= 1)
           \/ (\E t \in Tabs : Archive(t)) /\ calm' = (calm /\ Busy = {})
           \/ \E x \in Threads : Die(x)
        /\ Remember

Spec == Init /\ [][Next]_vars

-----------------------------------------------------------------------------
(*                                Properties                               *)

\* Every variable has its type.
TypeOK ==
    /\ conversation \in [status : {"active", "archived"}, deleted : BOOLEAN]
    /\ remembered \in BOOLEAN /\ calm \in BOOLEAN
    /\ members \in [Guests -> Access] /\ trail \in [Guests -> Access]
    /\ questions \in Nat /\ replies \in Nat
    /\ at \in [Threads -> Places]
    /\ task \in [Tabs -> [guest : Guests, grant : Access, previous : Access] \cup {NoTask}]
    /\ held \in [Guests -> SUBSET (Access \cup {"active"})]

\* A guest is shown something only if he was a member, and speaks only if he
\* was allowed to write in an active conversation, at some time after his
\* request began: what was taken back before serves no later request.
ServedWasAdmitted ==
    \A g \in Guests :
        /\ at[g] = "show" => held[g] \cap Permissions # {}
        /\ at[g] \in {"question", "answer"} => {"write", "active"} \subseteq held[g]

\* Only the owner's colleagues become members.
MembersAreShareable == \A g \in Guests : members[g] # "none" => g \in Shareable

\* When requests do not overlap and none dies, the trail ends with what every
\* guest may do, and every question has its reply.
TrailTellsTheMembers ==
    calm /\ Busy = {} => trail = members /\ questions = replies
=============================================================================
