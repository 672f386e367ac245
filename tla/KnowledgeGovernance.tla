------------------------- MODULE KnowledgeGovernance -------------------------
(***************************************************************************)
(* Knowledge documents of one tenant, from registration to archive, the    *)
(* knowledge bases granted to roles, and the search over both: the guard   *)
(* reads the grants and the documents, then asks WeKnora, which ignores the*)
(* list of documents it is given.  Every update of a document's state goes *)
(* by what an earlier statement has read; only the scan for due reviews    *)
(* looks again.                                                            *)
(***************************************************************************)
EXTENDS Integers, FiniteSets

CONSTANTS People, Managers,     \* who registers and searches; who governs
          Documents, Bases,
          HomeBase,             \* the knowledge base each document lies in
          GraceDays, LastDay,   \* review period, end of time
          Nobody, Idle

Roles == People                 \* each has a role of his own
NoDocument == [status |-> "none", owner |-> Nobody, due |-> -1]

VARIABLES docs,      \* workbench_knowledge_documents
          today,
          desk,      \* what a person's request has read and goes on to do
          grants,    \* workbench_knowledge_access_bindings: bases of each role
          granted,   \* bases some administrator granted the role once
          answers    \* documents shown to each person

vars == <<docs, today, desk, grants, granted, answers>>

Begin(p, request) == desk[p] = Idle /\ desk' = [desk EXCEPT ![p] = request]
End(p, op) == desk[p] # Idle /\ desk[p].op = op /\ desk' = [desk EXCEPT ![p] = Idle]

Init ==
    /\ docs = [d \in Documents |-> NoDocument] /\ today = 0
    /\ desk = [p \in People |-> Idle]
    /\ grants = [r \in Roles |-> {}] /\ granted = grants
    /\ answers = [p \in People |-> {}]

Tick == today < LastDay /\ today' = today + 1 /\ UNCHANGED <<docs, desk, grants, granted, answers>>

-----------------------------------------------------------------------------
(*                              Life of a document                         *)

Transitions == [ draft        |-> {"published", "archived"},
                 published    |-> {"under_review", "needs_review", "archived"},
                 under_review |-> {"needs_review", "published", "archived"},
                 needs_review |-> {"published", "archived", "under_review"},
                 archived     |-> {} ]
Registered(d) == docs[d].status # "none"
TransitionAllowed(d, status) == Registered(d) /\ status \in Transitions[docs[d].status]

\* A document that is registered is returned as it stands.
Register(p, d, owner) ==
    /\ desk[p] = Idle /\ ~Registered(d)
    /\ docs' = [docs EXCEPT ![d] = [status |-> "draft", owner |-> owner, due |-> -1]]
    /\ UNCHANGED <<today, desk, grants, granted, answers>>

\* The document to write, as the request has made it of the row it read.
Decide(p, d, status, owner, due) ==
    /\ p \in Managers
    /\ Begin(p, [op |-> "update", document |-> d, status |-> status, owner |-> owner, due |-> due])
    /\ UNCHANGED <<docs, today, grants, granted, answers>>

\* The owner of the request, or the row's; a document without one stays in.
PublishReads(p, d, owner) ==
    /\ TransitionAllowed(d, "published")
    /\ LET resolved == IF owner # Nobody THEN owner ELSE docs[d].owner IN
       /\ resolved # Nobody /\ Decide(p, d, "published", resolved, today + GraceDays)

ArchiveReads(p, d) == TransitionAllowed(d, "archived") /\ Decide(p, d, "archived", Nobody, -1)

\* Only what waits for a review is reviewed: it may not stand for publishing.
ReviewReads(p, d, approved) ==
    /\ docs[d].status \in {"needs_review", "under_review"}
    /\ IF approved THEN docs[d].owner # Nobody /\ Decide(p, d, "published", Nobody, today + GraceDays)
       ELSE Decide(p, d, "archived", Nobody, -1)

\* The update names the document and nothing else; what the request did not
\* set stays.
UpdateStatus(p) ==
    /\ End(p, "update")
    /\ LET do == desk[p]   old == docs[do.document] IN
       docs' = [docs EXCEPT ![do.document] =
                   [status |-> do.status,
                    owner |-> IF do.owner # Nobody THEN do.owner ELSE old.owner,
                    due |-> IF do.due # -1 THEN do.due ELSE old.due]]
    /\ UNCHANGED <<today, grants, granted, answers>>

Due(d) == docs[d].status = "published" /\ docs[d].due # -1 /\ docs[d].due <= today
\* The worker's scan, or an administrator's: row by row, each looked at again.
MarkReviewDue(d) ==
    /\ Due(d) /\ docs' = [docs EXCEPT ![d].status = "needs_review"]
    /\ UNCHANGED <<today, desk, grants, granted, answers>>

-----------------------------------------------------------------------------
(*                           Grants and the search                         *)

\* An administrator replaces the bases of a role: the transaction deletes the
\* rows it sees and inserts its own.
BindDeletes(p, r, bases) ==
    /\ p \in Managers
    /\ Begin(p, [op |-> "bind", role |-> r, bases |-> bases, seen |-> TRUE])
    /\ UNCHANGED <<docs, today, grants, granted, answers>>

\* Rows that another transaction inserted meanwhile are not among them.
BindInserts(p) ==
    /\ desk[p] # Idle /\ desk[p].op = "bind"
    /\ LET do == desk[p] IN
       /\ grants' = [grants EXCEPT ![do.role] = do.bases \cup (IF do.seen THEN {} ELSE @)]
       /\ granted' = [granted EXCEPT ![do.role] = @ \cup do.bases]
       /\ desk' = [q \in People |->
              IF q = p THEN Idle
              ELSE IF desk[q] # Idle /\ desk[q].op = "bind" /\ desk[q].role = do.role
                   THEN [desk[q] EXCEPT !.seen = FALSE] ELSE desk[q]]
    /\ UNCHANGED <<docs, today, answers>>

\* Who does not govern searches with his own role.
SearchScope(p, r) == p \in Managers \/ r = p
\* Mutant: drafts are searched too.
Unarchived == {d \in Documents : docs[d].status # "archived" /\ (docs[d].due = -1 \/ docs[d].due > today)}

Eligible == {d \in Documents : docs[d].status = "published" /\ (docs[d].due = -1 \/ docs[d].due > today)}

\* A role without bases ends the search.
SearchResolves(p, r) ==
    /\ SearchScope(p, r) /\ grants[r] # {}
    /\ Begin(p, [op |-> "whitelist", bases |-> grants[r]])
    /\ UNCHANGED <<docs, today, grants, granted, answers>>

\* A search without an eligible document ends without asking.
SearchLists(p) ==
    /\ desk[p] # Idle /\ desk[p].op = "whitelist"
    /\ desk' = [desk EXCEPT ![p] = IF Eligible = {} THEN Idle
                  ELSE [op |-> "ask", bases |-> desk[p].bases, whitelist |-> Eligible]]
    /\ UNCHANGED <<docs, today, grants, granted, answers>>

\* WeKnora answers with any documents of the bases, or fails; the guard keeps
\* the listed ones.
SearchAnswers(p) ==
    /\ desk[p] # Idle /\ desk[p].op = "ask"
    /\ \E hits \in SUBSET {d \in Documents : HomeBase[d] \in desk[p].bases} :
          answers' = [answers EXCEPT ![p] = hits \cap desk[p].whitelist]
    /\ End(p, "ask")
    /\ UNCHANGED <<docs, today, grants, granted>>

-----------------------------------------------------------------------------

Owners == People \cup {Nobody}
Govern(p, d) ==
    \/ \E o \in Owners : Register(p, d, o) \/ PublishReads(p, d, o)
    \/ ArchiveReads(p, d)
    \/ \E approved \in BOOLEAN : ReviewReads(p, d, approved)
Grant(p) == \/ \E r \in Roles, bases \in SUBSET Bases : BindDeletes(p, r, bases)
            \/ BindInserts(p)
Search(p) == \/ \E r \in Roles : SearchResolves(p, r)
             \/ SearchLists(p) \/ SearchAnswers(p)
ScanReviewDue == \E d \in Documents : MarkReviewDue(d)

Next ==
    \/ Tick \/ ScanReviewDue
    \/ \E p \in People : UpdateStatus(p) \/ Grant(p) \/ Search(p)
    \/ \E p \in People, d \in Documents : Govern(p, d)

Spec == Init /\ [][Next]_vars

\* The beat runs the worker's scan over and over.
FairSpec == Spec /\ WF_vars(ScanReviewDue)

-----------------------------------------------------------------------------
(*                               Properties                                *)

\* Every variable has its type.
TypeOK ==
    /\ docs \in [Documents -> [status : DOMAIN Transitions \cup {"none"}, owner : Owners,
                               due : -1 .. LastDay + GraceDays]]
    /\ today \in 0 .. LastDay
    /\ \A r \in Roles : grants[r] \subseteq granted[r] /\ granted[r] \subseteq Bases
    /\ \A p \in People : answers[p] \subseteq Documents

\* Whatever requests overtake each other, who does not govern is shown only
\* documents that were published, of bases granted to his role.
AnswersAreEntitled ==
    \A p \in People : \A d \in answers[p] :
        /\ docs[d].status # "draft"
        /\ p \in Managers \/ HomeBase[d] \in granted[p]

\* A document that is published, or waits for its review, has an owner, and a
\* date for the next one.
PublishedIsOwned ==
    \A d \in Documents : docs[d].status \in {"published", "needs_review"} =>
        docs[d].owner # Nobody /\ docs[d].due # -1

\* A document past its review date leaves the search's list for good, or until
\* somebody has reviewed it.
DueIsFlagged == \A d \in Documents : Due(d) ~> ~Due(d)
=============================================================================
