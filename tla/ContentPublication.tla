-------------------------- MODULE ContentPublication --------------------------
(***************************************************************************)
(* One content task: its drafts in the SQLite store, and its publications. *)
(* A request works on a copy of the record, and saving replaces the whole  *)
(* record; every save but a regeneration's wants the revision it read to be*)
(* still the current one.  No two drafts of a task have one revision, and  *)
(* the current draft is the one with the highest.  A publication calls the *)
(* platform once it has a row for the task and revision.                   *)
(***************************************************************************)
EXTENDS Integers, FiniteSets

CONSTANTS Author, Elevated,    \* who created the task; ceo and super_admin
          Bodies,              \* texts
          RegenerationKeys, MaxRevision, MaxContentRuns,
          Verdicts,            \* what the platform answers about a receipt
          Blank

VARIABLES article,         \* the record of the task
          pen,             \* each person's request: its copy and its next step
          publications,    \* workbench_content_publications, by revision
          calls,           \* calls the platform received: revision, body, person
          contentRuns,     \* runs started for the task
          confirmedOnce    \* revisions and bodies that a confirmation saved

vars == <<article, pen, publications, calls, contentRuns, confirmedOnce>>

People == {Author} \cup Elevated
Revisions == 1 .. MaxRevision
Drafts == [revision : Revisions, status : {"reviewing", "confirmed", "failed"}, body : Bodies \cup {Blank}]

Init ==
    /\ article = Blank /\ pen = [p \in People |-> Blank]
    /\ publications = [r \in Revisions |-> Blank]
    /\ calls = {} /\ contentRuns = 0 /\ confirmedOnce = {}

-----------------------------------------------------------------------------
(*                          The record and its store                       *)

\* Drafts are read in the order of their revisions, the last is the draft.
Draft(record) == CHOOSE d \in record.drafts : \A e \in record.drafts : e.revision <= d.revision

WithDraft(record, d) == [record EXCEPT !.drafts = (@ \ {Draft(record)}) \cup {d}]

\* A save under the revision that was read; another one is a conflict.
Unchanged(copy) == Draft(article).revision = Draft(copy).revision

OneDraftPerRevision(drafts) == \A d, e \in drafts : d.revision = e.revision => d = e

\* A model that fails leaves a draft without a body.
Generated == [revision : {1}, status : {"reviewing"}, body : Bodies]
             \cup [revision : {1}, status : {"failed"}, body : {Blank}]

Hold(p, request) == pen' = [pen EXCEPT ![p] = request]
Holds(p, op) == pen[p] # Blank /\ pen[p].op = op
Reads(p, op, key) == pen[p] = Blank /\ article # Blank /\ Hold(p, [op |-> op, copy |-> article, key |-> key])

-----------------------------------------------------------------------------
(*                          Creating, regenerating                         *)

\* Two first requests find no record: the task is one, and each starts a run.
CreateStarts ==
    /\ article = Blank /\ pen[Author] = Blank /\ contentRuns < MaxContentRuns
    /\ contentRuns' = contentRuns + 1 /\ Hold(Author, [op |-> "create"])
    /\ UNCHANGED <<article, publications, calls, confirmedOnce>>

CreateAdds ==
    /\ Holds(Author, "create") /\ Hold(Author, Blank)
    /\ \E d \in Generated : article' = [drafts |-> {d}, regenerations |-> {}]
    /\ UNCHANGED <<publications, calls, contentRuns, confirmedOnce>>

\* A key in the audits of the record returns it.
RegenerateStarts(p, key) ==
    /\ Reads(p, "regenerate", key) /\ key \notin article.regenerations
    /\ contentRuns < MaxContentRuns
    /\ contentRuns' = contentRuns + 1
    /\ UNCHANGED <<article, publications, calls, confirmedOnce>>

\* The new draft has revision 1.  With a second one the save is rolled back;
\* otherwise the copy replaces whatever was saved since it was read.
RegenerateSaves(p) ==
    /\ Holds(p, "regenerate") /\ Hold(p, Blank)
    /\ \E d \in Generated :
           LET copy == pen[p].copy
           IN article' = IF OneDraftPerRevision(copy.drafts \cup {d}) /\ d \notin copy.drafts
                         THEN [drafts |-> copy.drafts \cup {d},
                               regenerations |-> copy.regenerations \cup {pen[p].key}]
                         ELSE article
    /\ UNCHANGED <<publications, calls, contentRuns, confirmedOnce>>

-----------------------------------------------------------------------------
(*                      Editing, confirming, exporting                     *)

Opens(p, op, status) ==
    /\ Reads(p, op, Blank) /\ Draft(article).status = status
    /\ UNCHANGED <<article, publications, calls, contentRuns, confirmedOnce>>

\* Mutant: a confirmed draft may be edited.
UpdateAny(p) ==
    (\E s \in {"reviewing", "confirmed"} : Opens(p, "edit", s)) /\ Draft(article).revision < MaxRevision

UpdateReads(p) == Opens(p, "edit", "reviewing") /\ Draft(article).revision < MaxRevision
ConfirmReads(p) == Opens(p, "confirm", "reviewing")
RevokeReads(p) == Opens(p, "revoke", "confirmed") /\ Draft(article).revision < MaxRevision
ExportReads(p) == Opens(p, "export", "confirmed")

\* What a request saves when nobody saved another revision in between.
SaveDraft(p, op, d) ==
    /\ Holds(p, op) /\ Unchanged(pen[p].copy)
    /\ article' = WithDraft(pen[p].copy, d) /\ Hold(p, Blank)
    /\ UNCHANGED <<publications, calls, contentRuns>>

UpdateSaves(p, body) ==
    LET d == Draft(pen[p].copy)
    IN /\ SaveDraft(p, "edit", [d EXCEPT !.revision = @ + 1, !.body = body])
       /\ UNCHANGED confirmedOnce

ConfirmSaves(p) ==
    LET d == Draft(pen[p].copy)
    IN /\ SaveDraft(p, "confirm", [d EXCEPT !.status = "confirmed"])
       /\ confirmedOnce' = confirmedOnce \cup {<<d.revision, d.body>>}

RevokeSaves(p) ==
    LET d == Draft(pen[p].copy)
    IN /\ SaveDraft(p, "revoke", [d EXCEPT !.revision = @ + 1, !.status = "reviewing"])
       /\ UNCHANGED confirmedOnce

\* An export adds an audit to its copy and saves all of it.
ExportSaves(p) == SaveDraft(p, "export", Draft(pen[p].copy)) /\ UNCHANGED confirmedOnce

Conflict(p) ==
    /\ \E op \in {"edit", "confirm", "revoke", "export"} : Holds(p, op)
    /\ ~Unchanged(pen[p].copy) /\ Hold(p, Blank)
    /\ UNCHANGED <<article, publications, calls, contentRuns, confirmedOnce>>

-----------------------------------------------------------------------------
(*                               Publishing                                *)

\* A row with the key, whatever its status, is the answer.
PublishReads(p) ==
    /\ Opens(p, "publish", "confirmed")
    /\ publications[Draft(article).revision] = Blank

Revision(p) == Draft(pen[p].copy).revision

\* The unique index keeps one row; a row that is still pending is taken over.
PublishAdds(p) ==
    /\ Holds(p, "publish")
    /\ LET row == publications[Revision(p)]
       IN /\ publications' = IF row = Blank
                             THEN [publications EXCEPT ![Revision(p)] = [status |-> "pending", receipt |-> FALSE]]
                             ELSE publications
          /\ Hold(p, IF row = Blank \/ row.status = "pending" THEN [pen[p] EXCEPT !.op = "call"] ELSE Blank)
    /\ UNCHANGED <<article, calls, contentRuns, confirmedOnce>>

\* The platform may publish and the answer still be lost.
CallPlatform(p, accepted) ==
    /\ Holds(p, "call")
    /\ calls' = calls \cup {[revision |-> Revision(p), body |-> Draft(pen[p].copy).body, by |-> p]}
    /\ Hold(p, [pen[p] EXCEPT !.op = IF accepted THEN "succeeded" ELSE "manual_takeover"])
    /\ UNCHANGED <<article, publications, contentRuns, confirmedOnce>>

MarkResult(p, result) ==
    /\ Holds(p, result) /\ Hold(p, Blank)
    /\ publications' = [publications EXCEPT ![Revision(p)] =
                           [status |-> result, receipt |-> (result = "succeeded")]]
    /\ UNCHANGED <<article, calls, contentRuns, confirmedOnce>>

\* Anybody who sees the task has the platform asked about the receipt.
VerifyReads(p, r) ==
    /\ pen[p] = Blank /\ publications[r] # Blank /\ publications[r].receipt
    /\ Hold(p, [op |-> "verify", revision |-> r])
    /\ UNCHANGED <<article, publications, calls, contentRuns, confirmedOnce>>

MarkVerified(p, verdict) ==
    /\ Holds(p, "verify") /\ Hold(p, Blank)
    /\ publications' = [publications EXCEPT ![pen[p].revision].status = verdict]
    /\ UNCHANGED <<article, calls, contentRuns, confirmedOnce>>

\* A request that dies with its process.
Dies(p) ==
    /\ pen[p] # Blank /\ Hold(p, Blank)
    /\ UNCHANGED <<article, publications, calls, contentRuns, confirmedOnce>>

-----------------------------------------------------------------------------
Regenerate(p) == RegenerateSaves(p) \/ \E key \in RegenerationKeys : RegenerateStarts(p, key)
Update(p) == UpdateReads(p) \/ \E body \in Bodies : UpdateSaves(p, body)
Confirm(p) == ConfirmReads(p) \/ ConfirmSaves(p)
Revoke(p) == RevokeReads(p) \/ RevokeSaves(p)
Export(p) == ExportReads(p) \/ ExportSaves(p)
Publish(p) == \/ PublishReads(p) \/ PublishAdds(p)
              \/ \E accepted \in BOOLEAN : CallPlatform(p, accepted)
              \/ \E result \in {"succeeded", "manual_takeover"} : MarkResult(p, result)
Verify(p) == \/ \E r \in Revisions : VerifyReads(p, r)
             \/ \E verdict \in Verdicts : MarkVerified(p, verdict)

Next ==
    \/ CreateStarts \/ CreateAdds
    \/ \E p \in People : \/ Regenerate(p) \/ Update(p) \/ Confirm(p) \/ Revoke(p) \/ Export(p)
                         \/ Publish(p) \/ Verify(p) \/ Conflict(p) \/ Dies(p)

Spec == Init /\ [][Next]_vars

-----------------------------------------------------------------------------
TypeOK ==
    /\ article # Blank => /\ article.drafts \subseteq Drafts
                          /\ article.regenerations \subseteq RegenerationKeys
    /\ \A r \in Revisions : publications[r] # Blank =>
           publications[r].status \in {"pending", "succeeded", "manual_takeover"} \cup Verdicts
    /\ contentRuns \in 0 .. MaxContentRuns
    /\ confirmedOnce \subseteq Revisions \X Bodies

\* Whatever edits, revocations and regenerations interleave with a request
\* to publish, the platform receives a text that somebody confirmed under the
\* revision it is published as, and a row with a receipt is about such a call.
SentWasConfirmed ==
    /\ \A c \in calls : <<c.revision, c.body>> \in confirmedOnce
    /\ \A r \in Revisions : publications[r] # Blank /\ publications[r].receipt
           => \E c \in calls : c.revision = r

\* docs/api-contract.md:257: a revision is published once, also by requests
\* that arrive at the same time.  Not kept: the second request finds the
\* pending row of the first and calls the platform too.
PublishedOnce == \A c, d \in calls : c.revision = d.revision => c = d
=============================================================================
