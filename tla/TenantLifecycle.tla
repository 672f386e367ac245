--------------------------- MODULE TenantLifecycle ---------------------------
(***************************************************************************)
(* Export and deletion of one tenant: administrators ask, confirm and      *)
(* cancel in request threads, the worker exports and, when a deletion is   *)
(* due, purges the tenant layer by layer.  Every store call is its own     *)
(* transaction, and a job is saved as the copy its writer read.            *)
(* Packages expire and are removed without effect on the jobs.             *)
(***************************************************************************)
EXTENDS Naturals, Sequences, SequencesExt

CONSTANTS Managers,      \* request threads of administrators
          Janitors,      \* worker processes that run the periodic job
          Layers,        \* what is purged, in order: conversations, tasks_and_runs, ...
          MaxDeletions, MaxExports, MaxCrashes,
          NoJob

VARIABLES tenant,      \* workbench_tenants.status
          deletions,   \* lifecycle jobs of kind delete, by (created_at, id)
          exports,     \* lifecycle jobs of kind export, their status
          packages,    \* export packages stored so far
          matured,     \* the deletions whose execute_after has passed
          layers,      \* the layers that still hold rows, in order
          at, job, copy, todo, now,  \* what each thread does and has read
          crashes,
          stranded,    \* history: a purge was cut off with layers left
          crossed      \* history: a request was about to write the status when
                       \* the worker sealed the tenant

history == <<stranded, crossed>>
vars == <<tenant, deletions, exports, packages, matured, layers, at, job, copy, todo, now, crashes, history>>
store == <<tenant, deletions, exports, packages, layers>>
world == <<matured, crashes, history>>
Threads == Managers \cup Janitors

TenantStatus == {"trial", "active", "suspended", "exporting", "deleting", "deleted"}
LifecycleJob == [status : {"cooling_down", "completed", "cancelled"},
                 exported : BOOLEAN, confirmed : BOOLEAN]

Transitions == [trial |-> {"active", "deleting"},
                active |-> {"suspended", "exporting", "deleting"},
                suspended |-> {"active", "deleting"}, exporting |-> {"active"},
                deleting |-> {"deleted", "active"}, deleted |-> {}]

Init ==
    /\ tenant = "active" /\ layers = Layers
    /\ deletions = <<>> /\ exports = <<>> /\ packages = 0 /\ matured = {}
    /\ at = [t \in Threads |-> "idle"] /\ job = [t \in Threads |-> NoJob]
    /\ copy = [t \in Threads |-> NoJob] /\ todo = [t \in Threads |-> {}]
    /\ now = [t \in Threads |-> {}] /\ crashes = 0
    /\ stranded = FALSE /\ crossed = FALSE

Goto(t, place) == at' = [at EXCEPT ![t] = place]
Hold(t, j, c) == job' = [job EXCEPT ![t] = j] /\ copy' = [copy EXCEPT ![t] = c]
Save(t, j, c) == deletions' = [deletions EXCEPT ![j] = c]

\* Nobody but the platform administers a tenant that is deleted.
MayManage == tenant # "deleted"
Latest == Len(deletions)
Cooling == {j \in DOMAIN deletions : deletions[j].status = "cooling_down"}
LastOf(S) == CHOOSE j \in S : \A k \in S : k <= j

\* A round has listed jobs, as copies, and takes them in the order of their
\* creation.
Listed(jobs, indices) == {<<j, jobs[j]>> : j \in indices}
IsNext(w, x) == x \in todo[w] /\ \A y \in todo[w] : x[1] <= y[1]

-----------------------------------------------------------------------------
(*                       What an administrator asks                        *)

RequestExport(a) ==
    /\ at[a] = "idle" /\ MayManage /\ Len(exports) < MaxExports
    /\ exports' = Append(exports, "queued")
    /\ UNCHANGED <<tenant, deletions, packages, layers, at, job, copy, todo, now, world>>

\* The status is read, then written without looking at it again, and the job
\* is created in a third transaction; earlier jobs are not looked at.
BeginDeletion(a) ==
    /\ at[a] = "idle" /\ MayManage /\ Latest < MaxDeletions
    /\ Goto(a, "marking")
    /\ UNCHANGED <<store, job, copy, todo, now, world>>

MarkDeleting(a) ==
    /\ at[a] = "marking"
    /\ tenant' = "deleting" /\ Goto(a, "creating")
    /\ UNCHANGED <<deletions, exports, packages, layers, job, copy, todo, now, world>>

\* Mutant: a deletion counts as exported from the start.
CreateExported(a) ==
    /\ at[a] = "creating"
    /\ deletions' = Append(deletions,
           [status |-> "cooling_down", exported |-> TRUE, confirmed |-> FALSE])
    /\ Goto(a, "idle")
    /\ UNCHANGED <<tenant, exports, packages, layers, job, copy, todo, now, world>>

CreateDeletion(a) ==
    /\ at[a] = "creating"
    /\ deletions' = Append(deletions,
           [status |-> "cooling_down", exported |-> FALSE, confirmed |-> FALSE])
    /\ Goto(a, "idle")
    /\ UNCHANGED <<tenant, exports, packages, layers, job, copy, todo, now, world>>

ConfirmDeletion(a) ==
    /\ at[a] = "idle" /\ MayManage /\ Latest > 0
    /\ deletions[Latest].status = "cooling_down" /\ deletions[Latest].exported
    /\ Hold(a, Latest, [deletions[Latest] EXCEPT !.confirmed = TRUE]) /\ Goto(a, "saving")
    /\ UNCHANGED <<store, todo, now, world>>

CancelDeletion(a) ==
    /\ at[a] = "idle" /\ MayManage /\ Cooling # {}
    /\ LET j == LastOf(Cooling) IN Hold(a, j, [deletions[j] EXCEPT !.status = "cancelled"])
    /\ Goto(a, "reviving")
    /\ UNCHANGED <<store, todo, now, world>>

\* cancel_delete reads the tenant and judges the transition, then it writes the
\* status and, last, the job.
Revive(a) ==
    /\ at[a] = "reviving"
    /\ Goto(a, IF "active" \in Transitions[tenant] THEN "reactivating" ELSE "idle")
    /\ UNCHANGED <<store, job, copy, todo, now, world>>

Reactivate(a) ==
    /\ at[a] = "reactivating"
    /\ tenant' = "active" /\ Goto(a, "saving")
    /\ UNCHANGED <<deletions, exports, packages, layers, job, copy, todo, now, world>>

SaveCopy(a) ==
    /\ at[a] = "saving"
    /\ Save(a, job[a], copy[a]) /\ Hold(a, NoJob, NoJob) /\ Goto(a, "idle")
    /\ UNCHANGED <<tenant, exports, packages, layers, todo, now, world>>

Manage(a) ==
    \/ RequestExport(a) \/ BeginDeletion(a) \/ MarkDeleting(a) \/ CreateDeletion(a)
    \/ ConfirmDeletion(a) \/ CancelDeletion(a) \/ Revive(a) \/ Reactivate(a) \/ SaveCopy(a)

-----------------------------------------------------------------------------
(*                            The periodic job                             *)

\* A round judges execute_after against the time it began.
BeginRound(w) ==
    /\ at[w] = "idle"
    /\ now' = [now EXCEPT ![w] = matured]
    /\ todo' = [todo EXCEPT ![w] = Listed(exports, {i \in DOMAIN exports : exports[i] = "queued"})]
    /\ Goto(w, "exporting")
    /\ UNCHANGED <<store, job, copy, world>>

\* complete_export_job: an export that is completed already is passed over.
StorePackage(w) ==
    /\ at[w] = "exporting"
    /\ \E x \in todo[w] :
         /\ IsNext(w, x)
         /\ IF exports[x[1]] = "completed"
              THEN todo' = [todo EXCEPT ![w] = @ \ {x}] /\ UNCHANGED <<packages, job, at>>
              ELSE /\ packages' = packages + 1 /\ Goto(w, "closing")
                   /\ job' = [job EXCEPT ![w] = x[1]]
                   /\ UNCHANGED todo
    /\ UNCHANGED <<tenant, deletions, exports, layers, copy, now, world>>

CloseExport(w) ==
    /\ at[w] = "closing"
    /\ exports' = [exports EXCEPT ![job[w]] = "completed"]
    /\ todo' = [todo EXCEPT ![w] = {x \in @ : x[1] # job[w]}] /\ Goto(w, "linking")
    /\ UNCHANGED <<tenant, deletions, packages, layers, job, copy, now, world>>

\* The first export completed after a request is its final export.
FinalExportTargets == {j \in Cooling : ~deletions[j].exported}
LinkExport(w) ==
    /\ at[w] = "linking"
    /\ IF FinalExportTargets = {}
         THEN Hold(w, NoJob, NoJob) /\ Goto(w, "exporting")
         ELSE LET j == LastOf(FinalExportTargets) IN
              Hold(w, j, [deletions[j] EXCEPT !.exported = TRUE]) /\ Goto(w, "linked")
    /\ UNCHANGED <<store, todo, now, world>>

MarkFinalExported(w) ==
    /\ at[w] = "linked"
    /\ Save(w, job[w], copy[w]) /\ Hold(w, NoJob, NoJob) /\ Goto(w, "exporting")
    /\ UNCHANGED <<tenant, exports, packages, layers, todo, now, world>>

\* The deletions are listed as copies, in the order of their creation.
ListDeletions(w) ==
    /\ at[w] = "exporting" /\ todo[w] = {}
    /\ todo' = [todo EXCEPT ![w] = Listed(deletions, Cooling)]
    /\ Goto(w, "deleting")
    /\ UNCHANGED <<store, job, copy, now, world>>

\* Mutant: nobody confirms for the administrator.
TakeConfirmed(w) ==
    /\ at[w] = "deleting"
    /\ \E x \in todo[w] :
         /\ IsNext(w, x) /\ todo' = [todo EXCEPT ![w] = @ \ {x}]
         /\ IF x[1] \in now[w] /\ x[2].exported /\ x[2].confirmed THEN Goto(w, "judging") ELSE UNCHANGED at
    /\ UNCHANGED <<tenant, deletions, exports, packages, layers, job, copy, now, world>>

\* A job not due or not exported waits; one that nobody confirmed is confirmed
\* for its requester by saving the listed copy.
TakeDeletion(w) ==
    /\ at[w] = "deleting"
    /\ \E x \in todo[w] :
         LET j == x[1]   c == x[2] IN
         /\ IsNext(w, x) /\ todo' = [todo EXCEPT ![w] = @ \ {x}]
         /\ \/ (j \notin now[w] \/ ~c.exported) /\ UNCHANGED <<deletions, at>>
            \/ /\ j \in now[w] /\ c.exported /\ Goto(w, "judging")
               /\ IF c.confirmed THEN UNCHANGED deletions
                  ELSE Save(w, j, [c EXCEPT !.confirmed = TRUE])
    /\ UNCHANGED <<tenant, exports, packages, layers, job, copy, now, world>>

EndRound(w) ==
    /\ at[w] = "deleting" /\ todo[w] = {}
    /\ Goto(w, "idle") /\ now' = [now EXCEPT ![w] = {}]
    /\ UNCHANGED <<store, job, copy, todo, world>>

\* A refusal is an exception nobody catches: it ends the round.
Abort(w) ==
    /\ Goto(w, "idle") /\ todo' = [todo EXCEPT ![w] = {}] /\ Hold(w, NoJob, NoJob)
    /\ now' = [now EXCEPT ![w] = {}]

\* execute_delete looks the latest job up again and does not look at its status.
Executable(w, j) == j \in now[w] /\ deletions[j].exported /\ deletions[j].confirmed
JudgeDeletion(w) ==
    /\ at[w] = "judging"
    /\ IF Executable(w, Latest)
         THEN Hold(w, Latest, deletions[Latest]) /\ Goto(w, "transition") /\ UNCHANGED <<todo, now>>
         ELSE Abort(w)
    /\ UNCHANGED <<store, world>>

\* The tenant is read and the transition judged, then the status is written.
JudgeTransition(w) ==
    /\ at[w] = "transition"
    /\ IF "deleted" \in Transitions[tenant]
         THEN Goto(w, "sealing") /\ UNCHANGED <<job, copy, todo, now>>
         ELSE Abort(w)
    /\ UNCHANGED <<store, world>>

SealTenant(w) ==
    /\ at[w] = "sealing"
    /\ tenant' = "deleted" /\ Goto(w, "purging")
    /\ crossed' = (crossed \/ \E a \in Managers : at[a] \in {"marking", "reactivating"})
    /\ UNCHANGED <<deletions, exports, packages, layers, job, copy, todo, now, matured, crashes, stranded>>

\* The layers go one after the other, each in transactions of its own.
PurgeLayer(w) ==
    /\ at[w] = "purging" /\ layers # <<>>
    /\ layers' = Tail(layers)
    /\ UNCHANGED <<tenant, deletions, exports, packages, at, job, copy, todo, now, world>>

CloseDeletion(w) ==
    /\ at[w] = "purging" /\ layers = <<>>
    /\ Save(w, job[w], [copy[w] EXCEPT !.status = "completed"])
    /\ Hold(w, NoJob, NoJob) /\ Goto(w, "deleting")
    /\ UNCHANGED <<tenant, exports, packages, layers, todo, now, world>>

Export(w) == StorePackage(w) \/ CloseExport(w) \/ LinkExport(w) \/ MarkFinalExported(w)
ExecuteDeletion(w) ==
    \/ JudgeDeletion(w) \/ JudgeTransition(w) \/ SealTenant(w)
    \/ PurgeLayer(w) \/ CloseDeletion(w)
RunPendingJobs(w) ==
    \/ BeginRound(w) \/ Export(w) \/ ListDeletions(w) \/ TakeDeletion(w) \/ EndRound(w)
    \/ ExecuteDeletion(w)

\* The process dies, or a layer's store raises.
Crash(w) ==
    /\ at[w] # "idle" /\ crashes < MaxCrashes
    /\ crashes' = crashes + 1 /\ Abort(w)
    /\ stranded' = (stranded \/ (at[w] = "purging" /\ layers # <<>>))
    /\ UNCHANGED <<store, matured, crossed>>

\* The cooling-off period of a deletion ends.
Mature ==
    /\ \E j \in DOMAIN deletions \ matured : matured' = matured \cup {j}
    /\ UNCHANGED <<store, at, job, copy, todo, now, crashes, history>>

Next ==
    \/ \E a \in Managers : Manage(a)
    \/ \E w \in Janitors : RunPendingJobs(w) \/ Crash(w)
    \/ Mature

Spec == Init /\ [][Next]_vars

\* A request thread that is under way goes on; the beat keeps the worker
\* coming round.
Fairness == /\ \A a \in Managers : WF_vars(at[a] # "idle" /\ Manage(a))
            /\ \A w \in Janitors : WF_vars(RunPendingJobs(w))
FairSpec == Spec /\ Fairness

-----------------------------------------------------------------------------
(*                               Properties                                *)

Copies == LifecycleJob \cup {NoJob}
\* Every variable has its type.
TypeOK ==
    /\ tenant \in TenantStatus /\ IsSuffix(layers, Layers)
    /\ deletions \in Seq(LifecycleJob) /\ exports \in Seq({"queued", "completed"})
    /\ packages \in Nat /\ crashes \in Nat /\ matured \subseteq DOMAIN deletions
    /\ stranded \in BOOLEAN /\ crossed \in BOOLEAN
    /\ \A t \in Threads : /\ job[t] \in Nat \cup {NoJob} /\ copy[t] \in Copies
                          /\ now[t] \subseteq DOMAIN deletions

\* Nothing of a tenant is purged before a package was made of it and its
\* cooling-off period is over, whatever two administrators and the worker do
\* between the reads and the saves of execute_delete.  A tenant that is deleted
\* is being purged or purged, unless a purge was cut off: no round comes back
\* for what that one has left.  And a tenant purged at all stays deleted, unless
\* a request was about to write its status when the worker sealed it.
PurgedWasExported ==
    /\ layers # Layers => packages > 0 /\ matured # {}
    /\ tenant = "deleted" \/ layers # Layers =>
           (\E w \in Janitors : at[w] = "purging") \/ layers = <<>> \/ stranded
    /\ layers # Layers => tenant = "deleted" \/ crossed

\* What may hold up a due deletion.  An older deletion that is due and exported
\* is in the way of a later one that nobody has confirmed: a round takes the
\* older first, execute_delete judges the latest, refuses it for want of a
\* confirmation, and the round ends before it gets to confirm the latest.  That
\* repeats in every round.
InTheWay(j) == \E i \in Cooling \ {j} : i \in matured /\ deletions[i].exported
Ready(j) ==
    /\ j = Latest /\ j \in matured /\ j \in Cooling
    /\ tenant = "deleting" /\ deletions[j].exported
TakenBack(j) == j # Latest \/ deletions[j].status = "cancelled" \/ tenant = "active"

\* The latest deletion, when it is due and exported, is executed to the last
\* layer.  Only these keep it from that: it is taken back or asked for anew, an
\* older one is in its way while nobody confirms it, or a purge is cut off.
DueDeletionRuns ==
    \A j \in 1 .. MaxDeletions :
        Ready(j) ~> \/ layers = <<>> \/ TakenBack(j) \/ stranded
                    \/ InTheWay(j) /\ ~deletions[j].confirmed
=============================================================================
