---------------------------- MODULE RunNotices ----------------------------
(***************************************************************************)
(* What is known of a run outside of the runtime: its record, its entry in *)
(* the usage ledger and the notices in the inbox of the one who waits for  *)
(* it.  Every request that moves the run copies a snapshot into the record *)
(* and then, when the record says the run is over, notifies.  Snapshot,    *)
(* record and notice are transactions of their own.                        *)
(***************************************************************************)
EXTENDS Naturals

CONSTANTS Callers,      \* requests: one starts the run, for a plan, others move it
          MaxNotices    \* bound: no request begins once that many were due

VARIABLES run,       \* the runtime's state: its status, and whether it was rejected
          record,    \* the row of workbench_run_records, or NoRecord
          used,      \* is there an entry in the usage ledger?
          notices,   \* rows of workbench_inbox_items of the creator
          at, doing, \* where a request is, and what it is about
          seen,      \* what a request has read
          moments,   \* how often a notice was marked as read
          ends,      \* history: the ends the runtime has written
          audited,   \* the ends the audit says nobody could be told of
          told,      \* history: requests that ended the run and left word
          calm       \* history: requests did not overlap, and none died

vars == <<run, record, used, notices, at, doing, seen, moments, ends, audited, told,
          calm>>
inbox == <<notices, moments>>
history == <<ends, audited, told>>

Over == {"completed", "failed", "cancelled", "rejected"}
Words == {"failed", "cancelled", "rejected"}    \* the ends one is told of
NoRun == "none"
States == Over \cup {"running", NoRun}
NoRecord == [status |-> "none", plan |-> FALSE]
NoView == [run |-> NoRun, plan |-> FALSE, record |-> NoRun]

Go(r, place) == at' = [at EXCEPT ![r] = place]
Moved(r) == calm' = (calm /\ \A q \in Callers \ {r} : at[q] = "idle")

Init ==
    /\ run = NoRun /\ record = NoRecord /\ used = FALSE
    /\ notices = {} /\ moments = 0
    /\ at = [r \in Callers |-> "idle"] /\ doing = [r \in Callers |-> "none"]
    /\ seen = [r \in Callers |-> NoView]
    /\ ends = {} /\ audited = {} /\ told = 0 /\ calm = TRUE

-----------------------------------------------------------------------------
(*                             Moving the run                              *)

\* What may come of an operation.  A start runs until an approval is needed or a
\* step fails, an approval leaves the run running until it is the last one.
Outcomes(op) ==
    CASE op = "cancel" -> {"cancelled"}
      [] op = "reject" -> {"rejected"}
      [] op = "start" -> {"running", "completed", "failed"}
      [] op = "approve" -> {"running", "completed"}
      [] op = "resume" -> {"running"}

\* RunNotActionable, RunNotDecidable: a run that is over moves no more.  To pause
\* a run ends nothing and notifies nobody, like to resume it.
Ops == {"start", "cancel", "reject", "approve", "resume"}
Applies(op) ==
    IF op = "start" THEN run = NoRun /\ \A r \in Callers : doing[r] # "start"
    ELSE run = "running"

\* The request reads the state and decides by it.
Begin(r, op) ==
    /\ at[r] = "idle" /\ Applies(op)
    /\ told < MaxNotices
    /\ Go(r, "put") /\ doing' = [doing EXCEPT ![r] = op]
    /\ Moved(r)
    /\ UNCHANGED <<run, record, used, inbox, seen, history>>

\* It puts the state that comes of it.
Put(r) ==
    /\ at[r] = "put"
    /\ run' \in Outcomes(doing[r])
    /\ ends' = ends \cup ({run'} \cap Over)
    /\ Go(r, "snapshot") /\ Moved(r)
    /\ UNCHANGED <<record, used, inbox, doing, seen, audited, told>>

-----------------------------------------------------------------------------
(*                         The record and the usage                        *)

\* _sync_run_record
Snapshot(r) ==
    /\ at[r] = "snapshot"
    /\ seen' = [seen EXCEPT ![r].run = run]
    /\ Go(r, "existing") /\ Moved(r)
    /\ UNCHANGED <<run, record, used, inbox, doing, history>>

\* The plan a run belongs to is passed at its start and kept from the row then.
Existing(r) ==
    /\ at[r] = "existing"
    /\ seen' = [seen EXCEPT ![r].plan = (doing[r] = "start" \/ record.plan)]
    /\ Go(r, "upsert") /\ Moved(r)
    /\ UNCHANGED <<run, record, used, inbox, doing, history>>

Upsert(r) ==
    /\ at[r] = "upsert"
    /\ record' = [status |-> seen[r].run, plan |-> seen[r].plan]
    /\ seen' = [seen EXCEPT ![r].plan = FALSE]
    /\ Go(r, "usage") /\ Moved(r)
    /\ UNCHANGED <<run, used, inbox, doing, history>>

\* Variant: who cancels a run is not told of it.
NotifiesOthers(op) == op \in {"start", "approve", "reject"}

\* What the request leaves when it is over; resume and pause notify nobody.
Notifies(op) == op \in {"start", "cancel", "approve", "reject"}

Forget(r) == /\ doing' = [doing EXCEPT ![r] = "none"]
             /\ seen' = [seen EXCEPT ![r] = NoView]
Leave(r) == Go(r, "idle") /\ Forget(r)

\* _record_usage_on_terminal: the key of the entry is the task's and the run's.
RecordUsage(r) ==
    /\ at[r] = "usage"
    /\ used' = (used \/ seen[r].run \in Over)
    /\ Go(r, IF Notifies(doing[r]) THEN "judge" ELSE "idle")
    /\ Forget(r) /\ Moved(r)
    /\ UNCHANGED <<run, record, inbox, history>>

-----------------------------------------------------------------------------
(*                               The notices                               *)

\* _notify_run_terminal reads the record again, whoever wrote it.
Judge(r) ==
    /\ at[r] = "judge"
    /\ IF record.status \in Words
       THEN /\ seen' = [seen EXCEPT ![r].record = record.status]
            /\ Go(r, "tell") /\ UNCHANGED doing
       ELSE Leave(r)
    /\ Moved(r)
    /\ UNCHANGED <<run, record, used, inbox, history>>

Unread == 0
Young(n) == ~n.old

\* A task that cannot be seen, or an inbox that cannot be written, leaves an
\* entry in the audit and nothing else.
Skip(r) ==
    /\ at[r] = "tell"
    /\ audited' = audited \cup {seen[r].record} /\ told' = told + 1
    /\ Leave(r) /\ Moved(r)
    /\ UNCHANGED <<run, record, used, inbox, ends>>

\* What the creator is told: the end the record had.
NoticeOf(r) == [kind |-> seen[r].record, read |-> Unread, old |-> FALSE, id |-> told + 1]

\* add: insert, and delete what is past its retention, in one transaction.
Add(r) ==
    /\ at[r] = "tell"
    /\ notices' = {n \in notices : Young(n)} \cup {NoticeOf(r)}
    /\ told' = told + 1
    /\ Leave(r) /\ Moved(r)
    /\ UNCHANGED <<run, record, used, moments, ends, audited>>

-----------------------------------------------------------------------------
(*                           The creator's inbox                           *)

\* The creator reads between the requests: no two touch one row at a time.
Quiet == \A r \in Callers : at[r] = "idle"

\* Time passes: a notice is past its retention.
Age ==
    /\ Quiet
    /\ \E n \in notices : notices' = (notices \ {n}) \cup {[n EXCEPT !.old = TRUE]}
    /\ UNCHANGED <<run, record, used, at, doing, seen, moments, history, calm>>

Unchanged == UNCHANGED <<run, record, used, at, doing, seen, history, calm>>

\* COALESCE(read_at, now()): the first time it was read stays.
Read(n) == IF n.read = Unread THEN [n EXCEPT !.read = moments + 1] ELSE n

\* mark_read; of a notice that is gone, it does nothing.
MarkRead ==
    /\ Quiet /\ moments <= MaxNotices
    /\ \E n \in notices : notices' = (notices \ {n}) \cup {Read(n)}
    /\ moments' = moments + 1
    /\ Unchanged

\* mark_all_read
MarkAllRead ==
    /\ Quiet /\ moments <= MaxNotices /\ notices # {}
    /\ notices' = {Read(n) : n \in notices}
    /\ moments' = moments + 1
    /\ Unchanged

Inbox == Age \/ MarkRead \/ MarkAllRead

-----------------------------------------------------------------------------

\* The process dies within a request.
Die(r) ==
    /\ at[r] # "idle" /\ Leave(r) /\ calm' = FALSE
    /\ UNCHANGED <<run, record, used, inbox, history>>

Move(r) == \/ Put(r) \/ Snapshot(r) \/ Existing(r) \/ Upsert(r) \/ RecordUsage(r)
           \/ Judge(r) \/ Skip(r) \/ Add(r)

Next == \/ \E r \in Callers, op \in Ops : Begin(r, op)
        \/ \E r \in Callers : Move(r) \/ Die(r)
        \/ Inbox

Spec == Init /\ [][Next]_vars

-----------------------------------------------------------------------------
(*                                Properties                               *)

\* Every variable has its type.
TypeOK ==
    /\ run \in States
    /\ record \in [status : States, plan : BOOLEAN]
    /\ used \in BOOLEAN /\ moments \in Nat /\ told \in Nat
    /\ \A n \in notices : n.kind \in Words /\ n.read \in 0..moments /\ n.old \in BOOLEAN
    /\ at \in [Callers -> {"idle", "put", "snapshot", "existing", "upsert", "usage",
                            "judge", "tell"}]
    /\ seen \in [Callers -> [run : States, plan : BOOLEAN,
                              record : Words \cup {NoRun}]]
    /\ ends \subseteq Over /\ audited \subseteq Words

\* However requests overlap, what the creator is told and what is charged did
\* happen: a notice, or the entry in the audit instead of it, names an end that the
\* runtime wrote, and usage is charged only for a run that was over.
WordIsTrue ==
    /\ \A n \in notices : n.kind \in ends
    /\ audited \subseteq ends
    /\ used => ends # {}
    /\ record.status \in Over => record.status \in ends

\* When requests do not overlap and none dies, the record says where the run is
\* and which plan it is of, and a run that is over is charged.  A failure, a
\* cancellation or a rejection has then been told, by a notice or an entry in the
\* audit, by one request and no other; nothing else has.
EndIsAccountedFor ==
    calm /\ Quiet /\ run # NoRun =>
        /\ record = [status |-> run, plan |-> TRUE]
        /\ used <=> run \in Over
        /\ {n.kind : n \in notices} \cup audited = {run} \cap Words
        /\ told <= 1

\* A notice that was read stays read since when it was.
ReadStaysRead ==
    [][\A n \in notices, m \in notices' :
            n.id = m.id /\ n.read # Unread => m.read = n.read]_vars
=============================================================================
