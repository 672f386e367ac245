------------------------------- MODULE Outbox -------------------------------
(***************************************************************************)
(* The transactional outbox: a task's transaction enqueues its events      *)
(* (app/repository.py), workers publish them to the bus in batches         *)
(* (app/outbox.py), what keeps failing becomes a dead letter of which an   *)
(* operator is told once, and an administrator replays it                  *)
(* (app/dead_letters.py).                                                  *)
(*                                                                         *)
(* A worker's batch is one transaction that holds the rows' locks; a dead  *)
(* letter and its mark are transactions of their own inside it, and what   *)
(* is on the bus stays there.  An event is its task and action; the bus    *)
(* only counts how often it was sent.  Letters keep neither error nor      *)
(* attempts, the outcome of a notification is only audited.                *)
(***************************************************************************)
EXTENDS Naturals, Sequences, SequencesExt, FiniteSets

CONSTANTS
    Tasks, Workers, Admins,
    Limit,         \* rows of a batch
    MaxAttempts,   \* outbox_max_attempts
    MaxErrors      \* bound: failed calls, lost answers and rollbacks

Events == Tasks \X {"task.created", "task.approved"}
Statuses == {"none", "queued", "pending_approval", "deleted"}
Places == {"idle", "publish", "record", "mark", "notify", "commit"}
NoEvent == <<>>

VARIABLES
    tasks,       \* status of each task
    outbox,      \* rows in the order of occurred_at: event, attempts, published
    sent,        \* how often each event was added to the bus
    letters,     \* events with a dead letter
    notified,    \* letters with notified_at
    replayed,    \* letters with replayed_at
    told,        \* how often the operator was sent the letter
    place, taken, done, failed,   \* per worker: place, rows to go, rows judged
    replaying,   \* per administrator: the letter locked and published again
    answered,    \* how often a replay of the letter answered "replayed"
    errors

deadLetters == <<letters, notified, replayed>>
workers == <<place, taken, done, failed>>
admins == <<replaying, answered>>
outboxVars == <<tasks, outbox, sent, deadLetters, told, workers, admins, errors>>

Rows == [event : Events, attempts : Nat, published : BOOLEAN]

TypeOK ==
    /\ tasks \in [Tasks -> Statuses]
    /\ outbox \in Seq(Rows)
    /\ \A i, j \in DOMAIN outbox : i # j => outbox[i].event # outbox[j].event
    /\ sent \in [Events -> Nat]
    /\ letters \subseteq Events /\ notified \subseteq letters /\ replayed \subseteq letters
    /\ told \in [Events -> Nat]
    /\ place \in [Workers -> Places]
    /\ taken \in [Workers -> Seq(Events)]
    /\ done \in [Workers -> SUBSET Events] /\ failed \in [Workers -> SUBSET Events]
    /\ replaying \in [Admins -> Events \cup {NoEvent}]
    /\ answered \in [Events -> Nat]
    /\ errors \in 0 .. MaxErrors

Init ==
    /\ tasks = [t \in Tasks |-> "none"] /\ outbox = <<>>
    /\ sent = [e \in Events |-> 0] /\ told = [e \in Events |-> 0]
    /\ letters = {} /\ notified = {} /\ replayed = {}
    /\ place = [w \in Workers |-> "idle"] /\ taken = [w \in Workers |-> <<>>]
    /\ done = [w \in Workers |-> {}] /\ failed = [w \in Workers |-> {}]
    /\ replaying = [a \in Admins |-> NoEvent] /\ answered = [e \in Events |-> 0]
    /\ errors = 0

Fail ==
    /\ errors < MaxErrors
    /\ errors' = errors + 1

Send(e) == sent' = [sent EXCEPT ![e] = @ + 1]

\* Positions in the order of their rows.
InOrder(at) == \A i, j \in DOMAIN at : i < j => at[i] < at[j]

-----------------------------------------------------------------------------
(*                              Task transactions                          *)

\* _enqueue_event: one row per event, whatever is repeated.
Enqueue(e) ==
    outbox' = IF \E i \in DOMAIN outbox : outbox[i].event = e THEN outbox
              ELSE Append(outbox, [event |-> e, attempts |-> 0, published |-> FALSE])

Create(t) ==
    /\ tasks[t] = "none"
    /\ \E status \in {"queued", "pending_approval"} : tasks' = [tasks EXCEPT ![t] = status]
    /\ Enqueue(<<t, "task.created">>)
    /\ UNCHANGED <<sent, deadLetters, told, workers, admins, errors>>

SetPendingApproval(t) ==
    /\ tasks[t] = "queued"
    /\ tasks' = [tasks EXCEPT ![t] = "pending_approval"]
    /\ UNCHANGED <<outbox, sent, deadLetters, told, workers, admins, errors>>

Approve(t) ==
    /\ tasks[t] = "pending_approval"
    /\ tasks' = [tasks EXCEPT ![t] = "queued"]
    /\ Enqueue(<<t, "task.approved">>)
    /\ UNCHANGED <<sent, deadLetters, told, workers, admins, errors>>

\* The rows in a batch are locked until its transaction ends.
Locked(e) == \E w \in Workers : e \in Range(taken[w]) \cup done[w] \cup failed[w]

\* The compensation of a message takes the task back, with its events.
Delete(t) ==
    /\ tasks[t] \in {"queued", "pending_approval"}
    /\ \A e \in Events : e[1] = t => ~Locked(e)
    /\ tasks' = [tasks EXCEPT ![t] = "deleted"]
    /\ LET kept == {i \in DOMAIN outbox : outbox[i].event[1] # t}
       IN  \E n \in 0 .. Len(outbox) : \E at \in [1 .. n -> kept] :
              /\ InOrder(at) /\ Range(at) = kept
              /\ outbox' = [i \in 1 .. n |-> outbox[at[i]]]
    /\ UNCHANGED <<sent, deadLetters, told, workers, admins, errors>>

-----------------------------------------------------------------------------
(*                                 Workers                                 *)

Pending(row) == ~row.published

\* Variant: rows in other batches are taken as well.
OpenLocked(row) == Pending(row)

\* Variant: rows with a dead letter are left to the administrators.
OpenUntried(row) == Pending(row) /\ ~Locked(row.event) /\ row.attempts < MaxAttempts

\* WHERE published_at IS NULL ... FOR UPDATE SKIP LOCKED
Open(row) == Pending(row) /\ ~Locked(row.event)

\* The open rows, the oldest first, up to the limit.
Take(w) ==
    /\ place[w] = "idle"
    /\ LET open == {i \in DOMAIN outbox : Open(outbox[i])}
       IN  \E n \in 1 .. Limit : \E at \in [1 .. n -> open] :
              /\ InOrder(at)
              /\ \A i \in open \ Range(at) : n = Limit /\ at[n] < i
              /\ taken' = [taken EXCEPT ![w] = [i \in 1 .. n |-> outbox[at[i]].event]]
    /\ place' = [place EXCEPT ![w] = "publish"]
    /\ UNCHANGED <<tasks, outbox, sent, deadLetters, told, done, failed, admins, errors>>

\* The loop goes on with the next row, or the transaction commits.
Advance(w) ==
    /\ taken' = [taken EXCEPT ![w] = Tail(@)]
    /\ place' = [place EXCEPT ![w] = IF Len(taken[w]) = 1 THEN "commit" ELSE "publish"]

Attempts(e) == (CHOOSE row \in Range(outbox) : row.event = e).attempts

\* event_bus.publish of the next row: sent, or an error, whose XADD may have
\* come through; the last attempt ends in a dead letter.
Publish(w) ==
    /\ place[w] = "publish"
    /\ LET e == Head(taken[w]) IN
          \/ /\ Send(e)
             /\ done' = [done EXCEPT ![w] = @ \cup {e}]
             /\ Advance(w)
             /\ UNCHANGED <<failed, errors>>
          \/ /\ Fail
             /\ Send(e) \/ UNCHANGED sent
             /\ failed' = [failed EXCEPT ![w] = @ \cup {e}]
             /\ IF Attempts(e) + 1 >= MaxAttempts
                THEN place' = [place EXCEPT ![w] = "record"] /\ UNCHANGED taken
                ELSE Advance(w)
             /\ UNCHANGED done
    /\ UNCHANGED <<tasks, outbox, deadLetters, told, admins>>

\* A replay holds its letter's lock until its transaction ends.
LetterFree(e) == \A a \in Admins : replaying[a] # e

\* DeadLetterStore.record: inserted, or updated with the latest error.
Record(w) ==
    /\ place[w] = "record"
    /\ LetterFree(Head(taken[w]))
    /\ letters' = letters \cup {Head(taken[w])}
    /\ place' = [place EXCEPT ![w] = "mark"]
    /\ UNCHANGED <<tasks, outbox, sent, notified, replayed, told, taken, done, failed, admins, errors>>

\* mark_notified: the one who marks it first sends the notification.
MarkNotified(w) ==
    /\ place[w] = "mark"
    /\ LetterFree(Head(taken[w]))
    /\ notified' = notified \cup {Head(taken[w])}
    /\ IF Head(taken[w]) \in notified THEN Advance(w)
       ELSE place' = [place EXCEPT ![w] = "notify"] /\ UNCHANGED taken
    /\ UNCHANGED <<tasks, outbox, sent, letters, replayed, told, done, failed, admins, errors>>

\* _notify: an error of the channel is audited and goes no further.
Notify(w) ==
    /\ place[w] = "notify"
    /\ told' = [told EXCEPT ![Head(taken[w])] = @ + 1]
    /\ Advance(w)
    /\ UNCHANGED <<tasks, outbox, sent, deadLetters, done, failed, admins, errors>>

Leave(w) ==
    /\ place' = [place EXCEPT ![w] = "idle"]
    /\ taken' = [taken EXCEPT ![w] = <<>>]
    /\ done' = [done EXCEPT ![w] = {}]
    /\ failed' = [failed EXCEPT ![w] = {}]

Commit(w) ==
    /\ place[w] = "commit"
    /\ outbox' = [i \in DOMAIN outbox |->
          [outbox[i] EXCEPT !.published = @ \/ outbox[i].event \in done[w],
                            !.attempts = IF outbox[i].event \in failed[w] THEN @ + 1 ELSE @]]
    /\ Leave(w)
    /\ UNCHANGED <<tasks, sent, deadLetters, told, admins, errors>>

\* The worker dies or the database, the store of letters or the audit raises:
\* the batch is rolled back.
Rollback(w) ==
    /\ place[w] # "idle"
    /\ Fail
    /\ Leave(w)
    /\ UNCHANGED <<tasks, outbox, sent, deadLetters, told, admins>>

-----------------------------------------------------------------------------
(*                              Administrators                             *)

\* replay: the letter is locked and, unless it was replayed, published; an
\* error ends the transaction though the bus may have it.
Replay(a, e) ==
    /\ replaying[a] = NoEvent
    /\ e \in letters \ replayed
    /\ LetterFree(e)
    /\ Send(e)
    /\ \/ replaying' = [replaying EXCEPT ![a] = e] /\ UNCHANGED errors
       \/ Fail /\ UNCHANGED replaying
    /\ UNCHANGED <<tasks, outbox, deadLetters, told, workers, answered>>

EndReplay(a) ==
    /\ replaying[a] # NoEvent
    /\ replaying' = [replaying EXCEPT ![a] = NoEvent]
    /\ \/ /\ replayed' = replayed \cup {replaying[a]}
          /\ answered' = [answered EXCEPT ![replaying[a]] = @ + 1]
          /\ UNCHANGED errors
       \/ Fail /\ UNCHANGED <<replayed, answered>>
    /\ UNCHANGED <<tasks, outbox, sent, letters, notified, told, workers>>

-----------------------------------------------------------------------------
(*                                The system                               *)

Work(w) ==
    Take(w) \/ Publish(w) \/ Record(w) \/ MarkNotified(w) \/ Notify(w) \/ Commit(w)

Next ==
    \/ \E t \in Tasks : Create(t) \/ SetPendingApproval(t) \/ Approve(t) \/ Delete(t)
    \/ \E w \in Workers : Work(w) \/ Rollback(w)
    \/ \E a \in Admins : EndReplay(a) \/ \E e \in Events : Replay(a, e)

Spec == Init /\ [][Next]_outboxVars

\* The publisher is scheduled every few seconds; a replay's transaction ends.
OutboxFairness ==
    /\ \A w \in Workers : WF_outboxVars(Work(w))
    /\ \A a \in Admins : WF_outboxVars(EndReplay(a))

FairSpec == Spec /\ OutboxFairness

-----------------------------------------------------------------------------
(*                                Properties                               *)

\* Only what is on the bus is marked published, whatever fails or is rolled
\* back in between.
PublishedWasSent ==
    \A i \in DOMAIN outbox : outbox[i].published => sent[outbox[i].event] > 0

\* "Failed events do not stay in the outbox only": an event that used up its
\* attempts has a dead letter, committed before the attempt that is counted.
ExhaustedHasLetter ==
    \A i \in DOMAIN outbox :
        outbox[i].attempts >= MaxAttempts => outbox[i].event \in letters

\* An event is sent again only for a call that failed, a batch rolled back, or
\* its replay: two publishers never send one row.
DuplicatesAreExplained ==
    \A e \in Events :
        sent[e] <= 1 + errors + (IF e \in replayed \/ ~LetterFree(e) THEN 1 ELSE 0)

\* The operator is told of a letter at most once, however often it is recorded,
\* and one replay of it succeeds, however many administrators ask.
LettersActOnce == \A e \in Events : told[e] <= 1 /\ answered[e] <= 1

\* No event is lost: the tasks are few, and once the bus and the database
\* answer, no row waits, whatever failed before.
BacklogDrains ==
    (\E row \in Range(outbox) : Pending(row)) ~> (\A row \in Range(outbox) : ~Pending(row))
=============================================================================
