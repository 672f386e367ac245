------------------------- MODULE ConversationStream -------------------------
(***************************************************************************)
(* The stream of one run: the frames the message request writes while it   *)
(* executes (app/conversation/execution.py over stream_writer.py), those   *)
(* an approval's decision adds (app/main.py _resume_stream_frames), the    *)
(* worker that gives up stalled streams and purges expired ones            *)
(* (app/worker.py), the deletion of the conversation, and a client that    *)
(* reads by server-sent events and resumes where it was cut off.           *)
(*                                                                         *)
(* A frame is its kind: payloads, the byte count and the reason of a       *)
(* notice are left out, and whether a payload is too long is a choice.  A  *)
(* call of the store may fail before it commits or after.  The row's       *)
(* is_terminal is exactly "the status is not streaming" and its            *)
(* frame_count is last_seq, so neither is kept apart.                      *)
(***************************************************************************)
EXTENDS Naturals, Functions, FiniteSets

CONSTANTS
    MaxFrames,     \* max_frames of the store
    MaxFailures,   \* bound: calls of the store that fail
    MaxCuts,       \* bound: connections of the reader that break
    NoStream       \* the stream has no state row

Threads == {"sender", "resumer"}
Messages == {"message.user", "message.assistant"}
Notice == "stream.unavailable"
Ends == {"run.completed", "run.failed", Notice}
Kinds == {"plan.created", "tool.call", "tool.result", "approval.requested"}
            \cup Messages \cup Ends
Statuses == {"streaming", "completed", "failed", "unavailable"}
Streams == [last : Nat, status : Statuses, expires : BOOLEAN]

VARIABLES
    stream,        \* the state row: last_seq, status, expires_at set
    frames,        \* the frames by their seq
    due,           \* time is up: updated_at is stalled, expires_at has passed
    conversation,  \* its row: open, archived or (softly) deleted
    deletion,      \* the transaction a deletion is to do next
    approval,      \* the 027 row: none, pending or decided
    remembered,    \* the row of the Idempotency-Key names the run
    writing,       \* per thread: where it is
    frame,         \* per thread: the kind it writes, or was writing
    dropped,       \* a frame was not stored
    mute,          \* a notice was not stored when it should
    unsure,        \* a frame was stored, but its writer was told it was not
    failures,      \* how many calls of the store failed
    reading, cursor, batch,   \* the reader: place, last seq it has, frames it listed
    missed, heard, invented,  \* it skipped a frame, the end, taken from the state
    cuts

rows == <<stream, frames, due>>
around == <<conversation, deletion, approval, remembered>>
writers == <<writing, frame>>
history == <<dropped, mute, unsure, failures>>
reader == <<reading, cursor, batch, missed, heard, invented, cuts>>
streamVars == <<rows, around, writers, history, reader>>

Places == {"idle", "write", "notice", "mark", "remember", "lookup", "look", "reopen", "done"}

TypeOK ==
    /\ stream \in Streams \cup {NoStream}
    /\ DOMAIN frames \subseteq Nat /\ Range(frames) \subseteq Kinds
    /\ due \in BOOLEAN
    /\ conversation \in {"open", "archived", "deleted"}
    /\ deletion \in {"none", "streams", "content"}
    /\ approval \in {"none", "pending", "decided"}
    /\ remembered \in BOOLEAN
    /\ writing \in [Threads -> Places]
    /\ frame \in [Threads -> Kinds]
    /\ dropped \in BOOLEAN /\ mute \in BOOLEAN /\ unsure \in BOOLEAN
    /\ failures \in 0 .. MaxFailures
    /\ reading \in {"list", "state", "closed"}
    /\ cursor \in Nat /\ missed \in BOOLEAN
    /\ DOMAIN batch \subseteq Nat /\ Range(batch) \subseteq Kinds
    /\ heard \in Ends \cup {"none"}
    /\ invented \in BOOLEAN
    /\ cuts \in 0 .. MaxCuts

Init ==
    /\ stream = NoStream /\ frames = << >> /\ due = FALSE
    /\ conversation = "open" /\ deletion = "none" /\ approval = "none" /\ remembered = FALSE
    /\ writing = [t \in Threads |-> IF t = "sender" THEN "write" ELSE "idle"]
    /\ frame = [t \in Threads |-> "plan.created"]
    /\ dropped = FALSE /\ mute = FALSE /\ unsure = FALSE /\ failures = 0
    /\ reading = "list" /\ cursor = 0 /\ batch = << >>
    /\ missed = FALSE /\ heard = "none" /\ invented = FALSE /\ cuts = 0

\* The client of a deleted conversation is not followed any further.
DropReader ==
    /\ reading' = "closed" /\ cursor' = 0 /\ batch' = << >>
    /\ missed' = FALSE /\ heard' = "none" /\ invented' = FALSE /\ cuts' = 0

Go(t, place) == writing' = [writing EXCEPT ![t] = place]

\* A thread is through.
Finish(t) ==
    /\ Go(t, "done")
    /\ frame' = [frame EXCEPT ![t] = "plan.created"]

\* A call of the store raises.
Fail ==
    /\ failures < MaxFailures
    /\ failures' = failures + 1

-----------------------------------------------------------------------------
(*                               The store                                 *)

\* The row a frame is numbered on; both appends insert it when it is missing.
Opened ==
    IF stream = NoStream THEN [last |-> 0, status |-> "streaming", expires |-> FALSE]
    ELSE stream

Append(kind, status, expires) ==
    LET seq == Opened.last + 1 IN
    /\ stream' = [last |-> seq, status |-> status, expires |-> expires]
    /\ frames' = [s \in DOMAIN frames \cup {seq} |-> IF s = seq THEN kind ELSE frames[s]]
    /\ due' = FALSE

\* append_frame: refused once the stream is unavailable or at its limits; the
\* row it opened stays.
AppendFrame(kind) ==
    /\ Opened.status # "unavailable"
    /\ Opened.last < MaxFrames
    /\ Append(kind, Opened.status, Opened.expires)

RefuseFrame ==
    /\ stream' = Opened
    /\ UNCHANGED <<frames, due>>

\* Variant: a notice is appended at every failure.
AppendNoticeAgain ==
    /\ Append(Notice, "unavailable", TRUE)

\* append_unavailable: past the limits, and at most one notice.
AppendNotice ==
    /\ IF Notice \in Range(frames)
       THEN /\ stream' = [stream EXCEPT !.status = "unavailable", !.expires = TRUE]
            /\ due' = FALSE
            /\ UNCHANGED frames
       ELSE Append(Notice, "unavailable", TRUE)

-----------------------------------------------------------------------------
(*                              The writers                                *)

\* The kinds a thread may write after this one; none ends its stream there.
\* A call fails or is executed or waits; an append is refused when it is no
\* longer open, or by the database.
Following(t) ==
    LET kind == frame[t]
        Next(message) ==
            IF conversation = "open" THEN {message, "run.failed"} ELSE {"run.failed"}
    IN  CASE kind = "plan.created" -> {"tool.call"}
          [] kind = "tool.call" -> {"tool.result", "approval.requested", "run.failed"}
          [] kind = "tool.result" -> IF t = "sender" THEN Next("message.user") ELSE {"run.completed"}
          [] kind = "approval.requested" -> Next("message.user")
          [] kind = "message.user" -> Next("message.assistant")
          [] kind = "message.assistant" /\ approval = "none" -> {"run.completed"}
          [] OTHER -> {}

\* The next frame, the row of the key after the two messages, or the answer.
\* When the row cannot be stored the request ends, as if it died.
Continue(t) ==
    \/ \E kind \in Following(t) :
          /\ frame' = [frame EXCEPT ![t] = kind]
          /\ Go(t, "write")
          /\ approval' = IF kind = "approval.requested" THEN "pending" ELSE approval
    \/ /\ frame[t] = "message.assistant" /\ approval # "none"
       /\ Go(t, "remember")
       /\ UNCHANGED <<frame, approval>>
    \/ /\ frame[t] \in Ends
       /\ Finish(t)
       /\ UNCHANGED approval

\* StreamWriter.write: append_frame, refused at a limit or failing before or
\* after its commit.
Write(t) ==
    /\ writing[t] = "write"
    /\ \/ /\ AppendFrame(frame[t])
          /\ IF frame[t] \in Ends
             THEN Go(t, "mark") /\ UNCHANGED <<frame, approval>>
             ELSE Continue(t)
          /\ UNCHANGED history
       \/ /\ RefuseFrame
          /\ Go(t, "notice")
          /\ dropped' = TRUE
          /\ UNCHANGED <<frame, approval, mute, unsure, failures>>
       \/ /\ Fail
          /\ Go(t, "notice")
          /\ dropped' = TRUE
          /\ UNCHANGED <<rows, frame, approval, mute, unsure>>
       \/ /\ Fail
          /\ AppendFrame(frame[t])
          /\ Go(t, "notice")
          /\ unsure' = TRUE
          /\ UNCHANGED <<frame, approval, dropped, mute>>
    /\ UNCHANGED <<conversation, deletion, remembered, reader>>

\* _mark_unavailable: the notice, which may fail too; the execution goes on.
Tell(t) ==
    /\ writing[t] = "notice"
    /\ \/ AppendNotice /\ UNCHANGED history
       \/ /\ Fail
          /\ mute' = TRUE
          /\ UNCHANGED <<rows, dropped, unsure>>
    /\ Continue(t)
    /\ UNCHANGED <<conversation, deletion, remembered, reader>>

\* Variant: the frame's kind is stored as the status.
MarkByKind(t) ==
    /\ writing[t] = "mark"
    /\ stream # NoStream
    /\ stream' = [stream EXCEPT !.expires = TRUE, !.status = frame[t]]
    /\ due' = FALSE
    /\ Finish(t)
    /\ UNCHANGED <<frames, around, history, reader>>

\* set_terminal after a terminal frame, a transaction of its own.
Mark(t) ==
    /\ writing[t] = "mark"
    /\ \/ /\ stream # NoStream
          /\ stream' = [stream EXCEPT !.expires = TRUE, !.status =
                          IF frame[t] = "run.failed" THEN "failed" ELSE "completed"]
          /\ due' = FALSE
          /\ UNCHANGED failures
       \/ stream = NoStream /\ UNCHANGED <<stream, due, failures>>
       \/ Fail /\ UNCHANGED <<stream, due>>
    /\ Finish(t)
    /\ UNCHANGED <<frames, around, dropped, mute, unsure, reader>>

\* _remember: the row of the key, which its message holds up once deleted.
Remember ==
    /\ writing["sender"] = "remember"
    /\ remembered' = (conversation # "deleted")
    /\ Finish("sender")
    /\ UNCHANGED <<rows, conversation, deletion, approval, history, reader>>

\* The pending action is decided.  Only a rejection and an execution that
\* succeeded come to _resume_stream_frames, a failed one answers its error.
Decide ==
    /\ approval = "pending"
    /\ approval' = "decided"
    /\ \/ \E kind \in {"tool.result", "run.failed"} :
             /\ Go("resumer", "lookup")
             /\ frame' = [frame EXCEPT !["resumer"] = kind]
       \/ UNCHANGED writers
    /\ UNCHANGED <<rows, conversation, deletion, remembered, history, reader>>

\* find_by_run: without a row of the key there is no stream to write to.
Lookup ==
    /\ writing["resumer"] = "lookup"
    /\ Go("resumer", IF remembered THEN "look" ELSE "done")
    /\ UNCHANGED <<rows, around, frame, history, reader>>

\* get_state: nothing is written to a missing or unavailable stream.
Look ==
    /\ writing["resumer"] = "look"
    /\ Go("resumer", IF stream = NoStream \/ stream.status = "unavailable" THEN "done" ELSE "reopen")
    /\ UNCHANGED <<rows, around, frame, history, reader>>

\* Variant: whatever is terminal is reopened.
ReopenAny ==
    /\ writing["resumer"] = "reopen"
    /\ IF stream # NoStream /\ stream.status # "streaming"
       THEN stream' = [stream EXCEPT !.status = "streaming", !.expires = FALSE] /\ due' = FALSE
       ELSE UNCHANGED <<stream, due>>
    /\ Go("resumer", "write")
    /\ UNCHANGED <<frames, around, frame, history, reader>>

\* reopen_if_terminal: an ended stream is continued, an unavailable one not.
Reopen ==
    /\ writing["resumer"] = "reopen"
    /\ IF stream # NoStream /\ stream.status \in {"completed", "failed"}
       THEN stream' = [stream EXCEPT !.status = "streaming", !.expires = FALSE] /\ due' = FALSE
       ELSE UNCHANGED <<stream, due>>
    /\ Go("resumer", "write")
    /\ UNCHANGED <<frames, around, frame, history, reader>>

\* The process of a thread dies.
Crash(t) ==
    /\ writing[t] \notin {"idle", "done"}
    /\ Finish(t)
    /\ mute' = (mute \/ writing[t] = "notice")
    /\ UNCHANGED <<rows, around, dropped, unsure, failures, reader>>

-----------------------------------------------------------------------------
(*                 Time, the worker, the conversation's owner              *)

\* Hours pass without a write, or days after the end; no request lasts so long.
Age ==
    /\ stream # NoStream /\ ~due
    /\ \A t \in Threads : writing[t] \in {"idle", "done"}
    /\ due' = TRUE
    /\ UNCHANGED <<stream, frames, around, writers, history, reader>>

\* Variant: only streams with an expiry are looked at.
StallExpiring ==
    /\ stream # NoStream /\ stream.expires /\ due
    /\ stream' = [stream EXCEPT !.status = "unavailable"]
    /\ due' = FALSE
    /\ UNCHANGED <<frames, around, writers, history, reader>>

\* mark_stalled: the worker gives a silent stream up, without a frame.
Stall ==
    /\ stream # NoStream /\ stream.status = "streaming" /\ due
    /\ stream' = [stream EXCEPT !.status = "unavailable", !.expires = TRUE]
    /\ due' = FALSE
    /\ UNCHANGED <<frames, around, writers, history, reader>>

\* purge_expired: the frames and then the row, in one transaction.
Purge ==
    /\ stream # NoStream /\ stream.expires /\ due
    /\ stream' = NoStream /\ frames' = << >> /\ due' = FALSE
    /\ UNCHANGED <<around, writers, history, reader>>

Archive ==
    /\ conversation = "open"
    /\ conversation' = "archived"
    /\ UNCHANGED <<rows, deletion, approval, remembered, writers, history, reader>>

\* delete_conversation: the rows of the keys ...
DeleteKeys ==
    /\ conversation # "deleted" /\ deletion = "none"
    /\ remembered' = FALSE
    /\ deletion' = "streams"
    /\ UNCHANGED <<rows, conversation, approval, writers, history, reader>>

\* ... then frames and states, with what there was to say of them ...
DeleteStreams ==
    /\ deletion = "streams"
    /\ stream' = NoStream /\ frames' = << >> /\ due' = FALSE
    /\ dropped' = FALSE /\ mute' = FALSE /\ unsure' = FALSE
    /\ deletion' = "content"
    /\ DropReader
    /\ UNCHANGED <<conversation, approval, remembered, writers, failures>>

\* ... then the messages and, softly, the conversation, unless a key names a
\* message.  An owner whose deletion failed or died may ask again.
DeleteContent ==
    /\ deletion = "content"
    /\ deletion' = "none"
    /\ conversation' = IF remembered THEN conversation ELSE "deleted"
    /\ UNCHANGED <<rows, approval, remembered, writers, history, reader>>

DieDeleting ==
    /\ deletion # "none"
    /\ deletion' = "none"
    /\ UNCHANGED <<rows, conversation, approval, remembered, writers, history, reader>>

-----------------------------------------------------------------------------
(*                               The reader                                *)

\* list_frames after the cursor, a read of its own ...
List ==
    /\ reading = "list"
    /\ batch' = [s \in {s \in DOMAIN frames : s > cursor} |-> frames[s]]
    /\ reading' = "state"
    /\ UNCHANGED <<rows, around, writers, history, cursor, missed, heard, invented, cuts>>

\* The frames up to seq do not follow the cursor one by one.
Skips(seq) == {s \in DOMAIN batch : s <= seq} # (cursor + 1) .. seq

\* Variant: the cursor moves to the last_seq of the state.
ReceiveToLast(seq) ==
    /\ cursor' = IF stream = NoStream THEN seq ELSE stream.last
    /\ missed' = (missed \/ Skips(cursor'))
    /\ batch' = << >>

\* The frames up to seq go out.
Receive(seq) ==
    /\ cursor' = seq
    /\ missed' = (missed \/ Skips(seq))
    /\ batch' = << >>

\* The client was told the end and lets its cursor go.
Hear(end) ==
    /\ heard' = end
    /\ reading' = "closed"
    /\ cursor' = 0 /\ batch' = << >>

FirstEnd == {s \in DOMAIN batch : batch[s] \in Ends
                /\ \A e \in DOMAIN batch : batch[e] \in Ends => s <= e}

Newest == CHOOSE s \in DOMAIN batch : \A e \in DOMAIN batch : e <= s

\* The frames go out; the stream closes on the first terminal one.
Deliver ==
    /\ reading = "state" /\ batch # << >>
    /\ \/ /\ FirstEnd = {}
          /\ Receive(Newest)
          /\ reading' = "list"
          /\ UNCHANGED heard
       \/ \E end \in FirstEnd :
             /\ missed' = (missed \/ Skips(end))
             /\ Hear(batch[end])
    /\ UNCHANGED <<rows, around, writers, history, invented, cuts>>

\* The connection breaks before or between frames; the client comes back with
\* the last id it has.
Cut ==
    /\ reading = "state" /\ cuts < MaxCuts
    /\ cuts' = cuts + 1
    /\ \E seq \in {cursor} \cup DOMAIN batch :
          /\ \A e \in FirstEnd : seq < e
          /\ Receive(seq)
    /\ reading' = "list"
    /\ UNCHANGED <<rows, around, writers, history, heard, invented>>

\* ... and when there were none get_state: an unavailable stream is announced
\* by a frame of the reader's own, numbered after the last; on any other end
\* the connection closes and the client, which has no end yet, comes back.
ReadState ==
    /\ reading = "state" /\ batch = << >>
    /\ \/ /\ stream # NoStream /\ stream.status = "unavailable"
          /\ Hear(Notice)
          /\ invented' = TRUE
       \/ /\ stream # NoStream => stream.status # "unavailable"
          /\ reading' = "list"
          /\ UNCHANGED <<cursor, batch, heard, invented>>
    /\ UNCHANGED <<rows, around, writers, history, missed, cuts>>

-----------------------------------------------------------------------------
(*                               The system                                *)

Progress(t) ==
    \/ Write(t) \/ Tell(t) \/ Mark(t)
    \/ t = "sender" /\ Remember
    \/ t = "resumer" /\ (Lookup \/ Look \/ Reopen)
ReaderStep == List \/ Deliver \/ ReadState

Next ==
    \/ \E t \in Threads : Progress(t) \/ Crash(t)
    \/ Decide
    \/ Age \/ Stall \/ Purge
    \/ Archive
    \/ DeleteKeys \/ DeleteStreams \/ DeleteContent \/ DieDeleting
    \/ ReaderStep \/ Cut

Spec == Init /\ [][Next]_streamVars

\* Threads go on, the worker comes around, time passes, the reader polls.
StreamFairness ==
    /\ \A t \in Threads : WF_streamVars(Progress(t))
    /\ WF_streamVars(Age) /\ WF_streamVars(Stall)
    /\ WF_streamVars(ReaderStep)

FairSpec == Spec /\ StreamFairness

-----------------------------------------------------------------------------
(*                               Properties                                *)

\* "No duplicate, no gap": the frames are numbered from one to last_seq, at
\* most one beyond the limit, through failures, purges and deletions.
FramesAreDense ==
    IF stream = NoStream THEN frames = << >>
    ELSE DOMAIN frames = 1 .. stream.last /\ stream.last <= MaxFrames + 1

\* "At most one terminal frame, and the last": only a terminal frame whose
\* writer was told it failed is followed by a frame, its notice.
EndIsLast ==
    \A s \in DOMAIN frames : frames[s] \in Ends =>
        \/ s = stream.last
        \/ unsure /\ s + 1 = stream.last /\ frames[s + 1] = Notice

\* "No frame is dropped silently": a stream that says the run was completed
\* holds every frame since it was opened or deleted, unless even the notice
\* could not be stored.
CompletedIsWhole ==
    "run.completed" \in Range(frames) /\ dropped => mute

\* Whatever writes, gives up, marks, purges and deletes the stream, and wherever
\* it fails or dies, the frames and the status are those of an append-only log
\* with one end, which is not taken up again (conversation/stream.py).
Log == INSTANCE StreamLog WITH
    status <- IF stream = NoStream THEN "none" ELSE stream.status
StreamIsLog == Log!Spec

\* An unavailable stream is never taken up again: it gets its notice and is
\* purged or deleted, whatever an approval decided meanwhile writes.
UnavailableIsFinal ==
    [][stream # NoStream /\ stream.status = "unavailable" /\ stream' # NoStream =>
          /\ stream'.status = "unavailable"
          /\ \A s \in DOMAIN frames' \ DOMAIN frames : frames'[s] = Notice]_streamVars

\* A client that follows its cursor over broken connections to a frame that
\* ends the stream has received every frame before it.
ReaderMissesNothing == heard # "none" /\ ~invented => ~missed

\* Every stream ends, though writers die, forget to mark it or never come back
\* after a decision.
StreamEnds ==
    stream # NoStream /\ stream.status = "streaming"
        ~> stream = NoStream \/ stream.status # "streaming"

\* A client that receives frames is told the end, unless the stream is deleted
\* or purged before.
ReaderHearsEnd == cursor > 0 ~> heard # "none" \/ stream = NoStream

\* "Orphaned frames are left to the retention": what a request in progress
\* writes for a deleted conversation does not stay, if purges go on.
OrphansVanish ==
    WF_streamVars(Purge) =>
        (conversation = "deleted" /\ stream # NoStream ~> stream = NoStream)
=============================================================================
