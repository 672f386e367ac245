------------------------------ MODULE MCSystem ------------------------------
(***************************************************************************)
(* Parts of the server that share no state, for TLC: a behaviour is one of *)
(* the part it picks at the start, the others rest in their initial state. *)
(* A run so checks each part on an instance of its own.                    *)
(***************************************************************************)
EXTENDS Naturals, Sequences, TLC

CONSTANTS Parts    \* the parts this run is about
CONSTANTS Deciders, Sender, HasBody, MaxRuns, MayCrash, MayFail, NoRow
CONSTANTS MaxFrames, MaxFailures, MaxCuts, NoStream
CONSTANTS Tasks, Workers, Admins, Limit, MaxAttempts, MaxErrors

VARIABLES run, sequences, record, action, bodyDue, billed, ran, calm, pc, choice, mem, row
VARIABLES stream, frames, due, conversation, deletion, approval, remembered, writing,
    frame, dropped, mute, unsure, failures, reading, cursor, batch, missed, heard, invented, cuts
VARIABLES tasks, outbox, sent, letters, notified, replayed, told, place, taken, done,
    failed, replaying, answered, errors
VARIABLE part

approvalVars == <<run, sequences, record, action, bodyDue, billed, ran, calm, pc, choice, mem, row>>
streamVars == <<stream, frames, due, conversation, deletion, approval, remembered, writing,
    frame, dropped, mute, unsure, failures, reading, cursor, batch, missed, heard, invented, cuts>>
outboxVars == <<tasks, outbox, sent, letters, notified, replayed, told, place, taken, done,
    failed, replaying, answered, errors>>
vars == <<part, approvalVars, streamVars, outboxVars>>

T == INSTANCE ToolApproval WITH due <- bodyDue
S == INSTANCE ConversationStream
O == INSTANCE Outbox

\* A row that does not exist is none of the rows, and the limits are numbers.
ASSUME StreamAssumption ==
    /\ NoStream \notin S!Streams
    /\ {MaxFrames, MaxFailures, MaxCuts} \subseteq Nat

\* A batch has room for a row, and an event is tried once at least (outbox.py
\* demands it of its setting).
ASSUME OutboxAssumption ==
    /\ Limit \in Nat \ {0} /\ MaxAttempts \in Nat \ {0}
    /\ MaxErrors \in Nat

Init ==
    /\ part \in Parts
    /\ T!Init /\ S!Init /\ O!Init

Next ==
    \/ part = "approval" /\ T!Next /\ UNCHANGED <<part, streamVars, outboxVars>>
    \/ part = "stream" /\ S!Next /\ UNCHANGED <<part, approvalVars, outboxVars>>
    \/ part = "outbox" /\ O!Next /\ UNCHANGED <<part, approvalVars, streamVars>>

Spec == Init /\ [][Next]_vars

\* The fairness of the part that runs, as its module states it.
Fairness ==
    /\ WF_approvalVars(part = "approval" /\ T!SendStep)
    /\ \A p \in T!Processes : WF_approvalVars(part = "approval" /\ T!SyncStep(p))
    /\ \A d \in Deciders : /\ WF_approvalVars(part = "approval" /\ T!DecideStep(d))
                          /\ WF_approvalVars(part = "approval" /\ T!ExecuteStep(d))
    /\ WF_approvalVars(part = "approval" /\ T!Expire)
    /\ WF_approvalVars(part = "approval" /\ T!Cleanup)
    /\ \A t \in S!Threads : WF_streamVars(part = "stream" /\ S!Progress(t))
    /\ WF_streamVars(part = "stream" /\ S!Age)
    /\ WF_streamVars(part = "stream" /\ S!Stall)
    /\ WF_streamVars(part = "stream" /\ S!ReaderStep)
    /\ \A w \in Workers : WF_outboxVars(part = "outbox" /\ O!Work(w))
    /\ \A a \in Admins : WF_outboxVars(part = "outbox" /\ O!EndReplay(a))

FairSpec == Spec /\ Fairness

-----------------------------------------------------------------------------
(*                 Properties, stated in their own modules                 *)

\* Every variable has its type, and a row of the outbox is alone in naming
\* its event.
TypeOK == S!TypeOK /\ O!TypeOK

\* A run that ends is billed, and an action with a body does not stay pending.
ApprovalSettles == T!TerminalRunIsBilled /\ T!PendingSettles

\* Frames are numbered from one to last_seq, the only terminal one is the
\* last, and a stream that says the run was completed holds every frame.
StreamIsWhole == S!FramesAreDense /\ S!EndIsLast /\ S!CompletedIsWhole

\* A client that was told the end by a stored frame has received every frame.
ReaderMissesNothing == S!ReaderMissesNothing

\* An unavailable stream is never taken up again.
UnavailableIsFinal == S!UnavailableIsFinal

\* Frames and status are those of an append-only log with one end.
StreamIsLog == S!StreamIsLog

\* Every stream ends, a client that receives frames is told the end, and frames
\* of a deleted conversation do not stay.
StreamSettles == S!StreamEnds /\ S!ReaderHearsEnd /\ S!OrphansVanish

\* Only what is on the bus is marked published, an event that used up its
\* attempts has a dead letter, and it is sent again only for an error or a
\* replay, which succeeds once.
EventsAreAccounted ==
    O!PublishedWasSent /\ O!ExhaustedHasLetter /\ O!DuplicatesAreExplained /\ O!LettersActOnce

\* No event is lost.
BacklogDrains == O!BacklogDrains
=============================================================================
