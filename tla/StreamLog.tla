------------------------------ MODULE StreamLog ------------------------------
(***************************************************************************)
(* What the stream of one run promises those who follow it                 *)
(* (conversation/stream.py): a log that grows by a frame at its end and    *)
(* loses none, has one end, of which its status speaks, and may be given   *)
(* up, for good and with at most one notice, or erased as a whole.  The    *)
(* specification is one step at a time; ConversationStream shows that the  *)
(* request, the decision, the worker and the owner, each with several      *)
(* transactions that fail and die between, take no others.                 *)
(***************************************************************************)
EXTENDS Naturals, Sequences

CONSTANTS
    Kinds,         \* what a frame may say
    Ends,          \* the kinds that end a stream
    Notice         \* the one of them that says it was given up

VARIABLES
    frames,        \* the log
    status         \* none, as long as there is no stream

vars == <<frames, status>>

Says(kind) == \E i \in 1 .. Len(frames) : frames[i] = kind
Over == \E kind \in Ends : Says(kind)

Init == frames = << >> /\ status = "none"

\* The first writer opens the stream, though its frame may be refused.
Open ==
    /\ status = "none"
    /\ status' = "streaming"
    /\ UNCHANGED frames

\* A frame comes next; nothing comes after an end.
Grow(kind) ==
    /\ status \in {"none", "streaming"}
    /\ kind # Notice /\ ~Over
    /\ frames' = Append(frames, kind)
    /\ status' = "streaming"

\* The status tells the end that is the last frame, and is told once.
Close ==
    /\ status = "streaming"
    /\ \E end \in Ends \ {Notice} :
          /\ frames # << >> /\ frames[Len(frames)] = end
          /\ status' = IF end = "run.failed" THEN "failed" ELSE "completed"
    /\ UNCHANGED frames

\* A stream that did not end is given up, with a notice or without.
GiveUp ==
    /\ status \in {"none", "streaming", "unavailable"}
    /\ status' = "unavailable"
    /\ \/ status # "none" /\ UNCHANGED frames
       \/ ~Says(Notice) /\ frames' = Append(frames, Notice)

Erase ==
    /\ frames' = << >> /\ status' = "none"

Next ==
    \/ Open \/ Close \/ GiveUp \/ Erase
    \/ \E kind \in Kinds : Grow(kind)

Spec == Init /\ [][Next]_vars

=============================================================================
