---------------------------- MODULE SystemProofs ----------------------------
(***************************************************************************)
(* Theorems about the stream of a run and the outbox (ConversationStream   *)
(* and Outbox as MCSystem instances them), for every bound, any tasks,     *)
(* workers and administrators.                                             *)
(***************************************************************************)
EXTENDS MCSystem, TLAPS, SequenceTheorems

-----------------------------------------------------------------------------
(*              The stream of a run: the inductive invariant               *)

\* The ends a writer may write; the notice is the store's.
Ended == S!Ends \ {S!Notice}
HasEnd == \E s \in DOMAIN frames : frames[s] \in Ended
Told == \E s \in DOMAIN frames : frames[s] = S!Notice

Unavailable == stream # NoStream /\ stream.status = "unavailable"

\* What the reader listed follows its cursor one by one.
BatchFollows ==
    /\ batch = [s \in DOMAIN batch |-> batch[s]]
    /\ \E n \in Nat : DOMAIN batch = (cursor + 1) .. n
    /\ ~missed

\* Typed, numbered without a gap and with at most a notice beyond the limit.
StreamTyped ==
    /\ S!TypeOK /\ S!FramesAreDense /\ BatchFollows
    /\ stream # NoStream /\ ~Told => stream.last <= MaxFrames

\* The sender and the resumer take turns: an approval that was decided writes
\* after the message was remembered.
WritersInTurn ==
    /\ writing["sender"] # "idle"
    /\ writing["sender"] # "done" =>
          /\ writing["resumer"] \in {"idle", "lookup", "done"}
          /\ ~remembered /\ ~due
          /\ frame["sender"] \in {"plan.created", "tool.call"} => approval = "none"
    /\ writing["resumer"] \notin {"idle", "done"} =>
          frame["resumer"] \in {"tool.result", "run.failed", "run.completed"}
    /\ approval # "decided" => writing["resumer"] = "idle"
    /\ writing["resumer"] = "mark" => ~due

\* A thread about to mark the end wrote it to a stream that is available.
MarksItsEnd(t) ==
    /\ frame[t] # S!Notice
    /\ writing[t] = "mark" => frame[t] \in Ended /\ ~Unavailable

\* Once a stream has its end, nobody comes back to write but the notice of an
\* end of which its writer was told that it failed.
EndIsKept ==
    HasEnd =>
        /\ \A t \in S!Threads :
              \/ writing[t] \in {"idle", "lookup", "done"}
              \/ writing[t] \in {"mark", "notice"} /\ frame[t] \in Ended
        /\ writing["resumer"] \in {"idle", "lookup"} => ~remembered
        /\ (\E t \in S!Threads : writing[t] = "notice") => unsure

\* A dropped frame is about to be told, or silenced the stream for good.
DropIsTold ==
    dropped /\ ~mute =>
        \/ \E t \in S!Threads : writing[t] = "notice"
        \/ Unavailable /\ ~due
        \/ /\ stream = NoStream \/ Unavailable
           /\ writing["sender"] = "done"
           /\ writing["resumer"] \in {"idle", "lookup", "look", "done"}

StreamInv ==
    /\ StreamTyped /\ WritersInTurn
    /\ \A t \in S!Threads : MarksItsEnd(t)
    /\ Told => Unavailable
    /\ EndIsKept /\ DropIsTold
    /\ S!EndIsLast /\ S!CompletedIsWhole

-----------------------------------------------------------------------------
(*                             The store's calls                           *)

Opened == S!Opened

LEMMA OpenedFacts ==
    ASSUME StreamTyped
    PROVE  /\ Opened \in S!Streams /\ Opened # NoStream
           /\ DOMAIN frames = 1 .. Opened.last
           /\ ~Told => Opened.last <= MaxFrames
           /\ stream = NoStream => frames = << >> /\ Opened.last = 0 /\ Opened.status = "streaming"
           /\ stream # NoStream => Opened = stream
<1>1. CASE stream = NoStream
  <2>1. Opened = [last |-> 0, status |-> "streaming", expires |-> FALSE] /\ frames = << >>
    BY <1>1 DEF Opened, S!Opened, StreamTyped, S!FramesAreDense
  <2>2. Opened \in S!Streams
    BY <2>1 DEF S!Streams, S!Statuses
  <2>3. DOMAIN frames = 1 .. 0
    BY <2>1
  <2>4. Opened.last = 0 /\ Opened.status = "streaming" /\ Opened # NoStream
    BY <2>1, <2>2, StreamAssumption
  <2>5. 0 <= MaxFrames
    BY StreamAssumption
  <2> QED BY <1>1, <2>1, <2>2, <2>3, <2>4, <2>5
<1>2. CASE stream # NoStream
  BY <1>2 DEF Opened, S!Opened, StreamTyped, S!TypeOK, S!FramesAreDense
<1> QED BY <1>1, <1>2

LEMMA AppendFacts ==
    ASSUME StreamTyped, NEW kind \in S!Kinds, NEW status \in S!Statuses, NEW expires \in BOOLEAN,
           S!Append(kind, status, expires)
    PROVE  /\ stream' \in S!Streams /\ stream' # NoStream /\ ~due' /\ due' \in BOOLEAN
           /\ stream'.last = Opened.last + 1 /\ stream'.status = status
           /\ DOMAIN frames' = 1 .. stream'.last
           /\ frames'[stream'.last] = kind
           /\ \A s \in 1 .. Opened.last : frames'[s] = frames[s]
           /\ S!Range(frames') \subseteq S!Kinds
<1>1. /\ stream' = [last |-> Opened.last + 1, status |-> status, expires |-> expires]
      /\ frames' = [s \in DOMAIN frames \cup {Opened.last + 1} |->
                        IF s = Opened.last + 1 THEN kind ELSE frames[s]]
      /\ due' = FALSE
  BY DEF S!Append, Opened
<1>2. Opened.last \in Nat
  BY OpenedFacts DEF S!Streams
<1>3. stream' \in S!Streams /\ stream'.last = Opened.last + 1 /\ stream'.status = status
  BY <1>1, <1>2 DEF S!Streams
<1>4. DOMAIN frames' = 1 .. stream'.last
  BY <1>1, <1>2, <1>3, OpenedFacts
<1>5. frames'[stream'.last] = kind /\ \A s \in 1 .. Opened.last : frames'[s] = frames[s]
  BY <1>1, <1>2, <1>3, OpenedFacts
<1>6. S!Range(frames') \subseteq S!Kinds
  BY <1>1, OpenedFacts DEF S!Range, StreamTyped, S!TypeOK
<1> QED BY <1>1, <1>3, <1>4, <1>5, <1>6, StreamAssumption

LEMMA NoticeFacts ==
    ASSUME StreamTyped, Told => Unavailable, S!AppendNotice
    PROVE  /\ stream' \in S!Streams /\ Unavailable' /\ Told' /\ ~due' /\ due' \in BOOLEAN
           /\ DOMAIN frames' = 1 .. stream'.last
           /\ stream'.last <= MaxFrames + 1
           /\ S!Range(frames') \subseteq S!Kinds
           /\ Told => frames' = frames /\ stream'.last = stream.last
           /\ ~Told => /\ stream'.last = Opened.last + 1
                       /\ frames'[stream'.last] = S!Notice
                       /\ \A s \in 1 .. Opened.last : frames'[s] = frames[s]
<1>1. Told <=> S!Notice \in S!Range(frames)
  BY DEF Told, S!Range
<1>2. S!Notice \in S!Kinds /\ "unavailable" \in S!Statuses
  BY DEF S!Kinds, S!Ends, S!Statuses
<1>3. CASE Told
  <2>1. stream \in S!Streams /\ stream # NoStream
    BY <1>3 DEF Unavailable, StreamTyped, S!TypeOK
  <2>2. /\ stream' = [stream EXCEPT !.status = "unavailable", !.expires = TRUE]
        /\ due' = FALSE /\ frames' = frames
    BY <1>1, <1>3 DEF S!AppendNotice
  <2>3. stream' \in S!Streams /\ stream'.last = stream.last /\ stream'.status = "unavailable"
    BY <1>2, <2>1, <2>2 DEF S!Streams
  <2> QED BY <1>3, <2>1, <2>2, <2>3, StreamAssumption
          DEF Unavailable, Told, StreamTyped, S!TypeOK, S!FramesAreDense
<1>4. CASE ~Told
  <2>1. S!Append(S!Notice, "unavailable", TRUE)
    BY <1>1, <1>4 DEF S!AppendNotice
  <2>2. PICK e \in BOOLEAN : S!Append(S!Notice, "unavailable", e)
    BY <2>1
  <2>3. Opened.last \in Nat /\ Opened.last <= MaxFrames
    BY <1>4, OpenedFacts DEF S!Streams
  <2>4. stream'.last \in DOMAIN frames'
    BY <1>2, <2>2, <2>3, AppendFacts
  <2> QED BY <1>2, <1>4, <2>2, <2>3, <2>4, AppendFacts, StreamAssumption DEF Unavailable, Told
<1> QED BY <1>3, <1>4

\* A frame of a writer goes to a stream that has room and is not unavailable.
LEMMA FrameFacts ==
    ASSUME StreamTyped, Told => Unavailable, NEW kind \in S!Kinds, kind # S!Notice, S!AppendFrame(kind)
    PROVE  /\ stream' \in S!Streams /\ stream' # NoStream /\ ~due' /\ due' \in BOOLEAN
           /\ stream'.last = Opened.last + 1 /\ stream'.last <= MaxFrames
           /\ ~Unavailable /\ ~Unavailable' /\ ~Told /\ ~Told'
           /\ DOMAIN frames' = 1 .. stream'.last
           /\ frames'[stream'.last] = kind
           /\ \A s \in 1 .. Opened.last : frames'[s] = frames[s]
           /\ S!Range(frames') \subseteq S!Kinds
<1>1. Opened.status \in S!Statuses /\ Opened.expires \in BOOLEAN /\ Opened.last \in Nat
  BY OpenedFacts DEF S!Streams
<1>2. S!Append(kind, Opened.status, Opened.expires) /\ Opened.last < MaxFrames /\ Opened.status # "unavailable"
  BY DEF S!AppendFrame, Opened
<1>3. ~Unavailable /\ ~Told
  BY <1>2, OpenedFacts DEF Unavailable
<1>4. ~Told'
  <2>1. /\ DOMAIN frames' = 1 .. (Opened.last + 1) /\ frames'[Opened.last + 1] = kind
        /\ \A s \in 1 .. Opened.last : frames'[s] = frames[s]
    BY <1>1, <1>2, AppendFacts
  <2>2. DOMAIN frames = 1 .. Opened.last
    BY OpenedFacts
  <2> QED BY <1>1, <1>3, <2>1, <2>2 DEF Told
<1> QED BY <1>1, <1>2, <1>3, <1>4, AppendFacts, StreamAssumption DEF Unavailable

\* A refused frame leaves at most an empty stream.
LEMMA RefuseFacts ==
    ASSUME StreamTyped, S!RefuseFrame
    PROVE  /\ stream' \in S!Streams /\ stream' # NoStream
           /\ frames' = frames /\ due' = due /\ DOMAIN frames = 1 .. stream'.last
           /\ ~Told => stream'.last <= MaxFrames
           /\ stream = NoStream => stream'.status = "streaming"
           /\ stream # NoStream => stream' = stream
BY OpenedFacts DEF S!RefuseFrame, Opened

-----------------------------------------------------------------------------
(*                              The writers                                *)

\* Where a writer goes after a frame.
LEMMA ContinueFacts ==
    ASSUME StreamTyped, NEW t \in S!Threads, frame[t] # S!Notice, S!Continue(t)
    PROVE  /\ writing' \in [S!Threads -> S!Places] /\ frame' \in [S!Threads -> S!Kinds]
           /\ approval' \in {"none", "pending", "decided"}
           /\ writing'[t] \in {"write", "remember", "done"}
           /\ frame'[t] # S!Notice
           /\ frame[t] \in Ended => writing'[t] = "done"
           /\ writing'[t] # "done" => frame'[t] # "plan.created"
           /\ frame'[t] = "tool.call" => frame[t] \in {"plan.created", "tool.call"}
           /\ t = "resumer" /\ frame[t] = "tool.result" => frame'[t] = "run.completed"
           /\ \A u \in S!Threads \ {t} : writing'[u] = writing[u] /\ frame'[u] = frame[u]
           /\ approval' = approval \/ (frame[t] = "tool.call" /\ frame'[t] = "approval.requested")
<1> USE DEF StreamTyped, S!TypeOK, S!Go, S!Kinds, S!Messages, S!Ends, S!Notice, S!Places
<1>1. ASSUME NEW kind \in S!Following(t), frame' = [frame EXCEPT ![t] = kind], S!Go(t, "write"),
             approval' = IF kind = "approval.requested" THEN "pending" ELSE approval
      PROVE  /\ frame[t] \notin S!Ends
             /\ kind \in S!Kinds \ {S!Notice, "plan.created"}
             /\ kind = "tool.call" => frame[t] = "plan.created"
             /\ kind = "approval.requested" => frame[t] = "tool.call"
             /\ t = "resumer" /\ frame[t] = "tool.result" => kind = "run.completed"
  BY <1>1 DEF S!Following
<1>2. CASE \E kind \in S!Following(t) :
              /\ frame' = [frame EXCEPT ![t] = kind]
              /\ S!Go(t, "write")
              /\ approval' = IF kind = "approval.requested" THEN "pending" ELSE approval
  BY <1>1, <1>2 DEF Ended
<1>3. CASE frame[t] = "message.assistant" /\ S!Go(t, "remember") /\ UNCHANGED <<frame, approval>>
  BY <1>3 DEF Ended
<1>4. CASE frame[t] \in S!Ends /\ S!Finish(t) /\ UNCHANGED approval
  BY <1>4 DEF S!Finish, Ended
<1> QED BY <1>2, <1>3, <1>4 DEF S!Continue

-----------------------------------------------------------------------------
(*                       Types, numbers and the reader                     *)

\* What a step that leaves the reader alone has to keep.
LEMMA TypedIfRows ==
    ASSUME StreamTyped, UNCHANGED S!reader,
           stream' \in S!Streams \cup {NoStream}, DOMAIN frames' \subseteq Nat,
           S!Range(frames') \subseteq S!Kinds, S!FramesAreDense',
           stream' # NoStream /\ ~Told' => stream'.last <= MaxFrames,
           due' \in BOOLEAN, conversation' \in {"open", "archived", "deleted"},
           deletion' \in {"none", "streams", "content"}, approval' \in {"none", "pending", "decided"},
           remembered' \in BOOLEAN, writing' \in [S!Threads -> S!Places],
           frame' \in [S!Threads -> S!Kinds],
           dropped' \in BOOLEAN, mute' \in BOOLEAN, unsure' \in BOOLEAN, failures' \in 0 .. MaxFailures
    PROVE  StreamTyped'
<1>1. BatchFollows'
  BY DEF StreamTyped, BatchFollows, S!reader
<1>2. S!TypeOK'
  BY DEF StreamTyped, S!TypeOK, S!reader, S!Range
<1> QED BY <1>1, <1>2 DEF StreamTyped

LEMMA TypedIfStored ==
    ASSUME StreamTyped, UNCHANGED S!reader,
           stream' \in S!Streams, stream' # NoStream, DOMAIN frames' = 1 .. stream'.last,
           stream'.last <= MaxFrames + 1, ~Told' => stream'.last <= MaxFrames,
           S!Range(frames') \subseteq S!Kinds,
           due' \in BOOLEAN, conversation' \in {"open", "archived", "deleted"},
           deletion' \in {"none", "streams", "content"}, approval' \in {"none", "pending", "decided"},
           remembered' \in BOOLEAN, writing' \in [S!Threads -> S!Places],
           frame' \in [S!Threads -> S!Kinds],
           dropped' \in BOOLEAN, mute' \in BOOLEAN, unsure' \in BOOLEAN, failures' \in 0 .. MaxFailures
    PROVE  StreamTyped'
<1>1. S!FramesAreDense'
  BY DEF S!FramesAreDense
<1>2. DOMAIN frames' \subseteq Nat
  BY DEF S!Streams
<1> QED BY <1>1, <1>2, TypedIfRows

\* What the reader and the conversation do to the rows of others: nothing.
LEMMA TypedIfSame ==
    ASSUME StreamTyped, UNCHANGED S!reader, UNCHANGED S!rows,
           conversation' \in {"open", "archived", "deleted"},
           deletion' \in {"none", "streams", "content"}, approval' \in {"none", "pending", "decided"},
           remembered' \in BOOLEAN, writing' \in [S!Threads -> S!Places],
           frame' \in [S!Threads -> S!Kinds],
           dropped' \in BOOLEAN, mute' \in BOOLEAN, unsure' \in BOOLEAN, failures' \in 0 .. MaxFailures
    PROVE  StreamTyped'
<1>1. S!FramesAreDense' /\ (Told' <=> Told) /\ S!Range(frames') \subseteq S!Kinds
  BY DEF S!FramesAreDense, S!Range, S!rows, Told, StreamTyped, S!TypeOK
<1>2. stream' \in S!Streams \cup {NoStream} /\ DOMAIN frames' \subseteq Nat /\ due' \in BOOLEAN
  BY DEF S!rows, StreamTyped, S!TypeOK
<1>3. stream' # NoStream /\ ~Told' => stream'.last <= MaxFrames
  BY <1>1 DEF S!rows, StreamTyped
<1> QED BY <1>1, <1>2, <1>3, TypedIfRows

LEMMA TypedUnchanged == StreamTyped /\ UNCHANGED streamVars => StreamTyped'
BY DEF StreamTyped, BatchFollows, S!TypeOK, S!FramesAreDense, S!Range, Told, streamVars

LEMMA TypedWrite ==
    ASSUME StreamInv, NEW t \in S!Threads, S!Write(t)
    PROVE  StreamTyped'
<1> USE DEF StreamInv, MarksItsEnd
<1>1. StreamTyped /\ frame[t] \in S!Kinds /\ frame[t] # S!Notice
  BY DEF StreamTyped, S!TypeOK
<1>2. /\ UNCHANGED <<conversation, deletion, remembered>> /\ UNCHANGED S!reader
      /\ writing' \in [S!Threads -> S!Places] /\ frame' \in [S!Threads -> S!Kinds]
      /\ approval' \in {"none", "pending", "decided"}
      /\ dropped' \in BOOLEAN /\ mute' \in BOOLEAN /\ unsure' \in BOOLEAN /\ failures' \in 0 .. MaxFailures
  <2>1. S!Go(t, "mark") \/ S!Go(t, "notice") => writing' \in [S!Threads -> S!Places]
    BY DEF S!Go, S!Places, StreamTyped, S!TypeOK
  <2>2. S!Fail => failures' \in 0 .. MaxFailures
    BY StreamAssumption DEF S!Fail, StreamTyped, S!TypeOK
  <2> QED BY <1>1, <2>1, <2>2, ContinueFacts DEF S!Write, S!history, StreamTyped, S!TypeOK
<1>3. stream \in S!Streams \cup {NoStream} /\ due \in BOOLEAN /\ S!Range(frames) \subseteq S!Kinds
      /\ conversation \in {"open", "archived", "deleted"}
      /\ deletion \in {"none", "streams", "content"} /\ remembered \in BOOLEAN
  BY <1>1 DEF StreamTyped, S!TypeOK
<1>4. CASE S!AppendFrame(frame[t])
  <2>1. stream'.last <= MaxFrames /\ stream'.last <= MaxFrames + 1
    BY <1>1, <1>4, FrameFacts, StreamAssumption DEF S!Streams
  <2> QED BY <1>1, <1>2, <1>3, <1>4, <2>1, FrameFacts, TypedIfStored
<1>5. CASE S!RefuseFrame
  <2>1. stream'.last <= MaxFrames + 1 /\ (~Told' => stream'.last <= MaxFrames)
    BY <1>1, <1>5, RefuseFacts, StreamAssumption DEF S!Streams, Told, StreamTyped, S!FramesAreDense
  <2> QED BY <1>1, <1>2, <1>3, <1>5, <2>1, RefuseFacts, TypedIfStored
<1>6. CASE UNCHANGED S!rows
  BY <1>1, <1>2, <1>3, <1>6, TypedIfSame
<1> QED BY <1>4, <1>5, <1>6 DEF S!Write

LEMMA TypedTell ==
    ASSUME StreamInv, NEW t \in S!Threads, S!Tell(t)
    PROVE  StreamTyped'
<1> USE DEF StreamInv, MarksItsEnd
<1>1. /\ UNCHANGED <<conversation, deletion, remembered>> /\ UNCHANGED S!reader
      /\ writing' \in [S!Threads -> S!Places] /\ frame' \in [S!Threads -> S!Kinds]
      /\ approval' \in {"none", "pending", "decided"}
      /\ dropped' \in BOOLEAN /\ mute' \in BOOLEAN /\ unsure' \in BOOLEAN /\ failures' \in 0 .. MaxFailures
  <2>1. S!Continue(t) /\ UNCHANGED <<conversation, deletion, remembered>> /\ UNCHANGED S!reader
    BY DEF S!Tell
  <2>2. dropped' \in BOOLEAN /\ mute' \in BOOLEAN /\ unsure' \in BOOLEAN /\ failures' \in 0 .. MaxFailures
    <3>1. S!Fail => failures' \in 0 .. MaxFailures
      BY StreamAssumption DEF S!Fail, StreamTyped, S!TypeOK
    <3> QED BY <3>1 DEF S!Tell, S!history, StreamTyped, S!TypeOK
  <2> QED BY <2>1, <2>2, ContinueFacts
<1>2. conversation \in {"open", "archived", "deleted"}
      /\ deletion \in {"none", "streams", "content"} /\ remembered \in BOOLEAN
  BY DEF StreamTyped, S!TypeOK
<1>3. CASE S!AppendNotice
  <2>1. stream' # NoStream
    BY <1>3, NoticeFacts DEF Unavailable
  <2> QED BY <1>1, <1>2, <1>3, <2>1, NoticeFacts, TypedIfStored
<1>4. CASE UNCHANGED S!rows
  BY <1>1, <1>2, <1>4, TypedIfSame
<1> QED BY <1>3, <1>4 DEF S!Tell

LEMMA TypedThread ==
    ASSUME StreamInv, NEW t \in S!Threads,
           S!Mark(t) \/ S!Crash(t) \/ S!Remember \/ S!Decide \/ S!Lookup \/ S!Look \/ S!Reopen
    PROVE  StreamTyped'
<1> USE DEF StreamInv
<1>1. \A to \in S!Places, u \in S!Threads : S!Go(u, to) => writing' \in [S!Threads -> S!Places]
  BY DEF S!Go, StreamTyped, S!TypeOK
<1>2. \A u \in S!Threads : S!Finish(u) => writing' \in [S!Threads -> S!Places] /\ frame' \in [S!Threads -> S!Kinds]
  BY <1>1 DEF S!Finish, S!Places, S!Kinds, StreamTyped, S!TypeOK
<1>3. /\ "sender" \in S!Threads /\ "resumer" \in S!Threads
      /\ {"lookup", "look", "reopen", "write", "done"} \subseteq S!Places
      /\ {"tool.result", "run.failed"} \subseteq S!Kinds
  BY DEF S!Threads, S!Places, S!Kinds, S!Ends
<1>4. /\ conversation \in {"open", "archived", "deleted"}
      /\ deletion \in {"none", "streams", "content"} /\ approval \in {"none", "pending", "decided"}
      /\ remembered \in BOOLEAN /\ writing \in [S!Threads -> S!Places] /\ frame \in [S!Threads -> S!Kinds]
      /\ dropped \in BOOLEAN /\ mute \in BOOLEAN /\ unsure \in BOOLEAN /\ failures \in 0 .. MaxFailures
      /\ due \in BOOLEAN
  BY DEF StreamTyped, S!TypeOK
<1>5. CASE S!Mark(t) \/ S!Reopen
  <2>1. /\ frames' = frames /\ UNCHANGED <<conversation, deletion, approval, remembered>> /\ UNCHANGED S!reader
        /\ UNCHANGED <<dropped, mute, unsure>> /\ due' \in BOOLEAN
        /\ writing' \in [S!Threads -> S!Places] /\ frame' \in [S!Threads -> S!Kinds]
        /\ failures' \in 0 .. MaxFailures
    <3>1. CASE S!Mark(t)
      <4>1. S!Fail => failures' \in 0 .. MaxFailures
        BY <1>4, StreamAssumption DEF S!Fail
      <4> QED BY <1>2, <1>4, <3>1, <4>1 DEF S!Mark, S!around
    <3>2. CASE S!Reopen
      BY <1>1, <1>3, <1>4, <3>2 DEF S!Reopen, S!around, S!history
    <3> QED BY <1>5, <3>1, <3>2
  <2>2. \/ stream' = stream
        \/ /\ stream # NoStream /\ stream' \in S!Streams /\ stream'.last = stream.last
    BY <1>5 DEF S!Mark, S!Reopen, StreamTyped, S!TypeOK, S!Streams, S!Statuses
  <2>3. S!Range(frames') \subseteq S!Kinds /\ (Told' <=> Told)
    BY <2>1 DEF S!Range, Told, StreamTyped, S!TypeOK
  <2>4. CASE stream' = stream
    <3>1. S!FramesAreDense' /\ DOMAIN frames' \subseteq Nat /\ stream' \in S!Streams \cup {NoStream}
          /\ (stream' # NoStream /\ ~Told' => stream'.last <= MaxFrames)
      BY <2>1, <2>3, <2>4 DEF S!FramesAreDense, StreamTyped, S!TypeOK
    <3> QED BY <1>4, <2>1, <2>3, <3>1, TypedIfRows
  <2>5. CASE stream # NoStream /\ stream' \in S!Streams /\ stream'.last = stream.last
    <3>1. DOMAIN frames' = 1 .. stream'.last /\ stream' # NoStream
          /\ stream'.last <= MaxFrames + 1 /\ (~Told' => stream'.last <= MaxFrames)
      BY <2>1, <2>3, <2>5, StreamAssumption DEF S!FramesAreDense, StreamTyped
    <3> QED BY <1>4, <2>1, <2>3, <2>5, <3>1, TypedIfStored
  <2> QED BY <2>2, <2>4, <2>5
<1>6. CASE S!Crash(t) \/ S!Remember
  <2>1. /\ writing' \in [S!Threads -> S!Places] /\ frame' \in [S!Threads -> S!Kinds]
        /\ remembered' \in BOOLEAN /\ mute' \in BOOLEAN
    BY <1>2, <1>3, <1>4, <1>6 DEF S!Crash, S!Remember, S!around, S!history
  <2> QED BY <1>4, <1>6, <2>1, TypedIfSame DEF S!Crash, S!Remember, S!around, S!history
<1>7. CASE S!Lookup \/ S!Look
  BY <1>1, <1>3, <1>4, <1>7, TypedIfSame DEF S!Lookup, S!Look, S!around, S!history
<1>8. CASE S!Decide
  <2>1. writing' \in [S!Threads -> S!Places] /\ frame' \in [S!Threads -> S!Kinds]
    BY <1>1, <1>3, <1>4, <1>8 DEF S!Decide, S!writers
  <2> QED BY <1>4, <1>8, <2>1, TypedIfSame DEF S!Decide, S!history
<1> QED BY <1>5, <1>6, <1>7, <1>8

LEMMA TypedAround ==
    ASSUME StreamInv,
           \/ S!Age \/ S!Stall \/ S!Purge \/ S!Archive
           \/ S!DeleteKeys \/ S!DeleteStreams \/ S!DeleteContent \/ S!DieDeleting
    PROVE  StreamTyped'
<1> USE DEF StreamInv
<1>1. CASE S!Age \/ S!Archive \/ S!DeleteKeys \/ S!DeleteContent \/ S!DieDeleting
  <2>1. /\ UNCHANGED <<stream, frames, approval, writing, frame>> /\ UNCHANGED S!history /\ UNCHANGED S!reader
        /\ due' \in BOOLEAN /\ remembered' \in BOOLEAN
        /\ conversation' \in {"open", "archived", "deleted"} /\ deletion' \in {"none", "streams", "content"}
    BY <1>1 DEF S!Age, S!Archive, S!DeleteKeys, S!DeleteContent, S!DieDeleting, S!rows, S!around, S!writers,
          StreamTyped, S!TypeOK
  <2> QED BY <2>1, TypedIfRows DEF S!history, S!FramesAreDense, StreamTyped, S!TypeOK, Told
<1>2. CASE S!Stall
  <2>1. stream \in S!Streams /\ stream' \in S!Streams /\ stream'.last = stream.last /\ stream # NoStream
    BY <1>2 DEF S!Stall, StreamTyped, S!TypeOK, S!Streams, S!Statuses
  <2>2. DOMAIN frames' = 1 .. stream'.last /\ stream' # NoStream /\ S!Range(frames') \subseteq S!Kinds
        /\ stream'.last <= MaxFrames + 1 /\ (~Told' => stream'.last <= MaxFrames)
    BY <1>2, <2>1, StreamAssumption DEF S!Stall, S!FramesAreDense, StreamTyped, S!TypeOK, Told, S!Range
  <2> QED BY <1>2, <2>1, <2>2, TypedIfStored
          DEF S!Stall, S!around, S!writers, S!history, StreamTyped, S!TypeOK
<1>3. CASE S!Purge
  <2>1. S!FramesAreDense' /\ S!Range(frames') \subseteq S!Kinds /\ DOMAIN frames' \subseteq Nat
    BY <1>3 DEF S!Purge, S!FramesAreDense, S!Range
  <2> QED BY <1>3, <2>1, TypedIfRows DEF S!Purge, S!around, S!writers, S!history, StreamTyped, S!TypeOK
<1>4. CASE S!DeleteStreams
  <2>1. BatchFollows'
    <3>1. batch' = [s \in DOMAIN batch' |-> batch'[s]] /\ DOMAIN batch' = (cursor' + 1) .. 0 /\ ~missed'
      BY <1>4 DEF S!DeleteStreams, S!DropReader
    <3> QED BY <3>1 DEF BatchFollows
  <2>2. S!FramesAreDense' /\ S!Range(frames') \subseteq S!Kinds /\ DOMAIN frames' \subseteq Nat
        /\ S!Range(batch') \subseteq S!Kinds /\ DOMAIN batch' \subseteq Nat
    BY <1>4 DEF S!DeleteStreams, S!DropReader, S!FramesAreDense, S!Range
  <2>3. S!TypeOK'
    <3>1. stream' \in S!Streams \cup {NoStream} /\ due' \in BOOLEAN /\ deletion' \in {"none", "streams", "content"}
          /\ dropped' \in BOOLEAN /\ mute' \in BOOLEAN /\ unsure' \in BOOLEAN
      BY <1>4 DEF S!DeleteStreams
    <3>2. /\ reading' \in {"list", "state", "closed"} /\ cursor' \in Nat
          /\ heard' \in S!Ends \cup {"none"} /\ cuts' \in 0 .. MaxCuts
      BY <1>4, StreamAssumption DEF S!DeleteStreams, S!DropReader
    <3>4. missed' \in BOOLEAN /\ invented' \in BOOLEAN
      BY <1>4 DEF S!DeleteStreams, S!DropReader
    <3>3. UNCHANGED <<conversation, approval, remembered, writing, frame, failures>>
      BY <1>4 DEF S!DeleteStreams, S!writers
    <3> QED BY <2>2, <3>1, <3>2, <3>3, <3>4 DEF StreamTyped, S!TypeOK
  <2> QED BY <1>4, <2>1, <2>2, <2>3 DEF S!DeleteStreams, StreamTyped
<1> QED BY <1>1, <1>2, <1>3, <1>4

\* What the reader changes of the types: its own.
LEMMA TypedIfRead ==
    ASSUME StreamTyped,
           UNCHANGED <<stream, frames, due, conversation, deletion, approval, remembered, writing, frame,
                       dropped, mute, unsure, failures>>,
           reading' \in {"list", "state", "closed"}, heard' \in S!Ends \cup {"none"},
           invented' \in BOOLEAN, cuts' \in 0 .. MaxCuts, cursor' \in Nat,
           batch' = [s \in DOMAIN batch' |-> batch'[s]], S!Range(batch') \subseteq S!Kinds, ~missed',
           NEW n \in Nat, DOMAIN batch' = (cursor' + 1) .. n, missed' \in BOOLEAN
    PROVE  StreamTyped'
<1>1. BatchFollows'
  BY DEF BatchFollows
<1>2. S!Range(frames') \subseteq S!Kinds /\ (Told' <=> Told) /\ S!FramesAreDense'
  BY DEF S!Range, Told, S!FramesAreDense, StreamTyped, S!TypeOK
<1>3. DOMAIN batch' \subseteq Nat
  OBVIOUS
<1>4. S!TypeOK'
  BY <1>2, <1>3 DEF StreamTyped, S!TypeOK
<1> QED BY <1>1, <1>2, <1>4 DEF StreamTyped

\* A client that follows a listing receives what it lists, one by one.
LEMMA NoSkip ==
    ASSUME StreamTyped, NEW seq \in {cursor} \cup DOMAIN batch
    PROVE  ~S!Skips(seq) /\ seq \in Nat
<1>1. cursor \in Nat
  BY DEF StreamTyped, S!TypeOK
<1>2. PICK n \in Nat : DOMAIN batch = (cursor + 1) .. n
  BY DEF StreamTyped, BatchFollows
<1>3. seq \in Nat /\ (seq <= n \/ seq = cursor)
  BY <1>1, <1>2
<1>4. {s \in DOMAIN batch : s <= seq} = (cursor + 1) .. seq
  BY <1>1, <1>2, <1>3
<1> QED BY <1>1, <1>3, <1>4, <1>2 DEF S!Skips

LEMMA TypedReader ==
    ASSUME StreamInv, S!ReaderStep \/ S!Cut
    PROVE  StreamTyped'
<1> USE DEF StreamInv
<1>1. UNCHANGED <<stream, frames, due, conversation, deletion, approval, remembered, writing, frame,
                  dropped, mute, unsure, failures>>
  BY DEF S!ReaderStep, S!List, S!Deliver, S!ReadState, S!Cut, S!rows, S!around, S!writers, S!history
<1>2. /\ reading \in {"list", "state", "closed"} /\ heard \in S!Ends \cup {"none"}
      /\ invented \in BOOLEAN /\ cuts \in 0 .. MaxCuts /\ cursor \in Nat /\ missed \in BOOLEAN
      /\ S!Range(batch) \subseteq S!Kinds /\ ~missed
  BY DEF StreamTyped, S!TypeOK, BatchFollows
<1>3. PICK m \in Nat : DOMAIN batch = (cursor + 1) .. m
  BY DEF StreamTyped, BatchFollows
<1>4. batch' = << >> => /\ batch' = [s \in DOMAIN batch' |-> batch'[s]] /\ S!Range(batch') \subseteq S!Kinds
                        /\ cursor' \in Nat => DOMAIN batch' = (cursor' + 1) .. 0
  BY DEF S!Range
<1>5. CASE S!List
  <2>1. /\ batch' = [s \in DOMAIN batch' |-> batch'[s]]
        /\ DOMAIN batch' = {s \in DOMAIN frames : s > cursor}
        /\ \A s \in DOMAIN batch' : batch'[s] = frames[s]
        /\ reading' = "state" /\ UNCHANGED <<cursor, missed, heard, invented, cuts>>
    BY <1>5 DEF S!List
  <2>2. S!Range(batch') \subseteq S!Kinds
    BY <2>1 DEF S!Range, StreamTyped, S!TypeOK
  <2>3. PICK n \in Nat : DOMAIN frames = 1 .. n
    BY OpenedFacts DEF S!Streams
  <2>4. DOMAIN batch' = (cursor' + 1) .. n
    BY <1>2, <2>1, <2>3
  <2> QED BY <1>1, <1>2, <2>1, <2>2, <2>4, TypedIfRead
<1>6. CASE S!Deliver
  <2>1. CASE S!FirstEnd = {} /\ S!Receive(S!Newest) /\ reading' = "list" /\ UNCHANGED heard
    <3>1. (cursor + 1) .. m # {}
      <4>1. batch # << >> /\ batch = [s \in DOMAIN batch |-> batch[s]]
        BY <1>6 DEF S!Deliver, StreamTyped, BatchFollows
      <4>2. ASSUME DOMAIN batch = {} PROVE FALSE
        <5>1. batch = [s \in {} |-> batch[s]]
          BY <4>1, <4>2
        <5>2. [s \in {} |-> batch[s]] = << >>
          OBVIOUS
        <5> QED BY <4>1, <5>1, <5>2
      <4> QED BY <1>3, <4>2
    <3>2. m \in DOMAIN batch /\ \A e \in DOMAIN batch : e <= m
      BY <1>2, <1>3, <3>1
    <3>3. S!Newest \in DOMAIN batch
      BY <3>2 DEF S!Newest
    <3>4. cursor' \in Nat /\ missed' = FALSE /\ batch' = << >>
      BY <1>2, <2>1, <3>3, NoSkip DEF S!Receive
    <3>5. UNCHANGED <<invented, cuts>>
      BY <1>6 DEF S!Deliver
    <3> QED BY <1>1, <1>2, <1>4, <2>1, <3>4, <3>5, TypedIfRead
  <2>2. CASE \E end \in S!FirstEnd : missed' = (missed \/ S!Skips(end)) /\ S!Hear(batch[end])
    <3>1. PICK end \in S!FirstEnd : missed' = (missed \/ S!Skips(end)) /\ S!Hear(batch[end])
      BY <2>2
    <3>2. end \in DOMAIN batch /\ batch[end] \in S!Ends
      BY DEF S!FirstEnd
    <3>3. missed' = FALSE /\ cursor' = 0 /\ batch' = << >> /\ heard' \in S!Ends /\ reading' = "closed"
      BY <1>2, <3>1, <3>2, NoSkip DEF S!Hear
    <3>4. UNCHANGED <<invented, cuts>>
      BY <1>6 DEF S!Deliver
    <3> QED BY <1>1, <1>2, <1>4, <3>3, <3>4, TypedIfRead
  <2> QED BY <1>6, <2>1, <2>2 DEF S!Deliver
<1>7. CASE S!ReadState
  <2>1. batch' = << >> /\ cursor' \in Nat /\ cuts' = cuts /\ reading' \in {"list", "closed"}
    BY <1>2, <1>7 DEF S!ReadState, S!Hear
  <2>2. ~missed' /\ missed' \in BOOLEAN
    BY <1>2, <1>7 DEF S!ReadState
  <2>3. invented' \in BOOLEAN /\ heard' \in S!Ends \cup {"none"}
    BY <1>2, <1>7 DEF S!ReadState, S!Hear, S!Ends, S!Notice
  <2> QED BY <1>1, <1>2, <1>4, <2>1, <2>2, <2>3, TypedIfRead
<1>8. CASE S!Cut
  <2>1. PICK seq \in {cursor} \cup DOMAIN batch : S!Receive(seq)
    BY <1>8 DEF S!Cut
  <2>2. batch' = << >> /\ cursor' \in Nat /\ missed' = FALSE
    BY <1>2, <2>1, NoSkip DEF S!Receive
  <2>3. cuts' \in 0 .. MaxCuts /\ reading' = "list" /\ UNCHANGED <<heard, invented>>
    BY <1>2, <1>8, StreamAssumption DEF S!Cut
  <2> QED BY <1>1, <1>2, <1>4, <2>2, <2>3, TypedIfRead
<1> QED BY <1>5, <1>6, <1>7, <1>8 DEF S!ReaderStep

-----------------------------------------------------------------------------
(*                     Turns, the end, the notice: writing                 *)

LEMMA GoFacts ==
    ASSUME StreamTyped, NEW t \in S!Threads, NEW at, S!Go(t, at)
    PROVE  /\ writing'[t] = at
           /\ \A u \in S!Threads \ {t} : writing'[u] = writing[u]
BY DEF S!Go, StreamTyped, S!TypeOK

LEMMA FinishFacts ==
    ASSUME StreamTyped, NEW t \in S!Threads, S!Finish(t)
    PROVE  /\ writing'[t] = "done" /\ frame'[t] = "plan.created"
           /\ \A u \in S!Threads \ {t} : writing'[u] = writing[u] /\ frame'[u] = frame[u]
BY DEF S!Finish, S!Go, StreamTyped, S!TypeOK

\* While a thread has work to do at the stream the other is not at it.
LEMMA Alone ==
    ASSUME WritersInTurn, NEW t \in S!Threads,
           writing[t] \in {"write", "notice", "mark", "remember", "look", "reopen"},
           NEW u \in S!Threads \ {t}
    PROVE  writing[u] \in {"idle", "lookup", "done"}
BY DEF WritersInTurn, S!Threads

\* Frames that stay are as they were, and so is the last of them.
LEMMA FramesKept ==
    ASSUME frames' = frames, stream # NoStream => stream'.last = stream.last,
           StreamTyped, S!EndIsLast, S!CompletedIsWhole, unsure => unsure', mute => mute'
    PROVE  /\ (HasEnd' <=> HasEnd) /\ (Told' <=> Told)
           /\ S!EndIsLast'
           /\ (dropped' => dropped) \/ ~HasEnd \/ mute' => S!CompletedIsWhole'
<1>1. (HasEnd' <=> HasEnd) /\ (Told' <=> Told)
  BY DEF HasEnd, Told
<1>2. frames = << >> \/ stream # NoStream
  BY DEF StreamTyped, S!FramesAreDense
<1>3. S!EndIsLast'
  BY <1>2 DEF S!EndIsLast
<1>4. "run.completed" \in S!Range(frames) => HasEnd
  BY DEF HasEnd, Ended, S!Ends, S!Notice, S!Range
<1>5. ("run.completed" \in S!Range(frames)) <=> ("run.completed" \in S!Range(frames'))
  BY DEF S!Range
<1> QED BY <1>1, <1>3, <1>4, <1>5 DEF S!CompletedIsWhole

\* A writer that may write finds no end, and that nothing was dropped without
\* a word.
LEMMA NoEndYet ==
    ASSUME StreamInv, NEW t \in S!Threads, writing[t] = "write"
    PROVE  /\ ~HasEnd
           /\ ~Unavailable => (dropped => mute)
<1>1. ~HasEnd
  BY DEF StreamInv, EndIsKept
<1>2. \A u \in S!Threads : writing[u] # "notice"
  BY Alone DEF StreamInv
<1>3. writing["sender"] # "done" \/ writing["resumer"] \notin {"idle", "lookup", "look", "done"}
  BY DEF S!Threads
<1>4. dropped /\ ~mute => Unavailable
  BY <1>2, <1>3 DEF StreamInv, DropIsTold, WritersInTurn, S!Threads
<1> QED BY <1>1, <1>4

\* The frame that is stored is the only end.
LEMMA WrittenEnd ==
    ASSUME StreamInv, NEW t \in S!Threads, writing[t] = "write", S!AppendFrame(frame[t]),
           dropped' = dropped, mute' = mute, unsure => unsure'
    PROVE  /\ HasEnd' <=> frame[t] \in Ended
           /\ S!EndIsLast' /\ S!CompletedIsWhole'
           /\ ~Told' /\ ~Unavailable' /\ ~due' /\ (dropped' => mute')
<1>1. /\ stream'.last = Opened.last + 1 /\ Opened.last \in Nat
      /\ ~Unavailable /\ ~Unavailable' /\ ~Told /\ ~Told' /\ ~due'
      /\ DOMAIN frames' = 1 .. stream'.last /\ DOMAIN frames = 1 .. Opened.last
      /\ frames'[stream'.last] = frame[t]
      /\ \A s \in 1 .. Opened.last : frames'[s] = frames[s]
  BY FrameFacts, OpenedFacts DEF StreamInv, MarksItsEnd, StreamTyped, S!TypeOK, S!Streams
<1>2. ~HasEnd /\ (dropped => mute)
  BY <1>1, NoEndYet
<1>3. \A s \in DOMAIN frames' : frames'[s] \in S!Ends => s = stream'.last
  BY <1>1, <1>2 DEF HasEnd, Told, Ended
<1>4. HasEnd' <=> frame[t] \in Ended
  BY <1>1, <1>2 DEF HasEnd
<1>5. S!EndIsLast'
  BY <1>3 DEF S!EndIsLast
<1>6. S!CompletedIsWhole'
  BY <1>2 DEF S!CompletedIsWhole
<1> QED BY <1>1, <1>2, <1>4, <1>5, <1>6

\* Where a thread goes on after its frame or its notice, the turns are kept.
LEMMA TurnContinues ==
    ASSUME StreamInv, NEW t \in S!Threads, writing[t] \in {"write", "notice"}, S!Continue(t),
           due' = due \/ ~due', remembered' = remembered
    PROVE  WritersInTurn' /\ \A u \in S!Threads : MarksItsEnd(u)'
<1>1. frame[t] # S!Notice /\ StreamTyped
  BY DEF StreamInv, MarksItsEnd
<1>2. /\ writing'[t] \in {"write", "remember", "done"}
      /\ frame'[t] # S!Notice
      /\ frame[t] \in Ended => writing'[t] = "done"
      /\ writing'[t] # "done" => frame'[t] # "plan.created"
      /\ frame'[t] = "tool.call" => frame[t] \in {"plan.created", "tool.call"}
      /\ t = "resumer" /\ frame[t] = "tool.result" => frame'[t] = "run.completed"
      /\ \A u \in S!Threads \ {t} : writing'[u] = writing[u] /\ frame'[u] = frame[u]
      /\ approval' = approval \/ (frame[t] = "tool.call" /\ frame'[t] = "approval.requested")
  BY <1>1, ContinueFacts
<1>3. \A u \in S!Threads \ {t} : writing[u] \in {"idle", "lookup", "done"}
  BY Alone DEF StreamInv
<1>4. \A u \in S!Threads : MarksItsEnd(u)'
  BY <1>2, <1>3 DEF StreamInv, MarksItsEnd
<1>5. CASE t = "sender"
  BY <1>2, <1>3, <1>4, <1>5 DEF StreamInv, WritersInTurn, S!Threads
<1>6. CASE t = "resumer"
  <2>1. frame[t] \in {"tool.result", "run.failed", "run.completed"} /\ {"run.failed", "run.completed"} \subseteq Ended
    BY <1>6 DEF StreamInv, WritersInTurn, Ended, S!Ends, S!Notice
  <2> QED BY <1>2, <1>3, <1>4, <1>6, <2>1 DEF StreamInv, WritersInTurn, S!Threads
<1> QED BY <1>4, <1>5, <1>6 DEF S!Threads

\* What the invariant says beyond the types.
Rest ==
    /\ WritersInTurn
    /\ \A t \in S!Threads : MarksItsEnd(t)
    /\ Told => Unavailable
    /\ EndIsKept /\ DropIsTold
    /\ S!EndIsLast /\ S!CompletedIsWhole

LEMMA RestWrite ==
    ASSUME StreamInv, NEW t \in S!Threads, S!Write(t)
    PROVE  Rest'
<1>1. StreamTyped /\ frame[t] \in S!Kinds /\ frame[t] # S!Notice /\ writing[t] = "write" /\ ~HasEnd
      /\ remembered' = remembered
  BY NoEndYet DEF StreamInv, MarksItsEnd, StreamTyped, S!TypeOK, S!Write
<1>2. \A u \in S!Threads \ {t} : writing[u] \in {"idle", "lookup", "done"}
  BY <1>1, Alone DEF StreamInv
<1>3. t = "sender" => ~remembered
  BY <1>1 DEF StreamInv, WritersInTurn
<1>4. CASE S!AppendFrame(frame[t]) /\ UNCHANGED S!history
           /\ IF frame[t] \in S!Ends THEN S!Go(t, "mark") /\ UNCHANGED <<frame, approval>> ELSE S!Continue(t)
  <2>1. /\ HasEnd' <=> frame[t] \in Ended
        /\ S!EndIsLast' /\ S!CompletedIsWhole'
        /\ ~Told' /\ ~Unavailable' /\ ~due' /\ (dropped' => mute')
    BY <1>1, <1>4, WrittenEnd DEF S!history
  <2>2. CASE frame[t] \in S!Ends
    <3>1. /\ writing'[t] = "mark" /\ UNCHANGED <<frame, approval>> /\ frame[t] \in Ended
          /\ \A u \in S!Threads \ {t} : writing'[u] = writing[u]
      BY <1>1, <1>4, <2>2, GoFacts DEF Ended
    <3>2. WritersInTurn'
      BY <1>1, <1>2, <2>1, <3>1 DEF StreamInv, WritersInTurn, S!Threads, Ended, S!Ends, S!Notice
    <3>3. \A u \in S!Threads : MarksItsEnd(u)'
      BY <1>2, <2>1, <3>1 DEF StreamInv, MarksItsEnd
    <3>4. EndIsKept'
      BY <1>1, <1>2, <1>3, <3>1 DEF EndIsKept, S!Threads
    <3> QED BY <2>1, <3>2, <3>3, <3>4 DEF Rest, DropIsTold
  <2>3. CASE frame[t] \notin S!Ends
    <3>1. WritersInTurn' /\ \A u \in S!Threads : MarksItsEnd(u)'
      BY <1>1, <1>4, <2>1, <2>3, TurnContinues
    <3>2. ~HasEnd'
      BY <2>1, <2>3 DEF Ended
    <3> QED BY <2>1, <3>1, <3>2 DEF Rest, EndIsKept, DropIsTold
  <2> QED BY <2>2, <2>3
<1>5. CASE /\ S!RefuseFrame \/ (UNCHANGED S!rows) \/ (S!AppendFrame(frame[t]) /\ unsure' /\ UNCHANGED dropped)
           /\ S!Go(t, "notice") /\ UNCHANGED <<frame, approval, mute>> /\ (unsure => unsure')
  <2>1. /\ writing'[t] = "notice" /\ \A u \in S!Threads \ {t} : writing'[u] = writing[u]
    BY <1>1, <1>5, GoFacts
  <2>2. DropIsTold'
    BY <2>1 DEF DropIsTold
  <2>3. /\ due' = due \/ ~due'
        /\ Told' => Unavailable'
        /\ S!EndIsLast' /\ S!CompletedIsWhole'
        /\ HasEnd' => frame[t] \in Ended /\ unsure'
    <3>1. CASE S!RefuseFrame \/ UNCHANGED S!rows
      <4>1. frames' = frames /\ due' = due /\ (stream # NoStream => stream' = stream)
        BY <1>1, <3>1, RefuseFacts DEF S!rows
      <4>2. S!EndIsLast' /\ S!CompletedIsWhole' /\ ~HasEnd' /\ (Told' => Told)
        BY <1>1, <1>5, <4>1, FramesKept DEF StreamInv
      <4> QED BY <4>1, <4>2 DEF StreamInv, Unavailable
    <3>2. CASE S!AppendFrame(frame[t]) /\ unsure' /\ UNCHANGED dropped
      BY <1>1, <1>5, <3>2, WrittenEnd
    <3> QED BY <1>5, <3>1, <3>2
  <2>4. WritersInTurn'
    BY <1>1, <1>2, <1>5, <2>1, <2>3 DEF StreamInv, WritersInTurn, S!Threads
  <2>5. \A u \in S!Threads : MarksItsEnd(u)'
    BY <1>2, <1>5, <2>1 DEF StreamInv, MarksItsEnd
  <2>6. EndIsKept'
    BY <1>1, <1>2, <1>3, <1>5, <2>1, <2>3 DEF EndIsKept, S!Threads
  <2> QED BY <2>2, <2>3, <2>4, <2>5, <2>6 DEF Rest
<1> QED BY <1>4, <1>5 DEF S!Write

LEMMA RestTell ==
    ASSUME StreamInv, NEW t \in S!Threads, S!Tell(t)
    PROVE  Rest'
<1>1. /\ StreamTyped /\ frame[t] \in S!Kinds /\ frame[t] # S!Notice /\ writing[t] = "notice"
      /\ remembered' = remembered /\ unsure' = unsure /\ dropped' = dropped /\ S!Continue(t)
  BY DEF StreamInv, MarksItsEnd, StreamTyped, S!TypeOK, S!Tell, S!history
<1>2. \A u \in S!Threads \ {t} : writing[u] \in {"idle", "lookup", "done"}
  BY <1>1, Alone DEF StreamInv
<1>3. /\ writing'[t] \in {"write", "remember", "done"}
      /\ frame[t] \in Ended => writing'[t] = "done"
      /\ \A u \in S!Threads \ {t} : writing'[u] = writing[u] /\ frame'[u] = frame[u]
  BY <1>1, ContinueFacts
<1>4. HasEnd => frame[t] \in Ended /\ unsure
  BY <1>1 DEF StreamInv, EndIsKept
<1>5. CASE S!AppendNotice /\ mute' = mute
  <2>1. Unavailable' /\ Told' /\ ~due'
    BY <1>1, <1>5, NoticeFacts DEF StreamInv
  <2>2. WritersInTurn' /\ \A u \in S!Threads : MarksItsEnd(u)'
    BY <1>1, <2>1, TurnContinues
  <2>3. S!EndIsLast' /\ S!CompletedIsWhole' /\ (HasEnd' => HasEnd)
    <3>1. CASE Told
      <4>1. frames' = frames /\ stream'.last = stream.last
        BY <1>1, <1>5, <3>1, NoticeFacts DEF StreamInv
      <4>2. S!EndIsLast' /\ S!CompletedIsWhole' /\ (HasEnd' => HasEnd)
        BY <1>1, <1>5, <4>1, FramesKept DEF StreamInv
      <4> QED BY <4>2
    <3>2. CASE ~Told
      <4>1. /\ DOMAIN frames' = 1 .. Opened.last + 1 /\ stream'.last = Opened.last + 1
            /\ frames'[Opened.last + 1] = S!Notice /\ Opened.last \in Nat
            /\ DOMAIN frames = 1 .. Opened.last
            /\ \A s \in 1 .. Opened.last : frames'[s] = frames[s]
            /\ stream # NoStream => Opened = stream
        BY <1>1, <1>5, <3>2, NoticeFacts, OpenedFacts DEF StreamInv, S!Streams
      <4>2. \A s \in DOMAIN frames' : frames'[s] \in Ended => s \in DOMAIN frames /\ frames[s] = frames'[s]
        BY <4>1 DEF Ended
      <4>3. HasEnd' => HasEnd
        BY <4>2 DEF HasEnd
      <4>4. ASSUME NEW s \in DOMAIN frames', frames'[s] \in S!Ends, s # stream'.last
            PROVE  unsure' /\ s + 1 = stream'.last /\ frames'[s + 1] = S!Notice
        <5>1. s \in DOMAIN frames /\ frames[s] = frames'[s] /\ frames[s] \in Ended
          BY <3>2, <4>1, <4>4 DEF Told, Ended
        <5>2. stream # NoStream
          BY <1>1, <5>1 DEF StreamTyped, S!FramesAreDense
        <5>3. HasEnd /\ s <= Opened.last
          BY <4>1, <5>1 DEF HasEnd
        <5>4. s = stream.last \/ (s + 1 = stream.last /\ frames[s + 1] = S!Notice)
          BY <5>1 DEF StreamInv, S!EndIsLast, Ended
        <5>5. s = stream.last
          BY <3>2, <4>1, <5>1, <5>2, <5>4 DEF Told
        <5> QED BY <1>1, <1>4, <4>1, <5>2, <5>3, <5>5
      <4>5. S!EndIsLast'
        BY <4>4 DEF S!EndIsLast
      <4>6. "run.completed" \in S!Range(frames') => "run.completed" \in S!Range(frames)
        BY <4>2 DEF S!Range, Ended, S!Ends, S!Notice
      <4>7. S!CompletedIsWhole'
        <5>1. ("run.completed" \in S!Range(frames') /\ dropped' => "run.completed" \in S!Range(frames) /\ dropped)
          BY <1>1, <4>6
        <5> QED BY <1>5, <5>1 DEF StreamInv, S!CompletedIsWhole
      <4> QED BY <4>3, <4>5, <4>7
    <3> QED BY <3>1, <3>2
  <2>5. EndIsKept'
    BY <1>1, <1>2, <1>3, <1>4, <2>3 DEF StreamInv, EndIsKept, S!Threads
  <2> QED BY <2>1, <2>2, <2>3, <2>5 DEF Rest, DropIsTold
<1>6. CASE UNCHANGED S!rows /\ mute'
  <2>1. frames' = frames /\ stream' = stream /\ due' = due
    BY <1>6 DEF S!rows
  <2>2. WritersInTurn' /\ \A u \in S!Threads : MarksItsEnd(u)'
    BY <1>1, <2>1, TurnContinues
  <2>3. S!EndIsLast' /\ S!CompletedIsWhole' /\ (HasEnd' => HasEnd) /\ (Told' => Told)
    BY <1>1, <1>6, <2>1, FramesKept DEF StreamInv
  <2>4. EndIsKept'
    BY <1>1, <1>2, <1>3, <1>4, <2>3 DEF StreamInv, EndIsKept, S!Threads
  <2> QED BY <1>6, <2>1, <2>2, <2>3, <2>4 DEF Rest, DropIsTold, StreamInv, Unavailable
<1> QED BY <1>5, <1>6 DEF S!Tell, S!history

LEMMA RestMark ==
    ASSUME StreamInv, NEW t \in S!Threads, S!Mark(t)
    PROVE  Rest'
<1>1. /\ StreamTyped /\ writing[t] = "mark" /\ frame[t] \in Ended /\ ~Unavailable /\ ~Told
      /\ frames' = frames /\ UNCHANGED <<approval, remembered, dropped, mute, unsure>>
      /\ due' = due \/ ~due'
      /\ stream # NoStream => stream'.last = stream.last
  BY DEF StreamInv, MarksItsEnd, S!Mark, S!around, StreamTyped, S!TypeOK, S!Streams
<1>2. /\ writing'[t] = "done" /\ frame'[t] = "plan.created"
      /\ \A u \in S!Threads \ {t} : writing'[u] = writing[u] /\ frame'[u] = frame[u]
  BY <1>1, FinishFacts DEF S!Mark
<1>3. \A u \in S!Threads \ {t} : writing[u] \in {"idle", "lookup", "done"}
  BY <1>1, Alone DEF StreamInv
<1>4. (HasEnd' <=> HasEnd) /\ ~Told' /\ S!EndIsLast' /\ S!CompletedIsWhole'
  BY <1>1, FramesKept DEF StreamInv
<1>5. WritersInTurn'
  BY <1>1, <1>2, <1>3 DEF StreamInv, WritersInTurn, S!Threads
<1>6. \A u \in S!Threads : MarksItsEnd(u)'
  BY <1>2, <1>3 DEF StreamInv, MarksItsEnd, S!Notice
<1>7. EndIsKept'
  BY <1>1, <1>2, <1>3, <1>4 DEF StreamInv, EndIsKept, S!Threads
<1>8. writing["sender"] # "done" \/ writing["resumer"] \notin {"idle", "lookup", "look", "done"}
  BY <1>1 DEF S!Threads
<1>9. ~(dropped /\ ~mute)
  BY <1>1, <1>3, <1>8 DEF StreamInv, DropIsTold
<1> QED BY <1>1, <1>4, <1>5, <1>6, <1>7, <1>9 DEF Rest, DropIsTold

LEMMA RestCrash ==
    ASSUME StreamInv, NEW t \in S!Threads, S!Crash(t)
    PROVE  Rest'
<1>1. /\ StreamTyped /\ writing[t] \notin {"idle", "done"}
      /\ stream' = stream /\ frames' = frames /\ due' = due
      /\ UNCHANGED <<approval, remembered, dropped, unsure>>
      /\ mute' <=> mute \/ writing[t] = "notice"
  BY DEF StreamInv, S!Crash, S!around, S!rows
<1>2. /\ writing'[t] = "done" /\ frame'[t] = "plan.created"
      /\ \A u \in S!Threads \ {t} : writing'[u] = writing[u] /\ frame'[u] = frame[u]
  BY <1>1, FinishFacts DEF S!Crash
<1>3. (HasEnd' <=> HasEnd) /\ (Told' <=> Told) /\ S!EndIsLast' /\ S!CompletedIsWhole'
  BY <1>1, FramesKept DEF StreamInv
<1>4. WritersInTurn'
  BY <1>1, <1>2 DEF StreamInv, WritersInTurn, S!Threads
<1>5. \A u \in S!Threads : MarksItsEnd(u)'
  BY <1>1, <1>2 DEF StreamInv, MarksItsEnd, S!Notice, Unavailable
<1>6. EndIsKept'
  BY <1>1, <1>2, <1>3 DEF StreamInv, EndIsKept, S!Threads
<1>7. DropIsTold'
  BY <1>1, <1>2 DEF StreamInv, DropIsTold, Unavailable, S!Threads
<1> QED BY <1>1, <1>3, <1>4, <1>5, <1>6, <1>7 DEF StreamInv, Rest, Unavailable

LEMMA RestThread ==
    ASSUME StreamInv, S!Remember \/ S!Decide \/ S!Lookup \/ S!Look
    PROVE  Rest'
<1>1. /\ StreamTyped /\ stream' = stream /\ frames' = frames /\ due' = due
      /\ UNCHANGED <<dropped, mute, unsure>>
  BY DEF StreamInv, S!Remember, S!Decide, S!Lookup, S!Look, S!around, S!rows, S!history
<1>2. (HasEnd' <=> HasEnd) /\ (Told' <=> Told) /\ S!EndIsLast' /\ S!CompletedIsWhole'
  BY <1>1, FramesKept DEF StreamInv
<1>3. Unavailable' <=> Unavailable
  BY <1>1 DEF Unavailable
<1>4. CASE S!Remember
  <2>1. /\ writing["sender"] = "remember" /\ writing'["sender"] = "done" /\ frame'["sender"] = "plan.created"
        /\ writing'["resumer"] = writing["resumer"] /\ frame'["resumer"] = frame["resumer"]
        /\ approval' = approval
    BY <1>1, <1>4, FinishFacts DEF S!Remember, S!Threads
  <2>2. ~HasEnd
    BY <2>1 DEF StreamInv, EndIsKept, S!Threads
  <2> QED BY <1>1, <1>2, <1>3, <2>1, <2>2
          DEF StreamInv, Rest, WritersInTurn, MarksItsEnd, EndIsKept, DropIsTold, S!Threads, S!Notice
<1>5. CASE S!Decide
  <2>1. writing["resumer"] = "idle" /\ approval = "pending" /\ approval' = "decided" /\ remembered' = remembered
    BY <1>5 DEF StreamInv, WritersInTurn, S!Decide
  <2>2. \/ UNCHANGED <<writing, frame>>
        \/ /\ writing'["resumer"] = "lookup" /\ writing'["sender"] = writing["sender"]
           /\ frame'["resumer"] \in {"tool.result", "run.failed"} /\ frame'["sender"] = frame["sender"]
    BY <1>1, <1>5 DEF S!Decide, S!writers, S!Go, StreamTyped, S!TypeOK, S!Threads
  <2>3. WritersInTurn'
    BY <1>1, <2>1, <2>2 DEF StreamInv, WritersInTurn
  <2>4. EndIsKept' /\ DropIsTold'
    BY <1>1, <1>2, <1>3, <2>1, <2>2 DEF StreamInv, EndIsKept, DropIsTold, S!Threads
  <2>5. \A u \in S!Threads : MarksItsEnd(u)'
    BY <1>3, <2>2 DEF StreamInv, MarksItsEnd, S!Threads, S!Notice
  <2> QED BY <1>2, <1>3, <2>3, <2>4, <2>5 DEF StreamInv, Rest
<1>6. CASE S!Lookup \/ S!Look
  <2>1. /\ UNCHANGED <<frame, approval, remembered>> /\ writing'["sender"] = writing["sender"]
        /\ \/ /\ writing["resumer"] = "lookup"
              /\ writing'["resumer"] = IF remembered THEN "look" ELSE "done"
           \/ /\ writing["resumer"] = "look"
              /\ writing'["resumer"] = IF stream = NoStream \/ Unavailable THEN "done" ELSE "reopen"
    BY <1>1, <1>6, GoFacts DEF S!Lookup, S!Look, S!around, S!Threads, Unavailable
  <2>2. WritersInTurn'
    BY <1>1, <2>1 DEF StreamInv, WritersInTurn
  <2>3. EndIsKept' /\ DropIsTold'
    BY <1>1, <1>2, <1>3, <2>1 DEF StreamInv, EndIsKept, DropIsTold, S!Threads
  <2>4. \A u \in S!Threads : MarksItsEnd(u)'
    BY <1>3, <2>1 DEF StreamInv, MarksItsEnd, S!Threads
  <2> QED BY <1>2, <1>3, <2>2, <2>3, <2>4 DEF StreamInv, Rest
<1> QED BY <1>4, <1>5, <1>6

LEMMA RestReopen ==
    ASSUME StreamInv, S!Reopen
    PROVE  Rest'
<1>1. /\ StreamTyped /\ writing["resumer"] = "reopen"
      /\ frames' = frames /\ UNCHANGED <<approval, remembered, frame, dropped, mute, unsure>>
      /\ Unavailable => Unavailable' /\ due' = due
      /\ Unavailable' => Unavailable
      /\ due' = due \/ ~due'
      /\ stream # NoStream => stream'.last = stream.last
  BY DEF StreamInv, S!Reopen, S!around, S!history, StreamTyped, S!TypeOK, S!Streams, Unavailable
<1>2. writing'["resumer"] = "write" /\ writing'["sender"] = writing["sender"]
  BY <1>1, GoFacts DEF S!Reopen, S!Threads
<1>3. (HasEnd' <=> HasEnd) /\ (Told' <=> Told) /\ S!EndIsLast' /\ S!CompletedIsWhole'
  BY <1>1, FramesKept DEF StreamInv
<1>4. ~HasEnd /\ writing["sender"] = "done"
  BY <1>1 DEF StreamInv, EndIsKept, WritersInTurn, S!Threads
<1>5. WritersInTurn'
  BY <1>1, <1>2, <1>4 DEF StreamInv, WritersInTurn
<1>6. EndIsKept' /\ DropIsTold'
  BY <1>1, <1>2, <1>3, <1>4 DEF StreamInv, EndIsKept, DropIsTold, S!Threads
<1>7. \A u \in S!Threads : MarksItsEnd(u)'
  BY <1>1, <1>2 DEF StreamInv, MarksItsEnd, S!Threads
<1> QED BY <1>1, <1>3, <1>5, <1>6, <1>7 DEF StreamInv, Rest

\* Time, the worker and the owner of the conversation.
LEMMA RestAround ==
    ASSUME StreamInv,
           \/ S!Age \/ S!Stall \/ S!Purge \/ S!Archive
           \/ S!DeleteKeys \/ S!DeleteStreams \/ S!DeleteContent \/ S!DieDeleting
    PROVE  Rest'
<1>1. StreamTyped /\ UNCHANGED <<writing, frame, approval>>
      /\ (remembered' => remembered)
  BY DEF StreamInv, S!Age, S!Stall, S!Purge, S!Archive, S!DeleteKeys, S!DeleteStreams, S!DeleteContent,
         S!DieDeleting, S!writers, S!around
<1>2. CASE S!Archive \/ S!DeleteKeys \/ S!DeleteContent \/ S!DieDeleting
  <2>1. stream' = stream /\ frames' = frames /\ due' = due /\ UNCHANGED <<dropped, mute, unsure>>
    BY <1>2 DEF S!Archive, S!DeleteKeys, S!DeleteContent, S!DieDeleting, S!rows, S!history
  <2>2. (HasEnd' <=> HasEnd) /\ (Told' <=> Told) /\ S!EndIsLast' /\ S!CompletedIsWhole'
    BY <1>1, <2>1, FramesKept DEF StreamInv
  <2>3. Unavailable' <=> Unavailable
    BY <2>1 DEF Unavailable
  <2> QED BY <1>1, <2>1, <2>2, <2>3 DEF StreamInv, Rest, WritersInTurn, MarksItsEnd, EndIsKept, DropIsTold
<1>3. CASE S!Age
  <2>1. /\ stream' = stream /\ frames' = frames /\ UNCHANGED <<dropped, mute, unsure>>
        /\ \A t \in S!Threads : writing[t] \in {"idle", "done"}
    BY <1>3 DEF S!Age, S!history
  <2>2. (HasEnd' <=> HasEnd) /\ (Told' <=> Told) /\ S!EndIsLast' /\ S!CompletedIsWhole'
    BY <1>1, <2>1, FramesKept DEF StreamInv
  <2>3. Unavailable' <=> Unavailable
    BY <2>1 DEF Unavailable
  <2>4. writing["sender"] = "done" /\ writing["resumer"] \in {"idle", "done"}
    BY <2>1 DEF StreamInv, WritersInTurn, S!Threads
  <2> QED BY <1>1, <2>1, <2>2, <2>3, <2>4 DEF StreamInv, Rest, WritersInTurn, MarksItsEnd, EndIsKept, DropIsTold
<1>4. CASE S!Stall
  <2>1. /\ stream # NoStream /\ stream' # NoStream /\ stream'.last = stream.last /\ Unavailable'
        /\ due /\ ~due'
        /\ frames' = frames /\ UNCHANGED <<dropped, mute, unsure>>
    BY <1>1, <1>4, StreamAssumption
    DEF S!Stall, S!history, StreamTyped, S!TypeOK, S!Streams, S!Statuses, Unavailable
  <2>2. (HasEnd' <=> HasEnd) /\ (Told' <=> Told) /\ S!EndIsLast' /\ S!CompletedIsWhole'
    BY <1>1, <2>1, FramesKept DEF StreamInv
  <2>3. writing["sender"] = "done" /\ writing["resumer"] # "mark"
    BY <2>1 DEF StreamInv, WritersInTurn
  <2> QED BY <1>1, <2>1, <2>2, <2>3
          DEF StreamInv, Rest, WritersInTurn, MarksItsEnd, EndIsKept, DropIsTold, S!Threads
<1>5. CASE S!Purge \/ S!DeleteStreams
  <2>1. /\ stream' = NoStream /\ frames' = << >> /\ due' = FALSE
        /\ (dropped' /\ ~mute' => dropped /\ ~mute /\ due)
    BY <1>5 DEF S!Purge, S!DeleteStreams, S!history
  <2>2. ~HasEnd' /\ ~Told' /\ ~Unavailable' /\ S!EndIsLast' /\ S!CompletedIsWhole'
    BY <2>1 DEF HasEnd, Told, Unavailable, S!EndIsLast, S!CompletedIsWhole, S!Range
  <2> QED BY <1>1, <2>1, <2>2 DEF StreamInv, Rest, WritersInTurn, MarksItsEnd, EndIsKept, DropIsTold
<1> QED BY <1>2, <1>3, <1>4, <1>5

LEMMA RestKept ==
    ASSUME StreamInv,
           UNCHANGED <<stream, frames, due, approval, remembered, writing, frame, dropped, mute, unsure>>
    PROVE  Rest'
<1>1. (HasEnd' <=> HasEnd) /\ (Told' <=> Told) /\ S!EndIsLast' /\ S!CompletedIsWhole'
  BY FramesKept DEF StreamInv
<1>2. Unavailable' <=> Unavailable
  BY DEF Unavailable
<1> QED BY <1>1, <1>2 DEF StreamInv, Rest, WritersInTurn, MarksItsEnd, EndIsKept, DropIsTold

-----------------------------------------------------------------------------
(*                     The theorems about the stream                       *)

LEMMA StreamStart == S!Init => StreamInv
<1> SUFFICES ASSUME S!Init PROVE StreamInv
  OBVIOUS
<1> USE DEF S!Init
<1>1. S!Range(frames) = {} /\ S!Range(batch) = {} /\ DOMAIN frames = {} /\ DOMAIN batch = {}
  BY DEF S!Range
<1>2. /\ writing \in [S!Threads -> S!Places] /\ frame \in [S!Threads -> S!Kinds]
      /\ writing["sender"] = "write" /\ writing["resumer"] = "idle"
      /\ \A t \in S!Threads : frame[t] = "plan.created" /\ writing[t] \in {"write", "idle"}
  BY DEF S!Threads, S!Places, S!Kinds
<1>3. S!TypeOK
  <2>1. failures \in 0 .. MaxFailures /\ cuts \in 0 .. MaxCuts
    BY StreamAssumption
  <2> QED BY <1>1, <1>2, <2>1 DEF S!TypeOK
<1>4. BatchFollows
  <2>1. batch = [s \in DOMAIN batch |-> batch[s]] /\ DOMAIN batch = (cursor + 1) .. 0 /\ ~missed
    BY <1>1
  <2> QED BY <2>1 DEF BatchFollows
<1>5. StreamTyped
  BY <1>3, <1>4 DEF StreamTyped, S!FramesAreDense
<1>6. ~HasEnd /\ ~Told /\ ~Unavailable /\ S!EndIsLast /\ S!CompletedIsWhole
  BY <1>1 DEF HasEnd, Told, Unavailable, S!EndIsLast, S!CompletedIsWhole
<1> QED BY <1>2, <1>5, <1>6 DEF StreamInv, WritersInTurn, MarksItsEnd, EndIsKept, DropIsTold, S!Notice, S!Threads

LEMMA StreamStep == StreamInv /\ [S!Next]_streamVars => StreamInv'
<1> SUFFICES ASSUME StreamInv, [S!Next]_streamVars PROVE StreamTyped' /\ Rest'
  BY DEF StreamInv, Rest
<1>1. ASSUME NEW t \in S!Threads, S!Progress(t) \/ S!Crash(t) PROVE StreamTyped' /\ Rest'
  <2>1. CASE S!Write(t)
    BY <2>1, TypedWrite, RestWrite
  <2>2. CASE S!Tell(t)
    BY <2>2, TypedTell, RestTell
  <2>3. CASE S!Mark(t)
    BY <2>3, TypedThread, RestMark
  <2>4. CASE S!Crash(t)
    BY <2>4, TypedThread, RestCrash
  <2>5. CASE S!Remember \/ S!Lookup \/ S!Look
    BY <2>5, TypedThread, RestThread
  <2>6. CASE S!Reopen
    BY <2>6, TypedThread, RestReopen
  <2> QED BY <1>1, <2>1, <2>2, <2>3, <2>4, <2>5, <2>6 DEF S!Progress
<1>2. CASE S!Decide
  <2>1. "sender" \in S!Threads
    BY DEF S!Threads
  <2> QED BY <1>2, <2>1, TypedThread, RestThread
<1>3. CASE \/ S!Age \/ S!Stall \/ S!Purge \/ S!Archive
           \/ S!DeleteKeys \/ S!DeleteStreams \/ S!DeleteContent \/ S!DieDeleting
  BY <1>3, TypedAround, RestAround
<1>4. CASE S!ReaderStep \/ S!Cut
  <2>1. UNCHANGED <<stream, frames, due, approval, remembered, writing, frame, dropped, mute, unsure>>
    BY <1>4 DEF S!ReaderStep, S!List, S!Deliver, S!ReadState, S!Cut, S!rows, S!around, S!writers, S!history
  <2> QED BY <1>4, <2>1, TypedReader, RestKept
<1>5. CASE UNCHANGED streamVars
  <2>1. StreamTyped
    BY DEF StreamInv
  <2> QED BY <1>5, <2>1, TypedUnchanged, RestKept DEF streamVars
<1> QED BY <1>1, <1>2, <1>3, <1>4, <1>5 DEF S!Next

\* The stream is one of the parts: a step is one of the stream or leaves it.
LEMMA StreamOfSystem == [Next]_vars => [S!Next]_streamVars
BY DEF Next, vars, streamVars, S!streamVars

LEMMA StreamAlways == Spec => []StreamInv
<1>1. Init => StreamInv
  BY StreamStart DEF Init
<1>2. StreamInv /\ [Next]_vars => StreamInv'
  BY StreamStep, StreamOfSystem
<1> QED BY <1>1, <1>2, PTL DEF Spec

\* The frames are numbered from one to last_seq without a gap, past every
\* failure, purge and deletion, the end of a stream is its last frame, and a
\* stream that says the run was completed has every frame (stream_writer.py
\* over the append transactions of the stream's store).
THEOREM StreamsAreWhole == Spec => []StreamIsWhole
<1>1. StreamInv => StreamIsWhole
  BY DEF StreamInv, StreamTyped, StreamIsWhole
<1> QED BY <1>1, StreamAlways, PTL

\* A client that resumes at its cursor, however often it is cut off, has every
\* frame before the one that told it the end (the event stream in app/main.py).
THEOREM ReaderFollows == Spec => []ReaderMissesNothing
<1>1. StreamInv => ReaderMissesNothing
  BY DEF StreamInv, StreamTyped, BatchFollows, ReaderMissesNothing, S!ReaderMissesNothing
<1> QED BY <1>1, StreamAlways, PTL

LEMMA StaysUnavailable ==
    ASSUME StreamInv, [S!Next]_streamVars, Unavailable, stream' # NoStream
    PROVE  stream'.status = "unavailable" /\ \A s \in DOMAIN frames' \ DOMAIN frames : frames'[s] = S!Notice
<1>1. StreamTyped /\ (Told => Unavailable) /\ stream # NoStream /\ stream.status = "unavailable"
  BY DEF StreamInv, Unavailable
<1>2. CASE stream' = stream /\ frames' = frames
  BY <1>1, <1>2
<1>3. ASSUME NEW t \in S!Threads, S!Write(t) PROVE stream' = stream /\ frames' = frames
  <2>1. frame[t] \in S!Kinds /\ frame[t] # S!Notice
    BY <1>1 DEF StreamInv, MarksItsEnd, StreamTyped, S!TypeOK
  <2>2. ~S!AppendFrame(frame[t])
    BY <1>1, <2>1, FrameFacts
  <2>3. S!RefuseFrame \/ UNCHANGED S!rows
    BY <1>3, <2>2 DEF S!Write
  <2> QED BY <1>1, <2>3, RefuseFacts DEF S!rows
<1>4. ASSUME NEW t \in S!Threads, S!Tell(t), S!AppendNotice
      PROVE  stream'.status = "unavailable" /\ \A s \in DOMAIN frames' \ DOMAIN frames : frames'[s] = S!Notice
  <2>1. stream'.status = "unavailable"
    BY <1>1, <1>4, NoticeFacts DEF Unavailable
  <2>2. CASE Told
    BY <1>1, <1>4, <2>1, <2>2, NoticeFacts
  <2>3. CASE ~Told
    <3>1. /\ DOMAIN frames' = 1 .. Opened.last + 1 /\ DOMAIN frames = 1 .. Opened.last
          /\ frames'[Opened.last + 1] = S!Notice /\ Opened.last \in Nat
      BY <1>1, <1>4, <2>3, NoticeFacts, OpenedFacts DEF S!Streams
    <3> QED BY <2>1, <3>1
  <2> QED BY <2>2, <2>3
<1>5. ASSUME NEW t \in S!Threads, S!Mark(t) PROVE FALSE
  BY <1>5 DEF S!Mark, StreamInv, MarksItsEnd
<1>6. ASSUME NEW t \in S!Threads, S!Progress(t) \/ S!Crash(t)
      PROVE  (S!Tell(t) /\ S!AppendNotice) \/ (stream' = stream /\ frames' = frames)
  <2>1. CASE S!Tell(t)
    BY <2>1 DEF S!Tell, S!rows
  <2>2. CASE S!Reopen
    BY <1>1, <2>2 DEF S!Reopen
  <2>3. CASE S!Remember \/ S!Lookup \/ S!Look \/ S!Crash(t)
    BY <2>3 DEF S!Remember, S!Lookup, S!Look, S!Crash, S!rows
  <2> QED BY <1>3, <1>5, <1>6, <2>1, <2>2, <2>3 DEF S!Progress
<1>7. ASSUME \/ S!Decide \/ S!Age \/ S!Archive \/ S!DeleteKeys \/ S!DeleteContent \/ S!DieDeleting
             \/ S!ReaderStep \/ S!Cut \/ UNCHANGED streamVars
      PROVE  stream' = stream /\ frames' = frames
  BY <1>7 DEF S!Decide, S!Age, S!Archive, S!DeleteKeys, S!DeleteContent, S!DieDeleting,
     S!ReaderStep, S!List, S!Deliver, S!ReadState, S!Cut, S!rows, streamVars
<1>8. ~S!Stall /\ ~S!Purge /\ ~S!DeleteStreams
  BY <1>1 DEF S!Stall, S!Purge, S!DeleteStreams
<1> QED BY <1>2, <1>4, <1>6, <1>7, <1>8 DEF S!Next

\* What was given up stays given up: an unavailable stream receives only its
\* notice, until it is purged or deleted, though writers, marks and the
\* continuation after a decision come later.
THEOREM UnavailableStays == Spec => UnavailableIsFinal
<1>1. StreamInv /\ [Next]_vars =>
        [stream # NoStream /\ stream.status = "unavailable" /\ stream' # NoStream =>
          /\ stream'.status = "unavailable"
          /\ \A s \in DOMAIN frames' \ DOMAIN frames : frames'[s] = S!Notice]_(S!streamVars)
  BY StreamOfSystem, StaysUnavailable DEF Unavailable, streamVars, S!streamVars
<1> QED BY <1>1, StreamAlways, PTL DEF Spec, UnavailableIsFinal, S!UnavailableIsFinal

-----------------------------------------------------------------------------
(*                 The outbox: the inductive invariant                     *)

\* A row that is not published yet, as far as the table says.
Waiting(e) == \E i \in DOMAIN outbox : outbox[i].event = e /\ ~outbox[i].published

\* What a worker has in its batch: to go, sent, failed.
ToGo(w) == {taken[w][i] : i \in DOMAIN taken[w]}
Held(w) == ToGo(w) \cup done[w] \cup failed[w]

\* The head of a batch is on its way to a dead letter.
Lettering(w) == place[w] \in {"record", "mark", "notify"}

\* A batch names unpublished rows, each once, and knows what became of them.
BatchInTurn(w) ==
    /\ place[w] = "idle" => Held(w) = {}
    /\ place[w] = "publish" \/ Lettering(w) => taken[w] # << >>
    /\ \A i, j \in DOMAIN taken[w] : i # j => taken[w][i] # taken[w][j]
    /\ \A i \in DOMAIN taken[w] : taken[w][i] \notin done[w]
    /\ \A i \in DOMAIN taken[w] : taken[w][i] \in failed[w] => i = 1 /\ Lettering(w)
    /\ Lettering(w) => taken[w][1] \in failed[w]
    /\ done[w] \cap failed[w] = {}

\* The rows of a batch stay unpublished until it commits, and it has sent what
\* it will mark.
HoldsRows(w) ==
    /\ \A e \in Held(w) : Waiting(e)
    /\ \A e \in done[w] : sent[e] > 0

\* An attempt that is the last has its dead letter before the batch goes on.
LettersInTurn(w) ==
    /\ \A i \in DOMAIN outbox :
          outbox[i].event \in failed[w] /\ outbox[i].attempts + 1 >= MaxAttempts =>
              \/ outbox[i].event \in letters
              \/ place[w] = "record" /\ outbox[i].event = taken[w][1]
    /\ place[w] \in {"mark", "notify"} => taken[w][1] \in letters
    /\ place[w] = "notify" => taken[w][1] \in notified /\ told[taken[w][1]] = 0

\* The locks of SKIP LOCKED: no row is in two batches.
Apart == \A v, w \in Workers : v # w => Held(v) \cap Held(w) = {}

\* An event whose task is gone has no row.
RowsAlive == \A i \in DOMAIN outbox : tasks[outbox[i].event[1]] # "deleted"

\* The operator is told after the mark, and a replay that answered is marked.
LettersOnce ==
    /\ \A e \in O!Events : told[e] <= 1 /\ (told[e] > 0 => e \in notified)
    /\ \A e \in O!Events : answered[e] = IF e \in replayed THEN 1 ELSE 0
    /\ \A a \in Admins : replaying[a] # O!NoEvent => replaying[a] \in letters \ replayed
    /\ \A a, b \in Admins : a # b /\ replaying[a] = replaying[b] => replaying[a] = O!NoEvent

\* The one sending every event is due has been used.
Spent(e) ==
    \/ tasks[e[1]] = "deleted"
    \/ \E i \in DOMAIN outbox : outbox[i].event = e /\ outbox[i].published
    \/ \E w \in Workers : e \in done[w]
Again(e) == e \in replayed \/ ~O!LetterFree(e)
SentInTurn ==
    \A e \in O!Events :
        sent[e] <= errors + (IF Spent(e) THEN 1 ELSE 0) + (IF Again(e) THEN 1 ELSE 0)

OutboxInv ==
    /\ O!TypeOK
    /\ \A w \in Workers : BatchInTurn(w) /\ HoldsRows(w) /\ LettersInTurn(w)
    /\ Apart /\ RowsAlive
    /\ LettersOnce /\ SentInTurn
    /\ O!PublishedWasSent /\ O!ExhaustedHasLetter

-----------------------------------------------------------------------------
(*                            Sequences and rows                           *)

LEMMA MakesSeq ==
    ASSUME NEW set, NEW n \in Nat, NEW f, f = [i \in 1 .. n |-> f[i]], \A i \in 1 .. n : f[i] \in set
    PROVE  f \in Seq(set) /\ DOMAIN f = 1 .. n /\ (n > 0 => f # << >>)
<1>1. f \in [1 .. n -> set]
  BY Zenon
<1>2. f \in Seq(set) /\ DOMAIN f = 1 .. n
  BY <1>1, SeqDef
<1>3. n > 0 => f # << >>
  BY <1>2
<1> QED BY <1>2, <1>3

LEMMA TailFacts ==
    ASSUME NEW set, NEW s \in Seq(set), s # << >>
    PROVE  /\ Tail(s) \in Seq(set) /\ Head(s) = s[1] /\ 1 \in DOMAIN s
           /\ \A i \in DOMAIN Tail(s) : i + 1 \in DOMAIN s /\ Tail(s)[i] = s[i + 1]
           /\ \A i \in DOMAIN s : i # 1 => i - 1 \in DOMAIN Tail(s)
           /\ \A i \in DOMAIN s : i \in Nat
           /\ Len(s) # 1 => Tail(s) # << >>
<1>1. Len(s) \in Nat /\ Len(s) # 0 /\ DOMAIN s = 1 .. Len(s)
  OBVIOUS
<1>2. /\ Tail(s) \in Seq(set) /\ Head(s) = s[1] /\ Len(Tail(s)) = Len(s) - 1
      /\ \A i \in 1 .. Len(Tail(s)) : Tail(s)[i] = s[i + 1]
  BY HeadTailProperties
<1>3. DOMAIN Tail(s) = 1 .. (Len(s) - 1)
  BY <1>2
<1>4. Len(s) # 1 => Tail(s) # << >>
  <2>1. \A r : r = << >> => Len(r) = 0
    OBVIOUS
  <2>2. Len(s) # 1 => Len(Tail(s)) # 0
    BY <1>1, <1>2
  <2> QED BY <2>1, <2>2, Zenon
<1> QED BY <1>1, <1>2, <1>3, <1>4

LEMMA RowFacts ==
    ASSUME OutboxInv
    PROVE  /\ outbox \in Seq(O!Rows) /\ Len(outbox) \in Nat /\ DOMAIN outbox = 1 .. Len(outbox)
           /\ \A i \in DOMAIN outbox :
                 /\ outbox[i] \in O!Rows /\ outbox[i].event \in O!Events
                 /\ outbox[i].attempts \in Nat /\ outbox[i].published \in BOOLEAN
           /\ \A i, j \in DOMAIN outbox : i # j => outbox[i].event # outbox[j].event
<1>1. outbox \in Seq(O!Rows)
  BY DEF OutboxInv, O!TypeOK
<1>2. \A i \in DOMAIN outbox : outbox[i] \in O!Rows
  BY <1>1
<1> QED BY <1>1, <1>2 DEF OutboxInv, O!TypeOK, O!Rows

\* A worker's batch goes on to its next row.
LEMMA AdvanceFacts ==
    ASSUME OutboxInv, NEW w \in Workers, taken[w] # << >>, O!Advance(w)
    PROVE  /\ taken' \in [Workers -> Seq(O!Events)] /\ place' \in [Workers -> O!Places]
           /\ \A i \in DOMAIN taken'[w] : i + 1 \in DOMAIN taken[w] /\ taken'[w][i] = taken[w][i + 1] /\ i + 1 # 1
           /\ \A i \in DOMAIN taken[w] : i # 1 => taken[w][i] \in ToGo(w)'
           /\ ToGo(w)' \subseteq ToGo(w)
           /\ place'[w] \in {"publish", "commit"}
           /\ place'[w] = "publish" => taken'[w] # << >>
           /\ \A v \in Workers \ {w} : taken'[v] = taken[v] /\ place'[v] = place[v]
<1>1. taken[w] \in Seq(O!Events) /\ taken \in [Workers -> Seq(O!Events)] /\ place \in [Workers -> O!Places]
  BY DEF OutboxInv, O!TypeOK
<1>2. /\ taken'[w] = Tail(taken[w]) /\ taken' \in [Workers -> Seq(O!Events)]
      /\ \A v \in Workers \ {w} : taken'[v] = taken[v] /\ place'[v] = place[v]
      /\ place'[w] = IF Len(taken[w]) = 1 THEN "commit" ELSE "publish"
      /\ place' \in [Workers -> O!Places]
  BY <1>1, TailFacts DEF O!Advance, O!Places
<1>3. \A i \in DOMAIN taken'[w] : i + 1 \in DOMAIN taken[w] /\ taken'[w][i] = taken[w][i + 1] /\ i + 1 # 1
  BY <1>1, <1>2, TailFacts
<1>4. ASSUME NEW i \in DOMAIN taken[w], i # 1 PROVE taken[w][i] \in ToGo(w)'
  <2>1. i - 1 \in DOMAIN Tail(taken[w]) /\ Tail(taken[w])[i - 1] = taken[w][(i - 1) + 1] /\ i \in Nat
    BY <1>1, <1>4, TailFacts
  <2>2. taken[w][(i - 1) + 1] = taken[w][i]
    BY <2>1
  <2> QED BY <1>2, <2>1, <2>2 DEF ToGo
<1>5. ToGo(w)' \subseteq ToGo(w)
  BY <1>3 DEF ToGo
<1>6. place'[w] = "publish" => taken'[w] # << >>
  BY <1>1, <1>2, TailFacts
<1> QED BY <1>2, <1>3, <1>4, <1>5, <1>6

\* What another worker does leaves a batch in turn.
LEMMA OthersKeep ==
    ASSUME OutboxInv, NEW v \in Workers, outbox' = outbox,
           place'[v] = place[v], taken'[v] = taken[v], done'[v] = done[v], failed'[v] = failed[v],
           sent' \in [O!Events -> Nat], \A e \in O!Events : sent'[e] >= sent[e],
           letters \subseteq letters', notified \subseteq notified',
           place[v] = "notify" => told'[taken[v][1]] = told[taken[v][1]]
    PROVE  BatchInTurn(v)' /\ HoldsRows(v)' /\ LettersInTurn(v)' /\ Held(v)' = Held(v)
<1>1. BatchInTurn(v) /\ HoldsRows(v) /\ LettersInTurn(v)
  BY DEF OutboxInv
<1>2. done[v] \subseteq O!Events /\ sent \in [O!Events -> Nat]
  BY DEF OutboxInv, O!TypeOK
<1>3. ToGo(v)' = ToGo(v) /\ (Lettering(v)' <=> Lettering(v)) /\ \A e : Waiting(e)' <=> Waiting(e)
  BY DEF ToGo, Lettering, Waiting
<1>4. Held(v)' = Held(v)
  BY <1>3 DEF Held
<1>5. BatchInTurn(v)'
  BY <1>1, <1>3, <1>4 DEF BatchInTurn
<1>6. \A e \in done'[v] : sent'[e] > 0
  <2>1. \A e \in done[v] : e \in O!Events /\ sent[e] > 0 /\ sent[e] \in Nat /\ sent'[e] >= sent[e]
    BY <1>1, <1>2 DEF HoldsRows
  <2> QED BY <2>1
<1>7. HoldsRows(v)'
  BY <1>1, <1>3, <1>4, <1>6 DEF HoldsRows
<1>8. LettersInTurn(v)'
  BY <1>1 DEF LettersInTurn
<1> QED BY <1>4, <1>5, <1>7, <1>8

\* Batches stay apart when one of them only loses rows or gets free ones.
LEMMA ApartKept ==
    ASSUME OutboxInv, NEW w \in Workers,
           \A v \in Workers \ {w} : Held(v)' = Held(v),
           \A v \in Workers \ {w} : Held(w)' \cap Held(v) = {}
    PROVE  Apart'
BY DEF OutboxInv, Apart

\* A sending that is allowed for keeps the account of all the others.
LEMMA SentFacts ==
    ASSUME OutboxInv, NEW e \in O!Events, O!Send(e)
    PROVE  /\ sent' \in [O!Events -> Nat] /\ sent'[e] = sent[e] + 1
           /\ \A d \in O!Events : sent'[d] >= sent[d] /\ (d # e => sent'[d] = sent[d])
<1>1. sent \in [O!Events -> Nat]
  BY DEF OutboxInv, O!TypeOK
<1> QED BY <1>1 DEF O!Send

LEMMA FailFacts ==
    ASSUME OutboxInv, O!Fail
    PROVE  errors' \in 0 .. MaxErrors /\ errors' = errors + 1 /\ errors \in Nat
BY OutboxAssumption DEF OutboxInv, O!TypeOK, O!Fail

LEMMA PublishedKept ==
    ASSUME OutboxInv, outbox' = outbox, \A e \in O!Events : sent'[e] >= sent[e], sent' \in [O!Events -> Nat],
           letters \subseteq letters'
    PROVE  O!PublishedWasSent' /\ O!ExhaustedHasLetter'
<1>1. O!PublishedWasSent /\ O!ExhaustedHasLetter /\ sent \in [O!Events -> Nat]
  BY DEF OutboxInv, O!TypeOK
<1>2. ASSUME NEW i \in DOMAIN outbox, outbox[i].published PROVE sent'[outbox[i].event] > 0
  <2>1. outbox[i].event \in O!Events /\ sent[outbox[i].event] > 0
    BY <1>1, <1>2, RowFacts DEF O!PublishedWasSent
  <2> QED BY <1>1, <2>1
<1> QED BY <1>1, <1>2 DEF O!PublishedWasSent, O!ExhaustedHasLetter

-----------------------------------------------------------------------------
(*                        Transactions of the tasks                        *)

\* Types but those of the rows, when only tasks and rows change.
LEMMA TaskTypes ==
    ASSUME OutboxInv, UNCHANGED <<sent, letters, notified, replayed, told, place, taken, done, failed,
                                  replaying, answered, errors>>,
           tasks' \in [Tasks -> O!Statuses], outbox' \in Seq(O!Rows),
           \A i, j \in DOMAIN outbox' : i # j => outbox'[i].event # outbox'[j].event
    PROVE  O!TypeOK'
BY DEF OutboxInv, O!TypeOK

\* Rows that come are new and rows that go are in no batch.
LEMMA RowsChange ==
    ASSUME OutboxInv, UNCHANGED <<sent, letters, notified, replayed, told, place, taken, done, failed,
                                  replaying, answered, errors>>,
           O!TypeOK', RowsAlive',
           \A i \in DOMAIN outbox' :
              \/ \E j \in DOMAIN outbox : outbox'[i] = outbox[j]
              \/ outbox'[i].attempts = 0 /\ outbox'[i].published = FALSE
                 /\ \A j \in DOMAIN outbox : outbox[j].event # outbox'[i].event,
           \A j \in DOMAIN outbox :
              \/ \E i \in DOMAIN outbox' : outbox'[i] = outbox[j]
              \/ /\ \A w \in Workers : outbox[j].event \notin Held(w)
                 /\ tasks'[outbox[j].event[1]] = "deleted",
           \A t \in Tasks : tasks[t] = "deleted" => tasks'[t] = "deleted"
    PROVE  OutboxInv'
<1>1. \A w \in Workers : Held(w)' = Held(w) /\ (Lettering(w)' <=> Lettering(w))
  BY DEF Held, ToGo, Lettering
<1>2. \A w \in Workers : BatchInTurn(w)'
  BY <1>1 DEF OutboxInv, BatchInTurn
<1>3. ASSUME NEW w \in Workers PROVE HoldsRows(w)'
  <2>1. ASSUME NEW e \in Held(w) PROVE Waiting(e)'
    <3>1. PICK j \in DOMAIN outbox : outbox[j].event = e /\ ~outbox[j].published
      BY <2>1 DEF OutboxInv, HoldsRows, Waiting
    <3>2. PICK i \in DOMAIN outbox' : outbox'[i] = outbox[j]
      BY <2>1, <3>1
    <3> QED BY <3>1, <3>2 DEF Waiting
  <2> QED BY <1>1, <2>1 DEF OutboxInv, HoldsRows
<1>4. ASSUME NEW w \in Workers PROVE LettersInTurn(w)'
  <2>1. LettersInTurn(w)
    BY DEF OutboxInv
  <2>2. ASSUME NEW i \in DOMAIN outbox', outbox'[i].event \in failed[w], outbox'[i].attempts + 1 >= MaxAttempts
        PROVE  outbox'[i].event \in letters \/ (place[w] = "record" /\ outbox'[i].event = taken[w][1])
    <3>1. CASE \E j \in DOMAIN outbox : outbox'[i] = outbox[j]
      BY <2>1, <2>2, <3>1 DEF LettersInTurn
    <3>2. CASE \A j \in DOMAIN outbox : outbox[j].event # outbox'[i].event
      <4>1. outbox'[i].event \in Held(w)
        BY <2>2 DEF Held
      <4> QED BY <3>2, <4>1 DEF OutboxInv, HoldsRows, Waiting
    <3> QED BY <3>1, <3>2
  <2> QED BY <2>1, <2>2 DEF LettersInTurn
<1>5. Apart' /\ LettersOnce'
  <2>1. \A v, w \in Workers : v # w => Held(v)' \cap Held(w)' = {}
    BY <1>1 DEF OutboxInv, Apart
  <2>2. LettersOnce'
    BY DEF OutboxInv, LettersOnce
  <2> QED BY <2>1, <2>2 DEF Apart
<1>6. SentInTurn'
  <2>1. ASSUME NEW e \in O!Events, Spent(e) PROVE Spent(e)'
    <3>0. e[1] \in Tasks
      BY DEF O!Events
    <3>1. CASE tasks[e[1]] = "deleted"
      BY <3>0, <3>1 DEF Spent
    <3>2. CASE \E j \in DOMAIN outbox : outbox[j].event = e /\ outbox[j].published
      <4>1. PICK j \in DOMAIN outbox : outbox[j].event = e /\ outbox[j].published
        BY <3>2
      <4> QED BY <4>1 DEF Spent
    <3>3. CASE \E w \in Workers : e \in done[w]
      BY <3>3 DEF Spent
    <3> QED BY <2>1, <3>1, <3>2, <3>3 DEF Spent
  <2>2. \A e \in O!Events : Again(e)' <=> Again(e)
    BY DEF Again, O!LetterFree
  <2>3. sent \in [O!Events -> Nat] /\ errors \in Nat
    BY OutboxAssumption DEF OutboxInv, O!TypeOK
  <2>4. ASSUME NEW e \in O!Events
        PROVE  sent'[e] <= errors' + (IF Spent(e)' THEN 1 ELSE 0) + (IF Again(e)' THEN 1 ELSE 0)
    <3>1. sent[e] <= errors + (IF Spent(e) THEN 1 ELSE 0) + (IF Again(e) THEN 1 ELSE 0)
      BY DEF OutboxInv, SentInTurn
    <3> QED BY <2>1, <2>2, <2>3, <3>1
  <2> QED BY <2>4 DEF SentInTurn
<1>7. O!PublishedWasSent' /\ O!ExhaustedHasLetter'
  <2>1. O!PublishedWasSent /\ O!ExhaustedHasLetter
    BY DEF OutboxInv
  <2> QED BY <2>1, OutboxAssumption DEF O!PublishedWasSent, O!ExhaustedHasLetter
<1> QED BY <1>2, <1>3, <1>4, <1>5, <1>6, <1>7 DEF OutboxInv

\* A row is enqueued once per event.
LEMMA EnqueueFacts ==
    ASSUME OutboxInv, NEW e \in O!Events, O!Enqueue(e)
    PROVE  /\ outbox' \in Seq(O!Rows)
           /\ \A i, j \in DOMAIN outbox' : i # j => outbox'[i].event # outbox'[j].event
           /\ \A i \in DOMAIN outbox' :
                 \/ \E j \in DOMAIN outbox : outbox'[i] = outbox[j]
                 \/ /\ outbox'[i].attempts = 0 /\ outbox'[i].published = FALSE /\ outbox'[i].event = e
                    /\ \A j \in DOMAIN outbox : outbox[j].event # outbox'[i].event
           /\ \A j \in DOMAIN outbox : \E i \in DOMAIN outbox' : outbox'[i] = outbox[j]
<1>1. CASE \E i \in DOMAIN outbox : outbox[i].event = e
  <2>1. outbox' = outbox
    BY <1>1 DEF O!Enqueue
  <2> QED BY <2>1, RowFacts
<1>2. CASE \A i \in DOMAIN outbox : outbox[i].event # e
  <2> DEFINE new == [event |-> e, attempts |-> 0, published |-> FALSE]
  <2>1. outbox' = Append(outbox, new) /\ new \in O!Rows
    BY <1>2 DEF O!Enqueue, O!Rows
  <2>2. outbox \in Seq(O!Rows)
    BY RowFacts
  <2> HIDE DEF new
  <2>3. /\ outbox' \in Seq(O!Rows) /\ Len(outbox') = Len(outbox) + 1
        /\ \A i \in 1 .. Len(outbox) : outbox'[i] = outbox[i]
        /\ outbox'[Len(outbox) + 1] = new
    BY <2>1, <2>2, AppendProperties
  <2>4. DOMAIN outbox' = 1 .. (Len(outbox) + 1)
    BY <2>3
  <2>5. new.event = e /\ new.attempts = 0 /\ new.published = FALSE
    BY DEF new
  <2>6. Len(outbox) \in Nat /\ DOMAIN outbox = 1 .. Len(outbox)
        /\ \A i, j \in DOMAIN outbox : i # j => outbox[i].event # outbox[j].event
    BY RowFacts
  <2>7. \A i \in DOMAIN outbox' : (i \in DOMAIN outbox /\ outbox'[i] = outbox[i]) \/ i = Len(outbox) + 1
    BY <2>3, <2>4, <2>6
  <2>8. \A i, j \in DOMAIN outbox' : i # j => outbox'[i].event # outbox'[j].event
    BY <1>2, <2>3, <2>5, <2>6, <2>7
  <2>9. \A j \in DOMAIN outbox : j \in DOMAIN outbox' /\ outbox'[j] = outbox[j]
    BY <2>3, <2>4, <2>6
  <2>10. \A i \in DOMAIN outbox' :
            \/ \E j \in DOMAIN outbox : outbox'[i] = outbox[j]
            \/ /\ outbox'[i].attempts = 0 /\ outbox'[i].published = FALSE /\ outbox'[i].event = e
               /\ \A j \in DOMAIN outbox : outbox[j].event # outbox'[i].event
    BY <1>2, <2>3, <2>5, <2>7
  <2> QED BY <2>3, <2>8, <2>9, <2>10
<1> QED BY <1>1, <1>2

LEMMA KeepsTasks ==
    ASSUME OutboxInv, NEW t \in Tasks, O!Create(t) \/ O!SetPendingApproval(t) \/ O!Approve(t)
    PROVE  OutboxInv'
<1>1. /\ UNCHANGED <<sent, letters, notified, replayed, told, place, taken, done, failed,
                      replaying, answered, errors>>
      /\ tasks \in [Tasks -> O!Statuses]
  BY DEF OutboxInv, O!TypeOK, O!Create, O!SetPendingApproval, O!Approve, O!deadLetters, O!workers, O!admins
<1>2. /\ tasks' \in [Tasks -> O!Statuses] /\ tasks[t] # "deleted" /\ tasks'[t] # "deleted"
      /\ \A u \in Tasks \ {t} : tasks'[u] = tasks[u]
  BY <1>1 DEF O!Create, O!SetPendingApproval, O!Approve, O!Statuses
<1>3. ASSUME NEW e \in O!Events, e[1] = t, O!Enqueue(e) PROVE OutboxInv'
  <2>1. O!TypeOK'
    BY <1>1, <1>2, <1>3, EnqueueFacts, TaskTypes
  <2>2. RowsAlive'
    <3>1. ASSUME NEW i \in DOMAIN outbox' PROVE tasks'[outbox'[i].event[1]] # "deleted"
      <4>1. CASE \E j \in DOMAIN outbox : outbox'[i] = outbox[j]
        <5>1. PICK j \in DOMAIN outbox : outbox'[i] = outbox[j]
          BY <4>1
        <5>2. tasks[outbox[j].event[1]] # "deleted" /\ outbox[j].event[1] \in Tasks
          BY RowFacts DEF OutboxInv, RowsAlive, O!Events
        <5> QED BY <1>2, <5>1, <5>2
      <4>2. CASE outbox'[i].event = e
        BY <1>2, <1>3, <4>2
      <4> QED BY <1>3, <4>1, <4>2, EnqueueFacts
    <3> QED BY <3>1 DEF RowsAlive
  <2>3. \A u \in Tasks : tasks[u] = "deleted" => tasks'[u] = "deleted"
    BY <1>2
  <2> QED BY <1>1, <1>3, <2>1, <2>2, <2>3, EnqueueFacts, RowsChange
<1>4. CASE O!SetPendingApproval(t)
  <2>1. outbox' = outbox
    BY <1>4 DEF O!SetPendingApproval
  <2>2. O!TypeOK'
    BY <1>1, <1>2, <2>1, RowFacts, TaskTypes
  <2>3. RowsAlive'
    <3>1. \A i \in DOMAIN outbox : outbox[i].event[1] \in Tasks /\ tasks[outbox[i].event[1]] # "deleted"
      BY RowFacts DEF OutboxInv, RowsAlive, O!Events
    <3> QED BY <1>2, <2>1, <3>1 DEF RowsAlive
  <2>4. \A u \in Tasks : tasks[u] = "deleted" => tasks'[u] = "deleted"
    BY <1>2
  <2> QED BY <1>1, <2>1, <2>2, <2>3, <2>4, RowsChange
<1>5. <<t, "task.created">> \in O!Events /\ <<t, "task.approved">> \in O!Events
      /\ <<t, "task.created">>[1] = t /\ <<t, "task.approved">>[1] = t
  BY DEF O!Events
<1>6. CASE O!Create(t)
  BY <1>3, <1>5, <1>6 DEF O!Create
<1>7. CASE O!Approve(t)
  BY <1>3, <1>5, <1>7 DEF O!Approve
<1> QED BY <1>4, <1>6, <1>7

\* A task that is taken back takes its rows along, when no batch has them.
LEMMA KeepsDelete ==
    ASSUME OutboxInv, NEW t \in Tasks, O!Delete(t)
    PROVE  OutboxInv'
<1>1. /\ UNCHANGED <<sent, letters, notified, replayed, told, place, taken, done, failed,
                      replaying, answered, errors>>
      /\ tasks \in [Tasks -> O!Statuses]
  BY DEF OutboxInv, O!TypeOK, O!Delete, O!deadLetters, O!workers, O!admins
<1>2. /\ tasks' \in [Tasks -> O!Statuses] /\ tasks'[t] = "deleted"
      /\ \A u \in Tasks \ {t} : tasks'[u] = tasks[u]
  BY <1>1 DEF O!Delete, O!Statuses
<1> DEFINE kept == {i \in DOMAIN outbox : outbox[i].event[1] # t}
<1>n. PICK n \in 0 .. Len(outbox) : \E at \in [1 .. n -> kept] :
          O!InOrder(at) /\ O!Range(at) = kept /\ outbox' = [i \in 1 .. n |-> outbox[at[i]]]
  BY DEF O!Delete
<1>3. PICK at \in [1 .. n -> kept] :
          O!InOrder(at) /\ O!Range(at) = kept /\ outbox' = [i \in 1 .. n |-> outbox[at[i]]]
  BY <1>n
<1>4. n \in Nat /\ \A i \in 1 .. n : at[i] \in DOMAIN outbox /\ outbox[at[i]] \in O!Rows /\ outbox[at[i]].event[1] # t
  BY RowFacts
<1>5. outbox' \in Seq(O!Rows) /\ DOMAIN outbox' = 1 .. n /\ \A i \in 1 .. n : outbox'[i] = outbox[at[i]]
  <2>1. outbox' = [i \in 1 .. n |-> outbox'[i]] /\ \A i \in 1 .. n : outbox'[i] = outbox[at[i]]
    BY <1>3
  <2> QED BY <1>4, <2>1, MakesSeq
<1>6. \A i, j \in 1 .. n : i # j => at[i] # at[j]
  <2>1. \A i, j \in 1 .. n : i < j => at[i] < at[j]
    BY <1>3 DEF O!InOrder
  <2>2. \A i \in 1 .. n : at[i] \in Nat
    BY <1>4, RowFacts
  <2> QED BY <1>4, <2>1, <2>2
<1>7. \A i, j \in DOMAIN outbox' : i # j => outbox'[i].event # outbox'[j].event
  BY <1>4, <1>5, <1>6, RowFacts
<1>8. O!TypeOK'
  BY <1>1, <1>2, <1>5, <1>7, TaskTypes
<1>9. RowsAlive'
  <2>1. ASSUME NEW i \in DOMAIN outbox' PROVE tasks'[outbox'[i].event[1]] # "deleted"
    <3>1. at[i] \in DOMAIN outbox /\ outbox'[i] = outbox[at[i]] /\ outbox[at[i]].event[1] # t
      BY <1>4, <1>5
    <3>2. outbox[at[i]].event[1] \in Tasks /\ tasks[outbox[at[i]].event[1]] # "deleted"
      BY <3>1, RowFacts DEF OutboxInv, RowsAlive, O!Events
    <3> QED BY <1>2, <3>1, <3>2
  <2> QED BY <2>1 DEF RowsAlive
<1>10. \A i \in DOMAIN outbox' : \E j \in DOMAIN outbox : outbox'[i] = outbox[j]
  BY <1>4, <1>5
<1>11. ASSUME NEW j \in DOMAIN outbox
       PROVE  \/ \E i \in DOMAIN outbox' : outbox'[i] = outbox[j]
              \/ /\ \A w \in Workers : outbox[j].event \notin Held(w)
                 /\ tasks'[outbox[j].event[1]] = "deleted"
  <2>1. CASE outbox[j].event[1] # t
    <3>1. j \in O!Range(at)
      BY <1>3, <2>1
    <3>2. PICK i \in 1 .. n : at[i] = j
      BY <3>1 DEF O!Range
    <3> QED BY <1>5, <3>2
  <2>2. CASE outbox[j].event[1] = t
    <3>1. ~O!Locked(outbox[j].event)
      BY <2>2, RowFacts DEF O!Delete
    <3>2. \A w \in Workers : outbox[j].event \notin Held(w)
      BY <3>1 DEF O!Locked, Held, ToGo, O!Range
    <3> QED BY <1>2, <2>2, <3>2
  <2> QED BY <2>1, <2>2
<1>12. \A u \in Tasks : tasks[u] = "deleted" => tasks'[u] = "deleted"
  BY <1>2
<1> QED BY <1>1, <1>8, <1>9, <1>10, <1>11, <1>12, RowsChange

-----------------------------------------------------------------------------
(*                           Steps of a worker                             *)

\* What a worker's step has to show: its own batch, the letters, the account.
LEMMA WorkerKeeps ==
    ASSUME OutboxInv, NEW w \in Workers, outbox' = outbox, tasks' = tasks, O!TypeOK',
           \A v \in Workers \ {w} :
              /\ place'[v] = place[v] /\ taken'[v] = taken[v]
              /\ done'[v] = done[v] /\ failed'[v] = failed[v]
              /\ place[v] = "notify" => told'[taken[v][1]] = told[taken[v][1]],
           \A e \in O!Events : sent'[e] >= sent[e],
           letters \subseteq letters', notified \subseteq notified',
           BatchInTurn(w)', HoldsRows(w)', LettersInTurn(w)',
           \A v \in Workers \ {w} : Held(w)' \cap Held(v) = {},
           LettersOnce', SentInTurn'
    PROVE  OutboxInv'
<1>1. sent' \in [O!Events -> Nat]
  BY DEF O!TypeOK
<1>2. ASSUME NEW v \in Workers \ {w}
      PROVE  BatchInTurn(v)' /\ HoldsRows(v)' /\ LettersInTurn(v)' /\ Held(v)' = Held(v)
  <2>1. /\ place'[v] = place[v] /\ taken'[v] = taken[v] /\ done'[v] = done[v] /\ failed'[v] = failed[v]
        /\ place[v] = "notify" => told'[taken[v][1]] = told[taken[v][1]]
    BY <1>2
  <2> QED BY <1>1, <2>1, OthersKeep
<1>3. Apart'
  BY <1>2, ApartKept
<1>4. RowsAlive'
  BY DEF OutboxInv, RowsAlive
<1>5. O!PublishedWasSent' /\ O!ExhaustedHasLetter'
  BY <1>1, PublishedKept
<1> QED BY <1>2, <1>3, <1>4, <1>5 DEF OutboxInv

\* Nothing was sent, and no sending was forgotten.
LEMMA SentKept ==
    ASSUME OutboxInv, UNCHANGED <<tasks, outbox, sent, replayed, replaying, errors>>,
           \A v \in Workers : done[v] \subseteq done'[v]
    PROVE  SentInTurn'
<1>1. \A e \in O!Events : (Spent(e) => Spent(e)') /\ (Again(e)' <=> Again(e))
  BY DEF Spent, Again, O!LetterFree
<1>2. errors \in Nat /\ sent \in [O!Events -> Nat]
  BY OutboxAssumption DEF OutboxInv, O!TypeOK
<1>3. ASSUME NEW e \in O!Events
      PROVE  sent'[e] <= errors' + (IF Spent(e)' THEN 1 ELSE 0) + (IF Again(e)' THEN 1 ELSE 0)
  <2>1. sent[e] <= errors + (IF Spent(e) THEN 1 ELSE 0) + (IF Again(e) THEN 1 ELSE 0)
    BY DEF OutboxInv, SentInTurn
  <2> QED BY <1>1, <1>2, <2>1
<1> QED BY <1>3 DEF SentInTurn

LEMMA LettersKept ==
    ASSUME OutboxInv, UNCHANGED <<letters, notified, replayed, told, replaying, answered>>
    PROVE  LettersOnce'
BY DEF OutboxInv, LettersOnce

\* Of the batch: what its head is.
LEMMA HeadFacts ==
    ASSUME OutboxInv, NEW w \in Workers, place[w] = "publish" \/ Lettering(w)
    PROVE  /\ taken[w] # << >> /\ Head(taken[w]) = taken[w][1] /\ 1 \in DOMAIN taken[w]
           /\ taken[w][1] \in O!Events /\ taken[w][1] \in Held(w)
           /\ \A v \in Workers \ {w} : taken[w][1] \notin Held(v)
           /\ \A i \in DOMAIN outbox : outbox[i].event = taken[w][1] => ~outbox[i].published
           /\ \A i \in DOMAIN taken[w] : taken[w][i] \in O!Events
<1>1. taken[w] \in Seq(O!Events) /\ taken[w] # << >>
  BY DEF OutboxInv, O!TypeOK, BatchInTurn
<1>2. Head(taken[w]) = taken[w][1] /\ 1 \in DOMAIN taken[w] /\ \A i \in DOMAIN taken[w] : taken[w][i] \in O!Events
  BY <1>1, TailFacts
<1>3. taken[w][1] \in Held(w)
  BY <1>2 DEF Held, ToGo
<1>4. \A v \in Workers \ {w} : taken[w][1] \notin Held(v)
  BY <1>3 DEF OutboxInv, Apart
<1>5. Waiting(taken[w][1])
  BY <1>3 DEF OutboxInv, HoldsRows
<1>6. PICK j \in DOMAIN outbox : outbox[j].event = taken[w][1] /\ ~outbox[j].published
  BY <1>5 DEF Waiting
<1>7. \A i \in DOMAIN outbox : outbox[i].event = taken[w][1] => i = j
  BY <1>6, RowFacts
<1> QED BY <1>1, <1>2, <1>3, <1>4, <1>6, <1>7

LEMMA KeepsTake ==
    ASSUME OutboxInv, NEW w \in Workers, O!Take(w)
    PROVE  OutboxInv'
<1>1. /\ UNCHANGED <<tasks, outbox, sent, letters, notified, replayed, told, done, failed, replaying, answered, errors>>
      /\ place[w] = "idle" /\ place' = [place EXCEPT ![w] = "publish"]
  BY DEF O!Take, O!deadLetters, O!admins
<1> DEFINE open == {i \in DOMAIN outbox : O!Open(outbox[i])}
<1>n. PICK n \in 1 .. Limit : \E at \in [1 .. n -> open] :
              /\ O!InOrder(at)
              /\ taken' = [taken EXCEPT ![w] = [i \in 1 .. n |-> outbox[at[i]].event]]
  BY DEF O!Take
<1>2. PICK at \in [1 .. n -> open] :
              /\ O!InOrder(at)
              /\ taken' = [taken EXCEPT ![w] = [i \in 1 .. n |-> outbox[at[i]].event]]
  BY <1>n
<1>3. n \in Nat /\ n > 0
  BY OutboxAssumption
<1>4. ASSUME NEW i \in 1 .. n
      PROVE  /\ at[i] \in DOMAIN outbox /\ outbox[at[i]].event \in O!Events /\ ~outbox[at[i]].published
             /\ ~O!Locked(outbox[at[i]].event)
  <2>1. at[i] \in open
    OBVIOUS
  <2> QED BY <2>1, RowFacts DEF O!Open, O!Pending
<1>5. /\ taken \in [Workers -> Seq(O!Events)] /\ place \in [Workers -> O!Places]
      /\ Held(w) = {} /\ done[w] = {} /\ failed[w] = {}
  BY <1>1 DEF OutboxInv, O!TypeOK, BatchInTurn, Held
<1> DEFINE batched == [i \in 1 .. n |-> outbox[at[i]].event]
<1>6. batched \in Seq(O!Events) /\ DOMAIN batched = 1 .. n /\ batched # << >>
  <2>1. batched = [i \in 1 .. n |-> batched[i]] /\ \A i \in 1 .. n : batched[i] \in O!Events
    BY <1>4
  <2> HIDE DEF batched
  <2> QED BY <1>3, <2>1, MakesSeq
<1>7. /\ taken' \in [Workers -> Seq(O!Events)] /\ taken'[w] = batched
      /\ \A v \in Workers \ {w} : taken'[v] = taken[v] /\ place'[v] = place[v]
      /\ place' \in [Workers -> O!Places] /\ place'[w] = "publish"
  <2>1. taken' = [taken EXCEPT ![w] = batched] /\ "publish" \in O!Places
    BY <1>2 DEF O!Places
  <2> HIDE DEF batched
  <2> QED BY <1>1, <1>5, <1>6, <2>1
<1>8. O!TypeOK'
  BY <1>1, <1>7 DEF OutboxInv, O!TypeOK
<1>9. Held(w)' = {batched[i] : i \in 1 .. n}
  <2> HIDE DEF batched
  <2>1. ToGo(w)' = {batched[i] : i \in 1 .. n}
    BY <1>6, <1>7 DEF ToGo
  <2>2. done'[w] = {} /\ failed'[w] = {}
    BY <1>1, <1>5
  <2> QED BY <2>1, <2>2 DEF Held
<1>10. \A i, j \in 1 .. n : i # j => batched[i] # batched[j]
  <2>1. \A i, j \in 1 .. n : i < j => at[i] < at[j]
    BY <1>2 DEF O!InOrder
  <2>2. \A i \in 1 .. n : at[i] \in Nat
    BY <1>4, RowFacts
  <2>3. \A i, j \in 1 .. n : i # j => at[i] # at[j]
    BY <1>3, <2>1, <2>2
  <2> QED BY <1>4, <2>3, RowFacts
<1>11. BatchInTurn(w)'
  BY <1>1, <1>5, <1>6, <1>7, <1>10 DEF BatchInTurn, Lettering
<1>12. HoldsRows(w)'
  <2>1. ASSUME NEW i \in 1 .. n PROVE Waiting(batched[i])'
    BY <1>1, <1>4 DEF Waiting
  <2> QED BY <1>1, <1>5, <1>9, <2>1 DEF HoldsRows
<1>13. LettersInTurn(w)'
  BY <1>1, <1>5, <1>7 DEF LettersInTurn
<1>14. \A v \in Workers \ {w} : Held(w)' \cap Held(v) = {}
  <2>1. ASSUME NEW v \in Workers, NEW i \in 1 .. n PROVE batched[i] \notin Held(v)
    <3>1. batched[i] = outbox[at[i]].event
      OBVIOUS
    <3>2. ~O!Locked(outbox[at[i]].event)
      BY <1>4
    <3> QED BY <3>1, <3>2 DEF Held, ToGo, O!Locked, O!Range
  <2> HIDE DEF batched
  <2> QED BY <1>9, <2>1
<1>15. LettersOnce' /\ SentInTurn'
  BY <1>1, LettersKept, SentKept
<1>16. \A e \in O!Events : sent'[e] >= sent[e]
  BY <1>1 DEF OutboxInv, O!TypeOK
<1> QED BY <1>1, <1>7, <1>8, <1>11, <1>12, <1>13, <1>14, <1>15, <1>16, WorkerKeeps

\* A batch that goes on keeps to its turn: the head is judged, no other is.
LEMMA BatchAdvances ==
    ASSUME OutboxInv, NEW w \in Workers, place[w] = "publish" \/ Lettering(w), O!Advance(w),
           \/ done'[w] = done[w] /\ taken[w][1] \in failed'[w] /\ failed'[w] \subseteq failed[w] \cup {taken[w][1]}
           \/ ~Lettering(w) /\ failed'[w] = failed[w] /\ done'[w] = done[w] \cup {taken[w][1]}
    PROVE  BatchInTurn(w)' /\ Held(w)' \subseteq Held(w)
<1>1. BatchInTurn(w) /\ taken[w] # << >> /\ 1 \in DOMAIN taken[w] /\ taken[w][1] \in Held(w)
  BY HeadFacts DEF OutboxInv
<1>2. /\ \A i \in DOMAIN taken'[w] : i + 1 \in DOMAIN taken[w] /\ taken'[w][i] = taken[w][i + 1] /\ i + 1 # 1
      /\ ToGo(w)' \subseteq ToGo(w) /\ place'[w] \in {"publish", "commit"}
      /\ place'[w] = "publish" => taken'[w] # << >>
  BY <1>1, AdvanceFacts
<1>3. Held(w)' \subseteq Held(w)
  BY <1>1, <1>2 DEF Held
<1>4. DOMAIN taken'[w] \subseteq Nat
  <2>1. taken'[w] \in Seq(O!Events)
    BY <1>1, AdvanceFacts
  <2> QED BY <2>1
<1>5. ASSUME NEW i \in DOMAIN taken'[w]
      PROVE  /\ taken'[w][i] # taken[w][1] /\ taken'[w][i] \notin done[w] /\ taken'[w][i] \notin failed[w]
             /\ \A j \in DOMAIN taken'[w] : i # j => taken'[w][i] # taken'[w][j]
  <2>1. /\ i + 1 \in DOMAIN taken[w] /\ i + 1 # 1 /\ taken'[w][i] = taken[w][i + 1]
    BY <1>2
  <2>2. /\ taken[w][i + 1] # taken[w][1] /\ taken[w][i + 1] \notin done[w]
        /\ taken[w][i + 1] \notin failed[w]
    BY <1>1, <2>1 DEF BatchInTurn
  <2>3. ASSUME NEW j \in DOMAIN taken'[w], i # j PROVE taken'[w][i] # taken'[w][j]
    <3>1. j + 1 \in DOMAIN taken[w] /\ taken'[w][j] = taken[w][j + 1] /\ i + 1 # j + 1
      BY <1>2, <1>4, <2>3
    <3> QED BY <1>1, <2>1, <3>1 DEF BatchInTurn
  <2> QED BY <2>1, <2>2, <2>3
<1>6. done'[w] \cap failed'[w] = {}
  BY <1>1 DEF BatchInTurn
<1>7. ~Lettering(w)' /\ place'[w] # "idle"
  BY <1>2 DEF Lettering
<1>8. \A i \in DOMAIN taken'[w] : taken'[w][i] \notin done'[w] /\ taken'[w][i] \notin failed'[w]
  BY <1>5
<1>9. BatchInTurn(w)'
  BY <1>2, <1>5, <1>6, <1>7, <1>8 DEF BatchInTurn
<1> QED BY <1>3, <1>9

LEMMA AttemptsFacts ==
    ASSUME OutboxInv, NEW i \in DOMAIN outbox
    PROVE  O!Attempts(outbox[i].event) = outbox[i].attempts
<1>1. outbox[i] \in O!Range(outbox)
  BY DEF O!Range
<1>2. \A row1 \in O!Range(outbox) : row1.event = outbox[i].event => row1 = outbox[i]
  BY RowFacts DEF O!Range
<1> QED BY <1>1, <1>2 DEF O!Attempts

LEMMA KeepsSent ==
    ASSUME OutboxInv, NEW w \in Workers, place[w] = "publish",
           O!Send(taken[w][1]), done' = [done EXCEPT ![w] = @ \cup {taken[w][1]}], O!Advance(w),
           UNCHANGED <<tasks, outbox, letters, notified, replayed, told, failed, replaying, answered, errors>>
    PROVE  OutboxInv'
<1> DEFINE e == taken[w][1]
<1>1. /\ taken[w] # << >> /\ e \in O!Events /\ e \in Held(w)
      /\ \A v \in Workers \ {w} : e \notin Held(v)
      /\ \A i \in DOMAIN outbox : outbox[i].event = e => ~outbox[i].published
  BY HeadFacts
<1>2. /\ done \in [Workers -> SUBSET O!Events] /\ failed \in [Workers -> SUBSET O!Events]
      /\ errors \in Nat /\ sent \in [O!Events -> Nat]
  BY OutboxAssumption DEF OutboxInv, O!TypeOK
<1> HIDE DEF e
<1>3. /\ done' \in [Workers -> SUBSET O!Events] /\ done'[w] = done[w] \cup {e}
      /\ \A v \in Workers \ {w} : done'[v] = done[v]
  BY <1>1, <1>2 DEF e
<1>4. /\ sent' \in [O!Events -> Nat] /\ sent'[e] = sent[e] + 1
      /\ \A d \in O!Events : sent'[d] >= sent[d] /\ (d # e => sent'[d] = sent[d])
  BY <1>1, SentFacts DEF e
<1>5. BatchInTurn(w)' /\ Held(w)' \subseteq Held(w)
  BY <1>3, BatchAdvances DEF e, Lettering
<1>6. O!TypeOK'
  <2>1. taken' \in [Workers -> Seq(O!Events)] /\ place' \in [Workers -> O!Places]
    BY <1>1, AdvanceFacts
  <2> QED BY <1>2, <1>3, <1>4, <2>1 DEF OutboxInv, O!TypeOK
<1>7. HoldsRows(w)'
  <2>1. \A d \in Held(w)' : Waiting(d)'
    BY <1>5 DEF OutboxInv, HoldsRows, Waiting
  <2>2. ASSUME NEW d \in done'[w] PROVE sent'[d] > 0
    <3>1. CASE d = e
      BY <1>1, <1>2, <1>4, <3>1
    <3>2. CASE d # e
      <4>1. d \in O!Events /\ sent[d] > 0
        BY <1>2, <1>3, <3>2 DEF OutboxInv, HoldsRows
      <4> QED BY <1>4, <3>2, <4>1
    <3> QED BY <3>1, <3>2
  <2> QED BY <2>1, <2>2 DEF HoldsRows
<1>8. LettersInTurn(w)'
  <2>1. place'[w] \in {"publish", "commit"}
    BY <1>1, AdvanceFacts
  <2> QED BY <2>1 DEF OutboxInv, LettersInTurn
<1>9. SentInTurn'
  <2>1. ~Spent(e)
    <3>1. Waiting(e)
      BY <1>1 DEF OutboxInv, HoldsRows
    <3>2. tasks[e[1]] # "deleted"
      BY <3>1 DEF Waiting, OutboxInv, RowsAlive
    <3>3. \A v \in Workers : e \notin done[v]
      <4>1. e \notin done[w]
        BY <1>1, HeadFacts DEF OutboxInv, BatchInTurn, e
      <4> QED BY <1>1, <4>1 DEF Held
    <3> QED BY <1>1, <3>2, <3>3 DEF Spent
  <2>2. \A d \in O!Events : /\ Again(d)' <=> Again(d)
                            /\ Spent(d) => Spent(d)'
                            /\ d = e => Spent(d)' /\ ~Spent(d)
    <3>1. e \in done'[w] /\ \A v \in Workers : done[v] \subseteq done'[v]
      BY <1>3
    <3>2. ASSUME NEW d \in O!Events, d = e \/ Spent(d) PROVE Spent(d)'
      <4>1. CASE \E v \in Workers : d \in done'[v]
        BY <4>1 DEF Spent
      <4>2. CASE \A v \in Workers : d \notin done'[v]
        <5>1. Spent(d) /\ \A v \in Workers : d \notin done[v]
          BY <3>1, <3>2, <4>2
        <5> QED BY <5>1 DEF Spent
      <4> QED BY <4>1, <4>2
    <3>3. \A d \in O!Events : Again(d)' <=> Again(d)
      BY DEF Again, O!LetterFree
    <3>4. \A d \in O!Events : d = e => ~Spent(d)
      BY <2>1
    <3> QED BY <3>2, <3>3, <3>4
  <2>3. ASSUME NEW d \in O!Events
        PROVE  sent'[d] <= errors' + (IF Spent(d)' THEN 1 ELSE 0) + (IF Again(d)' THEN 1 ELSE 0)
    <3>1. sent[d] <= errors + (IF Spent(d) THEN 1 ELSE 0) + (IF Again(d) THEN 1 ELSE 0)
      BY DEF OutboxInv, SentInTurn
    <3>2. sent[d] \in Nat /\ sent'[d] \in Nat
      BY <1>2, <1>4
    <3>3. CASE d = e
      BY <1>2, <1>4, <2>1, <2>2, <3>1, <3>2, <3>3
    <3>4. CASE d # e
      <4>1. sent'[d] = sent[d]
        BY <1>4, <3>4
      <4> QED BY <1>2, <2>2, <3>1, <3>2, <4>1
    <3> QED BY <3>3, <3>4
  <2> QED BY <2>3 DEF SentInTurn
<1>10. LettersOnce'
  BY LettersKept
<1>11. \A v \in Workers \ {w} : Held(w)' \cap Held(v) = {}
  BY <1>5 DEF OutboxInv, Apart
<1>12. \A v \in Workers \ {w} : taken'[v] = taken[v] /\ place'[v] = place[v]
  BY <1>1, AdvanceFacts
<1> QED BY <1>3, <1>4, <1>5, <1>6, <1>7, <1>8, <1>9, <1>10, <1>11, <1>12, WorkerKeeps

\* An error is one sending more that is explained, whatever it leaves undone.
LEMMA SentIfFails ==
    ASSUME OutboxInv, O!Fail, UNCHANGED <<tasks, outbox>>,
           sent' \in [O!Events -> Nat],
           \A e \in O!Events :
              \/ sent'[e] = sent[e]
              \/ /\ sent'[e] = sent[e] + 1
                 /\ Spent(e) => Spent(e)'
                 /\ Again(e) => Again(e)',
           \A e \in O!Events : (Spent(e) => Spent(e)') \/ (Again(e) => Again(e)')
    PROVE  SentInTurn'
<1>1. errors \in Nat /\ errors' = errors + 1 /\ sent \in [O!Events -> Nat]
  BY FailFacts DEF OutboxInv, O!TypeOK
<1>2. ASSUME NEW e \in O!Events
      PROVE  sent'[e] <= errors' + (IF Spent(e)' THEN 1 ELSE 0) + (IF Again(e)' THEN 1 ELSE 0)
  <2>1. sent[e] <= errors + (IF Spent(e) THEN 1 ELSE 0) + (IF Again(e) THEN 1 ELSE 0)
    BY DEF OutboxInv, SentInTurn
  <2>2. sent[e] \in Nat /\ sent'[e] \in Nat
    BY <1>1
  <2>3. \/ sent'[e] = sent[e] /\ ((Spent(e) => Spent(e)') \/ (Again(e) => Again(e)'))
        \/ sent'[e] = sent[e] + 1 /\ (Spent(e) => Spent(e)') /\ (Again(e) => Again(e)')
    OBVIOUS
  <2> QED BY <1>1, <2>1, <2>2, <2>3
<1> QED BY <1>2 DEF SentInTurn

LEMMA KeepsFailed ==
    ASSUME OutboxInv, NEW w \in Workers, place[w] = "publish",
           O!Fail, O!Send(taken[w][1]) \/ sent' = sent,
           failed' = [failed EXCEPT ![w] = @ \cup {taken[w][1]}],
           IF O!Attempts(taken[w][1]) + 1 >= MaxAttempts
           THEN place' = [place EXCEPT ![w] = "record"] /\ taken' = taken
           ELSE O!Advance(w),
           UNCHANGED <<tasks, outbox, letters, notified, replayed, told, done, replaying, answered>>
    PROVE  OutboxInv'
<1> DEFINE e == taken[w][1]
<1>1. /\ taken[w] # << >> /\ e \in O!Events /\ e \in Held(w) /\ 1 \in DOMAIN taken[w]
      /\ \A v \in Workers \ {w} : e \notin Held(v)
  BY HeadFacts
<1>2. /\ failed \in [Workers -> SUBSET O!Events]
      /\ taken \in [Workers -> Seq(O!Events)] /\ place \in [Workers -> O!Places]
      /\ errors \in Nat /\ sent \in [O!Events -> Nat]
  BY OutboxAssumption DEF OutboxInv, O!TypeOK
<1> HIDE DEF e
<1>3. /\ failed' \in [Workers -> SUBSET O!Events] /\ failed'[w] = failed[w] \cup {e}
      /\ \A v \in Workers \ {w} : failed'[v] = failed[v]
  BY <1>1, <1>2 DEF e
<1>4. /\ sent' \in [O!Events -> Nat] /\ \A d \in O!Events : sent'[d] >= sent[d]
      /\ \A d \in O!Events : sent'[d] = sent[d] \/ sent'[d] = sent[d] + 1
  <2>1. CASE O!Send(taken[w][1])
    BY <1>1, <1>2, <2>1, SentFacts DEF e
  <2>2. CASE sent' = sent
    BY <1>2, <2>2
  <2> QED BY <2>1, <2>2
<1>5. errors' \in 0 .. MaxErrors
  BY FailFacts
<1>6. SentInTurn'
  <2>1. \A d \in O!Events : (Spent(d) => Spent(d)') /\ (Again(d) => Again(d)')
    BY DEF Spent, Again, O!LetterFree
  <2> QED BY <1>4, <2>1, SentIfFails
<1>7. /\ O!TypeOK' /\ BatchInTurn(w)' /\ Held(w)' \subseteq Held(w) /\ LettersInTurn(w)'
      /\ \A v \in Workers \ {w} : taken'[v] = taken[v] /\ place'[v] = place[v]
  <2>1. CASE O!Attempts(taken[w][1]) + 1 >= MaxAttempts
    <3>1. /\ taken' = taken /\ place' \in [Workers -> O!Places] /\ place'[w] = "record"
          /\ \A v \in Workers \ {w} : place'[v] = place[v]
      BY <1>2, <2>1 DEF O!Places
    <3>2. O!TypeOK'
      BY <1>3, <1>4, <1>5, <3>1 DEF OutboxInv, O!TypeOK
    <3>3. Held(w)' \subseteq Held(w)
      BY <1>1, <1>3, <3>1 DEF Held, ToGo
    <3>4. e \notin done[w]
      BY <1>1 DEF OutboxInv, BatchInTurn, e
    <3>5. \A i \in DOMAIN taken[w] : taken[w][i] \in failed'[w] => i = 1
      BY <1>1, <1>3 DEF OutboxInv, BatchInTurn, Lettering, e
    <3>6. BatchInTurn(w)'
      BY <1>1, <1>3, <3>1, <3>4, <3>5 DEF OutboxInv, BatchInTurn, Lettering, e
    <3>7. LettersInTurn(w)'
      BY <1>3, <3>1 DEF OutboxInv, LettersInTurn, e
    <3> QED BY <3>1, <3>2, <3>3, <3>6, <3>7
  <2>2. CASE ~(O!Attempts(taken[w][1]) + 1 >= MaxAttempts)
    <3>1. O!Advance(w)
      BY <2>2
    <3>2. /\ taken' \in [Workers -> Seq(O!Events)] /\ place' \in [Workers -> O!Places]
          /\ place'[w] \in {"publish", "commit"}
          /\ \A v \in Workers \ {w} : taken'[v] = taken[v] /\ place'[v] = place[v]
      BY <1>1, <3>1, AdvanceFacts
    <3>3. BatchInTurn(w)' /\ Held(w)' \subseteq Held(w)
      BY <1>3, <3>1, BatchAdvances DEF e
    <3>4. O!TypeOK'
      BY <1>3, <1>4, <1>5, <3>2 DEF OutboxInv, O!TypeOK
    <3>5. ASSUME NEW i \in DOMAIN outbox, outbox[i].event \in failed'[w], outbox[i].attempts + 1 >= MaxAttempts
          PROVE  outbox[i].event \in letters
      <4>1. outbox[i].event # e
        BY <2>2, <3>5, AttemptsFacts DEF e
      <4>2. outbox[i].event \in failed[w]
        BY <1>3, <3>5, <4>1
      <4> QED BY <3>5, <4>2 DEF OutboxInv, LettersInTurn
    <3>6. LettersInTurn(w)'
      BY <3>2, <3>5 DEF LettersInTurn
    <3> QED BY <3>2, <3>3, <3>4, <3>6
  <2> QED BY <2>1, <2>2
<1>8. HoldsRows(w)'
  <2>1. \A d \in Held(w)' : Waiting(d)'
    BY <1>7 DEF OutboxInv, HoldsRows, Waiting
  <2>2. ASSUME NEW d \in done[w] PROVE sent'[d] > 0
    <3>1. d \in O!Events /\ sent[d] > 0
      BY DEF OutboxInv, O!TypeOK, HoldsRows
    <3> QED BY <1>2, <1>4, <3>1
  <2> QED BY <2>1, <2>2 DEF HoldsRows
<1>9. LettersOnce'
  BY LettersKept
<1>10. \A v \in Workers \ {w} : Held(w)' \cap Held(v) = {}
  BY <1>7 DEF OutboxInv, Apart
<1> QED BY <1>3, <1>4, <1>6, <1>7, <1>8, <1>9, <1>10, WorkerKeeps

LEMMA KeepsPublish ==
    ASSUME OutboxInv, NEW w \in Workers, O!Publish(w)
    PROVE  OutboxInv'
<1>1. place[w] = "publish" /\ Head(taken[w]) = taken[w][1]
      /\ UNCHANGED <<tasks, outbox, letters, notified, replayed, told, replaying, answered>>
  BY HeadFacts DEF O!Publish, O!deadLetters, O!admins
<1>2. \/ /\ O!Send(taken[w][1]) /\ done' = [done EXCEPT ![w] = @ \cup {taken[w][1]}]
         /\ O!Advance(w) /\ UNCHANGED <<failed, errors>>
      \/ /\ O!Fail
         /\ O!Send(taken[w][1]) \/ UNCHANGED sent
         /\ failed' = [failed EXCEPT ![w] = @ \cup {taken[w][1]}]
         /\ IF O!Attempts(taken[w][1]) + 1 >= MaxAttempts
            THEN place' = [place EXCEPT ![w] = "record"] /\ UNCHANGED taken
            ELSE O!Advance(w)
         /\ UNCHANGED done
  BY <1>1 DEF O!Publish
<1>3. CASE /\ O!Send(taken[w][1]) /\ done' = [done EXCEPT ![w] = @ \cup {taken[w][1]}]
           /\ O!Advance(w) /\ UNCHANGED <<failed, errors>>
  BY <1>1, <1>3, KeepsSent
<1>4. CASE /\ O!Fail
           /\ O!Send(taken[w][1]) \/ UNCHANGED sent
           /\ failed' = [failed EXCEPT ![w] = @ \cup {taken[w][1]}]
           /\ IF O!Attempts(taken[w][1]) + 1 >= MaxAttempts
              THEN place' = [place EXCEPT ![w] = "record"] /\ UNCHANGED taken
              ELSE O!Advance(w)
           /\ UNCHANGED done
  <2>1. O!Fail /\ (O!Send(taken[w][1]) \/ sent' = sent)
    BY <1>4
  <2> QED BY <1>1, <1>4, <2>1, KeepsFailed
<1> QED BY <1>2, <1>3, <1>4

LEMMA KeepsRecord ==
    ASSUME OutboxInv, NEW w \in Workers, O!Record(w)
    PROVE  OutboxInv'
<1> DEFINE e == taken[w][1]
<1>1. place[w] = "record" /\ Lettering(w)
      /\ UNCHANGED <<tasks, outbox, sent, notified, replayed, told, taken, done, failed, replaying, answered, errors>>
      /\ place' = [place EXCEPT ![w] = "mark"]
  BY DEF O!Record, Lettering, O!admins
<1>2. letters' = letters \cup {e} /\ e \in O!Events
  BY <1>1, HeadFacts DEF O!Record
<1> HIDE DEF e
<1>3. /\ place' \in [Workers -> O!Places] /\ place'[w] = "mark"
      /\ \A v \in Workers \ {w} : place'[v] = place[v]
  BY <1>1 DEF OutboxInv, O!TypeOK, O!Places
<1>4. O!TypeOK'
  BY <1>1, <1>2, <1>3 DEF OutboxInv, O!TypeOK
<1>5. BatchInTurn(w)' /\ Held(w)' = Held(w)
  <2>1. Held(w)' = Held(w) /\ Lettering(w)'
    BY <1>1, <1>3 DEF Held, ToGo, Lettering
  <2> QED BY <1>1, <1>3, <2>1 DEF OutboxInv, BatchInTurn
<1>6. HoldsRows(w)'
  BY <1>1, <1>5 DEF OutboxInv, HoldsRows, Waiting
<1>7. LettersInTurn(w)'
  BY <1>1, <1>2, <1>3 DEF OutboxInv, LettersInTurn, e
<1>8. LettersOnce'
  BY <1>1, <1>2 DEF OutboxInv, LettersOnce
<1>9. SentInTurn'
  BY <1>1, SentKept
<1>10. \A v \in Workers \ {w} : Held(w)' \cap Held(v) = {}
  BY <1>5 DEF OutboxInv, Apart
<1>11. \A d \in O!Events : sent'[d] >= sent[d]
  BY <1>1 DEF OutboxInv, O!TypeOK
<1> QED BY <1>1, <1>2, <1>3, <1>4, <1>5, <1>6, <1>7, <1>8, <1>9, <1>10, <1>11, WorkerKeeps

LEMMA KeepsMark ==
    ASSUME OutboxInv, NEW w \in Workers, O!MarkNotified(w)
    PROVE  OutboxInv'
<1> DEFINE e == taken[w][1]
<1>1. place[w] = "mark" /\ Lettering(w)
      /\ UNCHANGED <<tasks, outbox, sent, letters, replayed, told, done, failed, replaying, answered, errors>>
  BY DEF O!MarkNotified, Lettering, O!admins
<1>2. /\ e \in O!Events /\ e \in letters /\ taken[w] # << >> /\ Head(taken[w]) = e
      /\ notified' = notified \cup {e}
      /\ IF e \in notified THEN O!Advance(w)
         ELSE place' = [place EXCEPT ![w] = "notify"] /\ UNCHANGED taken
      /\ e \in failed[w]
  BY <1>1, HeadFacts DEF O!MarkNotified, OutboxInv, LettersInTurn, BatchInTurn
<1> HIDE DEF e
<1>3. LettersOnce'
  BY <1>1, <1>2 DEF OutboxInv, LettersOnce
<1>4. /\ O!TypeOK' /\ BatchInTurn(w)' /\ Held(w)' \subseteq Held(w) /\ LettersInTurn(w)'
      /\ \A v \in Workers \ {w} : taken'[v] = taken[v] /\ place'[v] = place[v]
  <2>1. CASE e \in notified
    <3>1. /\ taken' \in [Workers -> Seq(O!Events)] /\ place' \in [Workers -> O!Places]
          /\ place'[w] \in {"publish", "commit"}
          /\ \A v \in Workers \ {w} : taken'[v] = taken[v] /\ place'[v] = place[v]
      BY <1>2, <2>1, AdvanceFacts
    <3>2. BatchInTurn(w)' /\ Held(w)' \subseteq Held(w)
      BY <1>1, <1>2, <2>1, BatchAdvances DEF e
    <3>3. O!TypeOK'
      BY <1>1, <1>2, <3>1 DEF OutboxInv, O!TypeOK
    <3>4. LettersInTurn(w)'
      BY <1>1, <1>2, <3>1 DEF OutboxInv, LettersInTurn
    <3> QED BY <3>1, <3>2, <3>3, <3>4
  <2>2. CASE e \notin notified
    <3>1. /\ taken' = taken /\ place' \in [Workers -> O!Places] /\ place'[w] = "notify"
          /\ \A v \in Workers \ {w} : place'[v] = place[v]
      BY <1>2, <2>2 DEF OutboxInv, O!TypeOK, O!Places
    <3>2. Held(w)' = Held(w) /\ Lettering(w)'
      BY <1>1, <3>1 DEF Held, ToGo, Lettering
    <3>3. BatchInTurn(w)'
      BY <1>1, <3>1, <3>2 DEF OutboxInv, BatchInTurn
    <3>4. O!TypeOK'
      BY <1>1, <1>2, <3>1 DEF OutboxInv, O!TypeOK
    <3>5. told[e] = 0
      <4>1. told[e] \in Nat /\ told[e] <= 1 /\ ~(told[e] > 0)
        BY <1>2, <2>2 DEF OutboxInv, O!TypeOK, LettersOnce
      <4> QED BY <4>1
    <3>6. LettersInTurn(w)'
      BY <1>1, <1>2, <3>1, <3>5 DEF OutboxInv, LettersInTurn, e
    <3> QED BY <3>1, <3>2, <3>3, <3>4, <3>6
  <2> QED BY <2>1, <2>2
<1>5. HoldsRows(w)'
  BY <1>1, <1>4 DEF OutboxInv, HoldsRows, Waiting
<1>6. SentInTurn'
  BY <1>1, SentKept
<1>7. \A v \in Workers \ {w} : Held(w)' \cap Held(v) = {}
  BY <1>4 DEF OutboxInv, Apart
<1>8. \A d \in O!Events : sent'[d] >= sent[d]
  BY <1>1 DEF OutboxInv, O!TypeOK
<1> QED BY <1>1, <1>2, <1>3, <1>4, <1>5, <1>6, <1>7, <1>8, WorkerKeeps

LEMMA KeepsNotify ==
    ASSUME OutboxInv, NEW w \in Workers, O!Notify(w)
    PROVE  OutboxInv'
<1> DEFINE e == taken[w][1]
<1>1. place[w] = "notify" /\ Lettering(w)
      /\ UNCHANGED <<tasks, outbox, sent, letters, notified, replayed, done, failed, replaying, answered, errors>>
      /\ O!Advance(w)
  BY DEF O!Notify, Lettering, O!admins, O!deadLetters
<1>2. /\ e \in O!Events /\ e \in letters /\ taken[w] # << >> /\ e \in Held(w)
      /\ told' = [told EXCEPT ![e] = @ + 1] /\ told \in [O!Events -> Nat]
      /\ e \in failed[w] /\ told[e] = 0 /\ e \in notified
      /\ \A v \in Workers \ {w} : e \notin Held(v)
  BY <1>1, HeadFacts DEF O!Notify, OutboxInv, O!TypeOK, LettersInTurn, BatchInTurn
<1> HIDE DEF e
<1>3. told' \in [O!Events -> Nat] /\ told'[e] = 1 /\ \A d \in O!Events : d # e => told'[d] = told[d]
  BY <1>2
<1>4. LettersOnce'
  <2>1. \A d \in O!Events : told'[d] <= 1 /\ (told'[d] > 0 => d \in notified)
    BY <1>2, <1>3 DEF OutboxInv, LettersOnce
  <2> QED BY <1>1, <2>1 DEF OutboxInv, LettersOnce
<1>5. /\ taken' \in [Workers -> Seq(O!Events)] /\ place' \in [Workers -> O!Places]
      /\ place'[w] \in {"publish", "commit"}
      /\ \A v \in Workers \ {w} : taken'[v] = taken[v] /\ place'[v] = place[v]
  BY <1>1, <1>2, AdvanceFacts
<1>6. BatchInTurn(w)' /\ Held(w)' \subseteq Held(w)
  BY <1>1, <1>2, BatchAdvances DEF e
<1>7. O!TypeOK'
  BY <1>1, <1>3, <1>5 DEF OutboxInv, O!TypeOK
<1>8. LettersInTurn(w)'
  BY <1>1, <1>5 DEF OutboxInv, LettersInTurn
<1>9. HoldsRows(w)'
  BY <1>1, <1>6 DEF OutboxInv, HoldsRows, Waiting
<1>10. SentInTurn'
  BY <1>1, SentKept
<1>11. \A v \in Workers \ {w} : Held(w)' \cap Held(v) = {}
  BY <1>6 DEF OutboxInv, Apart
<1>12. \A d \in O!Events : sent'[d] >= sent[d]
  BY <1>1 DEF OutboxInv, O!TypeOK
<1>13. ASSUME NEW v \in Workers \ {w}, place[v] = "notify" PROVE told'[taken[v][1]] = told[taken[v][1]]
  <2>1. taken[v][1] \in O!Events /\ taken[v][1] \in Held(v)
    BY <1>13, HeadFacts DEF Lettering
  <2> QED BY <1>2, <1>3, <2>1
<1> QED BY <1>1, <1>4, <1>5, <1>6, <1>7, <1>8, <1>9, <1>10, <1>11, <1>12, <1>13, WorkerKeeps

\* Whoever leaves holds no row any more.
LEMMA LeaveFacts ==
    ASSUME OutboxInv, NEW w \in Workers, O!Leave(w)
    PROVE  /\ taken' \in [Workers -> Seq(O!Events)] /\ place' \in [Workers -> O!Places]
           /\ done' \in [Workers -> SUBSET O!Events] /\ failed' \in [Workers -> SUBSET O!Events]
           /\ place'[w] = "idle" /\ taken'[w] = << >> /\ done'[w] = {} /\ failed'[w] = {}
           /\ \A v \in Workers \ {w} : /\ place'[v] = place[v] /\ taken'[v] = taken[v]
                                       /\ done'[v] = done[v] /\ failed'[v] = failed[v]
           /\ Held(w)' = {} /\ BatchInTurn(w)'
<1>1. /\ taken \in [Workers -> Seq(O!Events)] /\ place \in [Workers -> O!Places]
      /\ done \in [Workers -> SUBSET O!Events] /\ failed \in [Workers -> SUBSET O!Events]
  BY DEF OutboxInv, O!TypeOK
<1>2. << >> \in Seq(O!Events) /\ "idle" \in O!Places
  BY DEF O!Places
<1>3. /\ taken' = [taken EXCEPT ![w] = << >>] /\ place' = [place EXCEPT ![w] = "idle"]
      /\ done' = [done EXCEPT ![w] = {}] /\ failed' = [failed EXCEPT ![w] = {}]
  BY DEF O!Leave
<1>4. /\ taken' \in [Workers -> Seq(O!Events)] /\ place' \in [Workers -> O!Places]
      /\ done' \in [Workers -> SUBSET O!Events] /\ failed' \in [Workers -> SUBSET O!Events]
  BY <1>1, <1>2, <1>3
<1>5. /\ place'[w] = "idle" /\ taken'[w] = << >> /\ done'[w] = {} /\ failed'[w] = {}
      /\ \A v \in Workers \ {w} : place'[v] = place[v] /\ taken'[v] = taken[v]
                                  /\ done'[v] = done[v] /\ failed'[v] = failed[v]
  BY <1>1, <1>3
<1>6. Held(w)' = {} /\ ~Lettering(w)'
  BY <1>5 DEF Held, ToGo, Lettering
<1>7. BatchInTurn(w)'
  BY <1>5, <1>6 DEF BatchInTurn
<1> QED BY <1>4, <1>5, <1>6, <1>7

LEMMA KeepsRollback ==
    ASSUME OutboxInv, NEW w \in Workers, O!Rollback(w)
    PROVE  OutboxInv'
<1>1. /\ UNCHANGED <<tasks, outbox, sent, letters, notified, replayed, told, replaying, answered>>
      /\ O!Leave(w) /\ O!Fail
  BY DEF O!Rollback, O!deadLetters, O!admins
<1>2. O!TypeOK'
  BY <1>1, LeaveFacts, FailFacts DEF OutboxInv, O!TypeOK
<1>3. BatchInTurn(w)' /\ HoldsRows(w)' /\ LettersInTurn(w)'
  BY <1>1, LeaveFacts DEF HoldsRows, LettersInTurn
<1>4. LettersOnce'
  BY <1>1, LettersKept
<1>5. \A e \in O!Events : sent'[e] >= sent[e] /\ sent'[e] = sent[e]
  BY <1>1 DEF OutboxInv, O!TypeOK
<1>6. SentInTurn'
  <2>1. \A e \in O!Events : Again(e) => Again(e)'
    BY <1>1 DEF Again, O!LetterFree
  <2>2. sent' \in [O!Events -> Nat]
    BY <1>2 DEF O!TypeOK
  <2> QED BY <1>1, <1>5, <2>1, <2>2, SentIfFails
<1>7. \A v \in Workers \ {w} : Held(w)' \cap Held(v) = {}
  BY <1>1, LeaveFacts
<1> QED BY <1>1, <1>2, <1>3, <1>4, <1>5, <1>6, <1>7, LeaveFacts, WorkerKeeps

\* A commit writes what the batch found out, to the rows it has locked.
LEMMA CommitRows ==
    ASSUME OutboxInv, NEW w \in Workers, O!Commit(w)
    PROVE  /\ outbox' \in Seq(O!Rows) /\ DOMAIN outbox' = DOMAIN outbox
           /\ \A i \in DOMAIN outbox :
                 /\ outbox'[i].event = outbox[i].event
                 /\ outbox'[i].published <=> outbox[i].published \/ outbox[i].event \in done[w]
                 /\ outbox'[i].attempts = IF outbox[i].event \in failed[w] THEN outbox[i].attempts + 1
                                          ELSE outbox[i].attempts
<1>1. /\ Len(outbox) \in Nat /\ DOMAIN outbox = 1 .. Len(outbox)
      /\ \A i \in DOMAIN outbox :
            /\ outbox[i] \in O!Rows /\ outbox[i].event \in O!Events
            /\ outbox[i].attempts \in Nat /\ outbox[i].published \in BOOLEAN
  BY RowFacts
<1>2. outbox' = [i \in DOMAIN outbox |->
          [outbox[i] EXCEPT !.published = @ \/ outbox[i].event \in done[w],
                            !.attempts = IF outbox[i].event \in failed[w] THEN @ + 1 ELSE @]]
  BY DEF O!Commit
<1>3. ASSUME NEW i \in DOMAIN outbox
      PROVE  /\ outbox'[i] \in O!Rows
             /\ outbox'[i].event = outbox[i].event
             /\ outbox'[i].published <=> outbox[i].published \/ outbox[i].event \in done[w]
             /\ outbox'[i].attempts = IF outbox[i].event \in failed[w] THEN outbox[i].attempts + 1
                                      ELSE outbox[i].attempts
  <2>1. outbox'[i] = [outbox[i] EXCEPT !.published = @ \/ outbox[i].event \in done[w],
                            !.attempts = IF outbox[i].event \in failed[w] THEN @ + 1 ELSE @]
    BY <1>2
  <2>2. outbox[i] \in O!Rows
    BY <1>1
  <2>3. /\ outbox'[i].event = outbox[i].event
        /\ outbox'[i].published = (outbox[i].published \/ outbox[i].event \in done[w])
        /\ outbox'[i].attempts = IF outbox[i].event \in failed[w] THEN outbox[i].attempts + 1
                                 ELSE outbox[i].attempts
    BY <2>1, <2>2 DEF O!Rows
  <2>4. /\ outbox'[i].event \in O!Events /\ outbox'[i].attempts \in Nat
        /\ outbox'[i].published \in BOOLEAN
    BY <1>1, <2>3
  <2>5. outbox'[i] \in O!Rows
    BY <2>1, <2>2, <2>4 DEF O!Rows
  <2> QED BY <2>3, <2>5
<1>4. outbox' \in Seq(O!Rows) /\ DOMAIN outbox' = DOMAIN outbox
  <2>1. outbox' = [i \in 1 .. Len(outbox) |-> outbox'[i]]
    BY <1>1, <1>2
  <2> QED BY <1>1, <1>3, <2>1, MakesSeq
<1> QED BY <1>3, <1>4

LEMMA KeepsCommit ==
    ASSUME OutboxInv, NEW w \in Workers, O!Commit(w)
    PROVE  OutboxInv'
<1>1. /\ UNCHANGED <<tasks, sent, letters, notified, replayed, told, replaying, answered, errors>>
      /\ O!Leave(w) /\ place[w] = "commit"
  BY DEF O!Commit, O!deadLetters, O!admins
<1>2. /\ place'[w] = "idle" /\ taken'[w] = << >> /\ done'[w] = {} /\ failed'[w] = {}
      /\ \A v \in Workers \ {w} : /\ place'[v] = place[v] /\ taken'[v] = taken[v]
                                  /\ done'[v] = done[v] /\ failed'[v] = failed[v]
      /\ Held(w)' = {} /\ BatchInTurn(w)'
  BY <1>1, LeaveFacts
<1>3. /\ outbox' \in Seq(O!Rows) /\ DOMAIN outbox' = DOMAIN outbox
      /\ \A i \in DOMAIN outbox :
            /\ outbox'[i].event = outbox[i].event
            /\ outbox'[i].published <=> outbox[i].published \/ outbox[i].event \in done[w]
            /\ outbox'[i].attempts = IF outbox[i].event \in failed[w] THEN outbox[i].attempts + 1
                                     ELSE outbox[i].attempts
  BY CommitRows
<1>4. O!TypeOK'
  <2>1. \A i, j \in DOMAIN outbox' : i # j => outbox'[i].event # outbox'[j].event
    BY <1>3, RowFacts
  <2> QED BY <1>1, <1>3, <2>1, LeaveFacts DEF OutboxInv, O!TypeOK
<1>5. RowsAlive'
  BY <1>1, <1>3 DEF OutboxInv, RowsAlive
<1>6. \A v \in Workers \ {w} : /\ Held(v)' = Held(v) /\ (Lettering(v)' <=> Lettering(v))
                              /\ Held(v) \cap Held(w) = {}
  BY <1>2 DEF Held, ToGo, Lettering, OutboxInv, Apart
<1>7. ASSUME NEW v \in Workers \ {w} PROVE BatchInTurn(v)' /\ HoldsRows(v)' /\ LettersInTurn(v)'
  <2>1. BatchInTurn(v) /\ HoldsRows(v) /\ LettersInTurn(v)
    BY DEF OutboxInv
  <2>2. BatchInTurn(v)'
    BY <1>2, <1>6, <2>1 DEF BatchInTurn
  <2>3. ASSUME NEW e \in Held(v) PROVE Waiting(e)'
    <3>1. PICK i \in DOMAIN outbox : outbox[i].event = e /\ ~outbox[i].published
      BY <2>1 DEF HoldsRows, Waiting
    <3>2. e \notin done[w]
      BY <1>6 DEF Held
    <3> QED BY <1>3, <3>1, <3>2 DEF Waiting
  <2>4. HoldsRows(v)'
    BY <1>1, <1>2, <1>6, <2>1, <2>3 DEF HoldsRows
  <2>5. \A i \in DOMAIN outbox : outbox[i].event \in failed[v] =>
            outbox'[i].event = outbox[i].event /\ outbox'[i].attempts = outbox[i].attempts
    BY <1>3, <1>6 DEF Held
  <2>6. LettersInTurn(v)'
    BY <1>1, <1>2, <1>3, <2>1, <2>5 DEF LettersInTurn
  <2> QED BY <2>2, <2>4, <2>6
<1>8. HoldsRows(w)' /\ LettersInTurn(w)'
  BY <1>2 DEF HoldsRows, LettersInTurn
<1>9. Apart'
  BY <1>2, <1>6 DEF OutboxInv, Apart
<1>10. LettersOnce'
  BY <1>1, LettersKept
<1>11. O!PublishedWasSent'
  BY <1>1, <1>3 DEF OutboxInv, O!PublishedWasSent, HoldsRows
<1>12. O!ExhaustedHasLetter'
  <2>1. ASSUME NEW i \in DOMAIN outbox, outbox'[i].attempts >= MaxAttempts PROVE outbox[i].event \in letters
    <3>1. CASE outbox[i].event \in failed[w]
      BY <1>1, <1>3, <2>1, <3>1 DEF OutboxInv, LettersInTurn
    <3>2. CASE outbox[i].event \notin failed[w]
      BY <1>3, <2>1, <3>2 DEF OutboxInv, O!ExhaustedHasLetter
    <3> QED BY <3>1, <3>2
  <2> QED BY <1>1, <1>3, <2>1 DEF O!ExhaustedHasLetter
<1>13. SentInTurn'
  <2>1. ASSUME NEW e \in O!Events, Spent(e) PROVE Spent(e)'
    <3>1. CASE tasks[e[1]] = "deleted"
      BY <1>1, <3>1 DEF Spent
    <3>2. CASE \E i \in DOMAIN outbox : outbox[i].event = e /\ outbox[i].published
      BY <1>3, <3>2 DEF Spent
    <3>3. CASE e \in done[w]
      <4>1. Waiting(e)
        BY <3>3 DEF OutboxInv, HoldsRows, Held
      <4>2. \E i \in DOMAIN outbox' : outbox'[i].event = e /\ outbox'[i].published
        BY <1>3, <3>3, <4>1 DEF Waiting
      <4> QED BY <4>2 DEF Spent
    <3>4. CASE \E v \in Workers \ {w} : e \in done[v]
      BY <1>2, <3>4 DEF Spent
    <3> QED BY <2>1, <3>1, <3>2, <3>3, <3>4 DEF Spent
  <2>2. \A e \in O!Events : Again(e)' <=> Again(e)
    BY <1>1 DEF Again, O!LetterFree
  <2>3. ASSUME NEW e \in O!Events
        PROVE  sent'[e] <= errors' + (IF Spent(e)' THEN 1 ELSE 0) + (IF Again(e)' THEN 1 ELSE 0)
    <3>1. sent[e] <= errors + (IF Spent(e) THEN 1 ELSE 0) + (IF Again(e) THEN 1 ELSE 0)
      BY DEF OutboxInv, SentInTurn
    <3>2. sent[e] \in Nat /\ errors \in Nat
      BY OutboxAssumption DEF OutboxInv, O!TypeOK
    <3> QED BY <1>1, <2>1, <2>2, <3>1, <3>2
  <2> QED BY <2>3 DEF SentInTurn
<1> QED BY <1>2, <1>4, <1>5, <1>7, <1>8, <1>9, <1>10, <1>11, <1>12, <1>13 DEF OutboxInv

-----------------------------------------------------------------------------
(*                             Administrators                              *)

\* What an administrator's step has to show: the letters and the account.
LEMMA AdminKeeps ==
    ASSUME OutboxInv, UNCHANGED <<tasks, outbox, letters, notified, told, place, taken, done, failed>>,
           O!TypeOK', \A e \in O!Events : sent'[e] >= sent[e],
           LettersOnce', SentInTurn'
    PROVE  OutboxInv'
<1>1. sent' \in [O!Events -> Nat]
  BY DEF O!TypeOK
<1>2. ASSUME NEW v \in Workers PROVE BatchInTurn(v)' /\ HoldsRows(v)' /\ LettersInTurn(v)'
  BY <1>1, OthersKeep
<1>3. Apart' /\ RowsAlive'
  BY DEF OutboxInv, Apart, Held, ToGo, RowsAlive
<1>4. O!PublishedWasSent' /\ O!ExhaustedHasLetter'
  BY <1>1, PublishedKept
<1> QED BY <1>2, <1>3, <1>4 DEF OutboxInv

LEMMA NoEventIsNone == O!NoEvent \notin O!Events
BY DEF O!NoEvent, O!Events

LEMMA KeepsReplay ==
    ASSUME OutboxInv, NEW a \in Admins, NEW e \in O!Events, O!Replay(a, e)
    PROVE  OutboxInv'
<1>1. /\ UNCHANGED <<tasks, outbox, letters, notified, replayed, told, place, taken, done, failed, answered>>
      /\ replaying[a] = O!NoEvent /\ e \in letters \ replayed /\ O!LetterFree(e) /\ O!Send(e)
      /\ \/ replaying' = [replaying EXCEPT ![a] = e] /\ UNCHANGED errors
         \/ O!Fail /\ UNCHANGED replaying
  BY DEF O!Replay, O!deadLetters, O!workers
<1>2. /\ replaying \in [Admins -> O!Events \cup {O!NoEvent}] /\ errors \in 0 .. MaxErrors
      /\ errors \in Nat /\ sent \in [O!Events -> Nat]
  BY OutboxAssumption DEF OutboxInv, O!TypeOK
<1>3. /\ sent' \in [O!Events -> Nat] /\ sent'[e] = sent[e] + 1
      /\ \A d \in O!Events : sent'[d] >= sent[d] /\ (d # e => sent'[d] = sent[d])
  BY <1>1, SentFacts
<1>4. CASE replaying' = [replaying EXCEPT ![a] = e] /\ UNCHANGED errors
  <2>1. /\ replaying' \in [Admins -> O!Events \cup {O!NoEvent}] /\ replaying'[a] = e
        /\ \A b \in Admins \ {a} : replaying'[b] = replaying[b]
    BY <1>2, <1>4
  <2>2. O!TypeOK'
    BY <1>1, <1>2, <1>3, <1>4, <2>1 DEF OutboxInv, O!TypeOK
  <2>3. \A b \in Admins : replaying[b] # e
    BY <1>1 DEF O!LetterFree
  <2>4. LettersOnce'
    BY <1>1, <2>1, <2>3 DEF OutboxInv, LettersOnce
  <2>5. ASSUME NEW d \in O!Events
        PROVE  sent'[d] <= errors' + (IF Spent(d)' THEN 1 ELSE 0) + (IF Again(d)' THEN 1 ELSE 0)
    <3>1. sent[d] <= errors + (IF Spent(d) THEN 1 ELSE 0) + (IF Again(d) THEN 1 ELSE 0)
      BY DEF OutboxInv, SentInTurn
    <3>2. Spent(d)' <=> Spent(d)
      BY <1>1 DEF Spent
    <3>3. CASE d = e
      <4>1. ~Again(d)
        BY <1>1, <3>3 DEF Again
      <4>2. Again(d)'
        BY <2>1, <3>3 DEF Again, O!LetterFree
      <4> QED BY <1>2, <1>3, <1>4, <3>1, <3>2, <3>3, <4>1, <4>2
    <3>4. CASE d # e
      <4>1. Again(d) => Again(d)'
        BY <1>1, <2>1, NoEventIsNone DEF Again, O!LetterFree
      <4>2. sent'[d] = sent[d] /\ sent[d] \in Nat
        BY <1>2, <1>3, <3>4
      <4> QED BY <1>2, <1>4, <3>1, <3>2, <4>1, <4>2
    <3> QED BY <3>3, <3>4
  <2>6. SentInTurn'
    BY <2>5 DEF SentInTurn
  <2> QED BY <1>1, <1>3, <2>2, <2>4, <2>6, AdminKeeps
<1>5. CASE O!Fail /\ UNCHANGED replaying
  <2>1. O!TypeOK'
    BY <1>1, <1>3, <1>5, FailFacts DEF OutboxInv, O!TypeOK
  <2>2. LettersOnce'
    BY <1>1, <1>5, LettersKept
  <2>3. \A d \in O!Events : (Spent(d) => Spent(d)') /\ (Again(d) => Again(d)')
    BY <1>1, <1>5 DEF Spent, Again, O!LetterFree
  <2>4. \A d \in O!Events : sent'[d] = sent[d] \/ sent'[d] = sent[d] + 1
    BY <1>3
  <2>5. SentInTurn'
    BY <1>1, <1>3, <1>5, <2>3, <2>4, SentIfFails
  <2> QED BY <1>1, <1>3, <2>1, <2>2, <2>5, AdminKeeps
<1> QED BY <1>1, <1>4, <1>5

LEMMA KeepsEndReplay ==
    ASSUME OutboxInv, NEW a \in Admins, O!EndReplay(a)
    PROVE  OutboxInv'
<1> DEFINE e == replaying[a]
<1>1. /\ UNCHANGED <<tasks, outbox, sent, letters, notified, told, place, taken, done, failed>>
      /\ e # O!NoEvent /\ replaying' = [replaying EXCEPT ![a] = O!NoEvent]
      /\ \/ /\ replayed' = replayed \cup {e} /\ answered' = [answered EXCEPT ![e] = @ + 1]
            /\ UNCHANGED errors
         \/ O!Fail /\ UNCHANGED <<replayed, answered>>
  BY DEF O!EndReplay, O!deadLetters, O!workers
<1>2. /\ replaying \in [Admins -> O!Events \cup {O!NoEvent}] /\ errors \in 0 .. MaxErrors
      /\ errors \in Nat /\ sent \in [O!Events -> Nat] /\ answered \in [O!Events -> Nat]
  BY OutboxAssumption DEF OutboxInv, O!TypeOK
<1>3. /\ e \in O!Events /\ e \in letters \ replayed
      /\ \A b \in Admins \ {a} : replaying[b] # e
  BY <1>1, <1>2 DEF OutboxInv, LettersOnce
<1>4. /\ replaying' \in [Admins -> O!Events \cup {O!NoEvent}] /\ replaying'[a] = O!NoEvent
      /\ \A b \in Admins \ {a} : replaying'[b] = replaying[b]
  BY <1>1, <1>2
<1>5. \A d \in O!Events :
         /\ sent[d] \in Nat /\ sent'[d] = sent[d] /\ sent'[d] >= sent[d]
         /\ Spent(d)' <=> Spent(d)
         /\ d # e => (Again(d) => (Again(d)' \/ d \in replayed))
  BY <1>1, <1>2, <1>4 DEF Spent, Again, O!LetterFree
<1> HIDE DEF e
<1>6. CASE /\ replayed' = replayed \cup {e} /\ answered' = [answered EXCEPT ![e] = @ + 1]
           /\ UNCHANGED errors
  <2>1. /\ answered' \in [O!Events -> Nat] /\ answered'[e] = 1
        /\ \A d \in O!Events : d # e => answered'[d] = answered[d]
    BY <1>2, <1>3, <1>6 DEF OutboxInv, LettersOnce
  <2>2. O!TypeOK'
    BY <1>1, <1>2, <1>3, <1>4, <1>6, <2>1 DEF OutboxInv, O!TypeOK
  <2>3. LettersOnce'
    <3>1. \A d \in O!Events : answered'[d] = IF d \in replayed' THEN 1 ELSE 0
      BY <1>3, <1>6, <2>1 DEF OutboxInv, LettersOnce
    <3>2. \A b \in Admins : replaying'[b] # O!NoEvent => replaying'[b] \in letters' \ replayed'
      BY <1>1, <1>3, <1>4, <1>6 DEF OutboxInv, LettersOnce
    <3>3. \A b, c \in Admins : b # c /\ replaying'[b] = replaying'[c] => replaying'[b] = O!NoEvent
      BY <1>4 DEF OutboxInv, LettersOnce
    <3>4. \A d \in O!Events : told'[d] <= 1 /\ (told'[d] > 0 => d \in notified')
      BY <1>1 DEF OutboxInv, LettersOnce
    <3> QED BY <3>1, <3>2, <3>3, <3>4 DEF LettersOnce
  <2>4. ASSUME NEW d \in O!Events
        PROVE  sent'[d] <= errors' + (IF Spent(d)' THEN 1 ELSE 0) + (IF Again(d)' THEN 1 ELSE 0)
    <3>1. sent[d] <= errors + (IF Spent(d) THEN 1 ELSE 0) + (IF Again(d) THEN 1 ELSE 0)
      BY DEF OutboxInv, SentInTurn
    <3>2. Again(d) => Again(d)'
      <4>1. CASE d = e
        BY <1>6, <4>1 DEF Again
      <4>2. CASE d # e
        BY <1>5, <1>6, <4>2 DEF Again
      <4> QED BY <4>1, <4>2
    <3>3. sent[d] \in Nat /\ sent'[d] = sent[d] /\ (Spent(d)' <=> Spent(d))
      BY <1>2, <1>5
    <3> QED BY <1>2, <1>6, <3>1, <3>2, <3>3
  <2>5. SentInTurn'
    BY <2>4 DEF SentInTurn
  <2> QED BY <1>1, <1>5, <2>2, <2>3, <2>5, AdminKeeps
<1>7. CASE O!Fail /\ UNCHANGED <<replayed, answered>>
  <2>1. O!TypeOK'
    BY <1>1, <1>2, <1>4, <1>7, FailFacts DEF OutboxInv, O!TypeOK
  <2>2. LettersOnce'
    BY <1>1, <1>4, <1>7 DEF OutboxInv, LettersOnce
  <2>3. SentInTurn'
    <3>1. sent' \in [O!Events -> Nat]
      BY <1>1, <1>2
    <3> QED BY <1>1, <1>5, <1>7, <3>1, SentIfFails
  <2> QED BY <1>1, <1>5, <2>1, <2>2, <2>3, AdminKeeps
<1> QED BY <1>1, <1>6, <1>7 DEF e

-----------------------------------------------------------------------------
(*                     The theorems about the outbox                       *)

LEMMA OutboxStart == O!Init => OutboxInv
<1> SUFFICES ASSUME O!Init PROVE OutboxInv
  OBVIOUS
<1> USE DEF O!Init
<1>1. outbox \in Seq(O!Rows) /\ DOMAIN outbox = {} /\ << >> \in Seq(O!Events)
  OBVIOUS
<1>2. O!TypeOK
  <2>1. errors \in 0 .. MaxErrors /\ taken \in [Workers -> Seq(O!Events)]
    BY <1>1, OutboxAssumption
  <2>2. tasks \in [Tasks -> O!Statuses] /\ place \in [Workers -> O!Places]
    BY DEF O!Statuses, O!Places
  <2>3. /\ sent \in [O!Events -> Nat] /\ told \in [O!Events -> Nat] /\ answered \in [O!Events -> Nat]
        /\ done \in [Workers -> SUBSET O!Events] /\ failed \in [Workers -> SUBSET O!Events]
        /\ replaying \in [Admins -> O!Events \cup {O!NoEvent}]
    OBVIOUS
  <2> QED BY <1>1, <2>1, <2>2, <2>3 DEF O!TypeOK
<1>3. ASSUME NEW w \in Workers PROVE Held(w) = {} /\ BatchInTurn(w) /\ HoldsRows(w) /\ LettersInTurn(w)
  BY <1>1 DEF Held, ToGo, BatchInTurn, HoldsRows, LettersInTurn, Lettering
<1>4. Apart /\ RowsAlive
  BY <1>1, <1>3 DEF Apart, RowsAlive
<1>5. LettersOnce
  BY DEF LettersOnce
<1>6. SentInTurn
  <2>1. \A e \in O!Events : sent[e] = 0 /\ errors = 0
    OBVIOUS
  <2> QED BY <2>1 DEF SentInTurn
<1>7. O!PublishedWasSent /\ O!ExhaustedHasLetter
  BY <1>1 DEF O!PublishedWasSent, O!ExhaustedHasLetter
<1> QED BY <1>2, <1>3, <1>4, <1>5, <1>6, <1>7 DEF OutboxInv

LEMMA OutboxUnchanged == OutboxInv /\ UNCHANGED outboxVars => OutboxInv'
<1> SUFFICES ASSUME OutboxInv, UNCHANGED outboxVars PROVE OutboxInv'
  OBVIOUS
<1>1. O!TypeOK'
  BY DEF outboxVars, OutboxInv, O!TypeOK
<1>2. LettersOnce' /\ SentInTurn'
  BY LettersKept, SentKept DEF outboxVars
<1>3. \A e \in O!Events : sent'[e] >= sent[e]
  BY DEF outboxVars, OutboxInv, O!TypeOK
<1> QED BY <1>1, <1>2, <1>3, AdminKeeps DEF outboxVars

LEMMA OutboxStep == OutboxInv /\ [O!Next]_outboxVars => OutboxInv'
<1> SUFFICES ASSUME OutboxInv, [O!Next]_outboxVars PROVE OutboxInv'
  OBVIOUS
<1>1. ASSUME NEW t \in Tasks, O!Create(t) \/ O!SetPendingApproval(t) \/ O!Approve(t) \/ O!Delete(t)
      PROVE  OutboxInv'
  BY <1>1, KeepsTasks, KeepsDelete
<1>2. ASSUME NEW w \in Workers, O!Work(w) \/ O!Rollback(w) PROVE OutboxInv'
  BY <1>2, KeepsTake, KeepsPublish, KeepsRecord, KeepsMark, KeepsNotify, KeepsCommit, KeepsRollback DEF O!Work
<1>3. ASSUME NEW a \in Admins, O!EndReplay(a) \/ \E e \in O!Events : O!Replay(a, e) PROVE OutboxInv'
  BY <1>3, KeepsReplay, KeepsEndReplay
<1> QED BY <1>1, <1>2, <1>3, OutboxUnchanged DEF O!Next

LEMMA OutboxOfSystem == [Next]_vars => [O!Next]_outboxVars
BY DEF Next, vars, outboxVars

LEMMA OutboxAlways == Spec => []OutboxInv
<1>1. Init => OutboxInv
  BY OutboxStart DEF Init
<1>2. OutboxInv /\ [Next]_vars => OutboxInv'
  BY OutboxStep, OutboxOfSystem
<1> QED BY <1>1, <1>2, PTL DEF Spec

\* Only what is on the bus is marked published, an event that used up its
\* attempts has its dead letter, an event is sent again only for an error or its
\* replay, the operator is told of a letter at most once and one replay of it
\* succeeds (outbox.py publish_pending over dead_letters.py), whatever the
\* workers, administrators, rollbacks and task transactions interleave.
THEOREM EventsAccounted == Spec => []EventsAreAccounted
<1>1. OutboxInv => O!DuplicatesAreExplained
  <2>1. ASSUME OutboxInv, NEW e \in O!Events
        PROVE  sent[e] <= 1 + errors + (IF e \in replayed \/ ~O!LetterFree(e) THEN 1 ELSE 0)
    <3>1. sent[e] <= errors + (IF Spent(e) THEN 1 ELSE 0) + (IF Again(e) THEN 1 ELSE 0)
      BY <2>1 DEF OutboxInv, SentInTurn
    <3>2. sent[e] \in Nat /\ errors \in Nat
      BY <2>1, OutboxAssumption DEF OutboxInv, O!TypeOK
    <3>3. Again(e) <=> e \in replayed \/ ~O!LetterFree(e)
      BY DEF Again
    <3> QED BY <3>1, <3>2, <3>3
  <2> QED BY <2>1 DEF O!DuplicatesAreExplained
<1>2. OutboxInv => O!LettersActOnce
  BY DEF OutboxInv, LettersOnce, O!LettersActOnce
<1>3. OutboxInv => EventsAreAccounted
  BY <1>1, <1>2 DEF OutboxInv, EventsAreAccounted
<1> QED BY <1>3, OutboxAlways, PTL

-----------------------------------------------------------------------------
(*                        The types of both parts                          *)

\* Every variable of the stream and the outbox keeps its type; in the outbox no
\* two rows name the same event (outbox.py event_id), though rows are inserted,
\* taken, marked and deleted by several workers and task transactions.
THEOREM SystemTypes == Spec => []TypeOK
<1>1. StreamInv /\ OutboxInv => TypeOK
  BY DEF StreamInv, StreamTyped, OutboxInv, TypeOK
<1> QED BY <1>1, StreamAlways, OutboxAlways, PTL
-----------------------------------------------------------------------------
(*                      The stream implements a log                        *)

Status == IF stream = NoStream THEN "none" ELSE stream.status
Closed == Status \in {"completed", "failed"}

\* Once the status tells the end, nobody is about to write, to mark or to reopen.
ClosedIsDone ==
    Closed => HasEnd /\ \A t \in S!Threads : writing[t] \in {"idle", "lookup", "done"}

\* The end that is about to be marked is the last frame, if it is still there.
MarkedIsLast ==
    \A t \in S!Threads : writing[t] = "mark" /\ stream # NoStream =>
        stream.last > 0 /\ frames[stream.last] = frame[t]

LogInv ==
    /\ StreamInv /\ frames \in Seq(S!Kinds)
    /\ ClosedIsDone /\ MarkedIsLast

LEMMA LogFacts ==
    ASSUME LogInv
    PROVE  /\ StreamTyped /\ (Told => Unavailable)
           /\ Status \in S!Statuses \cup {"none"}
           /\ Status = "none" <=> stream = NoStream
           /\ Unavailable <=> Status = "unavailable"
           /\ stream # NoStream => stream.status = Status /\ stream \in S!Streams
           /\ Len(frames) \in Nat /\ DOMAIN frames = 1 .. Len(frames)
           /\ S!Log!Over <=> HasEnd \/ Told
           /\ S!Log!Says(S!Notice) <=> Told
<1>1. StreamTyped /\ (Told => Unavailable)
  BY DEF LogInv, StreamInv
<1>2. stream # NoStream => stream \in S!Streams
  BY <1>1 DEF StreamTyped, S!TypeOK
<1>3. stream # NoStream => stream.status \in S!Statuses /\ stream.status # "none"
  BY <1>2 DEF S!Streams, S!Statuses
<1>4. Len(frames) \in Nat /\ DOMAIN frames = 1 .. Len(frames)
  BY DEF LogInv
<1>5. S!Log!Says(S!Notice) <=> Told
  BY <1>4 DEF S!Log!Says, Told
<1>6. S!Log!Over <=> HasEnd \/ Told
  BY <1>4 DEF S!Log!Over, S!Log!Says, HasEnd, Told, Ended, S!Ends, S!Notice
<1> QED BY <1>1, <1>2, <1>3, <1>4, <1>5, <1>6 DEF Status, Unavailable

\* Appending, element by element.
LEMMA AppendIs ==
    ASSUME NEW K, NEW f \in Seq(K), NEW x \in K, NEW n \in Nat, Len(f) = n
    PROVE  /\ Append(f, x) = [s \in 1 .. n + 1 |-> IF s = n + 1 THEN x ELSE f[s]]
           /\ Append(f, x) \in Seq(K)
<1>1. Append(f, x) \in Seq(K) /\ Len(Append(f, x)) = n + 1
  BY AppendProperties
<1>2. PICK g : g = Append(f, x)
  OBVIOUS
<1>3. g = [s \in 1 .. n + 1 |-> g[s]]
  <2>1. g \in Seq(K) /\ Len(g) = n + 1
    BY <1>1, <1>2
  <2> QED BY ONLY n \in Nat, <2>1
<1>4. \A s \in 1 .. n + 1 : g[s] = IF s = n + 1 THEN x ELSE f[s]
  BY <1>2, AppendProperties
<1>5. g = [s \in 1 .. n + 1 |-> IF s = n + 1 THEN x ELSE f[s]]
  BY <1>3, <1>4
<1> QED BY <1>1, <1>2, <1>5

\* A step of the store's append is one of the log.
LEMMA AppendsAre ==
    ASSUME LogInv, NEW kind \in S!Kinds, NEW status \in S!Statuses, NEW expires \in BOOLEAN,
           S!Append(kind, status, expires)
    PROVE  /\ frames' = Append(frames, kind) /\ frames' \in Seq(S!Kinds) /\ Status' = status
           /\ stream' # NoStream /\ stream'.last > 0 /\ frames'[stream'.last] = kind
<1>1. StreamTyped
  BY LogFacts
<1>2. PICK n \in Nat : n = Len(frames)
  BY LogFacts
<1>3. Opened.last = n
  <2>1. DOMAIN frames = 1 .. Opened.last /\ Opened.last \in Nat
    BY <1>1, OpenedFacts DEF S!Streams
  <2> QED BY <1>2, <2>1 DEF LogInv
<1>4. frames' = [s \in DOMAIN frames \cup {n + 1} |-> IF s = n + 1 THEN kind ELSE frames[s]]
  BY <1>3 DEF S!Append, Opened
<1>5. PICK K : K = S!Kinds
  OBVIOUS
<1>6. frames \in Seq(K) /\ kind \in K /\ Len(frames) = n
  BY <1>2, <1>5 DEF LogInv
<1>7. frames' = Append(frames, kind) /\ frames' \in Seq(K)
  <2>1. DOMAIN frames \cup {n + 1} = 1 .. n + 1
    BY <1>2, <1>6
  <2>2. frames' = [s \in 1 .. n + 1 |-> IF s = n + 1 THEN kind ELSE frames[s]]
    BY <1>4, <2>1
  <2> QED BY <1>6, <2>2, AppendIs
<1>8. Status' = status /\ stream' # NoStream /\ stream'.last > 0 /\ frames'[stream'.last] = kind
  BY <1>1, <1>2, <1>3, AppendFacts DEF Status
<1> QED BY <1>5, <1>7, <1>8

\* The log's actions, by the status and the frames.
LEMMA LogOpens ==
    Status = "none" /\ Status' = "streaming" /\ frames' = frames => S!Log!Next
BY DEF S!Log!Next, S!Log!Open, Status

LEMMA LogGrows ==
    ASSUME NEW kind \in S!Kinds \ {S!Notice}, ~S!Log!Over, Status \in {"none", "streaming"},
           frames' = Append(frames, kind), Status' = "streaming"
    PROVE  S!Log!Next
<1>1. S!Log!Grow(kind)
  BY DEF S!Log!Grow, Status
<1> QED BY <1>1 DEF S!Log!Next

LEMMA LogCloses ==
    ASSUME Status = "streaming", frames # << >>, frames[Len(frames)] \in Ended, frames' = frames,
           Status' = IF frames[Len(frames)] = "run.failed" THEN "failed" ELSE "completed"
    PROVE  S!Log!Next
<1>1. S!Log!Close
  BY DEF S!Log!Close, Status, Ended
<1> QED BY <1>1 DEF S!Log!Next

LEMMA LogGivesUp ==
    ASSUME Status \in {"none", "streaming", "unavailable"}, Status' = "unavailable",
           \/ Status # "none" /\ frames' = frames
           \/ ~S!Log!Says(S!Notice) /\ frames' = Append(frames, S!Notice)
    PROVE  S!Log!Next
<1>1. S!Log!GiveUp
  BY DEF S!Log!GiveUp, Status
<1> QED BY <1>1 DEF S!Log!Next

LEMMA LogErases ==
    stream' = NoStream /\ frames' = << >> => S!Log!Next
BY DEF S!Log!Next, S!Log!Erase

-----------------------------------------------------------------------------
(*                         Every step is one of the log                    *)

Logged == S!Log!Next \/ UNCHANGED <<frames, Status>>
Follows == frames \in Seq(S!Kinds) /\ ClosedIsDone /\ MarkedIsLast

\* A step that leaves the rows alone sends nobody to write at a closed stream.
LEMMA LogKept ==
    ASSUME LogInv, frames' = frames, stream' = stream,
           \A t \in S!Threads :
              \/ writing'[t] = writing[t] /\ frame'[t] = frame[t]
              \/ writing'[t] # "mark" /\ (Closed => writing'[t] \in {"idle", "lookup", "done"})
    PROVE  Logged /\ Follows'
<1>1. frames' \in Seq(S!Kinds)
  BY DEF LogInv
<1>2. Status' = Status /\ (HasEnd' <=> HasEnd)
  BY DEF Status, HasEnd
<1>3. ClosedIsDone'
  BY <1>2 DEF LogInv, ClosedIsDone, Closed
<1>4. MarkedIsLast'
  BY DEF LogInv, MarkedIsLast
<1> QED BY <1>1, <1>2, <1>3, <1>4 DEF Logged, Follows

\* While a thread is at the stream it is not closed, and no other marks it.
LEMMA LogAlone ==
    ASSUME LogInv, NEW t \in S!Threads,
           writing[t] \in {"write", "notice", "mark", "remember", "look", "reopen"}
    PROVE  /\ ~Closed
           /\ \A u \in S!Threads \ {t} : writing[u] \in {"idle", "lookup", "done"}
<1>1. \A u \in S!Threads \ {t} : writing[u] \in {"idle", "lookup", "done"}
  BY Alone DEF LogInv, StreamInv
<1>2. ~Closed
  BY DEF LogInv, ClosedIsDone
<1> QED BY <1>1, <1>2

LEMMA LogWrite ==
    ASSUME LogInv, NEW t \in S!Threads, S!Write(t)
    PROVE  Logged /\ Follows'
<1>1. /\ writing[t] = "write" /\ StreamTyped /\ (Told => Unavailable)
      /\ frame[t] \in S!Kinds \ {S!Notice} /\ ~HasEnd
  BY NoEndYet DEF S!Write, LogInv, StreamInv, StreamTyped, S!TypeOK, MarksItsEnd
<1>2. ~Closed /\ \A u \in S!Threads \ {t} : writing[u] \in {"idle", "lookup", "done"}
  BY <1>1, LogAlone
<1>3. \A u \in S!Threads \ {t} : writing'[u] # "mark"
  BY <1>1, <1>2, ContinueFacts DEF S!Write, S!Go, StreamTyped, S!TypeOK
<1>4. writing'[t] = "mark" => S!AppendFrame(frame[t]) /\ frame'[t] = frame[t]
  BY <1>1, ContinueFacts, GoFacts DEF S!Write
<1>5. CASE S!AppendFrame(frame[t])
  <2>1. Opened.status \in S!Statuses /\ Opened.expires \in BOOLEAN /\ Opened.status # "unavailable"
        /\ S!Append(frame[t], Opened.status, Opened.expires)
    BY <1>1, <1>5, OpenedFacts DEF S!AppendFrame, Opened, S!Streams
  <2>2. /\ frames' = Append(frames, frame[t]) /\ frames' \in Seq(S!Kinds) /\ Status' = Opened.status
        /\ stream' # NoStream /\ stream'.last > 0 /\ frames'[stream'.last] = frame[t]
    BY <1>1, <2>1, AppendsAre
  <2>3. Opened.status = "streaming" /\ Status \in {"none", "streaming"}
    BY <1>1, <1>2, <2>1, OpenedFacts, LogFacts DEF Closed, Status, S!Statuses
  <2>4. ~S!Log!Over
    BY <1>1, <1>5, FrameFacts, LogFacts
  <2>5. Logged
    BY <1>1, <2>2, <2>3, <2>4, LogGrows DEF Logged
  <2>6. ClosedIsDone'
    BY <2>2, <2>3 DEF ClosedIsDone, Closed
  <2>7. MarkedIsLast'
    BY <1>3, <1>4, <2>2 DEF MarkedIsLast
  <2> QED BY <2>2, <2>5, <2>6, <2>7 DEF Follows
<1>6. CASE S!RefuseFrame /\ ~S!AppendFrame(frame[t])
  <2>1. frames' = frames /\ stream' # NoStream /\ (stream # NoStream => stream' = stream)
        /\ (stream = NoStream => stream'.status = "streaming")
    BY <1>1, <1>6, RefuseFacts
  <2>2. Status' = Status \/ (Status = "none" /\ Status' = "streaming")
    BY <2>1 DEF Status
  <2>3. Logged
    BY <2>1, <2>2, LogOpens DEF Logged
  <2>4. ~Closed'
    BY <1>2, <2>2 DEF Closed
  <2>5. MarkedIsLast'
    BY <1>3, <1>4, <1>6 DEF MarkedIsLast
  <2>6. frames' \in Seq(S!Kinds)
    BY <2>1 DEF LogInv
  <2> QED BY <2>3, <2>4, <2>5, <2>6 DEF Follows, ClosedIsDone
<1>7. CASE UNCHANGED S!rows /\ ~S!AppendFrame(frame[t])
  <2>1. frames' = frames /\ stream' = stream
    BY <1>7 DEF S!rows
  <2> QED BY <1>2, <1>3, <1>4, <1>7, <2>1, LogKept
<1> QED BY <1>5, <1>6, <1>7 DEF S!Write

LEMMA LogTell ==
    ASSUME LogInv, NEW t \in S!Threads, S!Tell(t)
    PROVE  Logged /\ Follows'
<1>1. /\ writing[t] = "notice" /\ S!Continue(t) /\ StreamTyped /\ (Told => Unavailable)
      /\ frame[t] # S!Notice
  BY DEF S!Tell, LogInv, StreamInv, MarksItsEnd
<1>2. ~Closed /\ \A u \in S!Threads \ {t} : writing[u] \in {"idle", "lookup", "done"}
  BY <1>1, LogAlone
<1>3. \A u \in S!Threads : writing'[u] # "mark"
  BY <1>1, <1>2, ContinueFacts
<1>4. CASE S!AppendNotice
  <2>1. Status' = "unavailable"
    BY <1>1, <1>4, NoticeFacts DEF Unavailable, Status
  <2>2. Status \in {"none", "streaming", "unavailable"}
    BY <1>2, LogFacts DEF Closed, S!Statuses
  <2>3. ASSUME Told PROVE Logged /\ frames' \in Seq(S!Kinds)
    <3>1. frames' = frames /\ Status # "none"
      BY <1>1, <1>4, <2>3, NoticeFacts DEF Unavailable, Status
    <3> QED BY <2>1, <2>2, <3>1, LogGivesUp DEF Logged, LogInv
  <2>4. ASSUME ~Told PROVE Logged /\ frames' \in Seq(S!Kinds)
    <3>1. S!Append(S!Notice, "unavailable", TRUE)
      <4>1. S!Notice \notin S!Range(frames)
        BY <2>4 DEF Told, S!Range
      <4> QED BY <1>4, <4>1 DEF S!AppendNotice
    <3>2. PICK e \in BOOLEAN : S!Append(S!Notice, "unavailable", e)
      BY <3>1
    <3>3. S!Notice \in S!Kinds /\ "unavailable" \in S!Statuses
      BY DEF S!Notice, S!Kinds, S!Ends, S!Statuses
    <3>4. frames' = Append(frames, S!Notice) /\ frames' \in Seq(S!Kinds)
      BY <3>2, <3>3, AppendsAre
    <3>5. ~S!Log!Says(S!Notice)
      BY <2>4, LogFacts
    <3> QED BY <2>1, <2>2, <3>4, <3>5, LogGivesUp DEF Logged
  <2>5. Logged /\ frames' \in Seq(S!Kinds)
    BY <2>3, <2>4
  <2> QED BY <1>3, <2>1, <2>5 DEF Follows, ClosedIsDone, Closed, MarkedIsLast
<1>5. CASE UNCHANGED S!rows
  <2>1. frames' = frames /\ stream' = stream
    BY <1>5 DEF S!rows
  <2> QED BY <1>2, <1>3, <2>1, LogKept
<1> QED BY <1>4, <1>5 DEF S!Tell

LEMMA LogMark ==
    ASSUME LogInv, NEW t \in S!Threads, S!Mark(t)
    PROVE  Logged /\ Follows'
<1>1. /\ writing[t] = "mark" /\ S!Finish(t) /\ frames' = frames /\ StreamTyped
      /\ frame[t] \in Ended /\ ~Unavailable
  BY DEF S!Mark, LogInv, StreamInv, MarksItsEnd
<1>2. ~Closed /\ \A u \in S!Threads \ {t} : writing[u] \in {"idle", "lookup", "done"}
  BY <1>1, LogAlone
<1>3. \A u \in S!Threads : writing'[u] \in {"idle", "lookup", "done"}
  BY <1>1, <1>2, FinishFacts
<1>4. CASE stream' = stream
  BY <1>1, <1>3, <1>4, LogKept
<1>5. CASE /\ stream # NoStream
           /\ stream' = [stream EXCEPT !.expires = TRUE, !.status =
                           IF frame[t] = "run.failed" THEN "failed" ELSE "completed"]
  <2>1. stream \in S!Streams /\ Status = "streaming"
    BY <1>1, <1>2, <1>5, LogFacts DEF Closed, S!Statuses
  <2>2. /\ stream' \in S!Streams
        /\ stream'.status = IF frame[t] = "run.failed" THEN "failed" ELSE "completed"
    BY <1>5, <2>1 DEF S!Streams, S!Statuses
  <2>3. Status' = IF frame[t] = "run.failed" THEN "failed" ELSE "completed"
    BY <2>2, StreamAssumption DEF Status
  <2>4. stream.last > 0 /\ frames[stream.last] = frame[t]
    BY <1>1, <1>5 DEF LogInv, MarkedIsLast
  <2>5. Len(frames) = stream.last /\ stream.last \in DOMAIN frames
    BY <1>1, <1>5, <2>1, <2>4, LogFacts DEF StreamTyped, S!FramesAreDense, S!Streams
  <2>6. Logged
    BY <1>1, <2>1, <2>3, <2>4, <2>5, LogCloses DEF Logged
  <2>7. HasEnd'
    BY <1>1, <2>4, <2>5 DEF HasEnd
  <2>8. frames' \in Seq(S!Kinds)
    BY <1>1 DEF LogInv
  <2> QED BY <1>3, <2>6, <2>7, <2>8 DEF Follows, ClosedIsDone, MarkedIsLast
<1> QED BY <1>4, <1>5 DEF S!Mark

LEMMA LogThread ==
    ASSUME LogInv, NEW t \in S!Threads,
           S!Crash(t) \/ S!Remember \/ S!Decide \/ S!Lookup \/ S!Look \/ S!Reopen
    PROVE  Logged /\ Follows'
<1>1. StreamTyped /\ "sender" \in S!Threads /\ "resumer" \in S!Threads
      /\ S!Threads = {"sender", "resumer"}
  BY DEF LogInv, StreamInv, S!Threads
<1>2. CASE S!Crash(t) \/ S!Remember \/ S!Decide
  BY <1>1, <1>2, LogKept, FinishFacts, GoFacts
     DEF S!Crash, S!Remember, S!Decide, S!rows, S!writers, StreamTyped, S!TypeOK
<1>3. CASE S!Lookup
  <2>1. Closed => ~remembered
    BY <1>1, <1>3 DEF S!Lookup, LogInv, StreamInv, ClosedIsDone, EndIsKept
  <2> QED BY <1>1, <1>3, <2>1, LogKept, GoFacts DEF S!Lookup, S!rows
<1>4. CASE S!Look \/ S!Reopen
  <2>1. ~Closed
    BY <1>1, <1>4, LogAlone DEF S!Look, S!Reopen
  <2>2. stream # NoStream => stream.status \notin {"completed", "failed"}
    BY <2>1 DEF Closed, Status
  <2>3. frames' = frames /\ stream' = stream /\ frame' = frame
    BY <1>4, <2>2 DEF S!Look, S!Reopen, S!rows
  <2>4. \A u \in S!Threads : writing'[u] = writing[u] \/ writing'[u] # "mark"
    BY <1>1, <1>4, GoFacts DEF S!Look, S!Reopen
  <2> QED BY <2>1, <2>3, <2>4, LogKept
<1> QED BY <1>2, <1>3, <1>4

LEMMA LogAround ==
    ASSUME LogInv,
           \/ S!Age \/ S!Stall \/ S!Purge \/ S!Archive
           \/ S!DeleteKeys \/ S!DeleteStreams \/ S!DeleteContent \/ S!DieDeleting
           \/ S!ReaderStep \/ S!Cut \/ UNCHANGED streamVars
    PROVE  Logged /\ Follows'
<1>1. CASE UNCHANGED <<stream, frames, writing, frame>>
  BY <1>1, LogKept
<1>2. CASE S!Stall
  <2>1. /\ stream # NoStream /\ Status = "streaming" /\ stream \in S!Streams
        /\ stream' = [stream EXCEPT !.status = "unavailable", !.expires = TRUE]
        /\ frames' = frames /\ writing' = writing /\ frame' = frame
    BY <1>2, LogFacts DEF S!Stall, S!writers
  <2>2. stream' \in S!Streams /\ stream'.status = "unavailable" /\ stream'.last = stream.last
    BY <2>1 DEF S!Streams, S!Statuses
  <2>3. Status' = "unavailable"
    BY <2>2, StreamAssumption DEF Status
  <2>4. Logged
    BY <2>1, <2>3, LogGivesUp DEF Logged
  <2>5. MarkedIsLast' /\ frames' \in Seq(S!Kinds)
    BY <2>1, <2>2 DEF LogInv, MarkedIsLast
  <2> QED BY <2>3, <2>4, <2>5 DEF Follows, ClosedIsDone, Closed
<1>3. CASE S!Purge \/ S!DeleteStreams
  <2>1. stream' = NoStream /\ frames' = << >>
    BY <1>3 DEF S!Purge, S!DeleteStreams
  <2>2. Logged
    BY <2>1, LogErases DEF Logged
  <2>3. ~Closed' /\ MarkedIsLast' /\ frames' \in Seq(S!Kinds)
    BY <2>1 DEF Closed, Status, MarkedIsLast
  <2> QED BY <2>2, <2>3 DEF Follows, ClosedIsDone
<1>4. CASE \/ S!Age \/ S!Archive \/ S!DeleteKeys \/ S!DeleteContent \/ S!DieDeleting
           \/ S!ReaderStep \/ S!Cut \/ UNCHANGED streamVars
  BY <1>1, <1>4 DEF S!Age, S!Archive, S!DeleteKeys, S!DeleteContent, S!DieDeleting, S!ReaderStep, S!List,
     S!Deliver, S!ReadState, S!Cut, S!rows, S!writers, streamVars
<1> QED BY <1>2, <1>3, <1>4

LEMMA LogStart == S!Init => LogInv /\ S!Log!Init
<1> SUFFICES ASSUME S!Init PROVE LogInv /\ S!Log!Init
  OBVIOUS
<1>1. stream = NoStream /\ frames = << >> /\ Status = "none"
  BY DEF S!Init, Status
<1>2. \A t \in S!Threads : writing[t] # "mark"
  BY DEF S!Init
<1>3. ClosedIsDone /\ MarkedIsLast
  BY <1>1, <1>2 DEF ClosedIsDone, Closed, MarkedIsLast
<1>4. S!Log!Init
  BY <1>1 DEF S!Log!Init, Status
<1> QED BY <1>1, <1>3, <1>4, StreamStart DEF LogInv

LEMMA LogStep ==
    LogInv /\ [S!Next]_streamVars => LogInv' /\ [S!Log!Next]_(S!Log!vars)
<1> SUFFICES ASSUME LogInv, [S!Next]_streamVars PROVE LogInv' /\ [S!Log!Next]_(S!Log!vars)
  OBVIOUS
<1>1. ASSUME NEW t \in S!Threads, S!Progress(t) \/ S!Crash(t) PROVE Logged /\ Follows'
  <2>1. CASE S!Write(t) \/ S!Tell(t) \/ S!Mark(t)
    BY <2>1, LogWrite, LogTell, LogMark
  <2>2. CASE S!Crash(t) \/ S!Remember \/ S!Lookup \/ S!Look \/ S!Reopen
    BY <2>2, LogThread
  <2> QED BY <1>1, <2>1, <2>2 DEF S!Progress
<1>2. "sender" \in S!Threads
  BY DEF S!Threads
<1>3. Logged /\ Follows'
  BY <1>1, <1>2, LogThread, LogAround DEF S!Next
<1>4. StreamInv'
  BY StreamStep DEF LogInv
<1> QED BY <1>3, <1>4 DEF LogInv, Follows, Logged, Status, S!Log!vars

\* Whatever writes, gives up, marks, purges and deletes a stream, and wherever
\* it fails or dies, it only grows by frames at its end, has one end, of which
\* its status speaks, and stays given up (conversation/stream.py).
THEOREM StreamImplementsLog == Spec => StreamIsLog
<1>1. Init => LogInv /\ S!Log!Init
  BY LogStart DEF Init
<1>2. LogInv /\ [Next]_vars => LogInv' /\ [S!Log!Next]_(S!Log!vars)
  BY LogStep, StreamOfSystem
<1> QED BY <1>1, <1>2, PTL DEF Spec, StreamIsLog, S!StreamIsLog, S!Log!Spec
=============================================================================
