--------------------------- MODULE ApprovalProofs ---------------------------
(***************************************************************************)
(* Theorems about the tool action that waits for an approval, a part of    *)
(* MCBusiness: with deciders, crashes and failures in any number, what     *)
(* runs was approved, runs once, and the records agree about it.           *)
(***************************************************************************)
EXTENDS MCBusiness, TLAPS

-----------------------------------------------------------------------------
(*            The approval of a tool action: inductive invariant           *)

\* What the steps that only read leave alone.
rowsAndRan == <<run, sequences, action, ran>>

Busy(p) == pc[p] \notin {"idle", "done"}

\* Places at which a decider is about to emit an event, places of its second
\* pass, and places of the message request while the run cannot disappear.
Emitting == {"decide", "end", "cancel"}
SecondPass == {"mark", "check", "execute"}
Registering == {"snapshot", "record", "bill", "persist"}

\* The runtime took a decision of d, and d is not through with it.
Past(d) ==
    \/ pc[d] \in {"end", "list", "settle", "resume"} \cup SecondPass
    \/ pc[d] \in {"snapshot", "record", "bill"} /\ choice[d] # "cancel"

\* The run is there and stays: its action is stored, or its message is about
\* to store it.
Sound == action # NoRow \/ pc[Sender] \in Registering

VerdictOf(c) == IF c = "approve" THEN "approved" ELSE "rejected"

\* The places of a request of its kind, with the copies they need.
DeciderOK(d) ==
    /\ pc[d] \notin {"start", "persist", "unrecord", "unstate", "done"}
    /\ pc[d] \in {"authorize", "decide", "end", "list", "settle"} => choice[d] \in {"approve", "reject"}
    /\ pc[d] = "read" => choice[d] \in X!Choices
    /\ pc[d] = "cancel" => choice[d] = "cancel"
    /\ pc[d] \in {"resume"} \cup SecondPass => choice[d] = "approve"
    /\ pc[d] \in Emitting \cup {"record", "bill"} => mem[d] \in X!Runs
    /\ pc[d] = "settle" => row[d] \in X!Actions
    /\ action = NoRow => pc[d] \notin {"settle"} \cup SecondPass

SenderOK ==
    /\ pc[Sender] \in Registering \cup {"start", "unrecord", "unstate", "done"}
    /\ pc[Sender] \in {"record", "bill"} => mem[Sender] \in X!Runs
    /\ pc[Sender] = "start" => run = NoRow /\ \A d \in Deciders : pc[d] = "idle"
    /\ pc[Sender] # "done" => action = NoRow
    /\ action = NoRow => ran = 0

\* What a decider still knows of the rows, whatever others did meanwhile: a
\* copy that can be written is the row.  Only one is past its decision.
Knows(d) ==
    /\ pc[d] \in Emitting => /\ mem[d].count <= run.count
                             /\ mem[d].count = run.count => mem[d] = run
    /\ pc[d] = "decide" => mem[d].verdict = "pending"
    /\ pc[d] \in {"end", "list", "settle"} => run.verdict = VerdictOf(choice[d])
    /\ pc[d] = "settle" => row[d].body = HasBody
    /\ pc[d] \in SecondPass => action.status = "approved"

OnePast ==
    \A d \in Deciders : Past(d) =>
        /\ ran = 0 /\ run.verdict # "pending"
        /\ \A e \in Deciders : Past(e) => e = d

RunOK ==
    /\ run \in X!Runs /\ sequences = 1 .. run.count
    /\ ran <= 1
    /\ run.verdict = "pending" => ran = 0

ActionOK == X!AuthorityFollowsDecision /\ X!BodyLivesWithAction

\* As long as nothing overlaps one is in progress, its copies are the rows, and
\* a decision is on its way to the action.
Takes1 == \A p, q \in X!Processes : p # q => ~Busy(p) \/ ~Busy(q)
Alone(d) ==
    /\ Sound /\ pc[d] \in Emitting => mem[d] = run
    /\ pc[d] = "settle" => action.status = "pending"
OnItsWay ==
    action # NoRow /\ run.verdict # "pending" /\ action.status = "pending"
        => \E d \in Deciders : pc[d] \in {"end", "list", "settle"}

CalmOK ==
    /\ Takes1
    /\ \A d \in Deciders : Alone(d)
    /\ pc[Sender] \in Registering => run.verdict = "pending"
    /\ OnItsWay

ApprovalInv ==
    /\ X!TypeOK /\ SenderOK
    /\ \A d \in Deciders : DeciderOK(d)
    /\ Sound => RunOK /\ ActionOK /\ OnePast /\ \A d \in Deciders : Knows(d)
    /\ calm => CalmOK

-----------------------------------------------------------------------------
(*                         What a step leaves alone                        *)

\* Only p moves.
Moves(p) ==
    /\ pc' \in [X!Processes -> X!Pcs] /\ choice' \in [X!Processes -> X!Choices \cup {"none"}]
    /\ mem' \in [X!Processes -> X!Runs \cup {NoRow}]
    /\ row' \in [X!Processes -> X!Actions \cup {NoRow}]
    /\ \A q \in X!Processes \ {p} :
          pc'[q] = pc[q] /\ choice'[q] = choice[q] /\ mem'[q] = mem[q] /\ row'[q] = row[q]

LEMMA LeaveMoves ==
    ASSUME X!TypeOK, NEW p \in X!Processes, X!Leave(p)
    PROVE  /\ Moves(p) /\ pc'[p] = IF p = Sender THEN "done" ELSE "idle"
<1>1. {"done", "idle"} \subseteq X!Pcs
  BY DEF X!Pcs
<1>2. /\ pc' = [pc EXCEPT ![p] = IF p = Sender THEN "done" ELSE "idle"]
      /\ choice' = [choice EXCEPT ![p] = "none"]
      /\ mem' = [mem EXCEPT ![p] = NoRow] /\ row' = [row EXCEPT ![p] = NoRow]
  BY DEF X!Leave, X!Go
<1>3. /\ pc \in [X!Processes -> X!Pcs] /\ choice \in [X!Processes -> X!Choices \cup {"none"}]
      /\ mem \in [X!Processes -> X!Runs \cup {NoRow}]
      /\ row \in [X!Processes -> X!Actions \cup {NoRow}]
  BY DEF X!TypeOK
<1> QED BY <1>1, <1>2, <1>3 DEF Moves

LEMMA GoMoves ==
    ASSUME X!TypeOK, NEW p \in X!Processes, NEW n \in X!Pcs, X!Go(p, n),
           NEW c \in X!Choices \cup {"none"}, choice' = choice \/ choice' = [choice EXCEPT ![p] = c],
           NEW s \in X!Runs \cup {NoRow}, mem' = mem \/ mem' = [mem EXCEPT ![p] = s],
           NEW r \in X!Actions \cup {NoRow}, row' = row \/ row' = [row EXCEPT ![p] = r]
    PROVE  Moves(p) /\ pc'[p] = n
<1>1. /\ pc \in [X!Processes -> X!Pcs] /\ choice \in [X!Processes -> X!Choices \cup {"none"}]
      /\ mem \in [X!Processes -> X!Runs \cup {NoRow}]
      /\ row \in [X!Processes -> X!Actions \cup {NoRow}]
  BY DEF X!TypeOK
<1>2. pc' \in [X!Processes -> X!Pcs] /\ pc'[p] = n /\ \A q \in X!Processes \ {p} : pc'[q] = pc[q]
  BY <1>1 DEF X!Go
<1>3. choice' \in [X!Processes -> X!Choices \cup {"none"}] /\ \A q \in X!Processes \ {p} : choice'[q] = choice[q]
  BY <1>1
<1>4. mem' \in [X!Processes -> X!Runs \cup {NoRow}] /\ \A q \in X!Processes \ {p} : mem'[q] = mem[q]
  BY <1>1
<1>5. row' \in [X!Processes -> X!Actions \cup {NoRow}] /\ \A q \in X!Processes \ {p} : row'[q] = row[q]
  BY <1>1
<1> QED BY <1>2, <1>3, <1>4, <1>5 DEF Moves

\* A step of one request that leaves run, action and executions alone: what is
\* to be shown is what it knows itself.
LEMMA StepAlone ==
    ASSUME ApprovalInv, NEW p \in X!Processes, Moves(p), Busy(p),
           UNCHANGED <<run, sequences, action, ran>>, X!TypeOK', calm' => calm,
           SenderOK', Sound' => Sound,
           p \in Deciders => /\ DeciderOK(p)' /\ (Past(p)' => Past(p))
                             /\ Sound => Knows(p)'
                             /\ calm' => Alone(p)',
           calm' => OnItsWay'
    PROVE  ApprovalInv'
<1>1. ASSUME NEW d \in Deciders PROVE DeciderOK(d)'
  <2>1. CASE d = p
    BY <2>1
  <2>2. CASE d # p
    <3>1. d \in X!Processes \ {p}
      BY <2>2 DEF X!Processes
    <3>2. pc'[d] = pc[d] /\ choice'[d] = choice[d] /\ mem'[d] = mem[d] /\ row'[d] = row[d]
      BY <3>1 DEF Moves
    <3> QED BY <3>2 DEF ApprovalInv, DeciderOK
  <2> QED BY <2>1, <2>2
<1>2. \A d \in Deciders : Past(d)' => Past(d)
  <2>1. SUFFICES ASSUME NEW d \in Deciders, d # p PROVE Past(d)' => Past(d)
    OBVIOUS
  <2>2. pc'[d] = pc[d] /\ choice'[d] = choice[d]
    BY <2>1 DEF Moves, X!Processes
  <2> QED BY <2>2 DEF Past
<1>3. ASSUME Sound', NEW d \in Deciders PROVE Knows(d)'
  <2>1. CASE d = p
    BY <1>3, <2>1
  <2>2. CASE d # p
    <3>1. pc'[d] = pc[d] /\ choice'[d] = choice[d] /\ mem'[d] = mem[d] /\ row'[d] = row[d]
      BY <2>2 DEF Moves, X!Processes
    <3>2. Knows(d)
      BY <1>3 DEF ApprovalInv
    <3> QED BY <3>1, <3>2 DEF Knows
  <2> QED BY <2>1, <2>2
<1>4. Sound' => RunOK' /\ ActionOK' /\ OnePast'
  BY <1>2 DEF OnePast, ApprovalInv, RunOK, ActionOK, X!AuthorityFollowsDecision, X!BodyLivesWithAction
<1>5. ASSUME calm' PROVE CalmOK'
  <2>1. CalmOK
    BY <1>5 DEF ApprovalInv
  <2>2. \A q \in X!Processes \ {p} : ~Busy(q) /\ ~Busy(q)'
    BY <2>1 DEF CalmOK, Takes1, Busy, Moves
  <2>3. Takes1'
    BY <2>2 DEF Takes1
  <2>4. ASSUME NEW d \in Deciders PROVE Alone(d)'
    <3>1. CASE d = p
      BY <1>5, <3>1
    <3>2. CASE d # p
      BY <2>2, <3>2 DEF X!Processes, Busy, Alone, Emitting
    <3> QED BY <3>1, <3>2
  <2>5. pc'[Sender] \in Registering => run.verdict' = "pending"
    <3>1. ASSUME pc'[Sender] \in Registering PROVE pc[Sender] \in Registering
      <4>1. CASE action = NoRow
        BY <3>1, <4>1 DEF Sound
      <4>2. CASE action # NoRow
        BY <3>1, <4>2 DEF SenderOK, Registering
      <4> QED BY <4>1, <4>2
    <3> QED BY <2>1, <3>1 DEF CalmOK
  <2> QED BY <1>5, <2>3, <2>4, <2>5 DEF CalmOK
<1> QED BY <1>1, <1>3, <1>4, <1>5 DEF ApprovalInv

\* A request ends, refused or dead, wherever it was.
LEMMA LeavingKeeps ==
    ASSUME ApprovalInv, NEW p \in X!Processes, Busy(p), pc[p] # "start", X!Leave(p),
           UNCHANGED <<rowsAndRan, record, due, billed>>, calm' \in BOOLEAN, calm' => calm,
           calm' => OnItsWay'
    PROVE  ApprovalInv'
<1>1. Moves(p) /\ pc'[p] = IF p = Sender THEN "done" ELSE "idle"
  BY LeaveMoves DEF ApprovalInv
<1>2. X!TypeOK'
  BY <1>1 DEF Moves, ApprovalInv, X!TypeOK, rowsAndRan
<1>3. p # Sender => pc'[Sender] = pc[Sender] /\ mem'[Sender] = mem[Sender]
  BY <1>1 DEF Moves, X!Processes
<1>4. SenderOK'
  <2>1. CASE p = Sender
    BY <1>1, <2>1 DEF SenderOK, ApprovalInv, Registering, rowsAndRan, Busy
  <2>2. CASE p # Sender
    <3>1. pc[Sender] # "start"
      BY <2>2 DEF ApprovalInv, SenderOK, Busy, X!Processes
    <3> QED BY <1>3, <2>2, <3>1 DEF SenderOK, ApprovalInv, rowsAndRan
  <2> QED BY <2>1, <2>2
<1>5. Sound' => Sound
  BY <1>1, <1>3 DEF Sound, Registering, rowsAndRan
<1>6. p \in Deciders => /\ DeciderOK(p)' /\ ~Past(p)' /\ Knows(p)' /\ Alone(p)'
  <2>1. p \in Deciders => pc'[p] = "idle"
    BY <1>1, ApprovalAssumption
  <2> QED BY <2>1 DEF DeciderOK, Past, Knows, Alone, Emitting, SecondPass
<1> QED BY <1>1, <1>2, <1>4, <1>5, <1>6, StepAlone DEF rowsAndRan

\* A decider takes a step that only reads, or writes the record or the ledger.
LEMMA DeciderKeeps ==
    ASSUME ApprovalInv, NEW d \in Deciders, Busy(d), Moves(d),
           UNCHANGED <<rowsAndRan, due, calm>>, record' \in X!Records \cup {NoRow}, billed' \in BOOLEAN,
           DeciderOK(d)', Past(d)' => Past(d), Sound => Knows(d)', calm => Alone(d)',
           calm => OnItsWay'
    PROVE  ApprovalInv'
<1>1. d \in X!Processes /\ d # Sender /\ Sender \in X!Processes
  BY ApprovalAssumption DEF X!Processes
<1>2. X!TypeOK'
  BY DEF Moves, ApprovalInv, X!TypeOK, rowsAndRan
<1>3. pc'[Sender] = pc[Sender] /\ mem'[Sender] = mem[Sender]
  BY <1>1 DEF Moves
<1>4. SenderOK'
  <2>1. pc[Sender] # "start"
    BY DEF ApprovalInv, SenderOK, Busy
  <2> QED BY <1>3, <2>1 DEF SenderOK, ApprovalInv, rowsAndRan
<1>5. Sound' => Sound
  BY <1>3 DEF Sound, rowsAndRan
<1> QED BY <1>1, <1>2, <1>4, <1>5, StepAlone DEF rowsAndRan

\* OnItsWay needs one of the places a decision passes, so it stays unless that
\* decider leaves them.
LEMMA StaysOnItsWay ==
    ASSUME OnItsWay, NEW d \in Deciders, Moves(d), UNCHANGED <<run, action>>,
           \/ pc[d] \notin {"end", "list", "settle"}
           \/ pc'[d] \in {"end", "list", "settle"}
           \/ action = NoRow \/ action.status # "pending"
    PROVE  OnItsWay'
<1> SUFFICES ASSUME action # NoRow, run.verdict # "pending", action.status = "pending"
             PROVE  \E e \in Deciders : pc'[e] \in {"end", "list", "settle"}
  BY DEF OnItsWay
<1>1. PICK e \in Deciders : pc[e] \in {"end", "list", "settle"}
  BY DEF OnItsWay
<1>2. CASE e = d
  BY <1>1, <1>2
<1>3. CASE e # d
  BY <1>1, <1>3 DEF Moves, X!Processes
<1> QED BY <1>2, <1>3

-----------------------------------------------------------------------------
(*                         The steps of a decider                          *)

LEMMA KeepsBegin ==
    ASSUME ApprovalInv, NEW d \in Deciders, NEW c \in X!Choices, X!Begin(d, c)
    PROVE  ApprovalInv'
<1>1. d \in X!Processes /\ d # Sender /\ Sender \in X!Processes /\ pc[d] = "idle"
  BY ApprovalAssumption DEF X!Processes, X!Begin
<1>2. {"read", "authorize"} \subseteq X!Pcs
  BY DEF X!Pcs
<1>3. Moves(d) /\ pc'[d] = (IF c = "cancel" THEN "read" ELSE "authorize") /\ choice'[d] = c
  <2>1. choice \in [X!Processes -> X!Choices \cup {"none"}]
    BY DEF ApprovalInv, X!TypeOK
  <2>2. Moves(d) /\ pc'[d] = (IF c = "cancel" THEN "read" ELSE "authorize")
    BY <1>1, <1>2, GoMoves DEF X!Begin, ApprovalInv
  <2> QED BY <1>1, <2>1, <2>2 DEF X!Begin
<1>4. UNCHANGED <<run, sequences, record, action, due, billed, ran>> /\ run # NoRow
      /\ calm' = (calm /\ X!Quiet)
  BY DEF X!Begin, X!rows, X!ComeIn
<1>5. X!TypeOK'
  BY <1>3, <1>4 DEF Moves, ApprovalInv, X!TypeOK
<1>6. pc'[Sender] = pc[Sender] /\ mem'[Sender] = mem[Sender]
  BY <1>1, <1>3 DEF Moves
<1>7. SenderOK'
  <2>1. pc[Sender] # "start"
    BY <1>4 DEF ApprovalInv, SenderOK
  <2> QED BY <1>4, <1>6, <2>1 DEF SenderOK, ApprovalInv
<1>8. DeciderOK(d)' /\ Knows(d)' /\ Alone(d)' /\ ~Past(d)'
  BY <1>3 DEF DeciderOK, Knows, Alone, Past, Emitting, SecondPass, X!Choices
<1>9. \A e \in Deciders \ {d} : pc'[e] = pc[e] /\ choice'[e] = choice[e] /\ mem'[e] = mem[e] /\ row'[e] = row[e]
  BY <1>1, <1>3 DEF Moves, X!Processes
<1>10. ASSUME NEW e \in Deciders \ {d} PROVE DeciderOK(e)' /\ (Sound => Knows(e)')
  <2>1. DeciderOK(e) /\ (Sound => Knows(e))
    BY DEF ApprovalInv
  <2> QED BY <1>4, <1>9, <2>1 DEF DeciderOK, Knows
<1>11. Sound' => Sound /\ RunOK' /\ ActionOK' /\ OnePast'
  <2>1. \A e \in Deciders : Past(e)' => Past(e)
    BY <1>8, <1>9 DEF Past
  <2> QED BY <1>4, <1>6, <2>1 DEF OnePast, ApprovalInv, Sound, RunOK, ActionOK, X!AuthorityFollowsDecision, X!BodyLivesWithAction
<1>12. ASSUME calm' PROVE CalmOK'
  <2>1. CalmOK /\ \A q \in X!Processes : ~Busy(q)
    BY <1>4, <1>12 DEF ApprovalInv, X!Quiet, Busy
  <2>2. \A q \in X!Processes \ {d} : ~Busy(q)'
    BY <1>3, <2>1 DEF Busy, Moves
  <2>3. Takes1'
    BY <2>2 DEF Takes1
  <2>4. \A e \in Deciders : Alone(e)'
    BY <1>8, <2>2 DEF X!Processes, Busy, Alone, Emitting
  <2>5. pc'[Sender] \notin Registering
    BY <1>1, <1>6, <2>1 DEF Busy, Registering
  <2>6. OnItsWay'
    BY <1>1, <1>3, <1>4, <2>1, StaysOnItsWay DEF CalmOK
  <2> QED BY <2>3, <2>4, <2>5, <2>6 DEF CalmOK
<1> QED BY <1>5, <1>7, <1>8, <1>10, <1>11, <1>12 DEF ApprovalInv

\* A refusal where no decision is on its way.
LEMMA RefusalKeeps ==
    ASSUME ApprovalInv, NEW p \in X!Processes, Busy(p), pc[p] # "start", X!Refuse(p),
           \/ pc[p] \notin {"end", "list", "settle"}
           \/ p = Sender
           \/ ~calm \/ action = NoRow
    PROVE  ApprovalInv'
<1>1. X!Leave(p) /\ UNCHANGED <<run, sequences, action, ran, record, due, billed, calm>>
  BY DEF X!Refuse, X!rows, X!effects
<1>2. calm' \in BOOLEAN
  BY <1>1 DEF ApprovalInv, X!TypeOK
<1>3. ASSUME calm' PROVE OnItsWay'
  <2>1. OnItsWay /\ Moves(p)
    BY <1>1, <1>3, LeaveMoves DEF ApprovalInv, CalmOK
  <2>2. CASE p \in Deciders
    BY <1>1, <1>3, <2>1, <2>2, StaysOnItsWay, ApprovalAssumption
  <2>3. CASE p \notin Deciders
    BY <1>1, <2>1, <2>3 DEF OnItsWay, Moves, X!Processes
  <2> QED BY <2>2, <2>3
<1> QED BY <1>1, <1>2, <1>3, LeavingKeeps DEF rowsAndRan

LEMMA KeepsAuthorize ==
    ASSUME ApprovalInv, NEW d \in Deciders, X!Authorize(d)
    PROVE  ApprovalInv'
<1>1. d \in X!Processes /\ pc[d] = "authorize" /\ Busy(d) /\ "read" \in X!Pcs
  BY DEF X!Processes, X!Authorize, Busy, X!Pcs
<1>2. CASE X!Refuse(d)
  BY <1>1, <1>2, RefusalKeeps
<1>3. CASE /\ record # NoRow
           /\ record' = [record EXCEPT !.authorized = choice[d] = "approve"]
           /\ X!Go(d, "read")
           /\ UNCHANGED <<run, sequences, action, X!effects, choice, mem, row>>
  <2>1. Moves(d) /\ pc'[d] = "read"
    BY <1>1, <1>3, GoMoves DEF ApprovalInv, X!TypeOK
  <2>2. record' \in X!Records \cup {NoRow} /\ billed' \in BOOLEAN
    BY <1>3 DEF ApprovalInv, X!TypeOK, X!Records, X!effects
  <2>3. UNCHANGED <<run, sequences, action, ran, due, calm>>
    BY <1>3 DEF X!effects
  <2>4. DeciderOK(d)' /\ ~Past(d)' /\ Knows(d)' /\ Alone(d)'
    <3>1. choice'[d] \in X!Choices
      BY <1>1, <1>3 DEF ApprovalInv, DeciderOK, X!Choices
    <3> QED BY <2>1, <3>1 DEF DeciderOK, Past, Knows, Alone, Emitting, SecondPass
  <2>5. calm => OnItsWay'
    BY <1>1, <2>1, <2>3, StaysOnItsWay DEF ApprovalInv, CalmOK
  <2> QED BY <1>1, <2>1, <2>2, <2>3, <2>4, <2>5, DeciderKeeps DEF rowsAndRan
<1> QED BY <1>2, <1>3 DEF X!Authorize

LEMMA KeepsRead ==
    ASSUME ApprovalInv, NEW d \in Deciders, X!Read(d)
    PROVE  ApprovalInv'
<1>1. d \in X!Processes /\ pc[d] = "read" /\ Busy(d) /\ {"cancel", "decide"} \subseteq X!Pcs
  BY DEF X!Processes, X!Read, Busy, X!Pcs
<1>2. CASE X!Refuse(d)
  BY <1>1, <1>2, RefusalKeeps
<1>3. CASE /\ run # NoRow /\ run.status \notin X!Terminal
           /\ choice[d] = "cancel" \/ run.verdict = "pending"
           /\ mem' = [mem EXCEPT ![d] = run]
           /\ X!Go(d, IF choice[d] = "cancel" THEN "cancel" ELSE "decide")
           /\ UNCHANGED <<X!rows, X!effects, choice, row>>
  <2>1. run \in X!Runs /\ mem'[d] = run
    BY <1>1, <1>3 DEF ApprovalInv, X!TypeOK
  <2>2. Moves(d) /\ pc'[d] = (IF choice[d] = "cancel" THEN "cancel" ELSE "decide") /\ choice'[d] = choice[d]
    BY <1>1, <1>3, <2>1, GoMoves DEF ApprovalInv, X!TypeOK
  <2>3. UNCHANGED <<run, sequences, action, ran, due, calm, record, billed>>
    BY <1>3 DEF X!effects, X!rows
  <2>4. choice[d] \in X!Choices
    BY <1>1 DEF ApprovalInv, DeciderOK
  <2>5. DeciderOK(d)' /\ ~Past(d)'
    BY <2>1, <2>2, <2>4 DEF DeciderOK, Past, Emitting, SecondPass, X!Choices
  <2>6. Knows(d)' /\ Alone(d)'
    <3>1. run.count \in Nat
      BY <2>1 DEF X!Runs
    <3> QED BY <1>3, <2>1, <2>2, <2>3, <2>5, <3>1 DEF Knows, Alone, Emitting, SecondPass
  <2>7. calm => OnItsWay'
    BY <1>1, <2>2, <2>3, StaysOnItsWay DEF ApprovalInv, CalmOK
  <2>8. record' \in X!Records \cup {NoRow} /\ billed' \in BOOLEAN
    BY <2>3 DEF ApprovalInv, X!TypeOK
  <2> QED BY <1>1, <2>2, <2>3, <2>5, <2>6, <2>7, <2>8, DeciderKeeps DEF rowsAndRan
<1> QED BY <1>2, <1>3 DEF X!Read

LEMMA KeepsList ==
    ASSUME ApprovalInv, NEW d \in Deciders, X!List(d)
    PROVE  ApprovalInv'
<1>1. d \in X!Processes /\ pc[d] = "list" /\ Busy(d) /\ Past(d) /\ {"snapshot", "settle"} \subseteq X!Pcs
  BY DEF X!Processes, X!List, Busy, Past, X!Pcs
<1>2. UNCHANGED <<run, sequences, action, ran, due, calm, record, billed, choice, mem>>
  BY DEF X!List, X!effects, X!rows
<1>3. choice[d] \in {"approve", "reject"} /\ (Sound => Knows(d)) /\ (calm => OnItsWay)
  BY <1>1 DEF ApprovalInv, DeciderOK, CalmOK
<1>4. record' \in X!Records \cup {NoRow} /\ billed' \in BOOLEAN /\ action \in X!Actions \cup {NoRow}
  BY <1>2 DEF ApprovalInv, X!TypeOK
<1>5. CASE (action = NoRow \/ action.status # "pending") /\ X!Go(d, "snapshot") /\ UNCHANGED row
  <2>1. Moves(d) /\ pc'[d] = "snapshot" /\ choice'[d] = choice[d]
    BY <1>1, <1>2, <1>5, GoMoves DEF ApprovalInv, X!TypeOK
  <2>2. DeciderOK(d)' /\ Alone(d)' /\ Knows(d)'
    BY <2>1 DEF DeciderOK, Alone, Knows, Emitting, SecondPass
  <2>3. calm => OnItsWay'
    BY <1>2, <1>3, <1>5, <2>1, StaysOnItsWay
  <2> QED BY <1>1, <1>2, <1>4, <2>1, <2>2, <2>3, DeciderKeeps DEF rowsAndRan
<1>6. CASE /\ action # NoRow /\ action.status = "pending"
           /\ X!Go(d, "settle") /\ row' = [row EXCEPT ![d] = action]
  <2>1. Moves(d) /\ pc'[d] = "settle" /\ choice'[d] = choice[d] /\ row'[d] = action
    <3>1. row \in [X!Processes -> X!Actions \cup {NoRow}]
      BY DEF ApprovalInv, X!TypeOK
    <3> QED BY <1>1, <1>2, <1>4, <1>6, <3>1, GoMoves DEF ApprovalInv, X!TypeOK
  <2>2. DeciderOK(d)' /\ Alone(d)'
    BY <1>2, <1>3, <1>4, <1>6, <2>1 DEF DeciderOK, Alone, Emitting, SecondPass
  <2>3. Sound => Knows(d)'
    <3>1. ASSUME Sound PROVE action.body = HasBody
      <4>1. action.body \in BOOLEAN /\ (action.body <=> HasBody)
        BY <1>4, <1>6, <3>1 DEF ApprovalInv, ActionOK, X!BodyLivesWithAction, X!Actions
      <4> QED BY <4>1, ApprovalAssumption
    <3> QED BY <1>1, <1>2, <1>3, <2>1, <3>1 DEF Knows, Emitting, SecondPass
  <2>4. calm => OnItsWay'
    BY <1>2, <1>3, <2>1, StaysOnItsWay
  <2> QED BY <1>1, <1>2, <1>4, <2>1, <2>2, <2>3, <2>4, DeciderKeeps DEF rowsAndRan, Past
<1> QED BY <1>5, <1>6, <1>2 DEF X!List

\* Snapshot, WriteRecord and Bill leave the run and the action alone; what is
\* left to show is where p arrives.
LEMMA SyncKeeps ==
    ASSUME ApprovalInv, NEW p \in X!Processes, pc[p] \in {"snapshot", "record", "bill"},
           Moves(p), UNCHANGED <<rowsAndRan, due, calm>>, record' \in X!Records \cup {NoRow},
           billed' \in BOOLEAN,
           \/ pc'[p] \in {"record", "bill"} /\ choice'[p] = choice[p] /\ mem'[p] \in X!Runs
           \/ p # Sender /\ pc'[p] = "idle"
           \/ p # Sender /\ pc'[p] = "resume" /\ choice'[p] = choice[p] /\ choice[p] = "approve"
           \/ p = Sender /\ pc'[p] = "persist"
    PROVE  ApprovalInv'
<1>1. CASE p \in Deciders
  <2>1. p # Sender /\ Busy(p)
    BY <1>1, ApprovalAssumption DEF Busy
  <2>2. DeciderOK(p)' /\ Knows(p)' /\ Alone(p)' /\ (Past(p)' => Past(p))
    BY <2>1 DEF DeciderOK, Knows, Alone, Past, Emitting, SecondPass
  <2>3. calm => OnItsWay'
    BY <1>1, StaysOnItsWay DEF ApprovalInv, CalmOK, rowsAndRan
  <2> QED BY <1>1, <2>1, <2>2, <2>3, DeciderKeeps
<1>2. CASE p \notin Deciders
  <2>1. p = Sender /\ Busy(p)
    BY <1>2 DEF X!Processes, Busy
  <2>2. SenderOK'
    BY <2>1 DEF ApprovalInv, SenderOK, Registering, rowsAndRan
  <2>3. Sound' => Sound
    BY <2>1 DEF Sound, Registering, rowsAndRan
  <2>4. X!TypeOK'
    BY DEF Moves, ApprovalInv, X!TypeOK, rowsAndRan
  <2>5. calm => OnItsWay'
    BY <1>2 DEF ApprovalInv, CalmOK, OnItsWay, Moves, X!Processes, rowsAndRan
  <2> QED BY <1>2, <2>1, <2>2, <2>3, <2>4, <2>5, StepAlone DEF rowsAndRan
<1> QED BY <1>1, <1>2

LEMMA KeepsSnapshot ==
    ASSUME ApprovalInv, NEW p \in X!Processes, X!Snapshot(p)
    PROVE  ApprovalInv'
<1>1. pc[p] = "snapshot" /\ Busy(p) /\ "record" \in X!Pcs
  BY DEF X!Snapshot, Busy, X!Pcs
<1>2. CASE X!Refuse(p)
  BY <1>1, <1>2, RefusalKeeps
<1>3. CASE /\ run # NoRow /\ mem' = [mem EXCEPT ![p] = run] /\ X!Go(p, "record")
           /\ UNCHANGED <<X!rows, X!effects, choice, row>>
  <2>1. run \in X!Runs /\ mem'[p] = run /\ choice \in [X!Processes -> X!Choices \cup {"none"}]
    BY <1>3 DEF ApprovalInv, X!TypeOK
  <2>2. Moves(p) /\ pc'[p] = "record" /\ choice'[p] = choice[p]
    BY <1>1, <1>3, <2>1, GoMoves DEF ApprovalInv, X!TypeOK
  <2>3. UNCHANGED <<run, sequences, action, ran, due, calm, record, billed>>
    BY <1>3 DEF X!effects, X!rows
  <2>4. record' \in X!Records \cup {NoRow} /\ billed' \in BOOLEAN
    BY <2>3 DEF ApprovalInv, X!TypeOK
  <2> QED BY <1>1, <2>1, <2>2, <2>3, <2>4, SyncKeeps DEF rowsAndRan
<1> QED BY <1>2, <1>3 DEF X!Snapshot

LEMMA SyncedMoves ==
    ASSUME ApprovalInv, NEW p \in X!Processes, X!Synced(p), pc[p] \in {"record", "bill"}
    PROVE  /\ Moves(p)
           /\ \/ p # Sender /\ pc'[p] = "idle"
              \/ p # Sender /\ pc'[p] = "resume" /\ choice'[p] = choice[p] /\ choice[p] = "approve"
              \/ p = Sender /\ pc'[p] = "persist"
<1>1. X!TypeOK
  BY DEF ApprovalInv
<1>2. CASE p # Sender /\ choice[p] # "approve"
  BY <1>1, <1>2, LeaveMoves DEF X!Synced
<1>3. CASE p = Sender \/ choice[p] = "approve"
  <2>1. {"persist", "resume"} \subseteq X!Pcs
    BY DEF X!Pcs
  <2>2. /\ X!Go(p, IF p = Sender THEN "persist" ELSE "resume")
        /\ mem' = [mem EXCEPT ![p] = NoRow] /\ row' = [row EXCEPT ![p] = NoRow] /\ choice' = choice
    BY <1>3 DEF X!Synced
  <2>3. Moves(p) /\ pc'[p] = (IF p = Sender THEN "persist" ELSE "resume")
    BY <1>1, <2>1, <2>2, GoMoves
  <2> QED BY <1>3, <2>2, <2>3
<1> QED BY <1>2, <1>3

LEMMA KeepsWriteRecord ==
    ASSUME ApprovalInv, NEW p \in X!Processes, X!WriteRecord(p)
    PROVE  ApprovalInv'
<1>1. pc[p] = "record" /\ "bill" \in X!Pcs /\ mem[p] \in X!Runs
  <2>1. p \in Deciders \/ p = Sender
    BY DEF X!Processes
  <2> QED BY <2>1 DEF X!WriteRecord, X!Pcs, ApprovalInv, DeciderOK, SenderOK
<1>2. UNCHANGED <<run, sequences, action, ran, due, calm, billed>>
  BY DEF X!WriteRecord, X!effects
<1>3. record' \in X!Records \cup {NoRow} /\ billed' \in BOOLEAN
  <2>1. record' = [status |-> mem[p].status, authorized |-> IF record = NoRow THEN FALSE ELSE record.authorized]
    BY DEF X!WriteRecord
  <2>2. record \in X!Records \cup {NoRow} /\ billed' \in BOOLEAN
    BY <1>2 DEF ApprovalInv, X!TypeOK
  <2> QED BY <1>1, <2>1, <2>2 DEF X!Records, X!Runs
<1>4. CASE X!Go(p, "bill") /\ UNCHANGED <<choice, mem, row>>
  <2>1. Moves(p) /\ pc'[p] = "bill" /\ choice'[p] = choice[p] /\ mem'[p] = mem[p]
    BY <1>1, <1>4, GoMoves DEF ApprovalInv, X!TypeOK
  <2> QED BY <1>1, <1>2, <1>3, <2>1, SyncKeeps DEF rowsAndRan
<1>5. CASE X!Synced(p)
  BY <1>1, <1>2, <1>3, <1>5, SyncedMoves, SyncKeeps DEF rowsAndRan
<1> QED BY <1>4, <1>5 DEF X!WriteRecord

LEMMA KeepsBill ==
    ASSUME ApprovalInv, NEW p \in X!Processes, X!Bill(p)
    PROVE  ApprovalInv'
<1>1. pc[p] = "bill" /\ billed' = TRUE /\ X!Synced(p)
      /\ UNCHANGED <<run, sequences, action, ran, due, calm, record>>
  BY DEF X!Bill, X!rows
<1>2. record' \in X!Records \cup {NoRow}
  BY <1>1 DEF ApprovalInv, X!TypeOK
<1> QED BY <1>1, <1>2, SyncedMoves, SyncKeeps DEF rowsAndRan

\* A copy whose event is new is the row, and only then it is written.
LEMMA EmitFacts ==
    ASSUME ApprovalInv, NEW d \in Deciders, pc[d] \in Emitting, Sound
    PROVE  /\ mem[d] \in X!Runs /\ run \in X!Runs /\ mem[d].count \in Nat
           /\ mem[d].count + 1 \notin sequences => mem[d] = run
           /\ calm => mem[d].count + 1 \notin sequences
<1>1. mem[d] \in X!Runs /\ run \in X!Runs /\ mem[d].count \in Nat /\ run.count \in Nat
  BY DEF ApprovalInv, DeciderOK, RunOK, X!Runs
<1>2. Knows(d) /\ sequences = 1 .. run.count
  BY DEF ApprovalInv, RunOK
<1>3. mem[d].count <= run.count /\ (mem[d].count = run.count => mem[d] = run)
  BY <1>2 DEF Knows
<1>4. calm => mem[d] = run
  BY DEF ApprovalInv, CalmOK, Alone
<1> QED BY <1>1, <1>2, <1>3, <1>4

LEMMA EmittedKeeps ==
    ASSUME ApprovalInv, NEW d \in Deciders, pc[d] \in Emitting, Moves(d),
           NEW s \in X!Runs, s.count = mem[d].count + 1, s.count \notin sequences,
           run' = s, sequences' = sequences \cup {s.count}, mem'[d] = s,
           UNCHANGED <<record, action, due, billed, ran, calm, choice, row>>,
           s.verdict = IF pc[d] = "decide" THEN VerdictOf(choice[d]) ELSE mem[d].verdict,
           pc'[d] = IF pc[d] = "decide" THEN "end" ELSE IF pc[d] = "end" THEN "list" ELSE "snapshot"
    PROVE  ApprovalInv'
<1>1. d \in X!Processes /\ d # Sender /\ Sender \in X!Processes /\ Busy(d)
  BY ApprovalAssumption DEF X!Processes, Busy, Emitting
<1>2. pc'[Sender] = pc[Sender] /\ mem'[Sender] = mem[Sender]
      /\ \A e \in Deciders \ {d} : pc'[e] = pc[e] /\ choice'[e] = choice[e] /\ mem'[e] = mem[e] /\ row'[e] = row[e]
  BY <1>1 DEF Moves, X!Processes
<1>3. mem[d] \in X!Runs /\ mem[d].count \in Nat /\ s.count \in Nat /\ DeciderOK(d)
  BY DEF ApprovalInv, DeciderOK, X!Runs
<1>4. X!TypeOK'
  BY <1>3 DEF Moves, ApprovalInv, X!TypeOK
<1>5. SenderOK'
  <2>1. pc[Sender] # "start"
    BY <1>1 DEF ApprovalInv, SenderOK, Busy
  <2> QED BY <1>2, <2>1 DEF SenderOK, ApprovalInv
<1>6. DeciderOK(d)'
  BY <1>3 DEF DeciderOK, Emitting, SecondPass
<1>7. ASSUME NEW e \in Deciders \ {d} PROVE DeciderOK(e)'
  BY <1>2 DEF ApprovalInv, DeciderOK
<1>8. Sound' <=> Sound
  BY <1>2 DEF Sound
<1>9. ASSUME Sound PROVE RunOK' /\ ActionOK' /\ OnePast' /\ \A e \in Deciders : Knows(e)'
  <2>1. mem[d] = run /\ run \in X!Runs /\ sequences = 1 .. run.count /\ run.count \in Nat
    BY <1>9, EmitFacts DEF ApprovalInv, RunOK, X!Runs
  <2>2. RunOK /\ ActionOK /\ OnePast /\ \A e \in Deciders : Knows(e)
    BY <1>9 DEF ApprovalInv
  <2>3. /\ pc[d] = "decide" => run.verdict = "pending"
        /\ pc[d] # "decide" => s.verdict = run.verdict
        /\ pc[d] = "decide" => s.verdict = VerdictOf(choice[d]) /\ s.verdict # "pending"
    BY <2>1, <2>2 DEF Knows, VerdictOf
  <2>4. sequences' = 1 .. run'.count
    BY <2>1
  <2>5. RunOK'
    BY <2>2, <2>3, <2>4 DEF RunOK
  <2>6. ActionOK'
    <3>1. action # NoRow /\ action.status \in {"approved", "rejected"} => s.verdict = run.verdict
      BY <2>2, <2>3 DEF ActionOK, X!AuthorityFollowsDecision
    <3>2. run' # NoRow
      BY ApprovalAssumption
    <3> QED BY <2>2, <3>1, <3>2 DEF ActionOK, X!AuthorityFollowsDecision, X!BodyLivesWithAction
  <2>7. OnePast'
    <3>1. ASSUME NEW e \in Deciders \ {d} PROVE Past(e)' <=> Past(e)
      BY <1>2 DEF Past
    <3>2. CASE pc[d] = "decide"
      <4>1. ran = 0 /\ \A e \in Deciders : ~Past(e)
        BY <2>2, <2>3, <3>2 DEF OnePast, RunOK
      <4> QED BY <2>3, <3>1, <3>2, <4>1 DEF OnePast
    <3>3. CASE pc[d] = "end"
      <4>1. Past(d)
        BY <3>3 DEF Past
      <4> QED BY <2>2, <2>3, <3>1, <3>3, <4>1 DEF OnePast
    <3>4. CASE pc[d] = "cancel"
      <4>1. ~Past(d)'
        BY <1>3, <3>4 DEF DeciderOK, Past, SecondPass
      <4> QED BY <2>2, <2>3, <3>1, <3>4, <4>1 DEF OnePast
    <3> QED BY <3>2, <3>3, <3>4 DEF Emitting
  <2>8. Knows(d)'
    BY <1>3, <2>1, <2>2, <2>3 DEF Knows, Emitting, SecondPass
  <2>9. ASSUME NEW e \in Deciders \ {d} PROVE Knows(e)'
    <3>1. pc[e] \in Emitting => mem[e].count \in Nat /\ mem[e].count <= run.count
      BY <2>2 DEF Knows, ApprovalInv, DeciderOK, X!Runs
    <3>2. pc[e] \in {"end", "list", "settle"} => run.verdict # "pending"
      BY <2>2 DEF OnePast, Past
    <3> QED BY <1>2, <2>1, <2>2, <2>3, <3>1, <3>2 DEF Knows
  <2> QED BY <2>5, <2>6, <2>7, <2>8, <2>9
<1>10. ASSUME calm PROVE CalmOK'
  <2>1. CalmOK
    BY <1>10 DEF ApprovalInv
  <2>2. \A q \in X!Processes \ {d} : ~Busy(q) /\ ~Busy(q)'
    BY <1>1, <2>1 DEF CalmOK, Takes1, Busy, Moves
  <2>3. Takes1'
    BY <2>2 DEF Takes1
  <2>4. \A e \in Deciders \ {d} : Alone(e)'
    BY <2>2 DEF X!Processes, Busy, Alone, Emitting
  <2>5. Alone(d)'
    BY DEF Alone, Emitting
  <2>6. pc'[Sender] \notin Registering
    BY <1>1, <2>2 DEF Busy, Registering
  <2>7. OnItsWay'
    <3>1. CASE pc[d] # "cancel"
      BY <3>1 DEF OnItsWay, Emitting
    <3>2. CASE pc[d] = "cancel"
      <4>1. action # NoRow => run.verdict = s.verdict
        BY <3>2, EmitFacts DEF Sound
      <4>2. \A e \in Deciders : pc[e] \notin {"end", "list", "settle"}
        BY <2>2, <3>2 DEF Busy, X!Processes
      <4> QED BY <2>1, <4>1, <4>2 DEF CalmOK, OnItsWay
    <3> QED BY <3>1, <3>2
  <2> QED BY <2>3, <2>4, <2>5, <2>6, <2>7 DEF CalmOK
<1> QED BY <1>4, <1>5, <1>6, <1>7, <1>8, <1>9, <1>10 DEF ApprovalInv

LEMMA EmitKeeps ==
    ASSUME ApprovalInv, NEW d \in Deciders, pc[d] \in Emitting,
           NEW s \in X!Runs, s.count = mem[d].count + 1,
           s.verdict = IF pc[d] = "decide" THEN VerdictOf(choice[d]) ELSE mem[d].verdict,
           NEW n \in X!Pcs,
           n = IF pc[d] = "decide" THEN "end" ELSE IF pc[d] = "end" THEN "list" ELSE "snapshot",
           X!Emit(d, s, n)
    PROVE  ApprovalInv'
<1>1. d \in X!Processes /\ Busy(d) /\ pc[d] # "start"
  BY DEF Emitting, X!Processes, Busy
<1>2. CASE s.count \notin sequences /\ run' = s /\ sequences' = sequences \cup {s.count}
           /\ mem' = [mem EXCEPT ![d] = s] /\ X!Go(d, n)
           /\ UNCHANGED <<record, action, X!effects, choice, row>>
  <2>1. Moves(d) /\ pc'[d] = n
    BY <1>1, <1>2, GoMoves DEF ApprovalInv, X!TypeOK
  <2>2. mem'[d] = s
    BY <1>1, <1>2 DEF ApprovalInv, X!TypeOK
  <2> QED BY <1>2, <2>1, <2>2, EmittedKeeps DEF X!effects
<1>3. CASE s.count \in sequences /\ X!Refuse(d)
  <2>1. action = NoRow \/ ~calm
    BY <1>3, EmitFacts DEF Sound
  <2> QED BY <1>1, <1>3, <2>1, RefusalKeeps
<1> QED BY <1>2, <1>3 DEF X!Emit

\* The copy that Decide, and that End or Cancel, emits.
WithVerdict(m, v) == [m EXCEPT !.verdict = v, !.count = @ + 1]
WithStatus(m, c) == [m EXCEPT !.status = c, !.count = @ + 1]

LEMMA RunWith ==
    ASSUME NEW m \in X!Runs
    PROVE  /\ \A v \in X!Verdicts : /\ WithVerdict(m, v) \in X!Runs
                                    /\ WithVerdict(m, v).count = m.count + 1
                                    /\ WithVerdict(m, v).verdict = v
           /\ \A c \in X!Statuses : /\ WithStatus(m, c) \in X!Runs
                                    /\ WithStatus(m, c).count = m.count + 1
                                    /\ WithStatus(m, c).verdict = m.verdict
<1>0. /\ m.count \in Nat /\ m.count + 1 \in Nat /\ m.status \in X!Statuses /\ m.verdict \in X!Verdicts
      /\ DOMAIN m = {"status", "verdict", "count"} /\ m = [f \in DOMAIN m |-> m[f]]
  BY DEF X!Runs
<1>1. ASSUME NEW v \in X!Verdicts
      PROVE  /\ WithVerdict(m, v) \in X!Runs
             /\ WithVerdict(m, v).count = m.count + 1
             /\ WithVerdict(m, v).verdict = v
  <2>1. WithVerdict(m, v) \in X!Runs
    BY <1>0 DEF WithVerdict, X!Runs
  <2>2. WithVerdict(m, v).count = m.count + 1
    BY DEF WithVerdict, X!Runs
  <2>3. WithVerdict(m, v).verdict = v
    BY DEF WithVerdict, X!Runs
  <2> QED BY <2>1, <2>2, <2>3
<1>2. ASSUME NEW c \in X!Statuses
      PROVE  /\ WithStatus(m, c) \in X!Runs
             /\ WithStatus(m, c).count = m.count + 1
             /\ WithStatus(m, c).verdict = m.verdict
  <2>1. WithStatus(m, c) \in X!Runs
    BY <1>0 DEF WithStatus, X!Runs
  <2>2. WithStatus(m, c).count = m.count + 1
    BY DEF WithStatus, X!Runs
  <2>3. WithStatus(m, c).verdict = m.verdict
    BY DEF WithStatus, X!Runs
  <2> QED BY <2>1, <2>2, <2>3
<1> QED BY <1>1, <1>2

LEMMA KeepsEmit ==
    ASSUME ApprovalInv, NEW d \in Deciders, X!Decide(d) \/ X!End(d) \/ X!Cancel(d)
    PROVE  ApprovalInv'
<1>1. pc[d] \in Emitting /\ mem[d] \in X!Runs /\ {"end", "list", "snapshot"} \subseteq X!Pcs
  BY DEF X!Decide, X!End, X!Cancel, Emitting, ApprovalInv, DeciderOK, X!Pcs
<1>2. CASE X!Decide(d)
  <2> DEFINE s == WithVerdict(mem[d], VerdictOf(choice[d]))
  <2>1. s \in X!Runs /\ s.count = mem[d].count + 1 /\ s.verdict = VerdictOf(choice[d])
    <3>1. VerdictOf(choice[d]) \in X!Verdicts
      BY DEF VerdictOf, X!Verdicts
    <3> QED BY <1>1, <3>1, RunWith
  <2>2. X!Emit(d, s, "end") /\ pc[d] = "decide"
    BY <1>2 DEF X!Decide, WithVerdict, VerdictOf
  <2> HIDE DEF s
  <2> QED BY <1>1, <2>1, <2>2, EmitKeeps
<1>3. CASE X!End(d)
  <2> DEFINE s == WithStatus(mem[d], IF choice[d] = "approve" THEN "completed" ELSE "failed")
  <2>1. s \in X!Runs /\ s.count = mem[d].count + 1 /\ s.verdict = mem[d].verdict
    <3>1. (IF choice[d] = "approve" THEN "completed" ELSE "failed") \in X!Statuses
      BY DEF X!Statuses
    <3> QED BY <1>1, <3>1, RunWith
  <2>2. X!Emit(d, s, "list") /\ pc[d] = "end"
    BY <1>3 DEF X!End, WithStatus
  <2> HIDE DEF s
  <2> QED BY <1>1, <2>1, <2>2, EmitKeeps
<1>4. CASE X!Cancel(d)
  <2> DEFINE s == WithStatus(mem[d], "cancelled")
  <2>1. s \in X!Runs /\ s.count = mem[d].count + 1 /\ s.verdict = mem[d].verdict
    <3>1. "cancelled" \in X!Statuses
      BY DEF X!Statuses
    <3> QED BY <1>1, <3>1, RunWith
  <2>2. X!Emit(d, s, "snapshot") /\ pc[d] = "cancel"
    BY <1>4 DEF X!Cancel, WithStatus
  <2> HIDE DEF s
  <2> QED BY <1>1, <2>1, <2>2, EmitKeeps
<1> QED BY <1>2, <1>3, <1>4

\* The one decider that is past its decision writes what became of the action.
LEMMA WrittenKeeps ==
    ASSUME ApprovalInv, NEW d \in Deciders, pc[d] \in {"settle", "mark"}, Moves(d),
           UNCHANGED <<run, sequences, record, due, billed, ran, calm>>,
           action' \in X!Actions, action'.status # "pending", ActionOK',
           \/ pc'[d] = "snapshot"
           \/ pc'[d] = "idle"
    PROVE  ApprovalInv'
<1>1. d \in X!Processes /\ d # Sender /\ Sender \in X!Processes /\ Busy(d) /\ Past(d)
  BY ApprovalAssumption DEF X!Processes, Busy, Past, SecondPass
<1>2. pc'[Sender] = pc[Sender] /\ mem'[Sender] = mem[Sender]
      /\ \A e \in Deciders \ {d} : pc'[e] = pc[e] /\ choice'[e] = choice[e] /\ mem'[e] = mem[e] /\ row'[e] = row[e]
  BY <1>1 DEF Moves, X!Processes
<1>3. action # NoRow /\ action' # NoRow /\ Sound
  BY ApprovalAssumption DEF ApprovalInv, DeciderOK, SecondPass, Sound
<1>4. X!TypeOK'
  BY DEF Moves, ApprovalInv, X!TypeOK
<1>5. SenderOK'
  BY <1>2, <1>3 DEF SenderOK, ApprovalInv, Registering
<1>6. DeciderOK(d)' /\ Knows(d)' /\ Alone(d)'
  BY DEF DeciderOK, Knows, Alone, Emitting, SecondPass
<1>7. ASSUME NEW e \in Deciders \ {d} PROVE DeciderOK(e)' /\ Knows(e)' /\ (Past(e)' <=> Past(e)) /\ ~Past(e)
  <2>1. DeciderOK(e) /\ Knows(e) /\ OnePast
    BY <1>3 DEF ApprovalInv
  <2>2. ~Past(e) /\ (Past(e)' <=> Past(e))
    BY <1>1, <1>2, <2>1 DEF OnePast, Past
  <2> QED BY <1>2, <1>3, <2>1, <2>2 DEF DeciderOK, Knows, Past
<1>8. RunOK' /\ OnePast'
  BY <1>1, <1>3, <1>7 DEF ApprovalInv, RunOK, OnePast
<1>9. ASSUME calm PROVE CalmOK'
  <2>1. CalmOK
    BY <1>9 DEF ApprovalInv
  <2>2. \A q \in X!Processes \ {d} : ~Busy(q) /\ ~Busy(q)'
    BY <1>1, <2>1 DEF CalmOK, Takes1, Busy, Moves
  <2>3. Takes1'
    BY <2>2 DEF Takes1
  <2>4. \A e \in Deciders \ {d} : Alone(e)'
    BY <2>2 DEF X!Processes, Busy, Alone, Emitting
  <2>5. pc'[Sender] \notin Registering
    BY <1>1, <2>2 DEF Busy, Registering
  <2> QED BY <1>6, <2>3, <2>4, <2>5 DEF CalmOK, OnItsWay
<1> QED BY <1>4, <1>5, <1>6, <1>7, <1>8, <1>9 DEF ApprovalInv

LEMMA KeepsSettle ==
    ASSUME ApprovalInv, NEW d \in Deciders, X!Settle(d)
    PROVE  ApprovalInv'
<1>1. /\ pc[d] = "settle" /\ d \in X!Processes /\ "snapshot" \in X!Pcs
      /\ UNCHANGED <<run, sequences, record, due, billed, ran, calm, choice, mem, row>> /\ X!Go(d, "snapshot")
  BY DEF X!Settle, X!Processes, X!Pcs, X!effects
<1>2. Moves(d) /\ pc'[d] = "snapshot"
  BY <1>1, GoMoves DEF ApprovalInv, X!TypeOK
<1>3. DeciderOK(d) /\ Sound /\ Knows(d) /\ RunOK
  BY <1>1 DEF ApprovalInv, DeciderOK, Sound
<1>4. action' = [status |-> IF choice[d] = "approve" THEN "approved" ELSE "rejected",
                 body |-> row[d].body /\ choice[d] = "approve"]
  BY DEF X!Settle
<1>5. choice[d] \in {"approve", "reject"} /\ row[d].body = HasBody /\ run.verdict = VerdictOf(choice[d])
  BY <1>1, <1>3 DEF DeciderOK, Knows
<1>6. action' \in X!Actions /\ action'.status # "pending"
  <2>1. (row[d].body /\ choice[d] = "approve") \in BOOLEAN
    BY <1>5, ApprovalAssumption
  <2>2. (IF choice[d] = "approve" THEN "approved" ELSE "rejected") \in X!Verdicts \cup {"expired"}
    BY DEF X!Verdicts
  <2> QED BY <1>4, <2>1, <2>2 DEF X!Actions
<1>7. action'.status = VerdictOf(choice[d]) /\ (action'.body <=> HasBody /\ choice[d] = "approve")
  <2>1. action'.status = VerdictOf(choice[d])
    BY <1>4 DEF VerdictOf
  <2>2. action'.body = (row[d].body /\ choice[d] = "approve")
    BY <1>4
  <2> QED BY <1>5, <2>1, <2>2
<1>8. run # NoRow /\ action' # NoRow
  BY <1>3, <1>6, ApprovalAssumption DEF RunOK
<1>9. ActionOK'
  <2>1. X!AuthorityFollowsDecision'
    BY <1>1, <1>5, <1>7, <1>8 DEF VerdictOf, X!AuthorityFollowsDecision
  <2>2. X!BodyLivesWithAction'
    BY <1>5, <1>7 DEF VerdictOf, X!BodyLivesWithAction
  <2> QED BY <2>1, <2>2 DEF ActionOK
<1> QED BY <1>1, <1>2, <1>6, <1>9, WrittenKeeps

LEMMA KeepsResume ==
    ASSUME ApprovalInv, NEW d \in Deciders, X!Resume(d)
    PROVE  ApprovalInv'
<1>1. pc[d] = "resume" /\ d \in X!Processes /\ Busy(d) /\ Past(d) /\ {"check", "mark"} \subseteq X!Pcs
  BY DEF X!Resume, X!Processes, Busy, Past, X!Pcs
<1>2. CASE X!Refuse(d)
  BY <1>1, <1>2, RefusalKeeps
<1>3. ASSUME action # NoRow, action.status = "approved", row' = [row EXCEPT ![d] = action],
             NEW n \in {"check", "mark"}, X!Go(d, n),
             UNCHANGED <<X!rows, X!effects, choice, mem>>
      PROVE  ApprovalInv'
  <2>1. UNCHANGED <<run, sequences, action, ran, due, calm, record, billed, choice, mem>>
    BY <1>3 DEF X!effects, X!rows
  <2>2. action \in X!Actions \cup {NoRow} /\ record' \in X!Records \cup {NoRow} /\ billed' \in BOOLEAN
    BY <2>1 DEF ApprovalInv, X!TypeOK
  <2>3. Moves(d) /\ pc'[d] = n /\ choice'[d] = choice[d]
    BY <1>1, <1>3, <2>1, <2>2, GoMoves DEF ApprovalInv, X!TypeOK
  <2>4. choice[d] = "approve"
    BY <1>1 DEF ApprovalInv, DeciderOK
  <2>5. DeciderOK(d)' /\ Knows(d)' /\ Alone(d)'
    BY <1>3, <2>1, <2>3, <2>4 DEF DeciderOK, Knows, Alone, Emitting, SecondPass
  <2>6. calm => OnItsWay'
    BY <1>1, <2>1, <2>3, StaysOnItsWay DEF ApprovalInv, CalmOK
  <2> QED BY <1>1, <2>1, <2>2, <2>3, <2>5, <2>6, DeciderKeeps DEF rowsAndRan
<1> QED BY <1>2, <1>3 DEF X!Resume

LEMMA KeepsMark ==
    ASSUME ApprovalInv, NEW d \in Deciders, X!Mark(d)
    PROVE  ApprovalInv'
<1>1. /\ pc[d] = "mark" /\ d \in X!Processes /\ d # Sender /\ Busy(d) /\ X!Leave(d)
      /\ UNCHANGED <<run, sequences, record, due, billed, ran, calm>>
  BY ApprovalAssumption DEF X!Mark, X!Processes, Busy, X!effects
<1>2. Moves(d) /\ pc'[d] = "idle"
  BY <1>1, LeaveMoves DEF ApprovalInv
<1>3. Sound /\ Knows(d) /\ RunOK /\ ActionOK /\ action # NoRow
  BY <1>1 DEF ApprovalInv, DeciderOK, Sound, SecondPass
<1>4. CASE action' = action
  <2>1. calm' \in BOOLEAN
    BY <1>1 DEF ApprovalInv, X!TypeOK
  <2>2. calm => OnItsWay'
    BY <1>1, <1>2, <1>4, StaysOnItsWay DEF ApprovalInv, CalmOK
  <2> QED BY <1>1, <1>4, <2>1, <2>2, LeavingKeeps DEF rowsAndRan
<1>5. CASE action' = [status |-> "rejected", body |-> FALSE]
  <2>1. action' \in X!Actions /\ action'.status = "rejected" /\ ~action'.body
    BY <1>5 DEF X!Actions, X!Verdicts
  <2>2. run # NoRow /\ run.verdict = "approved"
    BY <1>1, <1>3 DEF Knows, SecondPass, ActionOK, X!AuthorityFollowsDecision
  <2>3. ActionOK'
    BY <1>1, <2>1, <2>2 DEF ActionOK, X!AuthorityFollowsDecision, X!BodyLivesWithAction
  <2> QED BY <1>1, <1>2, <2>1, <2>3, WrittenKeeps
<1> QED BY <1>4, <1>5 DEF X!Mark

LEMMA KeepsCheck ==
    ASSUME ApprovalInv, NEW d \in Deciders, X!Check(d)
    PROVE  ApprovalInv'
<1>1. pc[d] = "check" /\ d \in X!Processes /\ Busy(d) /\ Past(d) /\ "execute" \in X!Pcs
  BY DEF X!Check, X!Processes, Busy, Past, SecondPass, X!Pcs
<1>2. CASE X!Refuse(d)
  BY <1>1, <1>2, RefusalKeeps
<1>3. CASE action.status = "approved" /\ X!Go(d, "execute") /\ UNCHANGED <<X!rows, X!effects, choice, mem, row>>
  <2>1. UNCHANGED <<run, sequences, action, ran, due, calm, record, billed, choice, mem>>
    BY <1>3 DEF X!effects, X!rows
  <2>2. record' \in X!Records \cup {NoRow} /\ billed' \in BOOLEAN
    BY <2>1 DEF ApprovalInv, X!TypeOK
  <2>3. Moves(d) /\ pc'[d] = "execute" /\ choice'[d] = choice[d]
    BY <1>1, <1>3, <2>1, GoMoves DEF ApprovalInv, X!TypeOK
  <2>4. choice[d] = "approve" /\ action # NoRow
    BY <1>1 DEF ApprovalInv, DeciderOK, SecondPass
  <2>5. DeciderOK(d)' /\ Knows(d)' /\ Alone(d)'
    BY <1>3, <2>1, <2>3, <2>4 DEF DeciderOK, Knows, Alone, Emitting, SecondPass
  <2>6. calm => OnItsWay'
    BY <1>1, <2>1, <2>3, StaysOnItsWay DEF ApprovalInv, CalmOK
  <2> QED BY <1>1, <2>1, <2>2, <2>3, <2>5, <2>6, DeciderKeeps DEF rowsAndRan
<1> QED BY <1>2, <1>3 DEF X!Check

\* The execution: its decider was the one past its decision, and leaves.
LEMMA KeepsExecute ==
    ASSUME ApprovalInv, NEW d \in Deciders, X!Execute(d)
    PROVE  /\ ApprovalInv'
           /\ action # NoRow /\ action.status = "approved"
           /\ run # NoRow /\ run.verdict = "approved"
<1>1. /\ pc[d] = "execute" /\ d \in X!Processes /\ d # Sender /\ Sender \in X!Processes
      /\ Busy(d) /\ Past(d) /\ X!Leave(d)
      /\ UNCHANGED <<run, sequences, action, record, due, billed, calm>> /\ ran' = ran + 1 /\ ran < MaxRuns
  BY ApprovalAssumption DEF X!Execute, X!Processes, Busy, Past, SecondPass, X!rows
<1>2. Moves(d) /\ pc'[d] = "idle"
  BY <1>1, LeaveMoves DEF ApprovalInv
<1>3. action # NoRow /\ Sound
  BY <1>1 DEF ApprovalInv, DeciderOK, SecondPass, Sound
<1>4. RunOK /\ ActionOK /\ OnePast /\ Knows(d)
  BY <1>3 DEF ApprovalInv
<1>5. action.status = "approved" /\ run # NoRow /\ run.verdict = "approved"
  BY <1>1, <1>3, <1>4 DEF Knows, SecondPass, ActionOK, X!AuthorityFollowsDecision
<1>6. ran = 0 /\ \A e \in Deciders : Past(e) => e = d
  BY <1>1, <1>4 DEF OnePast
<1>7. pc'[Sender] = pc[Sender] /\ mem'[Sender] = mem[Sender]
      /\ \A e \in Deciders \ {d} : pc'[e] = pc[e] /\ choice'[e] = choice[e] /\ mem'[e] = mem[e] /\ row'[e] = row[e]
  BY <1>1, <1>2 DEF Moves, X!Processes
<1>8. X!TypeOK'
  <2>1. ran' \in 0 .. MaxRuns
    BY <1>1, <1>6, ApprovalAssumption
  <2> QED BY <1>1, <1>2, <2>1 DEF Moves, ApprovalInv, X!TypeOK
<1>9. SenderOK'
  BY <1>1, <1>3, <1>7 DEF ApprovalInv, SenderOK, Registering
<1>10. DeciderOK(d)' /\ Knows(d)' /\ Alone(d)' /\ ~Past(d)'
  BY <1>2 DEF DeciderOK, Knows, Alone, Past, Emitting, SecondPass
<1>11. ASSUME NEW e \in Deciders \ {d} PROVE DeciderOK(e)' /\ Knows(e)' /\ ~Past(e)'
  <2>1. DeciderOK(e) /\ Knows(e)
    BY <1>3 DEF ApprovalInv
  <2> QED BY <1>1, <1>6, <1>7, <2>1 DEF DeciderOK, Knows, Past
<1>12. RunOK' /\ ActionOK' /\ OnePast'
  BY <1>1, <1>4, <1>5, <1>6, <1>10, <1>11 DEF RunOK, ActionOK, OnePast,
     X!AuthorityFollowsDecision, X!BodyLivesWithAction
<1>13. ASSUME calm PROVE CalmOK'
  <2>1. CalmOK
    BY <1>13 DEF ApprovalInv
  <2>2. \A q \in X!Processes \ {d} : ~Busy(q) /\ ~Busy(q)'
    BY <1>1, <1>2, <2>1 DEF CalmOK, Takes1, Busy, Moves
  <2>3. Takes1'
    BY <2>2 DEF Takes1
  <2>4. \A e \in Deciders \ {d} : Alone(e)'
    BY <2>2 DEF X!Processes, Busy, Alone, Emitting
  <2>5. pc'[Sender] \notin Registering
    BY <1>1, <2>2 DEF Busy, Registering
  <2>6. OnItsWay'
    BY <1>1, <1>5 DEF OnItsWay
  <2> QED BY <1>10, <2>3, <2>4, <2>5, <2>6 DEF CalmOK
<1> QED BY <1>1, <1>3, <1>5, <1>8, <1>9, <1>10, <1>11, <1>12, <1>13 DEF ApprovalInv

-----------------------------------------------------------------------------
(*                       The steps of the message                          *)

\* What the message's steps leave of the deciders, whose rows it creates or
\* removes.
LEMMA SenderMoves ==
    ASSUME Moves(Sender), NEW d \in Deciders
    PROVE  /\ d \in X!Processes /\ d # Sender
           /\ pc'[d] = pc[d] /\ choice'[d] = choice[d] /\ mem'[d] = mem[d] /\ row'[d] = row[d]
BY ApprovalAssumption DEF Moves, X!Processes

LEMMA KeepsStart ==
    ASSUME ApprovalInv, X!Start
    PROVE  ApprovalInv'
<1>1. /\ Sender \in X!Processes /\ pc[Sender] = "start" /\ "snapshot" \in X!Pcs
      /\ run' = [status |-> "running", verdict |-> "pending", count |-> 2] /\ sequences' = {1, 2}
      /\ X!Go(Sender, "snapshot")
      /\ UNCHANGED <<record, action, due, billed, ran, calm, choice, mem, row>>
  BY DEF X!Start, X!Processes, X!Pcs, X!effects
<1>2. Moves(Sender) /\ pc'[Sender] = "snapshot"
  BY <1>1, GoMoves DEF ApprovalInv, X!TypeOK
<1>3. run' \in X!Runs /\ run'.verdict = "pending" /\ run'.count = 2 /\ sequences' = 1 .. 2
  BY <1>1 DEF X!Runs, X!Statuses, X!Verdicts
<1>4. action = NoRow /\ ran = 0 /\ \A d \in Deciders : pc[d] = "idle"
  BY <1>1 DEF ApprovalInv, SenderOK
<1>5. \A d \in Deciders : pc'[d] = "idle" /\ ~Past(d)'
  <2>1. SUFFICES ASSUME NEW d \in Deciders PROVE pc'[d] = "idle" /\ ~Past(d)'
    OBVIOUS
  <2>2. pc'[d] = "idle"
    BY <1>2, <1>4, SenderMoves
  <2> QED BY <2>2 DEF Past, SecondPass
<1>6. X!TypeOK'
  BY <1>1, <1>2, <1>3 DEF Moves, ApprovalInv, X!TypeOK
<1>7. SenderOK'
  BY <1>1, <1>2, <1>4 DEF SenderOK, Registering
<1>8. \A d \in Deciders : DeciderOK(d)' /\ Knows(d)' /\ Alone(d)'
  BY <1>5 DEF DeciderOK, Knows, Alone, Emitting, SecondPass
<1>9. RunOK' /\ ActionOK' /\ OnePast' /\ OnItsWay'
  BY <1>1, <1>3, <1>4, <1>5 DEF RunOK, ActionOK, OnePast, OnItsWay, X!AuthorityFollowsDecision, X!BodyLivesWithAction
<1>10. Takes1'
  BY <1>5 DEF Takes1, Busy, X!Processes
<1> QED BY <1>3, <1>6, <1>7, <1>8, <1>9, <1>10 DEF ApprovalInv, CalmOK

LEMMA KeepsPersist ==
    ASSUME ApprovalInv, X!Persist
    PROVE  ApprovalInv'
<1>1. /\ Sender \in X!Processes /\ pc[Sender] = "persist" /\ "unrecord" \in X!Pcs /\ Busy(Sender) /\ Sound
      /\ UNCHANGED <<run, sequences, record, due, billed, ran, calm>>
  BY DEF X!Persist, X!Processes, X!Pcs, X!effects, X!rows, Busy, Sound, Registering
<1>2. action = NoRow /\ ran = 0 /\ \A d \in Deciders : pc[d] \notin {"settle"} \cup SecondPass
  BY <1>1 DEF ApprovalInv, SenderOK, DeciderOK
<1>3. RunOK /\ OnePast /\ \A d \in Deciders : DeciderOK(d) /\ Knows(d)
  BY <1>1 DEF ApprovalInv
<1>4. CASE action' = [status |-> "pending", body |-> HasBody] /\ X!Leave(Sender)
  <2>1. Moves(Sender) /\ pc'[Sender] = "done"
    BY <1>1, <1>4, LeaveMoves DEF ApprovalInv
  <2>2. action' \in X!Actions /\ action' # NoRow /\ action'.status = "pending" /\ action'.body = HasBody
    <3>1. action' \in X!Actions
      BY <1>4, ApprovalAssumption DEF X!Actions, X!Verdicts
    <3> QED BY <1>4, <3>1, ApprovalAssumption
  <2>3. X!TypeOK'
    BY <1>1, <2>1, <2>2 DEF Moves, ApprovalInv, X!TypeOK
  <2>4. SenderOK'
    BY <2>1, <2>2 DEF SenderOK, Registering
  <2>5. ASSUME NEW d \in Deciders PROVE DeciderOK(d)' /\ Knows(d)'
    <3>1. /\ pc'[d] = pc[d] /\ choice'[d] = choice[d] /\ mem'[d] = mem[d] /\ row'[d] = row[d]
      BY <2>1, SenderMoves
    <3>2. DeciderOK(d) /\ Knows(d)
      BY <1>3
    <3> QED BY <1>1, <1>2, <3>1, <3>2 DEF DeciderOK, Knows
  <2>6. RunOK' /\ OnePast'
    <3>1. ASSUME NEW d \in Deciders PROVE Past(d)' => Past(d)
      <4>1. pc'[d] = pc[d] /\ choice'[d] = choice[d]
        BY <2>1, SenderMoves
      <4> QED BY <4>1 DEF Past
    <3> QED BY <1>1, <1>3, <3>1 DEF RunOK, OnePast
  <2>7. ActionOK'
    BY <2>2 DEF ActionOK, X!AuthorityFollowsDecision, X!BodyLivesWithAction
  <2>8. ASSUME calm PROVE CalmOK'
    <3>1. CalmOK
      BY <2>8 DEF ApprovalInv
    <3>2. run.verdict = "pending"
      BY <1>1, <3>1 DEF CalmOK, Registering
    <3>4. ASSUME NEW d \in Deciders PROVE ~Busy(d) /\ ~Busy(d)'
      <4>1. d \in X!Processes /\ d # Sender /\ pc'[d] = pc[d]
        BY <2>1, SenderMoves
      <4>2. ~Busy(d)
        BY <1>1, <3>1, <4>1 DEF CalmOK, Takes1
      <4> QED BY <4>1, <4>2 DEF Busy
    <3>3. Takes1' /\ \A d \in Deciders : Alone(d)'
      BY <2>1, <3>4 DEF Takes1, Busy, X!Processes, Alone, Emitting
    <3> QED BY <1>1, <2>1, <3>2, <3>3 DEF CalmOK, OnItsWay, Registering
  <2> QED BY <1>1, <2>3, <2>4, <2>5, <2>6, <2>7, <2>8 DEF ApprovalInv
<1>5. CASE X!Go(Sender, "unrecord") /\ UNCHANGED <<action, choice, mem, row>>
  <2>1. Moves(Sender) /\ pc'[Sender] = "unrecord"
    BY <1>1, <1>5, GoMoves DEF ApprovalInv, X!TypeOK
  <2>2. X!TypeOK'
    BY <1>1, <1>5, <2>1 DEF Moves, ApprovalInv, X!TypeOK
  <2>3. SenderOK' /\ ~Sound'
    BY <1>1, <1>2, <1>5, <2>1 DEF SenderOK, Sound, Registering
  <2>4. OnItsWay'
    BY <1>2, <1>5 DEF OnItsWay
  <2> QED BY <1>1, <1>5, <2>1, <2>2, <2>3, <2>4, StepAlone, ApprovalAssumption
<1> QED BY <1>4, <1>5 DEF X!Persist, X!rows, X!effects

LEMMA KeepsUnrecord ==
    ASSUME ApprovalInv, X!Unrecord
    PROVE  ApprovalInv'
<1>1. /\ Sender \in X!Processes /\ pc[Sender] = "unrecord" /\ "unstate" \in X!Pcs /\ Busy(Sender)
      /\ record' = NoRow /\ X!Go(Sender, "unstate")
      /\ UNCHANGED <<run, sequences, action, due, billed, ran, calm, choice, mem, row>>
  BY DEF X!Unrecord, X!Processes, X!Pcs, X!effects, Busy
<1>2. action = NoRow /\ ran = 0
  BY <1>1 DEF ApprovalInv, SenderOK
<1>3. Moves(Sender) /\ pc'[Sender] = "unstate"
  BY <1>1, GoMoves DEF ApprovalInv, X!TypeOK
<1>4. X!TypeOK'
  BY <1>1, <1>3 DEF Moves, ApprovalInv, X!TypeOK
<1>5. SenderOK' /\ ~Sound'
  BY <1>1, <1>2, <1>3 DEF SenderOK, Sound, Registering
<1>6. OnItsWay'
  BY <1>1, <1>2 DEF OnItsWay
<1> QED BY <1>1, <1>3, <1>4, <1>5, <1>6, StepAlone, ApprovalAssumption

\* The run is removed; without an action nobody is told of it.
LEMMA KeepsUnstate ==
    ASSUME ApprovalInv, X!Unstate
    PROVE  ApprovalInv'
<1>1. /\ Sender \in X!Processes /\ pc[Sender] = "unstate" /\ Busy(Sender) /\ X!Leave(Sender)
      /\ run' = NoRow /\ sequences' = {}
      /\ UNCHANGED <<record, action, due, billed, ran, calm>>
  BY DEF X!Unstate, X!Processes, X!effects, Busy
<1>2. action = NoRow /\ ran = 0
  BY <1>1 DEF ApprovalInv, SenderOK
<1>3. Moves(Sender) /\ pc'[Sender] = "done"
  BY <1>1, LeaveMoves DEF ApprovalInv
<1>4. X!TypeOK'
  BY <1>1, <1>3 DEF Moves, ApprovalInv, X!TypeOK
<1>5. SenderOK' /\ ~Sound'
  BY <1>1, <1>2, <1>3 DEF SenderOK, Sound, Registering
<1>6. ASSUME NEW d \in Deciders PROVE DeciderOK(d)'
  <2>1. pc'[d] = pc[d] /\ choice'[d] = choice[d] /\ mem'[d] = mem[d] /\ row'[d] = row[d]
    BY <1>3, SenderMoves
  <2>2. DeciderOK(d)
    BY DEF ApprovalInv
  <2> QED BY <1>1, <2>1, <2>2 DEF DeciderOK
<1>7. ASSUME calm PROVE CalmOK'
  <2>1. ASSUME NEW d \in Deciders PROVE ~Busy(d) /\ ~Busy(d)'
    <3>1. d \in X!Processes /\ d # Sender /\ pc'[d] = pc[d]
      BY <1>3, SenderMoves
    <3>2. ~Busy(d)
      BY <1>1, <1>7, <3>1 DEF ApprovalInv, CalmOK, Takes1
    <3> QED BY <3>1, <3>2 DEF Busy
  <2>2. Takes1' /\ \A d \in Deciders : Alone(d)'
    BY <1>3, <2>1 DEF Takes1, Busy, X!Processes, Alone, Emitting
  <2> QED BY <1>1, <1>2, <1>3, <2>2 DEF CalmOK, OnItsWay, Registering
<1> QED BY <1>1, <1>4, <1>5, <1>6, <1>7 DEF ApprovalInv

-----------------------------------------------------------------------------
(*                        Time, cleanup and crashes                        *)

LEMMA KeepsCrash ==
    ASSUME ApprovalInv, NEW p \in X!Processes, X!Crash(p)
    PROVE  ApprovalInv'
<1>1. /\ pc[p] \notin {"idle", "done", "start"} /\ X!Leave(p) /\ calm' = FALSE
      /\ UNCHANGED <<run, sequences, action, ran, record, due, billed>>
  BY DEF X!Crash, X!rows
<1> QED BY <1>1, LeavingKeeps DEF Busy, rowsAndRan

\* Whatever keeps the rows and the threads and does not restore the calm.
LEMMA NothingMoves ==
    ASSUME ApprovalInv, UNCHANGED <<run, sequences, record, action, billed, ran, pc, choice, mem, row>>,
           due' \in BOOLEAN, calm' = calm
    PROVE  ApprovalInv'
<1>1. X!TypeOK'
  BY DEF ApprovalInv, X!TypeOK
<1>2. SenderOK' /\ (Sound' <=> Sound)
  BY DEF ApprovalInv, SenderOK, Sound
<1>3. ASSUME NEW d \in Deciders PROVE DeciderOK(d)' /\ (Sound => Knows(d)')
  BY DEF ApprovalInv, DeciderOK, Knows
<1>4. Sound => RunOK' /\ ActionOK' /\ OnePast'
  BY DEF ApprovalInv, RunOK, ActionOK, OnePast, Past, X!AuthorityFollowsDecision, X!BodyLivesWithAction
<1>5. calm => CalmOK'
  BY <1>2 DEF ApprovalInv, CalmOK, Takes1, Busy, Alone, OnItsWay, Sound
<1> QED BY <1>1, <1>2, <1>3, <1>4, <1>5 DEF ApprovalInv

LEMMA KeepsExpire ==
    ASSUME ApprovalInv, X!Expire
    PROVE  ApprovalInv'
BY NothingMoves DEF X!Expire, X!rows, X!locals

\* The cleanup finds the action pending, so nobody executes it, and a decision
\* that is about to overwrite it overlaps.
LEMMA KeepsCleanup ==
    ASSUME ApprovalInv, X!Cleanup
    PROVE  ApprovalInv'
<1>1. /\ action # NoRow /\ action.status = "pending" /\ calm' = (calm /\ X!Quiet)
      /\ action' = [status |-> "expired", body |-> FALSE]
      /\ UNCHANGED <<run, sequences, record, due, billed, ran, pc, choice, mem, row>>
  BY DEF X!Cleanup, X!ComeIn, X!locals
<1>2. action' \in X!Actions /\ action' # NoRow /\ action'.status = "expired" /\ action'.body = FALSE
  <2>1. action' \in X!Actions
    BY <1>1 DEF X!Actions
  <2> QED BY <1>1, <2>1, ApprovalAssumption
<1>3. Sound /\ Sound'
  BY <1>1, <1>2 DEF Sound
<1>4. X!TypeOK'
  BY <1>1, <1>2 DEF ApprovalInv, X!TypeOK
<1>5. SenderOK'
  BY <1>1, <1>2 DEF ApprovalInv, SenderOK
<1>6. ASSUME NEW d \in Deciders PROVE DeciderOK(d)' /\ Knows(d)'
  <2>1. DeciderOK(d) /\ Knows(d)
    BY <1>3 DEF ApprovalInv
  <2>2. pc[d] \notin SecondPass
    BY <1>1, <2>1 DEF Knows
  <2> QED BY <1>1, <1>2, <2>1, <2>2 DEF DeciderOK, Knows
<1>7. RunOK' /\ OnePast'
  BY <1>1, <1>3 DEF ApprovalInv, RunOK, OnePast, Past
<1>8. ActionOK'
  BY <1>2 DEF ActionOK, X!AuthorityFollowsDecision, X!BodyLivesWithAction
<1>9. ASSUME calm' PROVE CalmOK'
  <2>1. CalmOK /\ \A p \in X!Processes : pc[p] \in {"idle", "done"}
    BY <1>1, <1>9 DEF ApprovalInv, X!Quiet
  <2>2. Takes1' /\ \A d \in Deciders : Alone(d)'
    BY <1>1, <2>1 DEF Takes1, Busy, Alone, Emitting, X!Processes
  <2>3. pc'[Sender] \notin Registering
    BY <1>1, <2>1 DEF Registering, X!Processes
  <2> QED BY <1>2, <2>2, <2>3 DEF CalmOK, OnItsWay
<1> QED BY <1>4, <1>5, <1>6, <1>7, <1>8, <1>9 DEF ApprovalInv

-----------------------------------------------------------------------------
(*                       The invariant always holds                        *)

LEMMA ApprovalStart ==
    ASSUME X!Init
    PROVE  ApprovalInv
<1>1. /\ \A p \in X!Processes : pc[p] = (IF p = Sender THEN "start" ELSE "idle")
      /\ run = NoRow /\ sequences = {} /\ action = NoRow /\ record = NoRow /\ ran = 0
      /\ due = FALSE /\ billed = FALSE /\ calm = TRUE
  BY DEF X!Init
<1>2. Sender \in X!Processes /\ \A d \in Deciders : d \in X!Processes /\ pc[d] = "idle"
  BY <1>1, ApprovalAssumption DEF X!Processes
<1>3. X!TypeOK
  <2>1. {"start", "idle"} \subseteq X!Pcs
    BY DEF X!Pcs
  <2>2. /\ pc \in [X!Processes -> X!Pcs] /\ choice \in [X!Processes -> X!Choices \cup {"none"}]
        /\ mem \in [X!Processes -> X!Runs \cup {NoRow}]
        /\ row \in [X!Processes -> X!Actions \cup {NoRow}]
    BY <2>1 DEF X!Init
  <2>3. ran \in 0 .. MaxRuns /\ sequences \subseteq Nat
    BY <1>1, ApprovalAssumption
  <2> QED BY <1>1, <2>2, <2>3 DEF X!TypeOK
<1>4. SenderOK /\ ~Sound
  BY <1>1, <1>2 DEF SenderOK, Sound, Registering
<1>5. \A d \in Deciders : DeciderOK(d) /\ Alone(d)
  BY <1>2 DEF DeciderOK, Alone, Emitting, SecondPass
<1>6. Takes1
  BY <1>1 DEF Takes1, Busy
<1>7. pc[Sender] \notin Registering /\ OnItsWay
  BY <1>1, <1>2 DEF Registering, OnItsWay
<1> QED BY <1>3, <1>4, <1>5, <1>6, <1>7 DEF ApprovalInv, CalmOK

LEMMA ApprovalStep ==
    ASSUME ApprovalInv, X!Next
    PROVE  ApprovalInv'
<1>1. CASE X!SendStep
  BY <1>1, KeepsStart, KeepsPersist, KeepsUnrecord, KeepsUnstate DEF X!SendStep
<1>2. ASSUME NEW p \in X!Processes, X!SyncStep(p) PROVE ApprovalInv'
  BY <1>2, KeepsSnapshot, KeepsWriteRecord, KeepsBill DEF X!SyncStep
<1>3. ASSUME NEW p \in X!Processes, X!Crash(p) PROVE ApprovalInv'
  BY <1>3, KeepsCrash
<1>4. ASSUME NEW d \in Deciders, X!DecideStep(d) PROVE ApprovalInv'
  BY <1>4, KeepsAuthorize, KeepsRead, KeepsEmit, KeepsList, KeepsSettle DEF X!DecideStep
<1>5. ASSUME NEW d \in Deciders, X!ExecuteStep(d) PROVE ApprovalInv'
  BY <1>5, KeepsResume, KeepsMark, KeepsCheck, KeepsExecute DEF X!ExecuteStep
<1>6. ASSUME NEW d \in Deciders, NEW c \in X!Choices, X!Begin(d, c) PROVE ApprovalInv'
  BY <1>6, KeepsBegin
<1>7. CASE X!Expire
  BY <1>7, KeepsExpire
<1>8. CASE X!Cleanup
  BY <1>8, KeepsCleanup
<1> QED BY <1>1, <1>2, <1>3, <1>4, <1>5, <1>6, <1>7, <1>8 DEF X!Next

LEMMA ApprovalUnchanged ==
    ASSUME ApprovalInv, UNCHANGED X!vars
    PROVE  ApprovalInv'
<1>1. UNCHANGED <<run, sequences, record, action, due, billed, ran, calm, pc, choice, mem, row>>
  BY DEF X!vars, X!rows, X!effects, X!locals
<1> QED BY <1>1, NothingMoves DEF ApprovalInv, X!TypeOK

\* The steps of MCBusiness are, for the approval, its own steps or none.
LEMMA ApprovalOfSystem ==
    ASSUME [Next]_vars
    PROVE  X!Next \/ UNCHANGED X!vars
<1>1. UNCHANGED xVars => UNCHANGED X!vars
  BY DEF xVars, X!vars, X!rows, X!effects, X!locals
<1> QED BY <1>1 DEF Next, vars

LEMMA ApprovalAlways == Spec => []ApprovalInv
<1>1. Init => ApprovalInv
  BY ApprovalStart DEF Init
<1>2. ApprovalInv /\ [Next]_vars => ApprovalInv'
  BY ApprovalOfSystem, ApprovalStep, ApprovalUnchanged
<1> QED BY <1>1, <1>2, PTL DEF Spec

\* An action is executed at most once, 027 says approved or rejected only after
\* the runtime said so, the ciphertext lives as long as the action may still
\* be executed, and a decision nothing overlapped has reached 027 when its
\* request is over: however many threads decide, cancel, crash and clean up.
THEOREM ActionsAreSafe == Spec => []ActionIsSafe
<1>1. ASSUME ApprovalInv PROVE ActionIsSafe
  <2>1. CASE action = NoRow
    <3>1. ran = 0
      BY <1>1, <2>1 DEF ApprovalInv, SenderOK
    <3> QED BY <2>1, <3>1 DEF ActionIsSafe, X!ExecutedAtMostOnce, X!AuthorityFollowsDecision,
                              X!BodyLivesWithAction, X!DecisionReachesAuthority
  <2>2. CASE action # NoRow
    <3>1. RunOK /\ ActionOK
      BY <1>1, <2>2 DEF ApprovalInv, Sound
    <3>2. ASSUME calm, X!Quiet, run.verdict # "pending" PROVE action.status # "pending"
      <4>1. OnItsWay
        BY <1>1, <3>2 DEF ApprovalInv, CalmOK
      <4>2. \A d \in Deciders : pc[d] \in {"idle", "done"}
        BY <3>2 DEF X!Quiet, X!Processes
      <4> QED BY <2>2, <3>2, <4>1, <4>2 DEF OnItsWay
    <3> QED BY <3>1, <3>2 DEF RunOK, ActionOK, ActionIsSafe, X!ExecutedAtMostOnce, X!DecisionReachesAuthority
  <2> QED BY <2>1, <2>2
<1> QED BY <1>1, ApprovalAlways, PTL

\* The executor is called only for an action that the 027 row and the runtime
\* hold approved, now.
THEOREM ApprovedIsExecuted == Spec => X!OnlyApprovedIsExecuted
<1>1. ASSUME ApprovalInv, [Next]_vars
      PROVE  [ran' > ran => /\ action # NoRow /\ action.status = "approved"
                            /\ run # NoRow /\ run.verdict = "approved"]_(X!vars)
  <2>1. SUFFICES ASSUME ran' > ran
                 PROVE  \E d \in Deciders : X!Execute(d)
    BY <1>1, KeepsExecute
  <2>2. ran \in Nat
    BY <1>1, ApprovalAssumption DEF ApprovalInv, X!TypeOK
  <2>3. ran' # ran /\ X!Next
    BY <1>1, <2>1, <2>2, ApprovalOfSystem DEF X!vars, X!effects
  <2>4. SUFFICES ASSUME X!SendStep \/ (\E p \in X!Processes : X!SyncStep(p) \/ X!Crash(p))
                        \/ (\E d \in Deciders : \/ \E c \in X!Choices : X!Begin(d, c)
                                               \/ X!DecideStep(d) \/ X!Resume(d) \/ X!Mark(d) \/ X!Check(d))
                        \/ X!Expire \/ X!Cleanup
                 PROVE  UNCHANGED ran
    BY <2>3 DEF X!Next, X!ExecuteStep
  <2>5. X!SendStep => UNCHANGED ran
    BY DEF X!SendStep, X!Start, X!Persist, X!Unrecord, X!Unstate, X!effects
  <2>6. \A p \in X!Processes : X!SyncStep(p) \/ X!Crash(p) => UNCHANGED ran
    BY DEF X!SyncStep, X!Snapshot, X!WriteRecord, X!Bill, X!Crash, X!Refuse, X!effects
  <2>7. \A d \in Deciders, c \in X!Choices : X!Begin(d, c) => UNCHANGED ran
    BY DEF X!Begin
  <2>8. \A d \in Deciders : X!DecideStep(d) => UNCHANGED ran
    BY DEF X!DecideStep, X!Authorize, X!Read, X!Decide, X!End, X!Cancel, X!List, X!Settle,
           X!Emit, X!Refuse, X!effects
  <2>9. \A d \in Deciders : X!Resume(d) \/ X!Mark(d) \/ X!Check(d) => UNCHANGED ran
    BY DEF X!Resume, X!Mark, X!Check, X!Refuse, X!effects
  <2>10. X!Expire \/ X!Cleanup => UNCHANGED ran
    BY DEF X!Expire, X!Cleanup
  <2> QED BY <2>4, <2>5, <2>6, <2>7, <2>8, <2>9, <2>10
<1> QED BY <1>1, ApprovalAlways, PTL DEF Spec, X!OnlyApprovedIsExecuted

\* As long as nothing overlaps, what has left pending stays decided: a decision
\* and the cleanup never overwrite each other, and only the blacklist turns an
\* approval into a rejection.
THEOREM DecisionIsFirst == Spec => X!FirstDecisionStands
<1> DEFINE Stands == calm /\ action # NoRow /\ action.status # "pending" /\ action' # NoRow =>
                        \/ action'.status = action.status
                        \/ action.status = "approved" /\ action'.status = "rejected"
<1>1. ASSUME ApprovalInv, [Next]_vars PROVE [Stands]_(X!vars)
  <2>1. SUFFICES ASSUME calm, action # NoRow, action.status # "pending", action' # action
                 PROVE  action.status = "approved" /\ action' = [status |-> "rejected", body |-> FALSE]
    OBVIOUS
  <2>2. X!Next
    BY <1>1, <2>1, ApprovalOfSystem DEF X!vars, X!rows
  <2>3. ~X!SendStep
    <3>1. pc[Sender] = "done"
      BY <1>1, <2>1 DEF ApprovalInv, SenderOK
    <3> QED BY <3>1 DEF X!SendStep, X!Start, X!Persist, X!Unrecord, X!Unstate
  <2>4. \A p \in X!Processes : ~X!SyncStep(p) /\ ~X!Crash(p)
    BY <2>1 DEF X!SyncStep, X!Snapshot, X!WriteRecord, X!Bill, X!Crash, X!Refuse, X!rows
  <2>5. \A d \in Deciders : /\ \A c \in X!Choices : ~X!Begin(d, c)
                           /\ ~X!Resume(d) /\ ~X!Check(d) /\ ~X!Execute(d)
    BY <2>1 DEF X!Begin, X!Resume, X!Check, X!Execute, X!Refuse, X!rows
  <2>6. ASSUME NEW d \in Deciders, X!DecideStep(d) PROVE FALSE
    <3>1. X!Settle(d)
      BY <2>1, <2>6 DEF X!DecideStep, X!Authorize, X!Read, X!Decide, X!End, X!Cancel, X!List,
                        X!Emit, X!Refuse, X!rows
    <3>2. Alone(d)
      BY <1>1, <2>1 DEF ApprovalInv, CalmOK
    <3> QED BY <2>1, <3>1, <3>2 DEF X!Settle, Alone
  <2>7. ~X!Expire /\ ~X!Cleanup
    BY <2>1 DEF X!Expire, X!Cleanup, X!rows
  <2>8. PICK d \in Deciders : X!Mark(d)
    BY <2>2, <2>3, <2>4, <2>5, <2>6, <2>7 DEF X!Next, X!ExecuteStep
  <2>9. Knows(d)
    BY <1>1, <2>1 DEF ApprovalInv, Sound
  <2> QED BY <2>1, <2>8, <2>9 DEF X!Mark, Knows, SecondPass
<1> QED BY <1>1, ApprovalAlways, PTL DEF Spec, X!FirstDecisionStands
=============================================================================
