--------------------------- MODULE BusinessProofs ---------------------------
(***************************************************************************)
(* Theorems about MCBusiness: the token of a turn, the approval of an      *)
(* employee's task, a run that serves one request at a time, requests that *)
(* are made twice, processes that come up together, sales, and what the    *)
(* action properties of tool actions and runs say together; at the end the *)
(* types of all its variables, for which the invariants of the parts are   *)
(* strengthened by the bounds of their counters.  The first part of the    *)
(* proof, about the tool action that waits for an approval, is             *)
(* ApprovalProofs.                                                         *)
(***************************************************************************)
EXTENDS ApprovalProofs, FiniteSetTheorems

-----------------------------------------------------------------------------
(*                  The token of a turn: inductive invariant               *)

Openings == [run : TaskRuns, token : 0 .. MaxTurns, generation : 0 .. MaxTurns]
Closings == [turn : T!Bound, step : {"retire", "unbind", "revoke"}, locked : BOOLEAN]

\* The turns that something still remembers.
Turns == bound \cup {held[r] : r \in TaskRuns} \cup {c.turn : c \in closing}

TokenTypes ==
    /\ minted \in 0 .. MaxTurns /\ registered \in 0 .. minted
    /\ bound \subseteq T!Bound
    /\ held \in [TaskRuns -> T!Bound \cup {NoTurn}]
    /\ opening = Free \/ opening \in Openings
    /\ closing \subseteq Closings
    /\ endedTurns \subseteq T!Token

\* A token names one turn, and a turn being opened has a token of its own.
OneTurnPerToken ==
    \A a, b \in Turns \ {NoTurn} :
        /\ a.token <= minted /\ a.generation <= minted
        /\ a.token = b.token => a = b

OpeningIsNew ==
    opening # Free /\ opening.token # 0 =>
        /\ opening.token <= minted /\ opening.generation \in 1 .. minted
        /\ opening.token \notin endedTurns
        /\ \A a \in Turns \ {NoTurn} : a.token # opening.token

\* What is over is not bound any more.
EndedIsUnbound ==
    /\ \A t \in endedTurns : t <= minted
    /\ \A b \in bound : b.token \notin endedTurns
    /\ \A c \in closing, b \in bound : c.step = "revoke" => b.token # c.turn.token

TokenInv == TokenTypes /\ OneTurnPerToken /\ OpeningIsNew /\ EndedIsUnbound

-----------------------------------------------------------------------------

\* A step that remembers no turn anew, mints nothing and registers at most what
\* was registered.
LEMMA ForgettingKeeps ==
    ASSUME TokenInv, TokenTypes', minted' = minted, bound' \subseteq bound, endedTurns' = endedTurns,
           Turns' \subseteq Turns \cup {NoTurn},
           opening' = Free \/ opening' = opening \/ opening'.token = 0,
           \A c \in closing' : c.step = "revoke" => c \in closing
    PROVE  TokenInv'
<1>1. OneTurnPerToken'
  BY DEF TokenInv, OneTurnPerToken
<1>2. OpeningIsNew'
  BY DEF TokenInv, OpeningIsNew
<1>3. EndedIsUnbound'
  BY DEF TokenInv, EndedIsUnbound
<1> QED BY <1>1, <1>2, <1>3 DEF TokenInv

\* _by_run forgets the run's turn, and its clean-up begins.
LEMMA PopKeeps ==
    ASSUME TokenInv, NEW r \in TaskRuns, NEW l \in BOOLEAN, T!Pop(r, l), held[r] # NoTurn,
           UNCHANGED <<registered, bound, minted, endedTurns>>,
           opening' = opening \/ (opening' \in Openings /\ opening'.token = 0)
    PROVE  TokenInv'
<1> DEFINE c == [turn |-> held[r], step |-> "retire", locked |-> l]
<1>1. held' = [held EXCEPT ![r] = NoTurn] /\ closing' = closing \cup {c}
  BY DEF T!Pop
<1>2. held \in [TaskRuns -> T!Bound \cup {NoTurn}] /\ held[r] \in T!Bound /\ closing \subseteq Closings
  BY DEF TokenInv, TokenTypes
<1>3. c \in Closings /\ c.turn = held[r] /\ c.step = "retire"
  BY <1>2 DEF Closings
<1> HIDE DEF c
<1>4. TokenTypes'
  <2>1. held' \in [TaskRuns -> T!Bound \cup {NoTurn}] /\ closing' \subseteq Closings
    BY <1>1, <1>2, <1>3
  <2> QED BY <2>1 DEF TokenInv, TokenTypes
<1>5. Turns' \subseteq Turns \cup {NoTurn}
  <2>1. \A q \in TaskRuns : held'[q] \in {held[q], NoTurn}
    BY <1>1, <1>2
  <2> QED BY <1>1, <1>3, <2>1 DEF Turns
<1>6. \A d \in closing' : d.step = "revoke" => d \in closing
  BY <1>1, <1>3
<1> QED BY <1>4, <1>5, <1>6, ForgettingKeeps

LEMMA KeepsOpenTurn ==
    ASSUME TokenInv, NEW r \in TaskRuns, T!OpenTurn(r)
    PROVE  TokenInv'
<1>1. opening' \in Openings /\ opening'.token = 0
  <2>1. opening' = [run |-> r, token |-> 0, generation |-> 0]
    BY DEF T!OpenTurn
  <2> QED BY <2>1, TokenAssumption DEF Openings
<1>2. UNCHANGED <<registered, bound, minted, endedTurns>>
  BY DEF T!OpenTurn
<1>3. CASE held[r] = NoTurn /\ UNCHANGED <<held, closing>>
  <2>1. TokenTypes' /\ Turns' = Turns
    BY <1>1, <1>2, <1>3 DEF TokenInv, TokenTypes, Turns
  <2> QED BY <1>1, <1>2, <1>3, <2>1, ForgettingKeeps
<1>4. CASE held[r] # NoTurn /\ T!Pop(r, TRUE)
  BY <1>1, <1>2, <1>4, PopKeeps
<1> QED BY <1>3, <1>4 DEF T!OpenTurn

\* What the gateway's answer makes of the turn being opened.
Granted(o, t, g) == [o EXCEPT !.token = t, !.generation = g]

LEMMA GrantedIs ==
    ASSUME NEW o \in Openings, NEW t \in 0 .. MaxTurns, NEW g \in 0 .. MaxTurns
    PROVE  Granted(o, t, g) \in Openings /\ Granted(o, t, g).token = t /\ Granted(o, t, g).generation = g
BY DEF Granted, Openings

\* The token is new: no turn, ended or remembered, has it.
LEMMA KeepsMint ==
    ASSUME TokenInv, T!Mint
    PROVE  TokenInv'
<1>1. /\ opening # Free /\ opening.token = 0 /\ minted < MaxTurns /\ minted' = minted + 1
      /\ UNCHANGED <<registered, bound, held, closing, endedTurns>>
  BY DEF T!Mint, T!MayMint
<1>2. minted \in Nat /\ registered \in Nat /\ registered <= minted /\ Turns' = Turns /\ opening \in Openings
  BY <1>1, TokenAssumption DEF TokenInv, TokenTypes, Turns
<1>3. opening' = Free
      \/ (opening' \in Openings /\ opening'.token = minted' /\ opening'.generation = registered + 1)
  <2>1. ASSUME opening' = [opening EXCEPT !.token = minted', !.generation = registered + 1]
        PROVE  opening' \in Openings /\ opening'.token = minted' /\ opening'.generation = registered + 1
    <3>1. minted' \in 0 .. MaxTurns /\ registered + 1 \in 0 .. MaxTurns
      BY <1>1, <1>2, TokenAssumption
    <3>2. opening' = Granted(opening, minted', registered + 1)
      BY <2>1 DEF Granted
    <3> QED BY <1>2, <3>1, <3>2, GrantedIs
  <2> QED BY <2>1 DEF T!Mint
<1>4. TokenTypes'
  <2>1. minted' \in 0 .. MaxTurns /\ registered' \in 0 .. minted'
    BY <1>1, <1>2, TokenAssumption
  <2> QED BY <1>1, <1>3, <2>1 DEF TokenInv, TokenTypes
<1>5. \A a \in Turns \ {NoTurn} : a \in T!Bound /\ a.token \in Nat /\ a.generation \in Nat
                                 /\ a.token <= minted /\ a.generation <= minted
  <2>1. Turns \ {NoTurn} \subseteq T!Bound
    BY DEF TokenInv, TokenTypes, Turns, Closings
  <2>2. \A a \in T!Bound : a.token \in Nat /\ a.generation \in Nat
    BY TokenAssumption DEF T!Bound, T!Token
  <2> QED BY <2>1, <2>2 DEF TokenInv, OneTurnPerToken
<1>6. OneTurnPerToken'
  BY <1>1, <1>2, <1>5 DEF TokenInv, OneTurnPerToken
<1>7. \A t \in endedTurns : t \in Nat /\ t <= minted
  <2>1. endedTurns \subseteq 1 .. MaxTurns /\ \A t \in endedTurns : t <= minted
    BY DEF TokenInv, TokenTypes, EndedIsUnbound, T!Token
  <2> QED BY <2>1, TokenAssumption
<1>8. OpeningIsNew'
  BY <1>1, <1>2, <1>3, <1>5, <1>7 DEF OpeningIsNew
<1>9. EndedIsUnbound'
  BY <1>1, <1>2, <1>7 DEF TokenInv, EndedIsUnbound
<1> QED BY <1>4, <1>6, <1>8, <1>9 DEF TokenInv

LEMMA KeepsMintRefused ==
    ASSUME TokenInv, T!MintRefused
    PROVE  TokenInv'
<1>1. opening' = Free /\ UNCHANGED <<registered, bound, held, closing, minted, endedTurns>>
  BY DEF T!MintRefused
<1>2. TokenTypes' /\ Turns' = Turns
  BY <1>1 DEF TokenInv, TokenTypes, Turns
<1> QED BY <1>1, <1>2, ForgettingKeeps

LEMMA KeepsRegister ==
    ASSUME TokenInv, T!Register
    PROVE  TokenInv'
<1> DEFINE b == [token |-> opening.token, generation |-> opening.generation]
<1>1. /\ opening # Free /\ opening.token # 0 /\ bound' = bound \cup {b}
      /\ held' = [held EXCEPT ![opening.run] = b] /\ registered' = opening.generation /\ opening' = Free
      /\ UNCHANGED <<closing, minted, endedTurns>>
  BY DEF T!Register
<1>2. /\ opening \in Openings /\ opening.token \in 1 .. MaxTurns /\ opening.generation \in 1 .. minted
      /\ opening.token <= minted /\ opening.token \notin endedTurns /\ minted \in 0 .. MaxTurns
      /\ \A a \in Turns \ {NoTurn} : a.token # opening.token
  BY <1>1 DEF TokenInv, TokenTypes, OpeningIsNew, Openings
<1>3. b \in T!Bound /\ b.token = opening.token /\ b.generation = opening.generation /\ opening.run \in TaskRuns
  BY <1>2, TokenAssumption DEF T!Bound, T!Token, Openings
<1> HIDE DEF b
<1>4. TokenTypes'
  <2>1. registered' \in 0 .. minted
    BY <1>1, <1>2
  <2>2. held' \in [TaskRuns -> T!Bound \cup {NoTurn}]
    BY <1>1, <1>3 DEF TokenInv, TokenTypes
  <2> QED BY <1>1, <1>3, <2>1, <2>2 DEF TokenInv, TokenTypes
<1>5. Turns' \subseteq Turns \cup {b}
  <2>1. \A q \in TaskRuns : held'[q] \in {held[q], b}
    BY <1>1 DEF TokenInv, TokenTypes
  <2> QED BY <1>1, <2>1 DEF Turns
<1>6. OneTurnPerToken'
  <2>1. b.token <= minted /\ b.generation <= minted
    BY <1>2, <1>3
  <2>2. \A a \in Turns \ {NoTurn} : a.token # b.token
    BY <1>2, <1>3
  <2> QED BY <1>1, <1>5, <2>1, <2>2 DEF TokenInv, OneTurnPerToken
<1>7. EndedIsUnbound'
  <2>1. \A c \in closing : c.turn.token # b.token
    <3>1. \A c \in closing : c.turn \in Turns \ {NoTurn}
      BY TokenAssumption DEF TokenInv, TokenTypes, Turns, Closings
    <3> QED BY <1>2, <1>3, <3>1
  <2> QED BY <1>1, <1>2, <1>3, <2>1 DEF TokenInv, EndedIsUnbound
<1>8. OpeningIsNew'
  BY <1>1 DEF OpeningIsNew
<1> QED BY <1>4, <1>6, <1>7, <1>8 DEF TokenInv

LEMMA KeepsRollBack ==
    ASSUME TokenInv, T!RollBack
    PROVE  TokenInv'
<1>1. /\ opening # Free /\ opening.token # 0 /\ bound' = {b \in bound : b.token # opening.token}
      /\ endedTurns' = endedTurns \cup {opening.token} /\ opening' = Free
      /\ UNCHANGED <<registered, held, closing, minted>>
  BY DEF T!RollBack
<1>2. opening.token \in T!Token /\ opening.token <= minted
  BY <1>1 DEF TokenInv, TokenTypes, OpeningIsNew, Openings, T!Token
<1>3. TokenTypes'
  BY <1>1, <1>2 DEF TokenInv, TokenTypes
<1>4. Turns' \subseteq Turns
  BY <1>1 DEF Turns
<1>5. OneTurnPerToken'
  BY <1>1, <1>4 DEF TokenInv, OneTurnPerToken
<1>6. OpeningIsNew'
  BY <1>1 DEF OpeningIsNew
<1>7. EndedIsUnbound'
  BY <1>1, <1>2 DEF TokenInv, EndedIsUnbound
<1> QED BY <1>3, <1>5, <1>6, <1>7 DEF TokenInv

LEMMA KeepsContainerEnds ==
    ASSUME TokenInv, NEW r \in TaskRuns, T!ContainerEnds(r)
    PROVE  TokenInv'
<1>1. UNCHANGED <<registered, bound, opening, minted, endedTurns>>
  BY DEF T!ContainerEnds
<1>2. CASE UNCHANGED <<held, closing>>
  <2>1. TokenTypes' /\ Turns' = Turns
    BY <1>1, <1>2 DEF TokenInv, TokenTypes, Turns
  <2> QED BY <1>1, <1>2, <2>1, ForgettingKeeps
<1>3. CASE held[r] # NoTurn /\ T!Pop(r, FALSE)
  BY <1>1, <1>3, PopKeeps
<1> QED BY <1>2, <1>3 DEF T!ContainerEnds

LEMMA NoTurnChanges ==
    ASSUME TokenInv, UNCHANGED <<registered, bound, opening, minted, endedTurns, held, closing>>
    PROVE  TokenInv'
BY DEF TokenInv, TokenTypes, Turns, OneTurnPerToken, OpeningIsNew, EndedIsUnbound

LEMMA KeepsOnTerminal ==
    ASSUME TokenInv, T!OnTerminal
    PROVE  TokenInv'
<1>1. PICK c \in closing : /\ T!Retire(c) \/ T!RevokeBinding(c) \/ T!GatewayRevoke(c)
                           /\ UNCHANGED <<held, opening, minted>>
  BY DEF T!OnTerminal
<1>2. c \in Closings /\ c.turn \in T!Bound /\ c.turn \in Turns \ {NoTurn}
  BY TokenAssumption DEF TokenInv, TokenTypes, Closings, Turns
<1>3. CASE T!Retire(c)
  <2> DEFINE n == [c EXCEPT !.step = "unbind"]
  <2>1. n \in Closings /\ n.step = "unbind" /\ n.turn = c.turn
    BY <1>2 DEF Closings
  <2>2. registered' = 0 /\ closing' = (closing \ {c}) \cup {n} /\ UNCHANGED <<bound, endedTurns>>
    BY <1>3 DEF T!Retire
  <2> HIDE DEF n
  <2>3. TokenTypes'
    BY <1>1, <2>1, <2>2 DEF TokenInv, TokenTypes
  <2>4. Turns' \subseteq Turns
    BY <1>1, <2>1, <2>2 DEF Turns
  <2> QED BY <1>1, <2>1, <2>2, <2>3, <2>4, ForgettingKeeps
<1>4. CASE T!RevokeBinding(c)
  <2> DEFINE n == [c EXCEPT !.step = "revoke"]
  <2>1. n \in Closings /\ n.step = "revoke" /\ n.turn = c.turn
    BY <1>2 DEF Closings
  <2>2. /\ bound' = {b \in bound : b.generation # c.turn.generation}
        /\ closing' = (closing \ {c}) \cup {n} /\ UNCHANGED <<registered, endedTurns>>
    BY <1>4 DEF T!RevokeBinding, T!Without
  <2> HIDE DEF n
  <2>3. TokenTypes'
    BY <1>1, <2>1, <2>2 DEF TokenInv, TokenTypes
  <2>4. Turns' \subseteq Turns
    BY <1>1, <2>1, <2>2 DEF Turns
  <2>5. \A b \in bound' : b.token # n.turn.token
    <3>1. \A b \in bound : b \in Turns \ {NoTurn}
      BY TokenAssumption DEF TokenInv, TokenTypes, Turns
    <3> QED BY <1>2, <2>1, <2>2, <3>1 DEF TokenInv, OneTurnPerToken
  <2>6. OneTurnPerToken' /\ OpeningIsNew'
    BY <1>1, <2>2, <2>4 DEF TokenInv, OneTurnPerToken, OpeningIsNew
  <2>7. EndedIsUnbound'
    BY <1>1, <2>2, <2>5 DEF TokenInv, EndedIsUnbound
  <2> QED BY <2>3, <2>6, <2>7 DEF TokenInv
<1>5. CASE T!GatewayRevoke(c)
  <2>1. /\ c.step = "revoke" /\ endedTurns' = endedTurns \cup {c.turn.token} /\ closing' = closing \ {c}
        /\ UNCHANGED <<registered, bound>>
    BY <1>5 DEF T!GatewayRevoke
  <2>2. c.turn.token \in T!Token /\ c.turn.token <= minted
    BY <1>2 DEF T!Bound, TokenInv, OneTurnPerToken
  <2>3. TokenTypes'
    BY <1>1, <2>1, <2>2 DEF TokenInv, TokenTypes
  <2>4. Turns' \subseteq Turns
    BY <1>1, <2>1 DEF Turns
  <2>5. OneTurnPerToken'
    BY <1>1, <2>4 DEF TokenInv, OneTurnPerToken
  <2>6. OpeningIsNew'
    <3>1. opening # Free /\ opening.token # 0 => opening.token # c.turn.token
      BY <1>2 DEF TokenInv, OpeningIsNew
    <3> QED BY <1>1, <2>1, <2>4, <3>1 DEF TokenInv, OpeningIsNew
  <2>7. EndedIsUnbound'
    BY <1>1, <2>1, <2>2 DEF TokenInv, EndedIsUnbound
  <2> QED BY <2>3, <2>5, <2>6, <2>7 DEF TokenInv
<1> QED BY <1>1, <1>3, <1>4, <1>5

LEMMA KeepsRestart ==
    ASSUME TokenInv, T!Restart
    PROVE  TokenInv'
<1>1. /\ registered' = 0 /\ bound' = {} /\ held' = [r \in TaskRuns |-> NoTurn]
      /\ opening' = Free /\ closing' = {} /\ UNCHANGED <<minted, endedTurns>>
  BY DEF T!Restart
<1>2. TokenTypes'
  BY <1>1 DEF TokenInv, TokenTypes
<1>3. Turns' \subseteq {NoTurn}
  BY <1>1 DEF Turns
<1> QED BY <1>1, <1>2, <1>3, ForgettingKeeps

LEMMA TokenStep ==
    ASSUME TokenInv, T!Next
    PROVE  TokenInv'
<1>1. CASE T!Open
  BY <1>1, KeepsOpenTurn, KeepsMint, KeepsMintRefused, KeepsRegister, KeepsRollBack DEF T!Open
<1>2. CASE T!Close
  <2>1. ASSUME NEW r \in TaskRuns, T!NeverStarts(r) PROVE TokenInv'
    BY <2>1, NoTurnChanges DEF T!NeverStarts
  <2> QED BY <1>2, <2>1, KeepsContainerEnds, KeepsOnTerminal DEF T!Close
<1>3. CASE T!Expire
  BY <1>3, NoTurnChanges DEF T!Expire
<1>4. CASE T!Restart
  BY <1>4, KeepsRestart
<1> QED BY <1>1, <1>2, <1>3, <1>4 DEF T!Next

LEMMA TokenOfSystem ==
    ASSUME [Next]_vars
    PROVE  T!Next \/ UNCHANGED <<registered, bound, opening, minted, endedTurns, held, closing>>
<1>1. UNCHANGED tVars => UNCHANGED <<registered, bound, opening, minted, endedTurns, held, closing>>
  BY DEF tVars
<1> QED BY <1>1 DEF Next, vars

LEMMA TokenStart ==
    ASSUME T!Init
    PROVE  TokenInv
<1>1. /\ registered = 0 /\ bound = {} /\ held = [r \in TaskRuns |-> NoTurn]
      /\ opening = Free /\ closing = {} /\ minted = 0 /\ endedTurns = {}
  BY DEF T!Init
<1>2. TokenTypes
  BY <1>1, TokenAssumption DEF TokenTypes
<1>3. Turns \subseteq {NoTurn}
  BY <1>1 DEF Turns
<1> QED BY <1>1, <1>2, <1>3 DEF TokenInv, OneTurnPerToken, OpeningIsNew, EndedIsUnbound

\* Generations start over at one whenever the session is retired; all the same,
\* the token of a turn that was cleaned up or rolled back is never authorized
\* again, whatever other runs open, close and retire meanwhile.
THEOREM TokensEnd == Spec => []EndedTurnIsRefused
<1>1. Init => TokenInv
  BY TokenStart DEF Init
<1>2. TokenInv /\ [Next]_vars => TokenInv'
  BY TokenOfSystem, TokenStep, NoTurnChanges
<1>3. TokenInv => EndedTurnIsRefused
  BY DEF TokenInv, EndedIsUnbound, EndedTurnIsRefused, T!EndedTurnIsRefused, T!Authorized
<1> QED BY <1>1, <1>2, <1>3, PTL DEF Spec
-----------------------------------------------------------------------------
(*              Approval of an employee's task: inductive invariant        *)

\* A task of this employee may do without approval: its risk is below high, or
\* was once configured so.
Exempt(a, r) ==
    /\ r # "critical"
    /\ W!RiskOrder(r) < W!RiskOrder("high") \/ r \in waived[a]

\* Whatever an employee's row exempts now was exempted for it.
StaffOK ==
    \A a \in AgentKeys : staff[a] # Nothing =>
        /\ staff[a] \in W!StaffRows
        /\ \A r \in W!RiskLevels :
              ~W!NeedsApproval(staff[a].autonomy, r, staff[a].threshold) => Exempt(a, r)

IntakeOK ==
    \A p \in W!Callers : intake[p] # Nothing =>
        \/ intake[p].op = "hire" /\ intake[p].agent \in AgentKeys /\ intake[p].role \in JobRoles
        \/ intake[p].op = "bind"
        \/ /\ intake[p].op = "task" /\ intake[p].key \in TaskKeys /\ intake[p].agent \in AgentKeys
           /\ intake[p].risk \in W!RiskLevels /\ intake[p].waived \in BOOLEAN
           /\ intake[p].waived => Exempt(intake[p].agent, intake[p].risk)

OrdersOK ==
    \A k \in TaskKeys : orders[k] # Nothing =>
        /\ orders[k] \in W!OrderRows
        /\ orders[k].waived => Exempt(orders[k].agent, orders[k].risk)
        /\ orders[k].status = "queued" =>
              orders[k].waived \/ orders[k].approver \in Chiefs \ {orders[k].by}

WorkforceTypes ==
    /\ staff \in [AgentKeys -> W!StaffRows \cup {Nothing}]
    /\ orders \in [TaskKeys -> W!OrderRows \cup {Nothing}]
    /\ waived \in [AgentKeys -> SUBSET W!RiskLevels]
    /\ DOMAIN intake = W!Callers

WorkforceInv == WorkforceTypes /\ StaffOK /\ IntakeOK /\ OrdersOK

-----------------------------------------------------------------------------
(*                              The risk order                             *)

LEMMA RiskOrders ==
    /\ W!RiskLevels = {"low", "medium", "high", "critical"}
    /\ W!RiskOrder("low") = 1 /\ W!RiskOrder("medium") = 2
    /\ W!RiskOrder("high") = 3 /\ W!RiskOrder("critical") = 4
<1>1. DOMAIN W!Risks = 1 .. 4
  BY DEF W!Risks
<1>2. W!Risks[1] = "low" /\ W!Risks[2] = "medium" /\ W!Risks[3] = "high" /\ W!Risks[4] = "critical"
  BY DEF W!Risks
<1>3. \A i \in 1 .. 4 : i = 1 \/ i = 2 \/ i = 3 \/ i = 4
  OBVIOUS
<1>4. W!RiskLevels = {"low", "medium", "high", "critical"}
  BY <1>1, <1>2, <1>3 DEF W!RiskLevels
<1>5. ASSUME NEW i \in 1 .. 4 PROVE W!RiskOrder(W!Risks[i]) = i
  <2>1. \A j \in DOMAIN W!Risks : W!Risks[j] = W!Risks[i] => j = i
    BY <1>1, <1>2, <1>3, <1>5
  <2> QED BY <1>1, <2>1 DEF W!RiskOrder
<1> QED BY <1>2, <1>4, <1>5

\* The defaults exempt low and medium risks.
LEMMA DefaultExempts ==
    ASSUME NEW r \in W!RiskLevels, W!RiskOrder(r) < W!RiskOrder("high"), NEW a
    PROVE  Exempt(a, r)
BY RiskOrders DEF Exempt

-----------------------------------------------------------------------------
(*                                The steps                                *)

\* More is waived, the rest stays.
LEMMA ExemptGrows ==
    ASSUME NEW a, NEW r, Exempt(a, r), waived[a] \subseteq waived'[a]
    PROVE  Exempt(a, r)'
BY DEF Exempt

LEMMA NoOrderChanges ==
    ASSUME WorkforceInv, UNCHANGED <<staff, orders, waived, intake>>
    PROVE  WorkforceInv'
BY DEF WorkforceInv, WorkforceTypes, StaffOK, IntakeOK, OrdersOK, Exempt

\* A person's next step changes, nothing else.
LEMMA TakesKeeps ==
    ASSUME WorkforceInv, UNCHANGED <<staff, orders, waived>>, NEW p \in W!Callers, NEW s, W!Takes(p, s),
           s # Nothing =>
               \/ s.op = "hire" /\ s.agent \in AgentKeys /\ s.role \in JobRoles
               \/ s.op = "bind"
               \/ /\ s.op = "task" /\ s.key \in TaskKeys /\ s.agent \in AgentKeys
                  /\ s.risk \in W!RiskLevels /\ s.waived \in BOOLEAN
                  /\ s.waived => Exempt(s.agent, s.risk)
    PROVE  WorkforceInv'
<1>1. intake' = [intake EXCEPT ![p] = s] /\ DOMAIN intake = W!Callers
  BY DEF W!Takes, WorkforceInv, WorkforceTypes
<1>2. WorkforceTypes' /\ StaffOK' /\ OrdersOK'
  BY <1>1 DEF WorkforceInv, WorkforceTypes, StaffOK, OrdersOK, Exempt
<1>3. IntakeOK'
  <2>1. SUFFICES ASSUME NEW q \in W!Callers, intake'[q] # Nothing
                 PROVE \/ intake'[q].op = "hire" /\ intake'[q].agent \in AgentKeys /\ intake'[q].role \in JobRoles
                       \/ intake'[q].op = "bind"
                       \/ /\ intake'[q].op = "task" /\ intake'[q].key \in TaskKeys /\ intake'[q].agent \in AgentKeys
                          /\ intake'[q].risk \in W!RiskLevels /\ intake'[q].waived \in BOOLEAN
                          /\ intake'[q].waived => Exempt(intake'[q].agent, intake'[q].risk)
    BY DEF IntakeOK, Exempt
  <2>2. CASE q = p
    BY <1>1, <2>1, <2>2
  <2>3. CASE q # p
    BY <1>1, <2>1, <2>3 DEF WorkforceInv, IntakeOK
  <2> QED BY <2>2, <2>3
<1> QED BY <1>2, <1>3 DEF WorkforceInv

\* One employee's row changes; what it exempts was waived, now or before.
LEMMA StaffKeeps ==
    ASSUME WorkforceInv, NEW a \in AgentKeys, NEW e \in W!StaffRows, staff' = [staff EXCEPT ![a] = e],
           waived' \in [AgentKeys -> SUBSET W!RiskLevels], \A b \in AgentKeys : waived[b] \subseteq waived'[b],
           \A r \in W!RiskLevels : ~W!NeedsApproval(e.autonomy, r, e.threshold) => Exempt(a, r)',
           UNCHANGED orders, UNCHANGED intake \/ (\E p \in W!Callers : W!Takes(p, Nothing))
    PROVE  WorkforceInv'
<1>1. WorkforceTypes'
  BY DEF WorkforceInv, WorkforceTypes, W!Takes
<1>2. StaffOK'
  <2>1. SUFFICES ASSUME NEW b \in AgentKeys, staff'[b] # Nothing
                 PROVE  /\ staff'[b] \in W!StaffRows
                        /\ \A r \in W!RiskLevels :
                              ~W!NeedsApproval(staff'[b].autonomy, r, staff'[b].threshold) => Exempt(b, r)'
    BY DEF StaffOK
  <2>2. CASE b = a
    <3>1. staff'[b] = e
      BY <2>2 DEF WorkforceInv, WorkforceTypes
    <3> QED BY <2>2, <3>1
  <2>3. CASE b # a
    <3>1. staff'[b] = staff[b]
      BY <2>3 DEF WorkforceInv, WorkforceTypes
    <3>2. staff[b] \in W!StaffRows
          /\ \A r \in W!RiskLevels : ~W!NeedsApproval(staff[b].autonomy, r, staff[b].threshold) => Exempt(b, r)
      BY <2>1, <3>1 DEF WorkforceInv, StaffOK
    <3> QED BY <3>1, <3>2, ExemptGrows
  <2> QED BY <2>2, <2>3
<1>3. OrdersOK'
  <2>1. \A k \in TaskKeys : orders[k] # Nothing => orders[k].agent \in AgentKeys
    BY DEF WorkforceInv, OrdersOK, W!OrderRows
  <2> QED BY <2>1, ExemptGrows DEF WorkforceInv, OrdersOK
<1>4. IntakeOK'
  <2>1. \A p \in W!Callers : intake'[p] # Nothing => intake'[p] = intake[p]
    BY DEF WorkforceInv, WorkforceTypes, W!Takes
  <2> QED BY <2>1, ExemptGrows DEF WorkforceInv, IntakeOK
<1> QED BY <1>1, <1>2, <1>3, <1>4 DEF WorkforceInv

\* update_employee's and update_agent_config's changes of a row.
WithRole(e, r) == [e EXCEPT !.role = r]
StaffStatus(e, s) == [e EXCEPT !.status = s]
Autonomous(e, l, t) == [e EXCEPT !.autonomy = l, !.threshold = t]

LEMMA StaffChanges ==
    ASSUME NEW e \in W!StaffRows, NEW r \in JobRoles
    PROVE  /\ WithRole(e, r) \in W!StaffRows
           /\ WithRole(e, r).autonomy = e.autonomy /\ WithRole(e, r).threshold = e.threshold
BY DEF W!StaffRows, WithRole

LEMMA KeepsWriteEmployee ==
    ASSUME WorkforceInv, NEW p \in W!Callers, W!WriteEmployee(p)
    PROVE  WorkforceInv'
<1>1. PICK a \in AgentKeys, role \in JobRoles : a = intake[p].agent /\ role = intake[p].role
  BY DEF W!WriteEmployee, WorkforceInv, IntakeOK
<1> DEFINE fresh == [role |-> role, status |-> "active", autonomy |-> "approval_for_risky",
                     threshold |-> "high"]
           e == IF staff[a] = Nothing THEN fresh ELSE WithRole(staff[a], role)
<1>2. staff' = [staff EXCEPT ![a] = e] /\ W!Takes(p, Nothing) /\ UNCHANGED <<orders, waived>>
  BY <1>1 DEF W!WriteEmployee, WithRole
<1>3. e \in W!StaffRows /\ \A r \in W!RiskLevels : ~W!NeedsApproval(e.autonomy, r, e.threshold) => Exempt(a, r)
  <2>1. CASE staff[a] = Nothing
    <3>1. fresh \in W!StaffRows /\ fresh.autonomy = "approval_for_risky" /\ fresh.threshold = "high"
      BY <1>1, RiskOrders DEF W!StaffRows, W!AutonomyLevels
    <3>2. ASSUME NEW r \in W!RiskLevels, ~W!NeedsApproval("approval_for_risky", r, "high") PROVE Exempt(a, r)
      BY <3>2, RiskOrders DEF W!NeedsApproval, Exempt
    <3> QED BY <2>1, <3>1, <3>2
  <2>2. CASE staff[a] # Nothing
    <3>1. /\ staff[a] \in W!StaffRows
          /\ \A r \in W!RiskLevels : ~W!NeedsApproval(staff[a].autonomy, r, staff[a].threshold) => Exempt(a, r)
      BY <1>1, <2>2 DEF WorkforceInv, StaffOK
    <3>2. WithRole(staff[a], role) \in W!StaffRows
          /\ WithRole(staff[a], role).autonomy = staff[a].autonomy
          /\ WithRole(staff[a], role).threshold = staff[a].threshold
      BY <3>1, StaffChanges
    <3> QED BY <2>2, <3>1, <3>2
  <2> QED BY <2>1, <2>2
<1> HIDE DEF e
<1>4. \A r \in W!RiskLevels : Exempt(a, r) => Exempt(a, r)'
  BY <1>2 DEF Exempt
<1>5. \A r \in W!RiskLevels : ~W!NeedsApproval(e.autonomy, r, e.threshold) => Exempt(a, r)'
  BY <1>3, <1>4
<1> QED BY <1>2, <1>3, <1>5, StaffKeeps DEF WorkforceInv, WorkforceTypes

LEMMA KeepsUpdateEmployee ==
    ASSUME WorkforceInv, NEW a \in AgentKeys, NEW s \in {"active", "disabled"}, W!UpdateEmployee(a, s)
    PROVE  WorkforceInv'
<1>1. /\ staff[a] # Nothing /\ UNCHANGED <<orders, waived, intake>>
      /\ staff' = [staff EXCEPT ![a] = StaffStatus(staff[a], s)]
  BY DEF W!UpdateEmployee, StaffStatus
<1>2. /\ staff[a] \in W!StaffRows
      /\ \A r \in W!RiskLevels : ~W!NeedsApproval(staff[a].autonomy, r, staff[a].threshold) => Exempt(a, r)
  BY <1>1 DEF WorkforceInv, StaffOK
<1>3. StaffStatus(staff[a], s) \in W!StaffRows /\ StaffStatus(staff[a], s).autonomy = staff[a].autonomy
      /\ StaffStatus(staff[a], s).threshold = staff[a].threshold
  BY <1>2 DEF StaffStatus, W!StaffRows
<1>4. \A r \in W!RiskLevels : Exempt(a, r) => Exempt(a, r)'
  BY <1>1, ExemptGrows
<1> QED BY <1>1, <1>2, <1>3, <1>4, StaffKeeps DEF WorkforceInv, WorkforceTypes

LEMMA KeepsUpdateConfig ==
    ASSUME WorkforceInv, NEW a \in AgentKeys, NEW l \in W!AutonomyLevels, NEW t \in {"high", "critical"}, NEW m,
           W!UpdateAgentConfig(a, l, t, m)
    PROVE  WorkforceInv'
<1> DEFINE free == {r \in W!RiskLevels : ~W!NeedsApproval(l, r, t)}
<1>1. /\ staff[a] # Nothing /\ UNCHANGED <<orders, intake>>
      /\ staff' = [staff EXCEPT ![a] = Autonomous(staff[a], l, t)]
      /\ waived' = [waived EXCEPT ![a] = waived[a] \cup free]
  BY DEF W!UpdateAgentConfig, Autonomous
<1>2. staff[a] \in W!StaffRows /\ t \in W!RiskLevels
  BY <1>1, RiskOrders DEF WorkforceInv, StaffOK
<1>3. Autonomous(staff[a], l, t) \in W!StaffRows /\ Autonomous(staff[a], l, t).autonomy = l
      /\ Autonomous(staff[a], l, t).threshold = t
  BY <1>2 DEF Autonomous, W!StaffRows
<1>4. /\ waived' \in [AgentKeys -> SUBSET W!RiskLevels] /\ waived'[a] = waived[a] \cup free
      /\ \A b \in AgentKeys : waived[b] \subseteq waived'[b]
  BY <1>1 DEF WorkforceInv, WorkforceTypes
<1>5. ASSUME NEW r \in W!RiskLevels, ~W!NeedsApproval(l, r, t) PROVE Exempt(a, r)'
  <2>1. r # "critical"
    BY <1>5 DEF W!NeedsApproval
  <2> QED BY <1>4, <1>5, <2>1 DEF Exempt
<1>6. \A r \in W!RiskLevels :
          ~W!NeedsApproval(Autonomous(staff[a], l, t).autonomy, r, Autonomous(staff[a], l, t).threshold)
              => Exempt(a, r)'
  BY <1>3, <1>5
<1> HIDE DEF free
<1> QED BY <1>1, <1>3, <1>4, <1>6, StaffKeeps

LEMMA KeepsCreateReads ==
    ASSUME WorkforceInv, NEW p \in W!Callers, NEW k \in TaskKeys, NEW a \in AgentKeys, NEW r \in TaskRisks,
           W!CreateReads(p, k, a, r)
    PROVE  WorkforceInv'
<1> DEFINE s == [op |-> "task", key |-> k, agent |-> a, risk |-> r, waived |-> ~W!TaskRequiresApproval(a, r)]
<1>1. W!Takes(p, s) /\ UNCHANGED <<staff, orders, waived>>
  BY DEF W!CreateReads
<1>2. r \in W!RiskLevels
  BY RiskOrders, WorkforceAssumption
<1>3. ~W!TaskRequiresApproval(a, r) => Exempt(a, r)
  <2>1. CASE W!AgentIsActive(a)
    BY <1>2, <2>1 DEF W!AgentIsActive, W!TaskRequiresApproval, WorkforceInv, StaffOK
  <2>2. CASE ~W!AgentIsActive(a)
    BY <1>2, <2>2, RiskOrders, DefaultExempts DEF W!TaskRequiresApproval
  <2> QED BY <2>1, <2>2
<1>4. s.op = "task" /\ s.key = k /\ s.agent = a /\ s.risk = r /\ s.waived = ~W!TaskRequiresApproval(a, r)
  OBVIOUS
<1>5. s.waived \in BOOLEAN
  BY <1>4
<1>6. s.waived => Exempt(s.agent, s.risk)
  BY <1>3, <1>4
<1> HIDE DEF s
<1> QED BY <1>1, <1>2, <1>4, <1>5, <1>6, TakesKeeps

\* One task is written.
LEMMA OrderKeeps ==
    ASSUME WorkforceInv, NEW k \in TaskKeys, NEW o \in W!OrderRows, orders' = [orders EXCEPT ![k] = o],
           o.waived => Exempt(o.agent, o.risk),
           o.status = "queued" => o.waived \/ o.approver \in Chiefs \ {o.by},
           UNCHANGED <<staff, waived>>, UNCHANGED intake \/ (\E p \in W!Callers : W!Takes(p, Nothing))
    PROVE  WorkforceInv'
<1>1. WorkforceTypes'
  BY DEF WorkforceInv, WorkforceTypes, W!Takes
<1>2. StaffOK'
  BY DEF WorkforceInv, StaffOK, Exempt
<1>3. OrdersOK'
  <2>1. \A j \in TaskKeys : orders'[j] = IF j = k THEN o ELSE orders[j]
    BY DEF WorkforceInv, WorkforceTypes
  <2>2. \A j \in TaskKeys \ {k} : orders'[j] = orders[j]
    BY <2>1
  <2>3. orders'[k] = o
    BY <2>1
  <2> QED BY <2>2, <2>3 DEF WorkforceInv, OrdersOK, Exempt
<1>4. IntakeOK'
  <2>1. \A p \in W!Callers : intake'[p] # Nothing => intake'[p] = intake[p]
    BY DEF WorkforceInv, WorkforceTypes, W!Takes
  <2> QED BY <2>1 DEF WorkforceInv, IntakeOK, Exempt
<1> QED BY <1>1, <1>2, <1>3, <1>4 DEF WorkforceInv

LEMMA KeepsCreateTask ==
    ASSUME WorkforceInv, NEW p \in W!Callers, W!CreateTask(p)
    PROVE  WorkforceInv'
<1> DEFINE i == intake[p]
           o == [by |-> p, agent |-> i.agent, risk |-> i.risk, waived |-> i.waived,
                 status |-> IF i.waived THEN "queued" ELSE "pending_approval", approver |-> Nothing]
<1>1. /\ i.key \in TaskKeys /\ i.agent \in AgentKeys /\ i.risk \in W!RiskLevels /\ i.waived \in BOOLEAN
      /\ i.waived => Exempt(i.agent, i.risk)
  BY DEF W!CreateTask, WorkforceInv, IntakeOK
<1>2. W!Takes(p, Nothing) /\ UNCHANGED <<staff, waived>>
  BY DEF W!CreateTask
<1>3. CASE orders[i.key] # Nothing
  <2>1. orders' = orders
    BY <1>1, <1>3 DEF W!CreateTask, WorkforceInv, WorkforceTypes
  <2> QED BY <1>2, <2>1, TakesKeeps
<1>4. CASE orders[i.key] = Nothing
  <2>1. orders' = [orders EXCEPT ![i.key] = o]
    BY <1>4 DEF W!CreateTask
  <2>2. o \in W!OrderRows
    BY <1>1 DEF W!OrderRows
  <2>3. o.waived = i.waived /\ o.agent = i.agent /\ o.risk = i.risk
        /\ o.status = IF i.waived THEN "queued" ELSE "pending_approval"
    OBVIOUS
  <2> HIDE DEF o, i
  <2> QED BY <1>1, <1>2, <2>1, <2>2, <2>3, OrderKeeps
<1> QED BY <1>3, <1>4

ApprovedBy(o, p) == [o EXCEPT !.status = "queued", !.approver = p]

LEMMA KeepsApproveTask ==
    ASSUME WorkforceInv, NEW p \in W!Callers, NEW k \in TaskKeys, W!ApproveTask(p, k)
    PROVE  WorkforceInv'
<1>1. /\ p \in Chiefs /\ orders[k] # Nothing /\ orders[k].by # p
      /\ orders' = [orders EXCEPT ![k] = ApprovedBy(orders[k], p)] /\ UNCHANGED <<staff, waived, intake>>
  BY DEF W!ApproveTask, ApprovedBy
<1>2. orders[k] \in W!OrderRows /\ (orders[k].waived => Exempt(orders[k].agent, orders[k].risk))
  BY <1>1 DEF WorkforceInv, OrdersOK
<1> DEFINE o == orders[k]
<1> HIDE DEF o
<1>3. /\ ApprovedBy(o, p) \in W!OrderRows /\ ApprovedBy(o, p).waived = o.waived
      /\ ApprovedBy(o, p).agent = o.agent /\ ApprovedBy(o, p).risk = o.risk
      /\ ApprovedBy(o, p).by = o.by /\ ApprovedBy(o, p).approver = p
  <2>1. o \in W!OrderRows
    BY <1>2 DEF o
  <2> QED BY <2>1 DEF W!OrderRows, ApprovedBy
<1> QED BY <1>1, <1>2, <1>3, OrderKeeps DEF o

LEMMA WorkforceStep ==
    ASSUME WorkforceInv, W!Next
    PROVE  WorkforceInv'
<1>1. CASE W!Configure
  <2>1. ASSUME NEW r \in JobRoles, W!CreateRole(r) \/ \E s \in {"active", "disabled"} : W!UpdateRole(r, s)
        PROVE  WorkforceInv'
    BY <2>1, NoOrderChanges DEF W!CreateRole, W!UpdateRole
  <2> QED BY <1>1, <2>1, KeepsUpdateEmployee, KeepsUpdateConfig DEF W!Configure
<1>2. ASSUME NEW p \in W!Callers, W!Manage(p) PROVE WorkforceInv'
  <2>1. ASSUME NEW a \in AgentKeys, NEW r \in JobRoles, W!RequireActiveRole(p, a, r) PROVE WorkforceInv'
    <3> DEFINE s == [op |-> "hire", agent |-> a, role |-> r]
    <3>1. W!Takes(p, s) /\ UNCHANGED <<staff, orders, waived>> /\ s.op = "hire" /\ s.agent = a /\ s.role = r
      BY <2>1 DEF W!RequireActiveRole
    <3> HIDE DEF s
    <3> QED BY <2>1, <3>1, TakesKeeps
  <2>2. ASSUME NEW a \in AgentKeys, W!BindingAvailable(p, a) PROVE WorkforceInv'
    <3> DEFINE s == [op |-> "bind", agent |-> a]
    <3>1. W!Takes(p, s) /\ UNCHANGED <<staff, orders, waived>> /\ s.op = "bind"
      BY <2>2 DEF W!BindingAvailable
    <3> HIDE DEF s
    <3> QED BY <3>1, TakesKeeps
  <2>3. ASSUME W!BindKnowledge(p) PROVE WorkforceInv'
    BY <2>3, TakesKeeps DEF W!BindKnowledge
  <2> QED BY <1>2, <2>1, <2>2, <2>3, KeepsWriteEmployee DEF W!Manage
<1>3. ASSUME NEW p \in W!Callers, W!Order(p) PROVE WorkforceInv'
  BY <1>3, KeepsCreateReads, KeepsCreateTask, KeepsApproveTask DEF W!Order
<1> QED BY <1>1, <1>2, <1>3 DEF W!Next

LEMMA WorkforceOfSystem ==
    ASSUME [Next]_vars
    PROVE  W!Next \/ UNCHANGED <<staff, orders, waived, intake>>
<1>1. UNCHANGED wVars => UNCHANGED <<staff, orders, waived, intake>>
  BY DEF wVars
<1> QED BY <1>1 DEF Next, vars

LEMMA WorkforceStart ==
    ASSUME W!Init
    PROVE  WorkforceInv
BY DEF W!Init, WorkforceInv, WorkforceTypes, StaffOK, IntakeOK, OrdersOK

\* However configurations, roles and tasks overtake each other, a task that is
\* queued was approved by another administrator, or its risk was exempted, by
\* the defaults or by a configuration of its employee; critical ones never are.
THEOREM ApprovalsAreNotWaived == Spec => []ApprovalIsNotWaived
<1>1. Init => WorkforceInv
  BY WorkforceStart DEF Init
<1>2. WorkforceInv /\ [Next]_vars => WorkforceInv'
  BY WorkforceOfSystem, WorkforceStep, NoOrderChanges
<1>3. WorkforceInv => ApprovalIsNotWaived
  BY DEF WorkforceInv, OrdersOK, Exempt, ApprovalIsNotWaived, W!ApprovalIsNotWaived
<1> QED BY <1>1, <1>2, <1>3, PTL DEF Spec
-----------------------------------------------------------------------------
(*           A run, one request at a time: inductive invariant             *)

\* Rows, as far as the properties of the run tell them apart.
Rows == [status : L!Statuses, plan : MCPlans, approvals : [L!Ids -> L!Verdicts],
         done : SUBSET Nat, calls : Nat, count : Nat, saved : BOOLEAN]

\* Places at which the run is not over yet.
Working == L!Pcs \ {"idle", "request", "save"}

Over == stateRow.status \in L!Terminal

NoRejection ==
    \A i \in 1 .. Len(eventLog) : ~(eventLog[i].type = "approval.decided" /\ eventLog[i].ok = FALSE)
NoCompletion == \A i \in 1 .. Len(eventLog) : eventLog[i].type # "run.completed"

\* The copy of the one thread is the row, which counts the events; once an
\* approval was rejected the thread fails the run with its next step.
SerialTypes ==
    /\ next \in [Handlers -> L!Pcs] /\ DOMAIN seen = Handlers /\ deciding \in [Handlers -> [id : Nat, ok : BOOLEAN]]
    /\ purgedEvents \in Nat /\ \E S : eventLog \in Seq(S)

LogFollowsRow ==
    /\ \A i \in 1 .. Len(eventLog) : eventLog[i].seq = i
    /\ stateRow = NoRun => Len(eventLog) = 0
    /\ stateRow # NoRun => stateRow \in Rows /\ stateRow.count = Len(eventLog)
    /\ NoRejection \/ NoCompletion
    /\ stateRow # NoRun /\ ~Over => NoCompletion

ThreadOK(t) ==
    /\ stateRow = NoRun => next[t] = "idle"
    /\ next[t] # "idle" => seen[t] = stateRow
    /\ next[t] \in Working => ~Over
    /\ stateRow # NoRun /\ ~Over => NoRejection \/ next[t] = "reject"

SerialInv(t) == SerialTypes /\ LogFollowsRow /\ ThreadOK(t)

\* A run that is over stays as it ended.
Stays == stateRow # NoRun /\ Over => stateRow'.status = stateRow.status

-----------------------------------------------------------------------------
(*                            What a step writes                           *)

LEMMA LongerLog ==
    ASSUME NEW S, NEW l \in Seq(S), NEW e
    PROVE  /\ Append(l, e) \in Seq(S \cup {e}) /\ Len(Append(l, e)) = Len(l) + 1 /\ Len(l) \in Nat
           /\ \A i \in 1 .. Len(l) : Append(l, e)[i] = l[i]
           /\ Append(l, e)[Len(l) + 1] = e
<1>1. l \in Seq(S \cup {e})
  OBVIOUS
<1> QED BY <1>1

\* An event and the row that counts it.
LEMMA AppendSerial ==
    ASSUME NEW t, Handlers = {t}, SerialInv(t), next[t] # "idle",
           NEW r, r \in Rows, r # NoRun, r.count = stateRow.count + 1, stateRow' = r,
           NEW e, e.seq = stateRow.count + 1, eventLog' = Append(eventLog, e),
           purgedEvents' = purgedEvents, next' \in [Handlers -> L!Pcs], DOMAIN seen' = Handlers, deciding' \in [Handlers -> [id : Nat, ok : BOOLEAN]],
           next'[t] # "idle" => seen'[t] = r,
           next'[t] \in Working => r.status \notin L!Terminal,
           Over => r.status = stateRow.status,
           e.type = "run.completed" => r.status \in L!Terminal /\ ~Over /\ next[t] # "reject",
           e.type = "approval.decided" /\ e.ok = FALSE => next'[t] = "reject" /\ ~Over,
           next[t] = "reject" => r.status \in L!Terminal
    PROVE  SerialInv(t)' /\ Stays
<1>1. stateRow # NoRun /\ stateRow.count = Len(eventLog)
  BY DEF SerialInv, ThreadOK, LogFollowsRow
<1>2. PICK S : eventLog \in Seq(S)
  BY DEF SerialInv, SerialTypes
<1>3. /\ eventLog' \in Seq(S \cup {e}) /\ Len(eventLog') = Len(eventLog) + 1 /\ Len(eventLog) \in Nat
      /\ \A i \in 1 .. Len(eventLog) : eventLog'[i] = eventLog[i]
      /\ eventLog'[Len(eventLog) + 1] = e
  BY <1>2, LongerLog
<1>4. \A i \in 1 .. Len(eventLog') : i \in 1 .. Len(eventLog) \/ i = Len(eventLog) + 1
  BY <1>3
<1>5. SerialTypes'
  BY <1>3 DEF SerialInv, SerialTypes
<1>6. ASSUME e.type # "run.completed", NoCompletion PROVE NoCompletion'
  BY <1>3, <1>4, <1>6 DEF NoCompletion
<1>7. ASSUME ~(e.type = "approval.decided" /\ e.ok = FALSE), NoRejection PROVE NoRejection'
  BY <1>3, <1>4, <1>7 DEF NoRejection
<1>8. ~Over => NoCompletion /\ (NoRejection \/ next[t] = "reject")
  BY <1>1 DEF SerialInv, ThreadOK, LogFollowsRow
<1>9. (NoRejection \/ NoCompletion)'
  BY <1>6, <1>7, <1>8 DEF SerialInv, LogFollowsRow
<1>10. ~Over' => NoCompletion' /\ (NoRejection' \/ next'[t] = "reject")
  BY <1>6, <1>7, <1>8 DEF Over
<1>11. \A i \in 1 .. Len(eventLog') : eventLog'[i].seq = i
  BY <1>1, <1>3, <1>4 DEF SerialInv, LogFollowsRow
<1>12. LogFollowsRow'
  BY <1>1, <1>3, <1>9, <1>10, <1>11 DEF LogFollowsRow
<1>13. ThreadOK(t)'
  BY <1>10 DEF ThreadOK, Over
<1> QED BY <1>5, <1>12, <1>13 DEF SerialInv, Stays

\* The sequence after the row's count is free.
LEMMA NextIsFree ==
    ASSUME NEW t, SerialInv(t), stateRow # NoRun
    PROVE  stateRow.count + 1 \notin L!Sequences
<1>1. PICK S : eventLog \in Seq(S)
  BY DEF SerialInv, SerialTypes
<1>2. Len(eventLog) \in Nat /\ stateRow.count = Len(eventLog) /\ purgedEvents \in Nat
  BY <1>1 DEF SerialInv, SerialTypes, LogFollowsRow
<1>3. ASSUME NEW i \in (purgedEvents + 1) .. Len(eventLog)
      PROVE  eventLog[i].seq # Len(eventLog) + 1
  <2>1. i \in 1 .. Len(eventLog)
    BY <1>2, <1>3
  <2>2. eventLog[i].seq = i
    BY <2>1 DEF SerialInv, LogFollowsRow
  <2> QED BY <1>2, <2>1, <2>2
<1> QED BY <1>2, <1>3 DEF L!Sequences

Counted(s) == [s EXCEPT !.count = s.count + 1]

LEMMA CountedIs ==
    ASSUME NEW s, s \in Rows
    PROVE  Counted(s) \in Rows /\ Counted(s).count = s.count + 1 /\ Counted(s).status = s.status
BY DEF Rows, Counted

\* One transaction of _emit: nobody has taken the sequence.
LEMMA EmitSerial ==
    ASSUME NEW t, Handlers = {t}, SerialInv(t), next[t] # "idle",
           NEW s, s \in Rows, s.count = stateRow.count,
           NEW type, NEW ref, NEW ok, NEW n \in L!Pcs \ {"idle"}, L!Emit(t, s, L!Say(type, ref, ok), n),
           n \in Working => s.status \notin L!Terminal,
           Over => s.status = stateRow.status,
           type = "run.completed" => s.status \in L!Terminal /\ ~Over /\ next[t] # "reject",
           type = "approval.decided" /\ ok = FALSE => n = "reject" /\ ~Over,
           next[t] = "reject" => s.status \in L!Terminal
    PROVE  SerialInv(t)' /\ Stays
<1> DEFINE e == [seq |-> s.count + 1, type |-> type, ref |-> ref, ok |-> ok]
<1>1. stateRow # NoRun
  BY DEF SerialInv, ThreadOK
<1>2. /\ eventLog' = Append(eventLog, e) /\ stateRow' = Counted(s)
      /\ seen' = [seen EXCEPT ![t] = Counted(s)] /\ next' = [next EXCEPT ![t] = n]
      /\ UNCHANGED <<purgedEvents, deciding>>
  BY <1>1, NextIsFree DEF L!Emit, L!Say, Counted
<1>3. Counted(s) \in Rows /\ Counted(s).count = stateRow.count + 1 /\ Counted(s).status = s.status
  BY CountedIs
<1>4. e.seq = stateRow.count + 1 /\ e.type = type /\ e.ok = ok
  OBVIOUS
<1>5. /\ next' \in [Handlers -> L!Pcs] /\ DOMAIN seen' = Handlers /\ deciding' \in [Handlers -> [id : Nat, ok : BOOLEAN]]
      /\ next'[t] = n /\ seen'[t] = Counted(s)
  BY <1>2 DEF SerialInv, SerialTypes
<1>6. Counted(s) # NoRun
  BY <1>3, RunAssumption DEF Rows
<1> HIDE DEF e
<1> QED BY <1>2, <1>3, <1>4, <1>5, <1>6, AppendSerial

\* The checkpoint, and the end of a request.
LEMMA SaveSerial ==
    ASSUME NEW t, Handlers = {t}, SerialInv(t), next[t] # "idle", next[t] # "reject",
           NEW s, s \in Rows, s.count = stateRow.count, L!Save(t, s),
           Over <=> s.status \in L!Terminal, Over => s.status = stateRow.status
    PROVE  SerialInv(t)' /\ Stays
<1> DEFINE r == [s EXCEPT !.saved = TRUE]
<1>1. /\ stateRow' = r /\ next' = [next EXCEPT ![t] = "idle"]
      /\ DOMAIN seen' = DOMAIN seen /\ deciding' = [deciding EXCEPT ![t] = [id |-> 0, ok |-> FALSE]]
      /\ UNCHANGED <<eventLog, purgedEvents>>
  BY DEF L!Save, L!Leave, L!NoArg, L!NoId
<1>2. r \in Rows /\ r.count = s.count /\ r.status = s.status
  BY DEF Rows
<1>3. r # NoRun
  BY <1>2, RunAssumption DEF Rows
<1> HIDE DEF r
<1>4. SerialTypes' /\ next'[t] = "idle"
  <2>1. "idle" \in L!Pcs
    BY DEF L!Pcs
  <2> QED BY <1>1, <2>1 DEF SerialInv, SerialTypes
<1>5. stateRow # NoRun
  BY DEF SerialInv, ThreadOK
<1>6. (NoRejection' <=> NoRejection) /\ (NoCompletion' <=> NoCompletion)
  BY <1>1 DEF NoRejection, NoCompletion
<1>7. Over' <=> Over
  BY <1>1, <1>2 DEF Over
<1>8. LogFollowsRow'
  BY <1>1, <1>2, <1>3, <1>5, <1>6, <1>7 DEF SerialInv, LogFollowsRow
<1>9. ThreadOK(t)'
  BY <1>3, <1>1, <1>4, <1>5, <1>6, <1>7 DEF SerialInv, ThreadOK, Working
<1> QED BY <1>1, <1>2, <1>4, <1>8, <1>9 DEF SerialInv, Stays

\* A request that was idle has read the row.
LEMMA ReadSerial ==
    ASSUME NEW t, Handlers = {t}, SerialInv(t), NEW op \in L!Pcs, L!Read(t, op),
           op \in Working => ~Over, op # "reject", deciding' \in [Handlers -> [id : Nat, ok : BOOLEAN]]
    PROVE  SerialInv(t)' /\ Stays
<1>1. /\ next[t] = "idle" /\ stateRow # NoRun /\ next' = [next EXCEPT ![t] = op]
      /\ seen' = [seen EXCEPT ![t] = stateRow] /\ UNCHANGED <<stateRow, eventLog, purgedEvents>>
  BY DEF L!Read, L!store
<1>2. SerialTypes' /\ next'[t] = op /\ seen'[t] = stateRow
  BY <1>1 DEF SerialInv, SerialTypes
<1>3. (NoRejection' <=> NoRejection) /\ (NoCompletion' <=> NoCompletion) /\ (Over' <=> Over)
  BY <1>1 DEF NoRejection, NoCompletion, Over
<1>4. LogFollowsRow'
  BY <1>1, <1>3 DEF SerialInv, LogFollowsRow
<1>5. ThreadOK(t)'
  BY <1>1, <1>2, <1>3 DEF SerialInv, ThreadOK
<1> QED BY <1>1, <1>2, <1>4, <1>5 DEF SerialInv, Stays

-----------------------------------------------------------------------------
(*                        The steps of the run                             *)

\* The thread that is in a handler holds the row.
LEMMA HoldsRow ==
    ASSUME NEW t, Handlers = {t}, SerialInv(t), next[t] # "idle"
    PROVE  /\ seen[t] = stateRow /\ seen[t] \in Rows /\ seen[t].count = stateRow.count
           /\ stateRow # NoRun /\ (next[t] \in Working => ~Over)
BY DEF SerialInv, ThreadOK, LogFollowsRow

\* The changes of a copy before it is written.
Marked(s, c) == [s EXCEPT !.status = c]
WithApproval(s, a, v) == [s EXCEPT !.approvals[a] = v]
WithCall(s) == [s EXCEPT !.calls = @ + 1]
WithDone(s, i) == [s EXCEPT !.calls = @ + 1, !.done = @ \cup {i}]

LEMMA StatusRow ==
    ASSUME NEW s \in Rows, NEW c \in L!Statuses
    PROVE  Marked(s, c) \in Rows /\ Marked(s, c).status = c /\ Marked(s, c).count = s.count
BY DEF Rows, Marked

LEMMA ApprovalRow ==
    ASSUME NEW s \in Rows, NEW a, NEW v \in L!Verdicts
    PROVE  /\ WithApproval(s, a, v) \in Rows /\ WithApproval(s, a, v).status = s.status
           /\ WithApproval(s, a, v).count = s.count
BY DEF Rows, WithApproval

LEMMA CallRow ==
    ASSUME NEW s \in Rows
    PROVE  WithCall(s) \in Rows /\ WithCall(s).status = s.status /\ WithCall(s).count = s.count
BY DEF Rows, WithCall

LEMMA DoneRow ==
    ASSUME NEW s \in Rows, NEW i \in Nat
    PROVE  WithDone(s, i) \in Rows /\ WithDone(s, i).status = s.status /\ WithDone(s, i).count = s.count
<1>1. s.done \cup {i} \in SUBSET Nat /\ s.calls + 1 \in Nat
  BY DEF Rows
<1> DEFINE c == s.calls + 1
           d == s.done \cup {i}
<1>2. WithDone(s, i) = [s EXCEPT !.calls = c, !.done = d]
  BY DEF WithDone
<1> HIDE DEF c, d
<1>3. c \in Nat /\ d \in SUBSET Nat
  BY <1>1 DEF c, d
<1> QED BY <1>2, <1>3 DEF Rows

LEMMA MarkedHeld ==
    ASSUME NEW t, Handlers = {t}, SerialInv(t), next[t] \in Working, NEW c \in L!Statuses
    PROVE  /\ Marked(seen[t], c) \in Rows /\ Marked(seen[t], c).status = c
           /\ Marked(seen[t], c).count = stateRow.count /\ ~Over
<1>1. next[t] # "idle"
  BY DEF Working
<1> QED BY <1>1, HoldsRow, StatusRow

LEMMA SerialCreate ==
    ASSUME NEW t, Handlers = {t}, SerialInv(t), NEW plan \in MCPlans, L!Create(t, plan)
    PROVE  SerialInv(t)' /\ Stays
<1> DEFINE r == L!Fresh(plan)
<1>1. /\ next[t] = "idle" /\ stateRow = NoRun /\ stateRow' = r /\ next' = [next EXCEPT ![t] = "plan"]
      /\ seen' = [seen EXCEPT ![t] = r] /\ UNCHANGED <<eventLog, purgedEvents, deciding>>
  BY DEF L!Create
<1>2. r \in Rows /\ r.count = 0 /\ r.status = "running"
  BY DEF L!Fresh, Rows, L!Statuses, L!Verdicts
<1>3. r # NoRun
  BY <1>2, RunAssumption DEF Rows
<1> HIDE DEF r
<1>4. SerialTypes' /\ next'[t] = "plan" /\ seen'[t] = r
  <2>1. "plan" \in L!Pcs
    BY DEF L!Pcs
  <2> QED BY <1>1, <2>1 DEF SerialInv, SerialTypes
<1>5. Len(eventLog) = 0 /\ NoRejection' /\ NoCompletion'
  BY <1>1 DEF SerialInv, LogFollowsRow, NoRejection, NoCompletion
<1>6. ~Over'
  BY <1>1, <1>2 DEF Over, L!Terminal
<1>7. LogFollowsRow'
  BY <1>1, <1>2, <1>3, <1>5, <1>6 DEF SerialInv, LogFollowsRow
<1>8. ThreadOK(t)'
  BY <1>1, <1>3, <1>4, <1>5, <1>6 DEF ThreadOK
<1> QED BY <1>1, <1>4, <1>7, <1>8 DEF SerialInv, Stays

LEMMA SerialStart ==
    ASSUME NEW t, Handlers = {t}, SerialInv(t), L!StartRun(t)
    PROVE  SerialInv(t)' /\ Stays
<1> DEFINE i == deciding[t].id + 1
<1>1. i \in Nat
  BY DEF SerialInv, SerialTypes
<1> USE DEF L!Position
<1>2. {"step", "result", "fail", "save", "next"} \subseteq L!Pcs \ {"idle"}
      /\ {"plan", "step", "result", "fail", "next"} \subseteq Working
      /\ "save" \notin Working
  BY DEF L!Pcs, Working
<1>3. {"completed", "failed"} \subseteq L!Terminal \cap L!Statuses /\ "pending" \in L!Verdicts
  BY DEF L!Terminal, L!Statuses, L!Verdicts
<1>4. CASE \E plan \in MCPlans : L!Create(t, plan)
  BY <1>4, SerialCreate
<1>5. CASE L!PlanCreated(t)
  <2>1. next[t] = "plan" /\ L!Emit(t, seen[t], L!Say("plan.created", L!NoId, TRUE), "step")
    BY <1>5 DEF L!PlanCreated
  <2> QED BY <1>2, <2>1, HoldsRow, EmitSerial DEF Over
<1>6. CASE L!StepStarted(t)
  <2>1. next[t] = "step" /\ L!Emit(t, seen[t], L!Say("step.started", i, TRUE), "result")
    BY <1>6 DEF L!StepStarted, L!AtStep
  <2> QED BY <1>2, <2>1, HoldsRow, EmitSerial DEF Over
<1>7. CASE L!StepResult(t)
  <2>1. next[t] = "result"
    BY <1>7 DEF L!StepResult
  <2>2. \/ L!Emit(t, WithDone(seen[t], i), L!Say("tool.result", i, TRUE), "next")
        \/ L!Emit(t, WithCall(seen[t]), L!Say("tool.result", i, FALSE), "fail")
    <3>1. [[seen[t] EXCEPT !.calls = @ + 1] EXCEPT !.done = @ \cup {i}] = WithDone(seen[t], i)
      BY DEF WithDone
    <3> QED BY <1>7, <3>1 DEF L!StepResult, WithCall
  <2>3. /\ seen[t] \in Rows /\ seen[t].count = stateRow.count /\ seen[t].status = stateRow.status /\ ~Over
    BY <1>2, <2>1, HoldsRow
  <2> HIDE DEF i
  <2>4. CASE L!Emit(t, WithDone(seen[t], i), L!Say("tool.result", i, TRUE), "next")
    <3>1. WithDone(seen[t], i) \in Rows /\ WithDone(seen[t], i).status = stateRow.status
          /\ WithDone(seen[t], i).count = stateRow.count
      BY <1>1, <2>3, DoneRow
    <3> QED BY <1>2, <2>1, <2>3, <2>4, <3>1, EmitSerial DEF Over
  <2>5. CASE L!Emit(t, WithCall(seen[t]), L!Say("tool.result", i, FALSE), "fail")
    <3>1. WithCall(seen[t]) \in Rows /\ WithCall(seen[t]).status = stateRow.status
          /\ WithCall(seen[t]).count = stateRow.count
      BY <2>3, CallRow
    <3> QED BY <1>2, <2>1, <2>3, <2>5, <3>1, EmitSerial DEF Over
  <2> QED BY <2>2, <2>4, <2>5
<1>8. CASE L!StepFailed(t)
  <2>1. next[t] = "fail" /\ L!Emit(t, Marked(seen[t], "failed"), L!Say("run.failed", i, FALSE), "save")
    BY <1>8 DEF L!StepFailed, Marked
  <2>2. ~Over /\ Marked(seen[t], "failed") \in Rows /\ Marked(seen[t], "failed").status = "failed"
        /\ Marked(seen[t], "failed").count = stateRow.count
    <3>1. next[t] \in Working /\ "failed" \in L!Statuses
      BY <1>2, <1>3, <2>1
    <3> QED BY <3>1, MarkedHeld
  <2> QED BY <1>2, <1>3, <2>1, <2>2, EmitSerial
<1>9. CASE L!StepNeedsApproval(t)
  <2>1. next[t] = "step"
        /\ L!Emit(t, WithApproval(seen[t], i, "pending"), L!Say("approval.requested", i, FALSE), "next")
    BY <1>9 DEF L!StepNeedsApproval, L!AtStep, WithApproval
  <2>2. /\ WithApproval(seen[t], i, "pending") \in Rows
        /\ WithApproval(seen[t], i, "pending").status = stateRow.status
        /\ WithApproval(seen[t], i, "pending").count = stateRow.count /\ ~Over
    BY <1>2, <1>3, <2>1, HoldsRow, ApprovalRow
  <2> HIDE DEF i
  <2> QED BY <1>2, <2>1, <2>2, EmitSerial DEF Over
<1>10. CASE L!NextStep(t)
  <2>1. /\ next[t] \in {"next", "step"} /\ next' = [next EXCEPT ![t] = "step"]
        /\ deciding' = [deciding EXCEPT ![t].id = @ + 1]
        /\ UNCHANGED <<stateRow, eventLog, purgedEvents, seen>>
    BY <1>10 DEF L!NextStep, L!AtStep
  <2>2. SerialTypes' /\ next'[t] = "step"
    BY <1>2, <2>1 DEF SerialInv, SerialTypes
  <2>3. (NoRejection' <=> NoRejection) /\ (NoCompletion' <=> NoCompletion) /\ (Over' <=> Over)
    BY <2>1 DEF NoRejection, NoCompletion, Over
  <2>4. LogFollowsRow'
    BY <2>1, <2>3 DEF SerialInv, LogFollowsRow
  <2>5. ThreadOK(t)'
    BY <1>2, <2>1, <2>2, <2>3 DEF SerialInv, ThreadOK
  <2> QED BY <2>1, <2>2, <2>4, <2>5 DEF SerialInv, Stays
<1>11. CASE L!PlanDone(t)
  <2>1. next[t] = "step"
    BY <1>11 DEF L!PlanDone
  <2>2. CASE L!Save(t, seen[t])
    BY <1>2, <2>1, <2>2, HoldsRow, SaveSerial DEF Over
  <2>3. CASE L!Emit(t, Marked(seen[t], "completed"), L!Say("run.completed", L!NoId, TRUE), "save")
    <3>1. /\ Marked(seen[t], "completed") \in Rows
          /\ Marked(seen[t], "completed").status = "completed"
          /\ Marked(seen[t], "completed").count = stateRow.count /\ ~Over
      <4>1. next[t] \in Working /\ "completed" \in L!Statuses
        BY <1>2, <1>3, <2>1
      <4> QED BY <4>1, MarkedHeld
    <3> QED BY <1>2, <1>3, <2>1, <2>3, <3>1, EmitSerial
  <2> QED BY <1>11, <2>2, <2>3 DEF L!PlanDone, Marked
<1> QED BY <1>4, <1>5, <1>6, <1>7, <1>8, <1>9, <1>10, <1>11 DEF L!StartRun

LEMMA SerialRequest ==
    ASSUME NEW t, Handlers = {t}, SerialInv(t), L!RequestApproval(t)
    PROVE  SerialInv(t)' /\ Stays
<1> DEFINE a == L!RequestId(seen[t])
           w == WithApproval(seen[t], a, "pending")
           e == [seq |-> seen[t].count + 1, type |-> "approval.requested", ref |-> a, ok |-> FALSE]
<1>1. next[t] = "request" /\ "pending" \in L!Verdicts /\ {"idle"} \subseteq L!Pcs
  BY DEF L!RequestApproval, L!Verdicts, L!Pcs
<1>2. /\ seen[t] = stateRow /\ seen[t] \in Rows /\ stateRow # NoRun
  BY <1>1, HoldsRow
<1>3. /\ eventLog' = Append(eventLog, e) /\ stateRow' = Counted(w) /\ UNCHANGED purgedEvents
  <2>1. [seen[t] EXCEPT !.count = @ + 1, !.approvals[a] = "pending"] = Counted(w)
    BY <1>2 DEF Counted, WithApproval, Rows
  <2> QED BY <1>2, <2>1, NextIsFree DEF L!RequestApproval
<1>4. /\ next' = [next EXCEPT ![t] = "idle"] /\ DOMAIN seen' = DOMAIN seen
      /\ deciding' = [deciding EXCEPT ![t] = [id |-> 0, ok |-> FALSE]]
  BY DEF L!RequestApproval, L!Leave, L!NoArg, L!NoId
<1>5. /\ next' \in [Handlers -> L!Pcs] /\ DOMAIN seen' = Handlers /\ next'[t] = "idle"
      /\ deciding' \in [Handlers -> [id : Nat, ok : BOOLEAN]]
  BY <1>1, <1>4 DEF SerialInv, SerialTypes
<1>6. w \in Rows /\ w.status = stateRow.status /\ w.count = stateRow.count
  BY <1>1, <1>2, ApprovalRow
<1>7. e.seq = stateRow.count + 1 /\ e.type = "approval.requested"
  BY <1>2
<1> HIDE DEF w, e
<1>8. Counted(w) \in Rows /\ Counted(w).count = stateRow.count + 1 /\ Counted(w).status = stateRow.status
  BY <1>6, CountedIs
<1>9. Counted(w) # NoRun
  BY <1>8, RunAssumption DEF Rows
<1>10. "idle" \notin Working
  BY DEF Working
<1> QED BY <1>1, <1>3, <1>5, <1>7, <1>8, <1>9, <1>10, AppendSerial

LEMMA SerialOperate ==
    ASSUME NEW t, Handlers = {t}, SerialInv(t), L!OperateRun(t)
    PROVE  SerialInv(t)' /\ Stays
<1>2. /\ {"pause", "resume", "cancel", "request", "decide", "save", "tool", "reject", "close"} \subseteq L!Pcs \ {"idle"}
      /\ {"pause", "resume", "cancel", "decide", "tool", "reject", "close"} \subseteq Working
      /\ "save" \notin Working /\ "request" \notin Working
  BY DEF L!Pcs, Working
<1>3. /\ {"completed", "failed", "cancelled"} \subseteq L!Terminal \cap L!Statuses
      /\ {"running", "paused"} \subseteq L!Statuses \ L!Terminal
      /\ {"approved", "rejected"} \subseteq L!Verdicts
  BY DEF L!Terminal, L!Statuses, L!Verdicts
<1>4. ASSUME NEW op \in {"pause", "resume", "cancel"}, L!Intervene(t, op) PROVE SerialInv(t)' /\ Stays
  <2>1. L!Read(t, op) /\ ~Over /\ UNCHANGED deciding
    BY <1>4 DEF L!Intervene, Over
  <2>2. deciding' \in [Handlers -> [id : Nat, ok : BOOLEAN]]
    BY <2>1 DEF SerialInv, SerialTypes
  <2> QED BY <1>2, <2>1, <2>2, ReadSerial
<1>5. CASE L!Pause(t)
  <2>1. next[t] = "pause" /\ L!Emit(t, Marked(seen[t], "paused"), L!Say("run.paused", L!NoId, TRUE), "save")
    BY <1>5 DEF L!Pause, Marked
  <2>2. ~Over /\ Marked(seen[t], "paused") \in Rows /\ Marked(seen[t], "paused").count = stateRow.count
    <3>1. next[t] \in Working /\ "paused" \in L!Statuses
      BY <1>2, <1>3, <2>1
    <3> QED BY <3>1, MarkedHeld
  <2> QED BY <1>2, <2>1, <2>2, EmitSerial
<1>6. CASE L!Resume(t)
  <2>1. next[t] = "resume" /\ L!Save(t, Marked(seen[t], "running"))
    BY <1>6 DEF L!Resume, Marked
  <2>2. ~Over /\ Marked(seen[t], "running") \in Rows /\ Marked(seen[t], "running").count = stateRow.count
        /\ Marked(seen[t], "running").status = "running"
    <3>1. next[t] \in Working /\ "running" \in L!Statuses
      BY <1>2, <1>3, <2>1
    <3> QED BY <3>1, MarkedHeld
  <2> QED BY <1>3, <2>1, <2>2, SaveSerial
<1>7. CASE L!Cancel(t)
  <2>1. next[t] = "cancel" /\ L!Emit(t, Marked(seen[t], "cancelled"), L!Say("run.failed", L!NoId, FALSE), "save")
    BY <1>7 DEF L!Cancel, Marked
  <2>2. ~Over /\ Marked(seen[t], "cancelled") \in Rows /\ Marked(seen[t], "cancelled").count = stateRow.count
    <3>1. next[t] \in Working /\ "cancelled" \in L!Statuses
      BY <1>2, <1>3, <2>1
    <3> QED BY <3>1, MarkedHeld
  <2> QED BY <1>2, <2>1, <2>2, EmitSerial
<1>8. CASE L!BeginRequest(t)
  <2>1. L!Read(t, "request") /\ UNCHANGED deciding
    BY <1>8 DEF L!BeginRequest
  <2>2. deciding' \in [Handlers -> [id : Nat, ok : BOOLEAN]]
    BY <2>1 DEF SerialInv, SerialTypes
  <2> QED BY <1>2, <2>1, <2>2, ReadSerial
<1>9. ASSUME NEW id \in L!Ids, NEW ok \in BOOLEAN, L!BeginDecide(t, id, ok) PROVE SerialInv(t)' /\ Stays
  <2>1. L!Read(t, "decide") /\ ~Over /\ deciding' = [deciding EXCEPT ![t] = [id |-> id, ok |-> ok]]
    BY <1>9 DEF L!BeginDecide, Over
  <2>2. id \in Nat
    BY RunAssumption DEF L!Ids, L!MaxId
  <2>3. deciding' \in [Handlers -> [id : Nat, ok : BOOLEAN]]
    BY <2>1, <2>2 DEF SerialInv, SerialTypes
  <2> QED BY <1>2, <2>1, <2>3, ReadSerial
<1>10. CASE L!Decide(t)
  <2> DEFINE a == deciding[t].id
             v == IF deciding[t].ok THEN "approved" ELSE "rejected"
             n == IF deciding[t].ok THEN "tool" ELSE "reject"
  <2>1. next[t] = "decide" /\ L!Emit(t, WithApproval(seen[t], a, v), L!Say("approval.decided", a, deciding[t].ok), n)
    BY <1>10 DEF L!Decide, WithApproval
  <2>2. deciding[t].ok \in BOOLEAN /\ v \in L!Verdicts
    BY <1>3 DEF SerialInv, SerialTypes
  <2>3. /\ WithApproval(seen[t], a, v) \in Rows /\ WithApproval(seen[t], a, v).status = stateRow.status
        /\ WithApproval(seen[t], a, v).count = stateRow.count /\ ~Over
    BY <1>2, <2>1, <2>2, HoldsRow, ApprovalRow
  <2>4. CASE deciding[t].ok = TRUE
    <3>1. n = "tool"
      BY <2>4
    <3> QED BY <1>2, <2>1, <2>3, <2>4, <3>1, EmitSerial DEF Over
  <2>5. CASE deciding[t].ok = FALSE
    <3>1. n = "reject"
      BY <2>5
    <3> QED BY <1>2, <2>1, <2>3, <2>5, <3>1, EmitSerial DEF Over
  <2> QED BY <2>2, <2>4, <2>5
<1>11. CASE L!Reject(t)
  <2>1. next[t] = "reject"
        /\ L!Emit(t, Marked(seen[t], "failed"), L!Say("run.failed", deciding[t].id, FALSE), "save")
    BY <1>11 DEF L!Reject, Marked
  <2>2. ~Over /\ Marked(seen[t], "failed") \in Rows /\ Marked(seen[t], "failed").count = stateRow.count
        /\ Marked(seen[t], "failed").status = "failed"
    <3>1. next[t] \in Working /\ "failed" \in L!Statuses
      BY <1>2, <1>3, <2>1
    <3> QED BY <3>1, MarkedHeld
  <2> QED BY <1>2, <1>3, <2>1, <2>2, EmitSerial
<1>12. CASE L!RunTool(t)
  <2> DEFINE a == deciding[t].id
  <2>1. next[t] = "tool" /\ L!Emit(t, WithDone(seen[t], a), L!Say("tool.result", a, TRUE), "close")
    BY <1>12 DEF L!RunTool, WithDone
  <2>2. a \in Nat
    BY DEF SerialInv, SerialTypes
  <2>3. WithDone(seen[t], a) \in Rows /\ WithDone(seen[t], a).status = stateRow.status
        /\ WithDone(seen[t], a).count = stateRow.count /\ ~Over
    BY <1>2, <2>1, <2>2, HoldsRow, DoneRow
  <2> QED BY <1>2, <2>1, <2>3, EmitSerial DEF Over
<1>13. CASE L!Close(t)
  <2>1. next[t] \in {"close", "tool"}
    BY <1>13 DEF L!Close
  <2>2. CASE L!Save(t, seen[t])
    BY <1>2, <2>1, <2>2, HoldsRow, SaveSerial DEF Over
  <2>3. CASE L!Emit(t, Marked(seen[t], "completed"), L!Say("run.completed", L!NoId, TRUE), "save")
    <3>1. /\ Marked(seen[t], "completed") \in Rows
          /\ Marked(seen[t], "completed").status = "completed"
          /\ Marked(seen[t], "completed").count = stateRow.count /\ ~Over
      <4>1. next[t] \in Working /\ "completed" \in L!Statuses
        BY <1>2, <1>3, <2>1
      <4> QED BY <4>1, MarkedHeld
    <3> QED BY <1>2, <1>3, <2>1, <2>3, <3>1, EmitSerial
  <2> QED BY <1>13, <2>2, <2>3 DEF L!Close, Marked
<1>14. CASE L!SaveCheckpoint(t)
  <2>1. next[t] = "save" /\ L!Save(t, seen[t])
    BY <1>14 DEF L!SaveCheckpoint
  <2> QED BY <1>2, <2>1, HoldsRow, SaveSerial DEF Over
<1> QED BY <1>4, <1>5, <1>6, <1>7, <1>8, <1>9, <1>10, <1>11, <1>12, <1>13, <1>14, SerialRequest DEF L!OperateRun

LEMMA NothingHappens ==
    ASSUME NEW t, SerialInv(t), purgedEvents' \in Nat, UNCHANGED <<stateRow, eventLog, next, seen, deciding>>
    PROVE  SerialInv(t)' /\ Stays
<1>1. (NoRejection' <=> NoRejection) /\ (NoCompletion' <=> NoCompletion) /\ (Over' <=> Over)
  BY DEF NoRejection, NoCompletion, Over
<1> QED BY <1>1 DEF SerialInv, SerialTypes, LogFollowsRow, ThreadOK, Stays

LEMMA SerialStep ==
    ASSUME NEW t, Handlers = {t}, SerialInv(t), [Next]_vars
    PROVE  SerialInv(t)' /\ Stays
<1>1. L!Next \/ UNCHANGED lVars
  BY DEF Next, vars
<1>2. CASE UNCHANGED lVars
  BY <1>2, NothingHappens DEF lVars, SerialInv, SerialTypes
<1>3. CASE L!PurgeEvents
  <2>1. PICK n \in (purgedEvents + 1) .. Len(eventLog) :
           purgedEvents' = n /\ UNCHANGED <<stateRow, eventLog, next, seen, deciding>>
    BY <1>3 DEF L!PurgeEvents
  <2>2. PICK S : eventLog \in Seq(S) /\ purgedEvents \in Nat
    BY DEF SerialInv, SerialTypes
  <2>3. n \in Nat
    BY <2>1, <2>2
  <2> QED BY <2>1, <2>3, NothingHappens
<1>4. ~L!Crash(t)
  BY DEF L!Crash
<1> QED BY <1>1, <1>2, <1>3, <1>4, SerialStart, SerialOperate DEF L!Next

LEMMA SerialInit ==
    ASSUME NEW t, Handlers = {t}, L!Init
    PROVE  SerialInv(t)
<1>1. /\ stateRow = NoRun /\ eventLog = << >> /\ purgedEvents = 0
      /\ next = [h \in Handlers |-> "idle"] /\ DOMAIN seen = Handlers
      /\ deciding = [h \in Handlers |-> [id |-> 0, ok |-> FALSE]]
  BY DEF L!Init, L!NoArg, L!NoId
<1>2. SerialTypes
  <2>1. "idle" \in L!Pcs
    BY DEF L!Pcs
  <2>2. eventLog \in Seq({})
    BY <1>1
  <2> QED BY <1>1, <2>1, <2>2 DEF SerialTypes
<1>3. LogFollowsRow
  BY <1>1 DEF LogFollowsRow, NoRejection
<1>4. ThreadOK(t)
  BY <1>1 DEF ThreadOK, Working
<1> QED BY <1>2, <1>3, <1>4 DEF SerialInv

\* One request at a time, the row has seen every event, no sequence is used
\* twice although old events are purged, and a run with a rejected approval
\* never completes.
THEOREM RunsAreOrderly ==
    ASSUME NEW t, Handlers = {t}
    PROVE  Spec => []RunIsOrderly
<1>1. Init => SerialInv(t)
  BY SerialInit DEF Init
<1>2. SerialInv(t) /\ [Next]_vars => SerialInv(t)'
  BY SerialStep
<1>3. SerialInv(t) => RunIsOrderly
  <2>1. SUFFICES ASSUME SerialInv(t) PROVE RunIsOrderly
    OBVIOUS
  <2>2. L!RejectionStopsRun
    BY <2>1 DEF SerialInv, LogFollowsRow, L!RejectionStopsRun, L!Judged, L!Happened, NoRejection, NoCompletion
  <2>3. L!SequenceNeverReused
    BY <2>1 DEF SerialInv, LogFollowsRow, L!SequenceNeverReused
  <2>4. L!RowIsCurrent
    BY <2>1 DEF SerialInv, LogFollowsRow, L!RowIsCurrent
  <2> QED BY <2>2, <2>3, <2>4 DEF RunIsOrderly
<1> QED BY <1>1, <1>2, <1>3, PTL DEF Spec

\* One request at a time, a run that is over stays as it ended; whatever the
\* requests, only an approved action is executed and the first decision stands.
THEOREM DecisionsAreFinal ==
    ASSUME NEW t, Handlers = {t}
    PROVE  Spec => DecisionsStand
<1>1. Init => SerialInv(t)
  BY SerialInit DEF Init
<1>2. SerialInv(t) /\ [Next]_vars => SerialInv(t)' /\ [Stays]_(L!vars)
  BY SerialStep
<1>3. [Stays]_(L!vars) => [stateRow # NoRun /\ stateRow.status \in L!Terminal
                             => stateRow'.status = stateRow.status]_(L!vars)
  BY DEF Stays, Over
<1>4. Spec => L!TerminalIsFinal
  BY <1>1, <1>2, <1>3, PTL DEF Spec, L!TerminalIsFinal
<1> QED BY <1>4, ApprovedIsExecuted, DecisionIsFirst, PTL DEF DecisionsStand

-----------------------------------------------------------------------------
(*          Acceptance of runs and their promotion: inductive invariant    *)

\* A request that may still create a task, or has claimed the row for it.
At(p, steps) == request[p] # AtRest /\ request[p].step \in steps
Promotes(p) == At(p, {"claim", "store", "release"})
Holds(p) == At(p, {"store", "release"})
Stored(r) == \E t \in tasks : t.run = r

RunRecords == [status : R!TERMINAL_RUN_STATUSES \cup {"running", "purged"}, steps_complete : BOOLEAN, pending : BOOLEAN]

PromotionTypes ==
    /\ runs \in [RunIds -> RunRecords] /\ DOMAIN promotions = RunIds
    /\ \A r \in RunIds : promotions[r] \in 1 .. stamp \cup {NoTask}
    /\ stamp \in 0 .. MaxStamps
    /\ DOMAIN request = Owners
    /\ \A p \in Owners : request[p] # AtRest /\ ~At(p, {"decide"}) =>
           request[p] \in [step : {"claim", "store", "release"}, run : RunIds, by : Promoters, task : 1 .. stamp]
    /\ tasks \subseteq [run : RunIds, by : Promoters, task : 1 .. stamp]

\* The id a request carries is its own; a row that bears it is the row it
\* claimed, and while the run is there the row bears it.
IdsApart ==
    /\ \A p, q \in Owners : Promotes(p) /\ Promotes(q) /\ request[p].task = request[q].task => p = q
    /\ \A p \in Owners, r \in RunIds : Promotes(p) /\ promotions[r] = request[p].task =>
           Holds(p) /\ request[p].run = r

Unanswered(r) == <<r, "unanswered">> \in mishaps
Mishap(r) == \E m \in mishaps : m[1] = r

\* One claim of a run at a time, and none once its task is stored, unless the
\* answer to that has been lost.
OneClaim ==
    /\ \A p, q \in Owners : Holds(p) /\ Holds(q) /\ request[p].run = request[q].run => p = q
    /\ \A p \in Owners : Holds(p) /\ Stored(request[p].run) => Unanswered(request[p].run)
    /\ R!OneTaskPerRun

\* A run that is claimed, or is a task already, shows it in its row until it
\* is purged.
RowShows ==
    /\ \A p \in Owners : Holds(p) => \/ promotions[request[p].run] # NoTask
                                     \/ runs[request[p].run].status = "purged"
    /\ \A t \in tasks : \/ promotions[t.run] # NoTask
                         \/ runs[t.run].status = "purged"
                         \/ Unanswered(t.run)

PromotionInv == PromotionTypes /\ IdsApart /\ OneClaim /\ RowShows /\ R!LinksLeadSomewhere

-----------------------------------------------------------------------------

\* A link that dangles has come of what went wrong with the run.
LEMMA DanglesNoMore ==
    ASSUME R!LinksLeadSomewhere, R!Dangling' \subseteq R!Dangling, mishaps \subseteq mishaps'
    PROVE  R!LinksLeadSomewhere'
BY DEF R!LinksLeadSomewhere

\* A request that has claimed nothing goes on to read, to decide or to rest.
LEMMA Unclaimed ==
    ASSUME PromotionInv, NEW p \in Owners, ~Holds(p), NEW x, x = AtRest \/ x.step = "decide",
           request' = [request EXCEPT ![p] = x], UNCHANGED <<runs, promotions, tasks, mishaps>>,
           stamp' \in 0 .. MaxStamps, stamp' >= stamp
    PROVE  PromotionInv'
<1> USE DEF PromotionInv
<1>1. DOMAIN request' = Owners /\ \A q \in Owners : request'[q] = IF q = p THEN x ELSE request[q]
  BY DEF PromotionTypes
<1>2. \A q \in Owners : Promotes(q)' => q # p /\ Promotes(q) /\ request'[q] = request[q]
  BY <1>1 DEF Promotes, At
<1>3. \A q \in Owners : Holds(q)' <=> Holds(q)
  BY <1>1 DEF Holds, At
<1>4. \A q \in Owners : Holds(q) => request'[q] = request[q] /\ q # p
  BY <1>1
<1>5. PromotionTypes'
  <2>1. 1 .. stamp \subseteq 1 .. stamp' /\ stamp \in Nat /\ stamp' \in Nat
    BY PromotionAssumption DEF PromotionTypes
  <2>2. \A r \in RunIds : promotions'[r] \in 1 .. stamp' \cup {NoTask}
    BY <2>1 DEF PromotionTypes
  <2>3. tasks' \subseteq [run : RunIds, by : Promoters, task : 1 .. stamp']
    BY <2>1 DEF PromotionTypes
  <2>4. ASSUME NEW q \in Owners, request'[q] # AtRest, ~At(q, {"decide"})'
        PROVE  request'[q] \in [step : {"claim", "store", "release"}, run : RunIds, by : Promoters, task : 1 .. stamp']
    <3>1. q # p /\ request'[q] = request[q] /\ ~At(q, {"decide"})
      BY <1>1, <2>4 DEF At
    <3>2. request[q] \in [step : {"claim", "store", "release"}, run : RunIds, by : Promoters, task : 1 .. stamp]
      BY <2>4, <3>1 DEF PromotionTypes
    <3> QED BY <2>1, <3>1, <3>2
  <2> QED BY <1>1, <2>2, <2>3, <2>4 DEF PromotionTypes
<1>6. IdsApart'
  <2>1. \A q, u \in Owners : Promotes(q)' /\ Promotes(u)' /\ request'[q].task = request'[u].task => q = u
    BY <1>2 DEF IdsApart
  <2>2. ASSUME NEW q \in Owners, NEW r \in RunIds, Promotes(q)', promotions'[r] = request'[q].task
        PROVE  Holds(q)' /\ request'[q].run = r
    BY <1>2, <1>3, <2>2 DEF IdsApart
  <2> QED BY <2>1, <2>2 DEF IdsApart
<1>7. OneClaim' /\ RowShows'
  BY <1>3, <1>4 DEF OneClaim, RowShows, Stored, Unanswered, R!OneTaskPerRun
<1>8. R!Dangling' \subseteq R!Dangling
  <2>1. \A q \in Owners : Holds(q) => /\ request'[q] # AtRest /\ request'[q].step \in {"store", "release"}
                                      /\ request'[q].task = request[q].task
    BY <1>3, <1>4 DEF Holds, At
  <2> QED BY <2>1 DEF R!Dangling, Holds, At
<1> QED BY <1>5, <1>6, <1>7, <1>8, DanglesNoMore DEF PromotionTypes

LEMMA AgesAndJudges ==
    ASSUME PromotionInv, R!Age \/ R!Judge
    PROVE  PromotionInv'
<1> USE DEF PromotionInv
<1>1. ASSUME NEW r \in RunIds, NEW status \in R!TERMINAL_RUN_STATUSES, NEW complete \in BOOLEAN, NEW pending \in BOOLEAN,
             R!Finish(r, status, complete, pending)
      PROVE  PromotionInv'
  <2>1. UNCHANGED <<promotions, tasks, stamp, request, mishaps>> /\ runs' \in [RunIds -> RunRecords]
    BY <1>1 DEF R!Finish, PromotionTypes, RunRecords
  <2>2. \A q \in RunIds : runs[q].status = "purged" => runs'[q].status = "purged"
    BY <1>1 DEF R!Finish, PromotionTypes
  <2>3. PromotionTypes' /\ IdsApart' /\ OneClaim'
    BY <2>1 DEF PromotionTypes, IdsApart, OneClaim, Promotes, Holds, At, Stored, Unanswered, R!OneTaskPerRun
  <2>4. RowShows'
    BY <2>1, <2>2 DEF RowShows, PromotionTypes, Holds, At, Unanswered
  <2>5. R!Dangling' \subseteq R!Dangling
    BY <2>1 DEF R!Dangling
  <2> QED BY <2>1, <2>3, <2>4, <2>5, DanglesNoMore DEF PromotionTypes
<1>2. ASSUME NEW r \in RunIds, R!PurgeRun(r)
      PROVE  PromotionInv'
  <2>1. UNCHANGED <<tasks, stamp, request, mishaps>> /\ runs' \in [RunIds -> RunRecords]
    BY <1>2 DEF R!PurgeRun, PromotionTypes, RunRecords
  <2>2. /\ promotions' = [promotions EXCEPT ![r] = NoTask] /\ DOMAIN promotions' = RunIds
        /\ \A q \in RunIds : promotions'[q] = IF q = r THEN NoTask ELSE promotions[q]
    BY <1>2 DEF R!PurgeRun, PromotionTypes
  <2>3. \A q \in RunIds : runs'[q] = IF q = r THEN [runs[r] EXCEPT !.status = "purged"] ELSE runs[q]
    BY <1>2 DEF R!PurgeRun, PromotionTypes
  <2>4. \A q \in RunIds : q # r => runs'[q] = runs[q]
    BY <2>3
  <2>5. runs'[r].status = "purged"
    BY <1>2, <2>3 DEF PromotionTypes, RunRecords
  <2>6. PromotionTypes'
    BY <2>1, <2>2 DEF PromotionTypes, At
  <2>7. IdsApart' /\ OneClaim'
    BY <2>1, <2>2, PromotionAssumption DEF PromotionTypes, IdsApart, OneClaim, Promotes, Holds, At, Stored, Unanswered, R!OneTaskPerRun
  <2>8. RowShows'
    BY <2>1, <2>2, <2>4, <2>5 DEF RowShows, PromotionTypes, Holds, At, Unanswered
  <2>9. R!Dangling' \subseteq R!Dangling
    BY <2>1, <2>2 DEF R!Dangling
  <2> QED BY <2>1, <2>6, <2>7, <2>8, <2>9, DanglesNoMore DEF PromotionTypes
<1>3. ASSUME NEW p \in Owners, NEW r \in RunIds, NEW k \in DecisionKeys, NEW decision \in R!DECISIONS,
             R!DecideReads(p, r, k, decision)
      PROVE  PromotionInv'
  <2>1. PICK x : /\ x = [step |-> "decide", row |-> [run |-> r, key |-> k, decision |-> decision,
                                                     structural_verdict |-> R!Verdict(r), stamp |-> stamp']]
                 /\ request' = [request EXCEPT ![p] = x]
    BY <1>3 DEF R!DecideReads
  <2>2. /\ UNCHANGED <<runs, promotions, tasks, mishaps>> /\ ~Holds(p)
        /\ stamp' \in 0 .. MaxStamps /\ stamp' >= stamp
    BY <1>3, PromotionAssumption DEF R!DecideReads, Holds, At, PromotionTypes
  <2>3. x.step = "decide"
    BY <2>1
  <2> QED BY <2>1, <2>2, <2>3, Unclaimed
<1>4. ASSUME NEW p \in Owners, R!RecordDecision(p)
      PROVE  PromotionInv'
  <2>1. /\ UNCHANGED <<runs, promotions, tasks, mishaps>> /\ ~Holds(p) /\ request' = [request EXCEPT ![p] = AtRest]
        /\ stamp' \in 0 .. MaxStamps /\ stamp' >= stamp
    BY <1>4, PromotionAssumption DEF R!RecordDecision, Holds, At, PromotionTypes
  <2> QED BY <2>1, Unclaimed
<1> QED BY <1>1, <1>2, <1>3, <1>4 DEF R!Age, R!Judge

LEMMA Claims ==
    ASSUME PromotionInv, NEW p \in Owners, (\E r \in RunIds, by \in Promoters : R!PromoteReads(p, r, by)) \/ R!Claim(p)
    PROVE  PromotionInv'
<1> USE DEF PromotionInv
<1>1. ASSUME NEW r \in RunIds, NEW by \in Promoters, R!PromoteReads(p, r, by)
      PROVE  PromotionInv'
  <2>1. PICK x : /\ x = [step |-> "claim", run |-> r, by |-> by, task |-> stamp']
                 /\ request' = [request EXCEPT ![p] = x]
    BY <1>1 DEF R!PromoteReads
  <2>2. /\ UNCHANGED <<runs, promotions, tasks, mishaps>> /\ ~Promotes(p)
        /\ stamp' = stamp + 1 /\ stamp' \in 1 .. MaxStamps
    BY <1>1, PromotionAssumption DEF R!PromoteReads, Promotes, At, PromotionTypes
  <2>3. DOMAIN request' = Owners /\ \A q \in Owners : request'[q] = IF q = p THEN x ELSE request[q]
    BY <2>1 DEF PromotionTypes
  <2>4. x.step = "claim" /\ x.run = r /\ x.task = stamp' /\ x \in [step : {"claim", "store", "release"}, run : RunIds, by : Promoters, task : 1 .. stamp']
    BY <2>1, <2>2
  <2>5. \A q \in Owners : (Holds(q)' <=> Holds(q)) /\ (Holds(q) => request'[q] = request[q])
    BY <2>2, <2>3, <2>4 DEF Holds, Promotes, At
  <2>6. 1 .. stamp \subseteq 1 .. stamp' /\ stamp' \notin 1 .. stamp
    BY <2>2 DEF PromotionTypes
  <2>7. PromotionTypes'
    <3>1. \A q \in RunIds : promotions'[q] \in 1 .. stamp' \cup {NoTask}
      BY <2>2, <2>6 DEF PromotionTypes
    <3>2. tasks' \subseteq [run : RunIds, by : Promoters, task : 1 .. stamp']
      BY <2>2, <2>6 DEF PromotionTypes
    <3>3. ASSUME NEW q \in Owners, request'[q] # AtRest, ~At(q, {"decide"})'
          PROVE  request'[q] \in [step : {"claim", "store", "release"}, run : RunIds, by : Promoters, task : 1 .. stamp']
      <4>1. CASE q = p
        BY <2>3, <2>4, <4>1
      <4>2. CASE q # p
        <5>1. request'[q] = request[q] /\ ~At(q, {"decide"})
          BY <2>3, <3>3, <4>2 DEF At
        <5>2. request[q] \in [step : {"claim", "store", "release"}, run : RunIds, by : Promoters, task : 1 .. stamp]
          BY <3>3, <5>1 DEF PromotionTypes
        <5> QED BY <2>6, <5>1, <5>2
      <4> QED BY <4>1, <4>2
    <3> QED BY <2>2, <2>3, <3>1, <3>2, <3>3 DEF PromotionTypes
  <2>8. \A q \in Owners \ {p} : Promotes(q)' => Promotes(q) /\ request'[q] = request[q] /\ request[q].task \in 1 .. stamp
    BY <2>3 DEF Promotes, At, PromotionTypes
  <2>9. \A q \in RunIds : promotions[q] # stamp'
    BY <2>2, <2>6, PromotionAssumption DEF PromotionTypes
  <2>10. \A q, u \in Owners : Promotes(q)' /\ Promotes(u)' /\ request'[q].task = request'[u].task => q = u
    <3>1. ASSUME NEW q \in Owners \ {p}, Promotes(q)'
          PROVE  request'[q].task # request'[p].task
      BY <2>3, <2>4, <2>6, <2>8, <3>1
    <3>2. \A q, u \in Owners \ {p} : Promotes(q)' /\ Promotes(u)' /\ request'[q].task = request'[u].task => q = u
      BY <2>8 DEF IdsApart
    <3> QED BY <3>1, <3>2
  <2>11. ASSUME NEW q \in Owners, NEW u \in RunIds, Promotes(q)', promotions'[u] = request'[q].task
         PROVE  Holds(q)' /\ request'[q].run = u
    <3>1. q # p
      BY <2>2, <2>3, <2>4, <2>9, <2>11
    <3> QED BY <2>2, <2>5, <2>8, <2>11, <3>1 DEF IdsApart
  <2>12. IdsApart'
    BY <2>10, <2>11 DEF IdsApart
  <2>13. OneClaim' /\ RowShows'
    BY <2>2, <2>5 DEF OneClaim, RowShows, Stored, Unanswered, R!OneTaskPerRun
  <2>14. R!Dangling' \subseteq R!Dangling
    <3>1. \A q \in Owners : Holds(q) => /\ request'[q] # AtRest /\ request'[q].step \in {"store", "release"}
                                        /\ request'[q].task = request[q].task
      BY <2>5 DEF Holds, At
    <3> QED BY <2>2, <3>1 DEF R!Dangling, Holds, At
  <2> QED BY <2>2, <2>7, <2>12, <2>13, <2>14, DanglesNoMore DEF PromotionTypes
<1>2. ASSUME R!Claim(p)
      PROVE  PromotionInv'
  <2>1. PICK r, id : r = request[p].run /\ id = request[p].task
    OBVIOUS
  <2>2. /\ UNCHANGED <<runs, tasks, stamp, mishaps>> /\ request[p] # AtRest /\ request[p].step = "claim"
        /\ ~Holds(p) /\ Promotes(p)
    BY <1>2 DEF R!Claim, Holds, Promotes, At
  <2>3. request[p] \in [step : {"claim", "store", "release"}, run : RunIds, by : Promoters, task : 1 .. stamp] /\ r \in RunIds /\ id \in 1 .. stamp
    BY <2>1, <2>2 DEF PromotionTypes, At
  <2>4. CASE promotions[r] = NoTask /\ runs[r].status # "purged"
    <3>1. PICK x : x = [request[p] EXCEPT !.step = "store"]
      OBVIOUS
    <3>2. promotions' = [promotions EXCEPT ![r] = id] /\ request' = [request EXCEPT ![p] = x]
      BY <1>2, <2>1, <2>4, <3>1 DEF R!Claim
    <3>3. x \in [step : {"claim", "store", "release"}, run : RunIds, by : Promoters, task : 1 .. stamp] /\ x.step = "store" /\ x.run = r /\ x.task = id
      BY <2>1, <2>3, <3>1
    <3>4. DOMAIN request' = Owners /\ \A q \in Owners : request'[q] = IF q = p THEN x ELSE request[q]
      BY <3>2 DEF PromotionTypes
    <3>5. DOMAIN promotions' = RunIds /\ \A q \in RunIds : promotions'[q] = IF q = r THEN id ELSE promotions[q]
      BY <3>2 DEF PromotionTypes
    <3>6. x # AtRest
      <4>1. x \in [step : {"claim", "store", "release"}, run : RunIds, by : Promoters, task : 1 .. MaxStamps]
        BY <3>3, PromotionAssumption DEF PromotionTypes
      <4> QED BY <4>1, PromotionAssumption
    <3>7. Holds(p)' /\ Promotes(p)' /\ request'[p].run = r /\ request'[p].task = id
      BY <3>3, <3>4, <3>6 DEF Holds, Promotes, At
    <3>8. \A q \in Owners \ {p} : /\ (Holds(q)' <=> Holds(q)) /\ (Promotes(q)' <=> Promotes(q))
                                  /\ request'[q] = request[q]
      BY <3>4 DEF Holds, Promotes, At
    <3>9. PromotionTypes'
      <4>1. \A q \in Owners : request'[q] # AtRest /\ ~At(q, {"decide"})' =>
                request'[q] \in [step : {"claim", "store", "release"}, run : RunIds, by : Promoters, task : 1 .. stamp]
        BY <3>3, <3>4 DEF PromotionTypes, At
      <4> QED BY <2>2, <2>3, <3>4, <3>5, <4>1 DEF PromotionTypes
    <3>10. \A q \in Owners \ {p} : Promotes(q) => request[q].task # id
      BY <2>1, <2>2 DEF IdsApart
    <3>11. IdsApart'
      <4>1. \A q, u \in Owners : Promotes(q)' /\ Promotes(u)' /\ request'[q].task = request'[u].task => q = u
        BY <3>7, <3>8, <3>10 DEF IdsApart
      <4>2. ASSUME NEW q \in Owners, NEW u \in RunIds, Promotes(q)', promotions'[u] = request'[q].task
            PROVE  Holds(q)' /\ request'[q].run = u
        <5>1. CASE q = p
          <6>1. u = r
            <7>1. promotions[u] # id
              BY <2>1, <2>2 DEF IdsApart
            <7> QED BY <3>5, <3>7, <4>2, <5>1, <7>1
          <6> QED BY <3>7, <5>1, <6>1
        <5>2. CASE q # p
          <6>1. u # r
            BY <3>5, <3>8, <3>10, <4>2, <5>2
          <6> QED BY <3>5, <3>8, <4>2, <5>2, <6>1 DEF IdsApart
        <5> QED BY <5>1, <5>2
      <4> QED BY <4>1, <4>2 DEF IdsApart
    <3>12. \A q \in Owners : Holds(q) => request[q].run # r
      BY <2>4 DEF RowShows
    <3>13. Stored(r) => Unanswered(r)
      BY <2>4 DEF RowShows, Stored
    <3>14. OneClaim'
      BY <2>2, <3>7, <3>8, <3>12, <3>13 DEF OneClaim, Stored, Unanswered, R!OneTaskPerRun
    <3>15. RowShows'
      <4>1. id # NoTask
        BY <2>3, PromotionAssumption DEF PromotionTypes
      <4>2. \A q \in RunIds : promotions[q] # NoTask => promotions'[q] # NoTask
        BY <3>5, <4>1
      <4>3. \A q \in Owners : Holds(q) => request[q].run \in RunIds
        BY DEF Holds, At, PromotionTypes
      <4>4. ASSUME NEW q \in Owners, Holds(q)'
            PROVE  promotions'[request'[q].run] # NoTask \/ runs'[request'[q].run].status = "purged"
        <5>1. CASE q = p
          BY <2>3, <3>5, <3>7, <4>1, <5>1
        <5>2. CASE q # p
          BY <2>2, <3>8, <4>2, <4>3, <4>4, <5>2 DEF RowShows
        <5> QED BY <5>1, <5>2
      <4>5. \A t \in tasks' : promotions'[t.run] # NoTask \/ runs'[t.run].status = "purged" \/ Unanswered(t.run)'
        BY <2>2, <4>2 DEF RowShows, PromotionTypes, Unanswered
      <4> QED BY <4>4, <4>5 DEF RowShows
    <3>16. R!Dangling' \subseteq R!Dangling
      <4>1. ASSUME NEW q \in R!Dangling'
            PROVE  q \in R!Dangling
        <5>1. q # r
          BY <3>5, <3>7, <4>1 DEF R!Dangling, Holds, At
        <5>2. promotions'[q] = promotions[q] /\ q \in RunIds
          BY <3>5, <4>1, <5>1 DEF R!Dangling
        <5>3. \A u \in Owners : Holds(u) => request'[u] = request[u] /\ u # p
          BY <2>2, <3>8
        <5> QED BY <2>2, <4>1, <5>2, <5>3 DEF R!Dangling, Holds, At
      <4> QED BY <4>1
    <3> QED BY <2>2, <3>9, <3>11, <3>14, <3>15, <3>16, DanglesNoMore DEF PromotionTypes
  <2>5. CASE ~(promotions[r] = NoTask /\ runs[r].status # "purged")
    <3>1. UNCHANGED promotions /\ request' = [request EXCEPT ![p] = AtRest]
      BY <1>2, <2>1, <2>5 DEF R!Claim
    <3>2. stamp' \in 0 .. MaxStamps /\ stamp' >= stamp
      BY <2>2, PromotionAssumption DEF PromotionTypes
    <3> QED BY <2>2, <3>1, <3>2, Unclaimed
  <2> QED BY <2>4, <2>5
<1> QED BY <1>1, <1>2

\* What a holder stores: its own new task, or nothing where its user has one.
Stores(new) ==
    \/ tasks' = tasks /\ \E t \in tasks : t.run = new.run
    \/ tasks' = tasks \cup {new} /\ \A t \in tasks : t.run = new.run => t.by # new.by

LEMMA StoresOnce ==
    ASSUME PromotionInv, NEW p \in Owners, Holds(p),
           NEW new, new = [run |-> request[p].run, by |-> request[p].by, task |-> request[p].task],
           tasks' = tasks \/ Stores(new), mishaps \subseteq mishaps'
    PROVE  /\ R!OneTaskPerRun' /\ tasks \subseteq tasks' /\ \A t \in tasks' : t \in tasks \/ t = new
           /\ new \in [run : RunIds, by : Promoters, task : 1 .. stamp]
           /\ tasks' \subseteq [run : RunIds, by : Promoters, task : 1 .. stamp]
<1> USE DEF PromotionInv
<1>1. request[p] \in [step : {"claim", "store", "release"}, run : RunIds, by : Promoters, task : 1 .. stamp]
  BY DEF PromotionTypes, Holds, At
<1>2. /\ new \in [run : RunIds, by : Promoters, task : 1 .. stamp]
      /\ new.run = request[p].run /\ new.by = request[p].by
  BY <1>1
<1>3. tasks \subseteq tasks' /\ \A t \in tasks' : t \in tasks \/ t = new
  BY DEF Stores
<1>4. \A t \in tasks : t.run = new.run => Unanswered(t.run)
  BY <1>2 DEF OneClaim, Stored
<1>5. ASSUME NEW t \in tasks, new \notin tasks, new \in tasks', t.run = new.run
      PROVE  t.by # new.by /\ Unanswered(t.run)
  BY <1>4, <1>5 DEF Stores
<1>6. \A r : Unanswered(r) => Unanswered(r)'
  BY DEF Unanswered
<1>7. ASSUME NEW t \in tasks', NEW u \in tasks', t.run = u.run, t # u
      PROVE  t.by # u.by /\ Unanswered(t.run)'
  <2>1. CASE t \in tasks /\ u \in tasks
    BY <1>6, <1>7, <2>1 DEF OneClaim, R!OneTaskPerRun, Unanswered
  <2>2. CASE t \in tasks /\ u \notin tasks
    BY <1>3, <1>5, <1>6, <1>7, <2>2
  <2>3. CASE t \notin tasks
    BY <1>3, <1>5, <1>6, <1>7, <2>3
  <2> QED BY <2>1, <2>2, <2>3
<1>8. R!OneTaskPerRun'
  BY <1>7 DEF R!OneTaskPerRun, Unanswered
<1> QED BY <1>2, <1>3, <1>8 DEF PromotionTypes

\* The holder of a run's claim leaves it: with its task stored, with the row
\* given back, or with something gone wrong, which may leave the row dangling.
LEMMA Leaves ==
    ASSUME PromotionInv, NEW p \in Owners, Holds(p), NEW r, NEW id, r = request[p].run, id = request[p].task,
           NEW new, new = [run |-> r, by |-> request[p].by, task |-> id],
           request' = [request EXCEPT ![p] = AtRest], UNCHANGED <<runs, stamp>>, mishaps \subseteq mishaps',
           \/ Stores(new) /\ UNCHANGED promotions
           \/ /\ promotions' = [promotions EXCEPT ![r] = NoTask]
              /\ UNCHANGED tasks
           \/ UNCHANGED <<promotions, tasks>> /\ Mishap(r)'
    PROVE  PromotionInv'
<1> USE DEF PromotionInv
<1>1. request[p] \in [step : {"claim", "store", "release"}, run : RunIds, by : Promoters, task : 1 .. stamp] /\ r \in RunIds /\ id \in 1 .. stamp
  BY DEF PromotionTypes, Holds, At
<1>2. Promotes(p)
  BY DEF Holds, Promotes, At
<1>3. DOMAIN request' = Owners /\ \A q \in Owners : request'[q] = IF q = p THEN AtRest ELSE request[q]
  BY DEF PromotionTypes
<1>4. ~Holds(p)' /\ ~Promotes(p)'
  BY <1>3 DEF Holds, Promotes, At
<1>5. \A q \in Owners \ {p} : (Holds(q)' <=> Holds(q)) /\ (Promotes(q)' <=> Promotes(q)) /\ request'[q] = request[q]
  BY <1>3 DEF Holds, Promotes, At
<1>6. DOMAIN promotions' = RunIds /\ \A q \in RunIds : promotions'[q] = promotions[q] \/ (q = r /\ promotions'[q] = NoTask)
  BY DEF PromotionTypes
<1>a. /\ R!OneTaskPerRun' /\ tasks \subseteq tasks' /\ \A t \in tasks' : t \in tasks \/ t = new
      /\ tasks' \subseteq [run : RunIds, by : Promoters, task : 1 .. stamp]
  BY StoresOnce
<1>b. new.run = r /\ new.task = id /\ \A q : Unanswered(q) => Unanswered(q)' /\ Mishap(q)'
  BY DEF Unanswered, Mishap
<1>c. Stored(r) => Unanswered(r)
  BY DEF OneClaim
<1>7. PromotionTypes'
  <2>1. \A q \in Owners : request'[q] # AtRest /\ ~At(q, {"decide"})' =>
            request'[q] \in [step : {"claim", "store", "release"}, run : RunIds, by : Promoters, task : 1 .. stamp]
    BY <1>3 DEF PromotionTypes, At
  <2> QED BY <1>3, <1>6, <1>a, <2>1 DEF PromotionTypes
<1>8. IdsApart'
  <2>1. \A q, u \in Owners : Promotes(q)' /\ Promotes(u)' /\ request'[q].task = request'[u].task => q = u
    BY <1>4, <1>5 DEF IdsApart
  <2>2. ASSUME NEW q \in Owners, NEW u \in RunIds, Promotes(q)', promotions'[u] = request'[q].task
        PROVE  Holds(q)' /\ request'[q].run = u
    <3>1. q # p /\ Promotes(q) /\ request'[q] = request[q]
      BY <1>4, <1>5, <2>2
    <3>2. request[q].task \in 1 .. stamp
      BY <3>1 DEF PromotionTypes, Promotes, At
    <3>3. promotions'[u] # NoTask
      BY <2>2, <3>1, <3>2, PromotionAssumption DEF PromotionTypes
    <3>4. promotions[u] = request[q].task
      BY <1>6, <2>2, <3>1, <3>3
    <3> QED BY <1>5, <3>1, <3>4 DEF IdsApart
  <2> QED BY <2>1, <2>2 DEF IdsApart
<1>9. \A q \in Owners \ {p} : Holds(q) => request[q].run # r
  BY DEF OneClaim
<1>10. OneClaim'
  <2>1. \A q \in Owners : Holds(q)' /\ Stored(request[q].run)' => Unanswered(request[q].run)'
    BY <1>4, <1>5, <1>9, <1>a, <1>b DEF OneClaim, Stored
  <2> QED BY <1>4, <1>5, <1>a, <2>1 DEF OneClaim
<1>11. RowShows'
  <2>1. \A q \in Owners : Holds(q) => request[q].run \in RunIds
    BY DEF Holds, At, PromotionTypes
  <2>2. \A q \in Owners : Holds(q)' => \/ promotions'[request'[q].run] # NoTask
                                       \/ runs'[request'[q].run].status = "purged"
    BY <1>4, <1>5, <1>6, <1>9, <2>1 DEF RowShows
  <2>3. ASSUME NEW t \in tasks'
        PROVE  promotions'[t.run] # NoTask \/ runs'[t.run].status = "purged" \/ Unanswered(t.run)'
    <3>1. CASE t \in tasks
      <4>1. CASE t.run = r
        BY <1>b, <1>c, <3>1, <4>1 DEF Stored
      <4>2. CASE t.run # r
        <5>1. t.run \in RunIds
          BY <3>1 DEF PromotionTypes
        <5> QED BY <1>6, <1>b, <3>1, <4>2, <5>1 DEF RowShows
      <4> QED BY <4>1, <4>2
    <3>2. CASE t \notin tasks
      <4>1. t.run = r /\ UNCHANGED promotions
        BY <1>a, <1>b, <2>3, <3>2
      <4> QED BY <4>1 DEF RowShows
    <3> QED BY <3>1, <3>2
  <2> QED BY <2>2, <2>3 DEF RowShows
<1>12. ASSUME NEW q \in R!Dangling', q \notin R!Dangling
       PROVE  Mishap(q)'
  <2>1. /\ q \in RunIds /\ promotions'[q] # NoTask /\ \A t \in tasks' : t.run = q => t.task # promotions'[q]
        /\ \A u \in Owners : Holds(u)' => request'[u].task # promotions'[q]
    BY <1>12 DEF R!Dangling, Holds, At
  <2>2. promotions'[q] = promotions[q]
    BY <1>6, <2>1
  <2>3. PICK u \in Owners : Holds(u) /\ request[u].task = promotions[q]
    BY <1>a, <1>12, <2>1, <2>2 DEF R!Dangling, Holds, At
  <2>4. u = p
    BY <1>5, <2>1, <2>2, <2>3
  <2>5. q = r /\ id = promotions[q]
    BY <2>1, <2>3, <2>4, <1>2 DEF IdsApart
  <2>6. new \notin tasks' /\ promotions'[r] # NoTask
    BY <2>1, <2>2, <2>5, <1>b
  <2>7. r \in RunIds /\ DOMAIN promotions = RunIds
    BY <1>1 DEF PromotionTypes
  <2>8. CASE Stores(new)
    <3>1. Stored(r)
      BY <1>b, <2>6, <2>8 DEF Stores, Stored
    <3> QED BY <1>b, <1>c, <2>5, <3>1
  <2>9. CASE promotions' = [promotions EXCEPT ![r] = NoTask]
    BY <2>6, <2>7, <2>9
  <2> QED BY <2>5, <2>8, <2>9
<1>13. R!LinksLeadSomewhere'
  BY <1>12 DEF R!LinksLeadSomewhere, Mishap
<1> QED BY <1>7, <1>8, <1>10, <1>11, <1>13

\* The holder's attempt has failed, with its task stored or without: it gives the
\* row back next.
LEMMA Gives ==
    ASSUME PromotionInv, NEW p \in Owners, Holds(p), NEW x, x = [request[p] EXCEPT !.step = "release"],
           NEW r, r = request[p].run,
           NEW new, new = [run |-> r, by |-> request[p].by, task |-> request[p].task],
           request' = [request EXCEPT ![p] = x], UNCHANGED <<runs, stamp, promotions>>,
           mishaps \subseteq mishaps', tasks' = tasks \/ (Stores(new) /\ Unanswered(r)')
    PROVE  PromotionInv'
<1> USE DEF PromotionInv
<1>1. request[p] \in [step : {"claim", "store", "release"}, run : RunIds, by : Promoters, task : 1 .. stamp]
  BY DEF PromotionTypes, Holds, At
<1>2. /\ x \in [step : {"claim", "store", "release"}, run : RunIds, by : Promoters, task : 1 .. stamp]
      /\ x.step = "release" /\ x.run = request[p].run /\ x.task = request[p].task
  BY <1>1
<1>3. x # AtRest
  <2>1. x \in [step : {"claim", "store", "release"}, run : RunIds, by : Promoters, task : 1 .. MaxStamps]
    BY <1>2, PromotionAssumption DEF PromotionTypes
  <2> QED BY <2>1, PromotionAssumption
<1>4. DOMAIN request' = Owners /\ \A q \in Owners : request'[q] = IF q = p THEN x ELSE request[q]
  BY DEF PromotionTypes
<1>5. \A q \in Owners : Holds(q)' <=> Holds(q)
  BY <1>2, <1>3, <1>4 DEF Holds, At
<1>6. \A q \in Owners : Promotes(q)' <=> Promotes(q)
  BY <1>2, <1>3, <1>4 DEF Promotes, Holds, At
<1>7. \A q \in Owners : request'[q].run = request[q].run /\ request'[q].task = request[q].task
  BY <1>2, <1>4
<1>a. /\ R!OneTaskPerRun' /\ tasks \subseteq tasks' /\ \A t \in tasks' : t \in tasks \/ t = new
      /\ tasks' \subseteq [run : RunIds, by : Promoters, task : 1 .. stamp]
  BY StoresOnce
<1>b. new.run = r /\ (\A q : Unanswered(q) => Unanswered(q)') /\ (tasks' = tasks \/ Unanswered(r)')
  BY DEF Unanswered
<1>8. PromotionTypes'
  <2>1. \A q \in Owners : request'[q] # AtRest /\ ~At(q, {"decide"})' =>
            request'[q] \in [step : {"claim", "store", "release"}, run : RunIds, by : Promoters, task : 1 .. stamp]
    BY <1>2, <1>4 DEF PromotionTypes, At
  <2> QED BY <1>4, <1>a, <2>1 DEF PromotionTypes
<1>9. IdsApart' /\ \A q \in Owners : Holds(q)' => \/ promotions'[request'[q].run] # NoTask
                                                  \/ runs'[request'[q].run].status = "purged"
  BY <1>5, <1>6, <1>7 DEF IdsApart, RowShows
<1>10. \A t \in tasks' : promotions'[t.run] # NoTask \/ runs'[t.run].status = "purged" \/ Unanswered(t.run)'
  BY <1>a, <1>b DEF RowShows
<1>11. RowShows'
  BY <1>9, <1>10 DEF RowShows
<1>12. OneClaim'
  <2>1. \A q, u \in Owners : Holds(q)' /\ Holds(u)' /\ request'[q].run = request'[u].run => q = u
    BY <1>5, <1>7 DEF OneClaim
  <2>2. ASSUME NEW q \in Owners, Holds(q)', Stored(request[q].run)'
        PROVE  Unanswered(request[q].run)'
    <3>1. PICK t \in tasks' : t.run = request[q].run
      BY <1>7, <2>2 DEF Stored
    <3>2. Holds(q)
      BY <1>5, <2>2
    <3>3. request'[q].run = request[q].run
      BY <1>7
    <3>4. Unanswered(t.run)'
      BY <1>a, <1>b, <3>1, <3>2 DEF OneClaim, Stored
    <3> QED BY <3>1, <3>3, <3>4 DEF Unanswered
  <2> QED BY <1>a, <2>1, <2>2 DEF OneClaim
<1>13. R!Dangling' \subseteq R!Dangling
  BY <1>5, <1>7, <1>a DEF R!Dangling, Holds, At
<1> QED BY <1>8, <1>9, <1>11, <1>12, <1>13, DanglesNoMore

LEMMA PromotionOfSystem ==
    ASSUME PromotionInv, [Next]_vars
    PROVE  PromotionInv'
<1>1. R!Next \/ UNCHANGED rVars
  BY DEF Next, vars
<1>2. ASSUME UNCHANGED rVars
      PROVE  PromotionInv'
  <2>1. UNCHANGED <<runs, promotions, tasks, stamp, request, mishaps>>
    BY <1>2 DEF rVars
  <2>2. R!Dangling' \subseteq R!Dangling
    BY <2>1 DEF R!Dangling
  <2>3. R!LinksLeadSomewhere'
    BY <2>1, <2>2, DanglesNoMore DEF PromotionInv
  <2> QED BY <2>1, <2>3 DEF PromotionInv, PromotionTypes, IdsApart, OneClaim, RowShows, Promotes, Holds, At, Stored, Unanswered, R!OneTaskPerRun
<1>3. ASSUME NEW p \in Owners, R!StoreTask(p)
      PROVE  PromotionInv'
  <2>1. Holds(p) /\ UNCHANGED <<runs, promotions, stamp>>
    BY <1>3 DEF R!StoreTask, Holds, At
  <2>2. PICK x, r, id, new :
            /\ x = [request[p] EXCEPT !.step = "release"] /\ r = request[p].run /\ id = request[p].task
            /\ new = [run |-> r, by |-> request[p].by, task |-> id]
    OBVIOUS
  <2>a. new.run = r /\ new.by = request[p].by
    BY <2>2
  <2>b. tasks' = (IF \E t \in tasks : t.run = r /\ t.by = request[p].by THEN tasks ELSE tasks \cup {new})
            => Stores(new)
    BY <2>a DEF Stores
  <2>3. CASE Stores(new) /\ request' = [request EXCEPT ![p] = AtRest] /\ UNCHANGED mishaps
    BY <2>1, <2>2, <2>3, Leaves
  <2>4. CASE request' = [request EXCEPT ![p] = x] /\ UNCHANGED <<tasks, mishaps>>
    BY <2>1, <2>2, <2>4, Gives
  <2>5. CASE Stores(new) /\ request' = [request EXCEPT ![p] = x] /\ mishaps' = mishaps \cup {<<r, "unanswered">>}
    <3>1. Unanswered(r)' /\ mishaps \subseteq mishaps'
      BY <2>5 DEF Unanswered
    <3> QED BY <2>1, <2>2, <2>5, <3>1, Gives
  <2> QED BY <1>3, <2>2, <2>b, <2>3, <2>4, <2>5 DEF R!StoreTask
<1>4. ASSUME NEW p \in Owners, R!Release(p) \/ R!Dies(p)
      PROVE  PromotionInv'
  <2>1. PICK r, id, new : /\ r = request[p].run /\ id = request[p].task
                          /\ new = [run |-> r, by |-> request[p].by, task |-> id]
    OBVIOUS
  <2>2. Holds(p) /\ UNCHANGED <<runs, tasks, stamp>> /\ request' = [request EXCEPT ![p] = AtRest]
    BY <1>4 DEF R!Release, R!Dies, Holds, At
  <2>3. \/ promotions' = [promotions EXCEPT ![r] = NoTask] /\ UNCHANGED mishaps
        \/ UNCHANGED promotions /\ \E w \in {"unreleased", "abandoned"} : mishaps' = mishaps \cup {<<r, w>>}
    BY <1>4, <2>1 DEF R!Release, R!Dies
  <2>4. CASE promotions' = [promotions EXCEPT ![r] = NoTask] /\ UNCHANGED mishaps
    BY <2>1, <2>2, <2>4, Leaves
  <2>5. CASE UNCHANGED promotions /\ \E w \in {"unreleased", "abandoned"} : mishaps' = mishaps \cup {<<r, w>>}
    <3>1. PICK w \in {"unreleased", "abandoned"} : mishaps' = mishaps \cup {<<r, w>>}
      BY <2>5
    <3>2. <<r, w>> \in mishaps' /\ <<r, w>>[1] = r /\ mishaps \subseteq mishaps'
      BY <3>1
    <3>3. Mishap(r)'
      BY <3>2 DEF Mishap
    <3> QED BY <2>1, <2>2, <2>5, <3>2, <3>3, Leaves
  <2> QED BY <2>3, <2>4, <2>5
<1>5. ASSUME R!Promote
      PROVE  PromotionInv'
  BY <1>3, <1>4, <1>5, Claims DEF R!Promote
<1> QED BY <1>1, <1>2, <1>5, AgesAndJudges DEF R!Next

LEMMA PromotionInit ==
    ASSUME R!Init
    PROVE  PromotionInv
<1>1. R!Dangling = {}
  BY DEF R!Init, R!Dangling
<1>2. R!LinksLeadSomewhere
  BY <1>1 DEF R!LinksLeadSomewhere
<1>3. PromotionTypes
  BY PromotionAssumption DEF R!Init, PromotionTypes, RunRecords, At
<1> QED BY <1>2, <1>3 DEF R!Init, PromotionInv, IdsApart, OneClaim, RowShows, Promotes, Holds, At, Stored, Unanswered, R!OneTaskPerRun

LEMMA PromotionsOnce ==
    ASSUME PromotionInv
    PROVE  R!OneTaskPerRun /\ R!LinksLeadSomewhere
BY DEF PromotionInv, OneClaim

-----------------------------------------------------------------------------
(*              Applications and sign-on: inductive invariant              *)

AccountShaped(a) ==
    a = [status |-> a.status, role |-> a.role, secret |-> a.secret, confirmed |-> a.confirmed,
         last |-> a.last, subject |-> a.subject]
SessionShaped(s) ==
    s = [id |-> s.id, phone |-> s.phone, scope |-> s.scope, state |-> s.state, revoked |-> s.revoked]

AccountsOK ==
    /\ accounts = [p \in Phones |-> accounts[p]] /\ \A p \in Phones : AccountShaped(accounts[p])
    /\ told \subseteq Phones /\ I!ApprovalToldIsTrue

\* A state waits, or is in the hands of the one request that consumed it, or
\* has led to a session.
StatesOK ==
    /\ begun \in Nat /\ ssoStates \subseteq 1 .. begun /\ DOMAIN copy = Requests
    /\ \A q \in Requests : I!Doing(q, "sso") =>
           /\ copy[q].state \in (1 .. begun) \ ssoStates
           /\ \A s \in sessions : s.state # copy[q].state
    /\ \A q, u \in Requests : I!Doing(q, "sso") /\ I!Doing(u, "sso") /\ copy[q].state = copy[u].state => q = u
    /\ \A s \in sessions : SessionShaped(s) /\ s.state \in (0 .. begun) \ ssoStates
    /\ I!SignOnCompletesOnce

AccountInv == AccountsOK /\ StatesOK

-----------------------------------------------------------------------------

\* No decision of an application is made.
Undecided ==
    /\ accounts' = [p \in Phones |-> accounts'[p]]
    /\ \A p \in Phones : AccountShaped(accounts'[p]) /\ accounts'[p].status = accounts[p].status

LEMMA StaysDecided ==
    ASSUME AccountsOK, Undecided, UNCHANGED told
    PROVE  AccountsOK'
BY DEF AccountsOK, Undecided, I!ApprovalToldIsTrue, AccountShaped

LEMMA OneColumn ==
    ASSUME AccountsOK, NEW phone, NEW entry, AccountShaped(entry),
           phone \in Phones => entry.status = accounts[phone].status, accounts' = [accounts EXCEPT ![phone] = entry]
    PROVE  Undecided
BY DEF AccountsOK, Undecided

LEMMA LastWritten ==
    ASSUME AccountsOK, NEW phone, NEW step, accounts' = [accounts EXCEPT ![phone].last = step]
    PROVE  Undecided
<1>1. CASE phone \in Phones
  <2>1. PICK entry : entry = [accounts[phone] EXCEPT !.last = step]
    OBVIOUS
  <2>2. AccountShaped(entry) /\ entry.status = accounts[phone].status
    BY <1>1, <2>1 DEF AccountsOK, AccountShaped
  <2>3. accounts' = [accounts EXCEPT ![phone] = entry]
    BY <2>1
  <2> QED BY <2>2, <2>3, OneColumn
<1>2. CASE phone \notin Phones
  <2>1. accounts' = accounts
    BY <1>2 DEF AccountsOK
  <2> QED BY <2>1 DEF AccountsOK, Undecided, AccountShaped
<1> QED BY <1>1, <1>2

LEMMA SubjectBound ==
    ASSUME AccountsOK, NEW phone, NEW who, accounts' = [accounts EXCEPT ![phone].subject = who]
    PROVE  Undecided
<1>1. CASE phone \in Phones
  <2>1. PICK entry : entry = [accounts[phone] EXCEPT !.subject = who]
    OBVIOUS
  <2>2. AccountShaped(entry) /\ entry.status = accounts[phone].status
    BY <1>1, <2>1 DEF AccountsOK, AccountShaped
  <2>3. accounts' = [accounts EXCEPT ![phone] = entry]
    BY <2>1
  <2> QED BY <2>2, <2>3, OneColumn
<1>2. CASE phone \notin Phones
  <2>1. accounts' = accounts
    BY <1>2 DEF AccountsOK
  <2> QED BY <2>1 DEF AccountsOK, Undecided, AccountShaped
<1> QED BY <1>1, <1>2

\* The code of an account, changed as a whole.
Coded(a, secret, confirmed, last) == [a EXCEPT !.secret = secret, !.confirmed = confirmed, !.last = last]

LEMMA CodedIs ==
    ASSUME NEW a, AccountShaped(a), NEW secret, NEW confirmed, NEW last
    PROVE  AccountShaped(Coded(a, secret, confirmed, last)) /\ Coded(a, secret, confirmed, last).status = a.status
<1>1. PICK a_1 : a_1 = [a EXCEPT !.secret = secret]
  OBVIOUS
<1>2. AccountShaped(a_1) /\ a_1.status = a.status
  BY <1>1 DEF AccountShaped
<1>3. PICK a_2 : a_2 = [a_1 EXCEPT !.confirmed = confirmed]
  OBVIOUS
<1>4. AccountShaped(a_2) /\ a_2.status = a.status
  BY <1>2, <1>3 DEF AccountShaped
<1>5. PICK a_3 : a_3 = [a_2 EXCEPT !.last = last]
  OBVIOUS
<1>6. AccountShaped(a_3) /\ a_3.status = a.status
  BY <1>4, <1>5 DEF AccountShaped
<1>7. Coded(a, secret, confirmed, last) = a_3
  BY <1>1, <1>3, <1>5, Zenon DEF Coded
<1> QED BY <1>6, <1>7

\* A code in force.
InForce(a, n) == [a EXCEPT !.confirmed = TRUE, !.last = n]

Approved(a, role) == [a EXCEPT !.status = "approved", !.role = role]

LEMMA Enrols ==
    ASSUME AccountInv, I!Enrol
    PROVE  AccountInv'
<1> USE DEF AccountInv
<1>1. ASSUME NEW phone \in Phones, I!StartTotp(phone) \/ I!ResetTotp(phone) \/ \E n \in 1 .. LastStep : I!ConfirmTotp(phone, n)
      PROVE  AccountInv'
  <2>1. UNCHANGED <<ssoStates, begun, sessions, told, copy>>
    BY <1>1 DEF I!StartTotp, I!ResetTotp, I!ConfirmTotp
  <2>2. Undecided
    <3>1. PICK old : old = accounts[phone]
      OBVIOUS
    <3>2. CASE I!StartTotp(phone)
      <4>1. accounts' = [accounts EXCEPT ![phone] = Coded(accounts[phone], TRUE, FALSE, 0)]
        BY <3>2, Zenon DEF I!StartTotp, Coded
      <4> QED BY <4>1, CodedIs, OneColumn DEF AccountsOK
    <3>3. CASE I!ResetTotp(phone)
      <4>1. accounts' = [accounts EXCEPT ![phone] = Coded(accounts[phone], FALSE, FALSE, 0)]
        BY <3>3, Zenon DEF I!ResetTotp, Coded
      <4> QED BY <4>1, CodedIs, OneColumn DEF AccountsOK
    <3>4. ASSUME NEW n \in 1 .. LastStep, I!ConfirmTotp(phone, n)
          PROVE  Undecided
      <4>1. accounts' = [accounts EXCEPT ![phone] = InForce(accounts[phone], n)]
        BY <3>4, Zenon DEF I!ConfirmTotp, InForce
      <4>2. AccountShaped(old)
        BY <3>1 DEF AccountsOK
      <4>3. PICK entry : entry = InForce(old, n)
        OBVIOUS
      <4>4. AccountShaped(entry) /\ entry.status = old.status
        BY <4>2, <4>3 DEF AccountShaped, InForce
      <4> QED BY <3>1, <4>1, <4>3, <4>4, OneColumn
    <3> QED BY <1>1, <3>2, <3>3, <3>4
  <2>3. StatesOK'
    BY <2>1 DEF StatesOK, I!Doing, I!SignOnCompletesOnce
  <2> QED BY <2>1, <2>2, <2>3, StaysDecided
<1>2. ASSUME NEW s \in sessions, I!Logout(s)
      PROVE  AccountInv'
  <2>1. PICK t : t = [s EXCEPT !.revoked = TRUE]
    OBVIOUS
  <2>2. /\ UNCHANGED <<accounts, ssoStates, begun, told, copy>>
        /\ sessions' = (sessions \ {s}) \cup {t}
    BY <1>2, <2>1 DEF I!Logout
  <2>3. SessionShaped(s)
    BY DEF StatesOK
  <2>4. t.state = s.state /\ t.id = s.id /\ SessionShaped(t)
    BY <2>1, <2>3 DEF SessionShaped
  <2>5. \A u \in sessions' : \E v \in sessions : u.state = v.state /\ u.id = v.id
    BY <2>2, <2>4
  <2>6. \A u \in sessions' : SessionShaped(u) /\ u.state \in (0 .. begun) \ ssoStates
    BY <2>2, <2>4, <2>5 DEF StatesOK
  <2>7. I!SignOnCompletesOnce'
    BY <2>5 DEF StatesOK, I!SignOnCompletesOnce
  <2>8. StatesOK'
    BY <2>2, <2>5, <2>6, <2>7 DEF StatesOK, I!Doing
  <2>9. AccountsOK'
    BY <2>2 DEF AccountsOK, I!ApprovalToldIsTrue, AccountShaped
  <2> QED BY <2>8, <2>9
<1> QED BY <1>1, <1>2 DEF I!Enrol

LEMMA Registers ==
    ASSUME AccountInv, I!Register
    PROVE  AccountInv'
<1> USE DEF AccountInv
<1>1. ASSUME NEW q \in Requests, NEW x, copy' = [copy EXCEPT ![q] = x], x = NoRequest \/ x.doing # "sso",
             UNCHANGED <<ssoStates, begun, sessions>>
      PROVE  StatesOK'
  <2>1. DOMAIN copy' = Requests /\ \A u \in Requests : copy'[u] = IF u = q THEN x ELSE copy[u]
    BY <1>1 DEF StatesOK
  <2>2. \A u \in Requests : I!Doing(u, "sso")' => I!Doing(u, "sso") /\ copy'[u] = copy[u]
    BY <1>1, <2>1 DEF I!Doing
  <2> QED BY <1>1, <2>1, <2>2 DEF StatesOK, I!SignOnCompletesOnce
<1>2. ASSUME NEW q \in Requests, I!AddAccount(q)
      PROVE  AccountInv'
  <2>1. PICK phone : phone = copy[q].phone
    OBVIOUS
  <2>2. PICK entry : entry \in {[I!Absent EXCEPT !.status = "pending"], [I!Absent EXCEPT !.status = "approved", !.role = "super_admin"]}
                   /\ accounts' = IF accounts[phone] # I!Absent THEN accounts ELSE [accounts EXCEPT ![phone] = entry]
    BY <1>2, <2>1, Zenon DEF I!AddAccount
  <2>3. AccountShaped(entry)
    BY <2>2 DEF AccountShaped, I!Absent
  <2>4. UNCHANGED <<ssoStates, begun, sessions, told>> /\ copy' = [copy EXCEPT ![q] = NoRequest]
    BY <1>2 DEF I!AddAccount, I!Done
  <2>5. CASE accounts[phone] # I!Absent
    BY <1>1, <2>2, <2>4, <2>5 DEF AccountsOK, I!ApprovalToldIsTrue, AccountShaped
  <2>6. CASE accounts[phone] = I!Absent /\ phone \in Phones
    <3>1. phone \notin told
      BY <2>6, AccountAssumption DEF AccountsOK, I!ApprovalToldIsTrue, I!Absent
    <3> QED BY <2>2, <2>3, <2>4, <2>6, <3>1, <1>1 DEF AccountsOK, I!ApprovalToldIsTrue
  <2>7. CASE phone \notin Phones
    <3>1. accounts' = accounts
      BY <2>2, <2>7 DEF AccountsOK
    <3> QED BY <2>4, <3>1, <1>1 DEF AccountsOK, I!ApprovalToldIsTrue, AccountShaped
  <2> QED BY <2>5, <2>6, <2>7
<1>3. ASSUME NEW q \in Requests, NEW phone \in Phones, I!RegistrationReads(q, phone)
      PROVE  AccountInv'
  <2>3. PICK pending : copy' = [copy EXCEPT ![q] = [doing |-> "register", phone |-> phone, pending |-> pending]]
    BY <1>3, Zenon DEF I!RegistrationReads
  <2>1. PICK x : x.doing = "register" /\ copy' = [copy EXCEPT ![q] = x]
    BY <2>3
  <2>2. UNCHANGED <<accounts, ssoStates, begun, sessions, told>>
    BY <1>3 DEF I!RegistrationReads
  <2> QED BY <2>1, <2>2, <1>1 DEF AccountsOK, I!ApprovalToldIsTrue, AccountShaped
<1>4. ASSUME NEW phone \in Phones, I!Reject(phone)
      PROVE  AccountInv'
  <2>1. UNCHANGED <<ssoStates, begun, sessions, copy, told>> /\ accounts[phone].status = "pending"
        /\ accounts' = [accounts EXCEPT ![phone].status = "rejected"]
    BY <1>4 DEF I!Reject
  <2>2. phone \notin told
    BY <2>1 DEF AccountsOK, I!ApprovalToldIsTrue
  <2>3. AccountsOK'
    BY <2>1, <2>2 DEF AccountsOK, I!ApprovalToldIsTrue, AccountShaped
  <2> QED BY <2>1, <2>3 DEF StatesOK, I!Doing, I!SignOnCompletesOnce
<1>5. ASSUME NEW phone \in Phones, NEW role \in ReviewedRoles, I!Approve(phone, role)
      PROVE  AccountInv'
  <2>1. PICK entry : entry = Approved(accounts[phone], role)
    OBVIOUS
  <2>2. accounts' = [accounts EXCEPT ![phone] = entry]
    <3>1. accounts' = [accounts EXCEPT ![phone] = Approved(accounts[phone], role)]
      BY <1>5, Zenon DEF I!Approve, Approved
    <3> QED BY <2>1, <3>1
  <2>3. UNCHANGED <<ssoStates, begun, sessions, copy>> /\ told' = told \cup {phone}
    BY <1>5 DEF I!Approve
  <2>4. AccountShaped(accounts[phone])
    BY DEF AccountsOK
  <2>5. AccountShaped(entry) /\ entry.status = "approved"
    BY <2>1, <2>4 DEF AccountShaped, Approved
  <2>6. AccountsOK'
    BY <2>2, <2>3, <2>5 DEF AccountsOK, I!ApprovalToldIsTrue
  <2> QED BY <2>3, <2>6 DEF StatesOK, I!Doing, I!SignOnCompletesOnce
<1> QED BY <1>2, <1>3, <1>4, <1>5 DEF I!Register

\* A session that no attempt led to, or the attempt of the request that
\* issues it, is added; the request rests.
LEMMA Issues ==
    ASSUME StatesOK, NEW phone, NEW scope, NEW state, I!Issue(phone, scope, state), UNCHANGED <<ssoStates, begun>>,
           \/ state = 0 /\ copy' = copy
           \/ \E q \in Requests : /\ copy' = [copy EXCEPT ![q] = NoRequest]
                                  /\ \/ state = 0
                                     \/ I!Doing(q, "sso") /\ state = copy[q].state
    PROVE  StatesOK'
<1>1. PICK new : /\ new = [id |-> I!Cardinality(sessions) + 1, phone |-> phone, scope |-> scope, state |-> state, revoked |-> FALSE]
                 /\ sessions' = sessions \cup {new}
  BY DEF I!Issue
<1>2. SessionShaped(new) /\ new.state = state
  BY <1>1 DEF SessionShaped
<1>3. /\ DOMAIN copy' = Requests
      /\ \A u \in Requests : I!Doing(u, "sso")' => I!Doing(u, "sso") /\ copy'[u] = copy[u]
  BY DEF StatesOK, I!Doing
<1>4. \A u \in Requests : I!Doing(u, "sso")' => copy[u].state # state
  <2>1. CASE state = 0
    BY <1>3, <2>1 DEF StatesOK
  <2>2. CASE \E q \in Requests : copy' = [copy EXCEPT ![q] = NoRequest] /\ I!Doing(q, "sso") /\ state = copy[q].state
    BY <1>3, <2>2 DEF StatesOK, I!Doing
  <2> QED BY <2>1, <2>2
<1>5. state \in (0 .. begun) \ ssoStates /\ \A s \in sessions : state # 0 => s.state # state
  BY DEF StatesOK
<1>6. I!SignOnCompletesOnce'
  BY <1>1, <1>2, <1>5 DEF StatesOK, I!SignOnCompletesOnce
<1> QED BY <1>1, <1>2, <1>3, <1>4, <1>5, <1>6 DEF StatesOK

\* A request reads, or rests, and issues nothing.
LEMMA Resumes ==
    ASSUME StatesOK, NEW q \in Requests, NEW x, copy' = [copy EXCEPT ![q] = x], x = NoRequest \/ x.doing # "sso",
           UNCHANGED <<ssoStates, begun, sessions>>
    PROVE  StatesOK'
<1>1. DOMAIN copy' = Requests /\ \A u \in Requests : copy'[u] = IF u = q THEN x ELSE copy[u]
  BY DEF StatesOK
<1>2. \A u \in Requests : I!Doing(u, "sso")' => I!Doing(u, "sso") /\ copy'[u] = copy[u]
  BY <1>1 DEF I!Doing
<1> QED BY <1>1, <1>2 DEF StatesOK, I!SignOnCompletesOnce

LEMMA SignsIn ==
    ASSUME AccountInv, I!SignIn
    PROVE  AccountInv'
<1> USE DEF AccountInv
<1>1. ASSUME UNCHANGED <<accounts, told>>
      PROVE  AccountsOK'
  BY <1>1 DEF AccountsOK, I!ApprovalToldIsTrue, AccountShaped
<1>2. ASSUME NEW q \in Requests, NEW phone \in Phones, I!LoginReads(q, phone)
      PROVE  AccountInv'
  <2>1. PICK x : /\ x = [doing |-> "login", phone |-> phone, account |-> accounts[phone]]
                 /\ copy' = [copy EXCEPT ![q] = x]
    BY <1>2 DEF I!LoginReads
  <2>2. UNCHANGED <<accounts, ssoStates, begun, sessions, told>> /\ x.doing = "login"
    BY <1>2, <2>1 DEF I!LoginReads
  <2> QED BY <1>1, <2>1, <2>2, Resumes
<1>3. ASSUME NEW q \in Requests, I!LoginFails(q)
      PROVE  AccountInv'
  BY <1>1, <1>3, Resumes DEF I!LoginFails, I!Done
<1>4. ASSUME NEW q \in Requests, NEW step \in 1 .. LastStep, I!LoginSucceeds(q, step)
      PROVE  AccountInv'
  <2>1. PICK phone, scope : /\ I!Issue(phone, scope, 0)
                            /\ accounts' = accounts \/ accounts' = [accounts EXCEPT ![phone].last = step]
    BY <1>4 DEF I!LoginSucceeds
  <2>2. UNCHANGED <<ssoStates, begun, told>> /\ copy' = [copy EXCEPT ![q] = NoRequest]
    BY <1>4 DEF I!LoginSucceeds, I!Done
  <2>3. AccountsOK'
    BY <1>1, <2>1, <2>2, LastWritten, StaysDecided
  <2>4. StatesOK'
    BY <2>1, <2>2, Issues
  <2> QED BY <2>3, <2>4
<1>5. ASSUME NEW q \in Requests, NEW state \in ssoStates, NEW phone \in Phones, NEW who \in Subjects,
             I!ConsumeState(q, state, phone, who)
      PROVE  AccountInv'
  <2>1. PICK x : /\ x = [doing |-> "sso", phone |-> phone, subject |-> who, state |-> state, account |-> accounts[phone]]
                 /\ copy' = [copy EXCEPT ![q] = x]
    BY <1>5 DEF I!ConsumeState
  <2>2. UNCHANGED <<accounts, begun, sessions, told>> /\ x.state = state /\ ssoStates' = ssoStates \ {state}
    BY <1>5, <2>1 DEF I!ConsumeState
  <2>3. DOMAIN copy' = Requests /\ \A u \in Requests : copy'[u] = IF u = q THEN x ELSE copy[u]
    BY <2>1 DEF StatesOK
  <2>4. \A u \in Requests \ {q} : I!Doing(u, "sso")' => I!Doing(u, "sso") /\ copy'[u] = copy[u]
    BY <2>3 DEF I!Doing
  <2>5. state \in 1 .. begun /\ \A s \in sessions : s.state # state
    BY DEF StatesOK
  <2>6. \A u \in Requests \ {q} : I!Doing(u, "sso") => copy[u].state # state
    BY DEF StatesOK
  <2>7. \A u \in Requests : I!Doing(u, "sso")' =>
            /\ copy'[u].state \in (1 .. begun) \ ssoStates'
            /\ \A s \in sessions : s.state # copy'[u].state
    BY <2>2, <2>3, <2>4, <2>5 DEF StatesOK
  <2>8. \A u, w \in Requests : I!Doing(u, "sso")' /\ I!Doing(w, "sso")' /\ copy'[u].state = copy'[w].state => u = w
    BY <2>2, <2>3, <2>4, <2>6 DEF StatesOK
  <2>9. StatesOK'
    BY <2>2, <2>3, <2>7, <2>8 DEF StatesOK, I!SignOnCompletesOnce
  <2> QED BY <1>1, <2>2, <2>9
<1>6. ASSUME NEW q \in Requests, I!CompleteSso(q)
      PROVE  AccountInv'
  <2>1. PICK phone, who, scope : /\ accounts' = accounts \/ accounts' = [accounts EXCEPT ![phone].subject = who]
                                 /\ UNCHANGED sessions \/ I!Issue(phone, scope, copy[q].state)
    BY <1>6 DEF I!CompleteSso
  <2>2. UNCHANGED <<ssoStates, begun, told>> /\ copy' = [copy EXCEPT ![q] = NoRequest] /\ I!Doing(q, "sso")
    BY <1>6 DEF I!CompleteSso, I!Done
  <2>3. AccountsOK'
    BY <1>1, <2>1, <2>2, SubjectBound, StaysDecided
  <2>4. StatesOK'
    BY <2>1, <2>2, Issues, Resumes
  <2> QED BY <2>3, <2>4
<1>7. CASE I!BeginSsoLogin
  <2>1. UNCHANGED <<accounts, sessions, told, copy>> /\ begun' = begun + 1 /\ ssoStates' = ssoStates \cup {begun'}
    BY <1>7 DEF I!BeginSsoLogin
  <2>2. begun' \in Nat /\ 1 .. begun \subseteq 1 .. begun' /\ begun' \in 1 .. begun' /\ begun' \notin 0 .. begun
        /\ 0 .. begun \subseteq 0 .. begun'
    BY <2>1 DEF StatesOK
  <2>3. StatesOK'
    BY <2>1, <2>2 DEF StatesOK, I!SignOnCompletesOnce, I!Doing
  <2> QED BY <1>1, <2>1, <2>3
<1>8. ASSUME NEW s \in sessions, NEW step \in 1 .. LastStep, I!VerifySsoTotp(s, step)
      PROVE  AccountInv'
  <2>1. \/ accounts' = [accounts EXCEPT ![s.phone].last = step] /\ I!Issue(s.phone, "full", 0)
        \/ UNCHANGED <<accounts, sessions>>
    BY <1>8 DEF I!VerifySsoTotp
  <2>2. UNCHANGED <<ssoStates, begun, told, copy>>
    BY <1>8 DEF I!VerifySsoTotp
  <2>3. AccountsOK'
    BY <1>1, <2>1, <2>2, LastWritten, StaysDecided
  <2>4. CASE I!Issue(s.phone, "full", 0)
    BY <2>2, <2>3, <2>4, Issues
  <2>5. CASE UNCHANGED sessions
    BY <2>2, <2>3, <2>5 DEF StatesOK, I!SignOnCompletesOnce, I!Doing
  <2> QED BY <2>1, <2>4, <2>5
<1>9. ASSUME NEW phone \in Phones, I!LockExpires(phone)
      PROVE  AccountInv'
  BY <1>1, <1>9 DEF I!LockExpires, StatesOK, I!SignOnCompletesOnce, I!Doing
<1> QED BY <1>2, <1>3, <1>4, <1>5, <1>6, <1>7, <1>8, <1>9 DEF I!SignIn

LEMMA AccountOfSystem ==
    ASSUME AccountInv, [Next]_vars
    PROVE  AccountInv'
<1>1. I!Next \/ UNCHANGED iVars
  BY DEF Next, vars
<1>2. ASSUME UNCHANGED iVars
      PROVE  AccountInv'
  BY <1>2 DEF iVars, AccountInv, AccountsOK, StatesOK, I!ApprovalToldIsTrue, I!SignOnCompletesOnce, I!Doing, AccountShaped
<1> QED BY <1>1, <1>2, Registers, SignsIn, Enrols DEF I!Next

LEMMA AccountInit ==
    ASSUME I!Init
    PROVE  AccountInv
<1>1. AccountShaped(I!Absent)
  BY DEF AccountShaped, I!Absent
<1>2. AccountsOK
  BY <1>1 DEF I!Init, AccountsOK, I!ApprovalToldIsTrue
<1>3. StatesOK
  BY DEF I!Init, StatesOK, I!SignOnCompletesOnce, I!Doing
<1> QED BY <1>2, <1>3 DEF AccountInv

\* However the requests interleave and whatever fails or dies between two of them,
\* one task of a user comes of a run, and of one user only unless the answer to a
\* stored task was lost; the run's link leads to a task unless its claim was
\* abandoned or not given back or such an answer was lost; a sign-on completes once
\* and who was told of an approval is approved.
THEOREM RepeatsAbsorbed == Spec => []RepeatsAreAbsorbed
<1>1. Init => PromotionInv /\ AccountInv
  BY PromotionInit, AccountInit DEF Init
<1>2. PromotionInv /\ AccountInv /\ [Next]_vars => PromotionInv' /\ AccountInv'
  BY PromotionOfSystem, AccountOfSystem
<1>3. PromotionInv /\ AccountInv => RepeatsAreAbsorbed
  BY PromotionsOnce DEF RepeatsAreAbsorbed, AccountInv, AccountsOK, StatesOK
<1> QED BY <1>1, <1>2, <1>3, PTL DEF Spec

-----------------------------------------------------------------------------
(*                 Processes that come up: inductive invariant             *)

Outcomes == {"durable", "file", "memory", "ready", "off", "refused"}

\* Who has a durable part found the schema complete, and only development
\* keeps anything in memory.
PartsOK ==
    /\ built = [p \in Instances |-> built[p]] /\ \A p \in Instances : built[p] \in Seq(Outcomes)
    /\ \A p \in Instances : \A i \in 1 .. Len(built[p]) :
           /\ built[p][i] = "durable" => A!Pending = {}
           /\ built[p][i] = "memory" => A!Development

\* A migration is applied once: what the transaction has applied is missing
\* from the schema it has read.
SchemaOK ==
    /\ schema = [v \in 1 .. Versions |-> schema[v]] /\ \A v \in 1 .. Versions : schema[v] \in {0, 1}
    /\ draft \subseteq A!Pending

\* Who builds the worker's runtime holds the lock until its slots are set.
WorkerOK == builds = 0 \/ (builds = 1 /\ (slots # {} \/ key # Nobody))

AssemblyInv == PartsOK /\ SchemaOK /\ WorkerOK

LEMMA StageIs ==
    ASSUME NEW i \in A!Stages
    PROVE  A!Outcomes[i] \in Outcomes /\ (A!Outcomes[i] = "memory" => A!Development)
<1>1. A!Store \in {"durable", "memory", "refused"} /\ (A!Store = "memory" => A!Development)
  BY DEF A!Store
<1>2. \A c : A!Required(c) \in {"ready", "refused"} /\ A!Optional(c) \in {"refused", "off", "ready"}
  BY DEF A!Required, A!Optional
<1>3. A!Content \in {"refused", "memory", "file"} /\ (A!Content = "memory" => A!Development)
  BY DEF A!Content
<1> USE DEF Outcomes
<1> DEFINE Fine(o) == o \in Outcomes /\ (o = "memory" => A!Development)
<1>4. Fine(A!Store) /\ Fine(A!Content)
  BY <1>1, <1>3
<1>5. Fine(A!EventBus) /\ Fine(A!Accounts) /\ Fine(A!Memory) /\ Fine(A!Evolution)
  BY <1>1 DEF A!EventBus, A!Accounts, A!Memory, A!Evolution
<1>6. Fine(A!KnowledgeSearch) /\ Fine(A!Generator) /\ Fine(A!Publisher) /\ Fine(A!ToolExecution)
  BY <1>2 DEF A!KnowledgeSearch, A!Generator, A!Publisher, A!ToolExecution
<1>7. /\ A!Audit = A!Store /\ A!DeadLetters = A!Store /\ A!KnowledgeGovernance = A!Store /\ A!Workforce = A!Store
      /\ A!Conversations = A!Store /\ A!Crm = A!Store /\ A!Skills = A!Store /\ A!RunState = A!Store
      /\ A!Commercial = A!Store /\ A!Runs = A!Store /\ A!Streams = A!Store /\ A!Publications = A!Store
      /\ A!Planner = A!Store /\ A!Orchestration = A!Store
  BY DEF A!Audit, A!DeadLetters, A!KnowledgeGovernance, A!Workforce, A!Conversations, A!Crm, A!Skills,
         A!RunState, A!Commercial, A!Runs, A!Streams, A!Publications, A!Planner, A!Orchestration
<1>8. Fine(A!Outcomes[i])
  <2> HIDE DEF Fine
  <2>1. i \in 1 .. 23
    BY DEF A!Stages
  <2>2. CASE i \in 1 .. 12
    BY <1>4, <1>5, <1>6, <1>7, <2>2 DEF A!Outcomes
  <2>3. CASE i \in 13 .. 23
    BY <1>4, <1>5, <1>6, <1>7, <2>3 DEF A!Outcomes
  <2> QED BY <2>1, <2>2, <2>3
<1> QED BY <1>8

LEMMA Boots ==
    ASSUME AssemblyInv, A!Boot
    PROVE  AssemblyInv'
<1> USE DEF AssemblyInv
<1>1. UNCHANGED <<settings, schema, slots, key, builds>>
  BY DEF A!Boot, A!Start, A!BuildStage, A!Refuse, A!Dies, A!WorkerUnchanged
<1>2. WorkerOK'
  BY <1>1 DEF WorkerOK
<1>3. draft' \in {draft, {}}
  BY DEF A!Boot, A!Start, A!BuildStage, A!Refuse, A!Dies
<1>4. SchemaOK'
  BY <1>1, <1>3 DEF SchemaOK, A!Pending
<1>9. A!Pending' = A!Pending /\ (A!Development' <=> A!Development)
  BY <1>1 DEF A!Pending, A!Development
<1>5. ASSUME built' = built
      PROVE  PartsOK'
  BY <1>5, <1>9 DEF PartsOK
<1>6. ASSUME NEW p \in Instances, A!Start(p)
      PROVE  PartsOK'
  <2>1. built' = [built EXCEPT ![p] = <<>>]
    BY <1>6 DEF A!Start
  <2> QED BY <1>9, <2>1 DEF PartsOK
<1>7. ASSUME NEW p \in Instances, A!BuildStage(p)
      PROVE  PartsOK'
  <2>1. PICK o : o = A!Outcomes[place[p]]
    OBVIOUS
  <2>2. o \in Outcomes /\ (o = "memory" => A!Development) /\ (o = "durable" => A!Pending = {})
    BY <1>7, <2>1, StageIs DEF A!BuildStage, A!NeedsSchema
  <2>3. built' = [built EXCEPT ![p] = Append(built[p], o)]
    BY <1>7, <2>1 DEF A!BuildStage
  <2>5. built[p] \in Seq(Outcomes)
    BY DEF PartsOK
  <2>6. PICK list : list = Append(built[p], o)
    OBVIOUS
  <2>7. list \in Seq(Outcomes) /\ Len(list) = Len(built[p]) + 1
    BY <2>2, <2>5, <2>6
  <2>8. \A i \in 1 .. Len(list) : list[i] = o \/ (i \in 1 .. Len(built[p]) /\ list[i] = built[p][i])
    BY <2>2, <2>5, <2>6
  <2>9. \A i \in 1 .. Len(list) : /\ list[i] = "durable" => A!Pending = {}
                                  /\ list[i] = "memory" => A!Development
    BY <2>2, <2>8 DEF PartsOK
  <2> QED BY <1>9, <2>3, <2>6, <2>7, <2>9 DEF PartsOK
<1>8. \/ \E p \in Instances : A!Start(p) \/ A!BuildStage(p)
      \/ built' = built
  BY DEF A!Boot, A!Refuse, A!Dies
<1> QED BY <1>2, <1>4, <1>5, <1>6, <1>7, <1>8

LEMMA Migrates ==
    ASSUME AssemblyInv, A!Migrate
    PROVE  AssemblyInv'
<1> USE DEF AssemblyInv
<1>1. UNCHANGED <<settings, built, slots, key, builds>>
  BY DEF A!Migrate, A!LockMigrations, A!ApplyMigration, A!CommitMigrations, A!WorkerUnchanged
<1>2. WorkerOK'
  BY <1>1 DEF WorkerOK
<1>3. CASE schema' = schema /\ draft' \subseteq A!Pending
  BY <1>1, <1>2, <1>3 DEF SchemaOK, PartsOK, A!Pending, A!Development
<1>4. ASSUME NEW p \in Instances, A!CommitMigrations(p)
      PROVE  AssemblyInv'
  <2>1. /\ schema' = [v \in 1 .. Versions |-> schema[v] + (IF v \in draft THEN 1 ELSE 0)]
        /\ draft' = {}
    BY <1>4 DEF A!CommitMigrations
  <2>2. \A v \in 1 .. Versions : schema'[v] \in {0, 1} /\ (schema[v] = 1 => schema'[v] = 1)
    <3>1. ASSUME NEW v \in 1 .. Versions
          PROVE  schema'[v] \in {0, 1} /\ (schema[v] = 1 => schema'[v] = 1)
      <4>1. CASE v \in draft
        <5>1. schema[v] = 0
          BY <4>1 DEF SchemaOK, A!Pending
        <5>2. schema'[v] = schema[v] + 1
          BY <2>1, <4>1
        <5> QED BY <5>1, <5>2
      <4>2. CASE v \notin draft
        BY <2>1, <4>2 DEF SchemaOK
      <4> QED BY <4>1, <4>2
    <3> QED BY <3>1
  <2>3. A!Pending' \subseteq A!Pending
    BY <2>2 DEF SchemaOK, A!Pending
  <2>4. SchemaOK'
    BY <2>1, <2>2 DEF SchemaOK
  <2>5. PartsOK'
    BY <1>1, <2>3 DEF PartsOK, A!Development
  <2> QED BY <1>2, <2>4, <2>5
<1>5. \/ schema' = schema /\ draft' \subseteq A!Pending
      \/ \E p \in Instances : A!CommitMigrations(p)
  BY DEF A!Migrate, A!LockMigrations, A!ApplyMigration, SchemaOK
<1> QED BY <1>3, <1>4, <1>5

LEMMA Works ==
    ASSUME AssemblyInv, A!Task
    PROVE  AssemblyInv'
<1> USE DEF AssemblyInv
<1>1. UNCHANGED <<settings, schema, draft, built>>
  BY DEF A!Task, A!EnsureRuntime, A!TakeLock, A!SetSlot, A!ReturnRuntime, A!RunTask, A!ApiUnchanged
<1>2. PartsOK' /\ SchemaOK'
  BY <1>1 DEF PartsOK, SchemaOK, A!Pending, A!Development
<1>3. ASSUME NEW t \in Threads, A!EnsureRuntime(t) \/ A!RunTask(t)
      PROVE  WorkerOK'
  BY <1>3 DEF A!EnsureRuntime, A!RunTask, WorkerOK
<1>4. ASSUME NEW t \in Threads, A!TakeLock(t)
      PROVE  WorkerOK'
  BY <1>4, AssemblyAssumption DEF A!TakeLock, WorkerOK
<1>5. ASSUME NEW t \in Threads, A!SetSlot(t)
      PROVE  WorkerOK'
  BY <1>5 DEF A!SetSlot, WorkerOK
<1>6. ASSUME NEW t \in Threads, A!ReturnRuntime(t)
      PROVE  WorkerOK'
  <2>1. A!SlotNames # {}
    BY DEF A!SlotNames, A!Order
  <2> QED BY <1>6, <2>1 DEF A!ReturnRuntime, WorkerOK
<1> QED BY <1>2, <1>3, <1>4, <1>5, <1>6 DEF A!Task

LEMMA AssemblyOfSystem ==
    ASSUME AssemblyInv, [Next]_vars
    PROVE  AssemblyInv'
<1>1. A!Boot \/ A!Migrate \/ A!Task \/ UNCHANGED aVars
  BY DEF Next, vars
<1>2. ASSUME UNCHANGED aVars
      PROVE  AssemblyInv'
  BY <1>2 DEF aVars, AssemblyInv, PartsOK, SchemaOK, WorkerOK, A!Pending, A!Development
<1> QED BY <1>1, <1>2, Boots, Migrates, Works

LEMMA AssemblyInit ==
    ASSUME A!Init
    PROVE  AssemblyInv
<1>1. PartsOK
  BY DEF A!Init, PartsOK
<1>2. SchemaOK
  BY DEF A!Init, SchemaOK, A!Pending
<1> QED BY <1>1, <1>2 DEF A!Init, AssemblyInv, WorkerOK

\* Whatever comes up together, dies and is started again: who serves has a
\* complete schema and, outside development, nothing in memory, and the
\* worker's runtime is built once.
THEOREM ServersAreSound == Spec => []ServingIsSound
<1>1. Init => AssemblyInv
  BY AssemblyInit DEF Init
<1>2. AssemblyInv /\ [Next]_vars => AssemblyInv'
  BY AssemblyOfSystem
<1>3. AssemblyInv => ServingIsSound
  <2>1. SUFFICES ASSUME AssemblyInv
                 PROVE  ServingIsSound
    OBVIOUS
  <2>2. \A p \in Instances : A!Kinds(p) = {built[p][i] : i \in 1 .. Len(built[p])}
    BY <2>1 DEF A!Kinds, AssemblyInv, PartsOK
  <2>3. A!Pending = {} => \A v \in 1 .. Versions : schema[v] = 1
    BY <2>1 DEF AssemblyInv, SchemaOK, A!Pending
  <2>4. A!ServingIsSound
    BY <2>1, <2>2, <2>3 DEF A!ServingIsSound, AssemblyInv, PartsOK
  <2>5. A!BuiltOnce
    BY <2>1 DEF A!BuiltOnce, AssemblyInv, WorkerOK
  <2> QED BY <2>4, <2>5 DEF ServingIsSound
<1> QED BY <1>1, <1>2, <1>3, PTL DEF Spec

-----------------------------------------------------------------------------
(*                  Quotes and contracts: inductive invariant              *)

\* A quote that is confirmed or converted has the total it was confirmed with.
Sold == {"confirmed", "converted"}
QuotesOK ==
    /\ agreed = [q \in 1 .. MaxQuotes |-> agreed[q]]
    /\ \A q \in 1 .. Len(quotes) :
           /\ quotes[q].status \in Sold => quotes[q].total \in agreed[q]
           /\ quotes[q].status = "converted" => /\ quotes[q].contract \in 1 .. Len(contracts)
                                                /\ contracts[quotes[q].contract].quote = q

ContractsOK ==
    \A c \in 1 .. Len(contracts) : contracts[c].quote # 0 =>
        contracts[c].amount \in agreed[contracts[c].quote]

\* What a request has read: a row that is written back has the quote and the
\* amount that the contract has.
RequestOK(r) ==
    /\ r.op = "add_quote" => r.no \in 1 .. MaxQuotes /\ r.total \in Totals
    /\ r.op = "lines" => r.quote \in 1 .. Len(quotes) /\ r.total \in Totals
    /\ r.op = "turn" => r.quote \in 1 .. Len(quotes) /\ r.to \in {"confirmed", "voided"}
    /\ r.op = "number" => /\ r.quote \in 1 .. Len(quotes)
                          /\ r.amount \in Totals /\ r.amount \in agreed[r.quote]
    /\ r.op = "convert" => /\ r.quote \in 1 .. Len(quotes) /\ r.no \in 1 .. MaxContracts
                           /\ r.amount \in Totals /\ r.amount \in agreed[r.quote]
    /\ r.op = "add_contract" => r.no \in 1 .. MaxContracts /\ r.amount \in Totals
    /\ r.op = "update" => /\ r.contract \in 1 .. Len(contracts) /\ r.row \in D!ContractRows
                          /\ r.row.quote = contracts[r.contract].quote
                          /\ r.row.amount = contracts[r.contract].amount
    /\ r.op = "pay" => r.contract \in 1 .. Len(contracts)

RequestsOK ==
    /\ counter = [p \in D!Clerks |-> counter[p]]
    /\ \A p \in D!Clerks : counter[p] # NoDeal => RequestOK(counter[p])

DealInv == D!TypeOK /\ QuotesOK /\ ContractsOK /\ RequestsOK

-----------------------------------------------------------------------------

\* Quotes and contracts are never removed, a contract keeps its quote and its
\* amount, and what was agreed is not forgotten.
DealsStay ==
    /\ Len(quotes) <= Len(quotes') /\ Len(contracts) <= Len(contracts')
    /\ \A c \in 1 .. Len(contracts) : /\ contracts'[c].quote = contracts[c].quote
                                      /\ contracts'[c].amount = contracts[c].amount
    /\ \A q \in 1 .. MaxQuotes : agreed[q] \subseteq agreed'[q]

LEMMA DealTypes ==
    ASSUME DealInv
    PROVE  /\ quotes \in Seq(D!QuoteRows) /\ Len(quotes) \in Nat /\ Len(quotes) <= MaxQuotes
           /\ contracts \in Seq(D!ContractRows) /\ Len(contracts) \in Nat /\ Len(contracts) <= MaxContracts
           /\ DOMAIN quotes = 1 .. Len(quotes) /\ DOMAIN contracts = 1 .. Len(contracts)
           /\ \A q \in 1 .. Len(quotes) : /\ quotes[q] \in D!QuoteRows /\ D!QuoteCheck(quotes[q])
                                          /\ q \in 1 .. MaxQuotes
           /\ \A c \in 1 .. Len(contracts) : contracts[c] \in D!ContractRows /\ D!ContractCheck(contracts[c])
BY DealAssumption DEF DealInv, D!TypeOK

\* A request ends, and the others hold what they held.
LEMMA DealEnds ==
    ASSUME DealInv, NEW p \in D!Clerks, counter' = [counter EXCEPT ![p] = NoDeal], DealsStay,
           Len(quotes') \in Nat, Len(contracts') \in Nat
    PROVE  RequestsOK'
<1>1. counter' = [r \in D!Clerks |-> counter'[r]] /\ \A r \in D!Clerks : counter'[r] \in {NoDeal, counter[r]}
  BY DEF DealInv, RequestsOK
<1>2. ASSUME NEW r, RequestOK(r)
      PROVE  RequestOK(r)'
  <2>1. /\ \A q \in 1 .. Len(quotes) : q \in 1 .. Len(quotes') /\ q \in 1 .. MaxQuotes
        /\ \A c \in 1 .. Len(contracts) : c \in 1 .. Len(contracts')
    BY DealTypes DEF DealsStay
  <2> QED BY <1>2, <2>1 DEF RequestOK, DealsStay
<1>3. ASSUME NEW r \in D!Clerks, counter'[r] # NoDeal
      PROVE  RequestOK(counter[r])' /\ counter'[r] = counter[r]
  <2>1. counter'[r] = counter[r] /\ RequestOK(counter[r])
    BY <1>1, <1>3 DEF DealInv, RequestsOK
  <2>2. PICK k : k = counter[r]
    OBVIOUS
  <2>3. RequestOK(k)'
    BY <1>2, <2>1, <2>2
  <2> QED BY <2>1, <2>2, <2>3
<1> QED BY <1>1, <1>3 DEF RequestsOK

\* A request holds what it has read.
LEMMA DealHolds ==
    ASSUME DealInv, NEW p \in D!Clerks, NEW r, D!Rings(p, r), RequestOK(r),
           UNCHANGED <<quotes, contracts, agreed, ended>>
    PROVE  DealInv'
<1>1. counter' = [counter EXCEPT ![p] = r] /\ UNCHANGED <<quotes, contracts, agreed, ended>>
  BY DEF D!Rings
<1>2. \A k : RequestOK(k)' <=> RequestOK(k)
  BY <1>1 DEF RequestOK
<1>3. counter' = [q \in D!Clerks |-> counter'[q]] /\ \A q \in D!Clerks : counter'[q] \in {r, counter[q]}
  BY <1>1 DEF DealInv, RequestsOK
<1>4. \A q \in D!Clerks : counter'[q] # NoDeal => RequestOK(counter'[q])
  BY <1>3 DEF DealInv, RequestsOK
<1>5. RequestsOK'
  BY <1>1, <1>3, <1>4 DEF RequestsOK, RequestOK
<1>6. D!TypeOK' /\ QuotesOK' /\ ContractsOK'
  BY <1>1 DEF DealInv, D!TypeOK, QuotesOK, ContractsOK
<1> QED BY <1>5, <1>6 DEF DealInv

LEMMA DealReads ==
    ASSUME DealInv, NEW p \in D!Clerks, NEW r, D!Reads(p, r), RequestOK(r)
    PROVE  DealInv'
BY DealHolds DEF D!Reads

LEMMA QuoteReads ==
    ASSUME DealInv, NEW p \in Sellers, NEW t \in Totals, NEW q \in DOMAIN quotes,
           \/ D!CountQuotes(p, t) \/ D!CountContracts(p, t) \/ D!ReplaceReads(p, q, t)
           \/ D!ConfirmReads(p, q) \/ D!VoidReads(p, q) \/ D!ConvertReads(p, q)
    PROVE  DealInv'
<1>1. p \in D!Clerks /\ q \in 1 .. Len(quotes)
  BY DealTypes DEF D!Clerks
<1>2. ASSUME NEW r, D!Reads(p, r), RequestOK(r)
      PROVE  DealInv'
  BY <1>1, <1>2, DealReads
<1>3. CASE D!CountQuotes(p, t)
  <2>1. PICK r : r = [op |-> "add_quote", no |-> Len(quotes) + 1, total |-> t]
    OBVIOUS
  <2>2. RequestOK(r)
    BY <1>3, <2>1, DealTypes, DealAssumption DEF D!CountQuotes, RequestOK
  <2> QED BY <1>2, <1>3, <2>1, <2>2 DEF D!CountQuotes
<1>4. CASE D!CountContracts(p, t)
  <2>1. PICK r : r = [op |-> "add_contract", no |-> Len(contracts) + 1, amount |-> t]
    OBVIOUS
  <2>2. RequestOK(r)
    BY <1>4, <2>1, DealTypes, DealAssumption DEF D!CountContracts, RequestOK
  <2> QED BY <1>2, <1>4, <2>1, <2>2 DEF D!CountContracts
<1>5. CASE D!ReplaceReads(p, q, t)
  <2>1. PICK r : r = [op |-> "lines", quote |-> q, total |-> t]
    OBVIOUS
  <2>2. RequestOK(r)
    BY <1>1, <2>1 DEF RequestOK
  <2> QED BY <1>2, <1>5, <2>1, <2>2 DEF D!ReplaceReads
<1>6. CASE D!ConfirmReads(p, q)
  <2>1. PICK r : r = [op |-> "turn", quote |-> q, from |-> "draft", to |-> "confirmed"]
    OBVIOUS
  <2>2. RequestOK(r)
    BY <1>1, <2>1 DEF RequestOK
  <2> QED BY <1>2, <1>6, <2>1, <2>2 DEF D!ConfirmReads
<1>7. CASE D!VoidReads(p, q)
  <2>1. PICK r : r = [op |-> "turn", quote |-> q, from |-> quotes[q].status, to |-> "voided"]
    OBVIOUS
  <2>2. RequestOK(r)
    BY <1>1, <2>1 DEF RequestOK
  <2> QED BY <1>2, <1>7, <2>1, <2>2 DEF D!VoidReads
<1>8. CASE D!ConvertReads(p, q)
  <2>1. PICK r : r = [op |-> "number", quote |-> q, amount |-> quotes[q].total]
    OBVIOUS
  <2>2. quotes[q].total \in Totals /\ quotes[q].total \in agreed[q]
    BY <1>1, <1>8, DealTypes DEF D!ConvertReads, DealInv, QuotesOK, Sold, D!QuoteRows
  <2>3. RequestOK(r)
    BY <1>1, <2>1, <2>2 DEF RequestOK
  <2> QED BY <1>2, <1>8, <2>1, <2>3 DEF D!ConvertReads
<1> QED BY <1>3, <1>4, <1>5, <1>6, <1>7, <1>8

LEMMA KeepsNumberContract ==
    ASSUME DealInv, NEW p \in D!Clerks, D!NumberContract(p)
    PROVE  DealInv'
<1>1. PICK old : old = counter[p]
  OBVIOUS
<1>2. PICK r : r = [op |-> "convert", quote |-> old.quote, no |-> Len(contracts) + 1, amount |-> old.amount]
  OBVIOUS
<1>3. /\ old # NoDeal /\ old.op = "number" /\ Len(contracts) < MaxContracts
      /\ D!Rings(p, r) /\ UNCHANGED <<quotes, contracts, agreed, ended>>
  BY <1>1, <1>2 DEF D!NumberContract, D!Serving
<1>4. old.quote \in 1 .. Len(quotes) /\ old.amount \in Totals /\ old.amount \in agreed[old.quote]
  BY <1>1, <1>3 DEF DealInv, RequestsOK, RequestOK
<1>5. Len(contracts) + 1 \in 1 .. MaxContracts
  BY <1>3, DealTypes, DealAssumption
<1>6. RequestOK(r)
  BY <1>2, <1>4, <1>5 DEF RequestOK
<1> QED BY <1>3, <1>6, DealHolds

\* A copy of a contract with another status.
Restated(w, status) == [w EXCEPT !.status = status]
Moved(w, status) == [w EXCEPT !.status = status, !.signed = w.signed \/ status = "signed"]

LEMMA CopyIs ==
    ASSUME NEW w \in D!ContractRows, NEW s \in {"pending_sign", "signed", "voided", "expired"}
    PROVE  /\ Restated(w, s) \in D!ContractRows /\ Restated(w, s).quote = w.quote
           /\ Restated(w, s).amount = w.amount
           /\ Moved(w, s) \in D!ContractRows /\ Moved(w, s).quote = w.quote
           /\ Moved(w, s).amount = w.amount
<1>1. PICK one : one = [w EXCEPT !.status = s]
  OBVIOUS
<1>2. one \in D!ContractRows /\ one.quote = w.quote /\ one.amount = w.amount
  BY <1>1 DEF D!ContractRows
<1>3. PICK b : b = (w.signed \/ s = "signed")
  OBVIOUS
<1>4. b \in BOOLEAN
  BY <1>3, Zenon
<1>5. PICK two : two = [one EXCEPT !.signed = b]
  OBVIOUS
<1>6. two \in D!ContractRows /\ two.quote = w.quote /\ two.amount = w.amount
  BY <1>2, <1>4, <1>5 DEF D!ContractRows
<1>7. Moved(w, s) = two
  BY <1>1, <1>3, <1>5, Zenon DEF Moved
<1> QED BY <1>1, <1>2, <1>6, <1>7 DEF Restated

LEMMA ContractReads ==
    ASSUME DealInv, NEW p \in Sellers, NEW c \in DOMAIN contracts, NEW to \in {"pending_sign", "signed", "voided"},
           D!TransitionContract(p, c, to) \/ D!PayReads(p, c)
    PROVE  DealInv'
<1>1. p \in D!Clerks /\ c \in 1 .. Len(contracts) /\ contracts[c] \in D!ContractRows
  BY DealTypes DEF D!Clerks
<1>2. CASE D!PayReads(p, c)
  <2>1. PICK r : r = [op |-> "pay", contract |-> c]
    OBVIOUS
  <2>2. RequestOK(r)
    BY <1>1, <2>1 DEF RequestOK
  <2> QED BY <1>1, <1>2, <2>1, <2>2, DealReads DEF D!PayReads
<1>3. CASE D!TransitionContract(p, c, to)
  <2>1. PICK new, r : new = Moved(contracts[c], to) /\ r = [op |-> "update", contract |-> c, row |-> new]
    OBVIOUS
  <2>2. RequestOK(r)
    BY <1>1, <2>1, CopyIs DEF RequestOK
  <2>3. D!Reads(p, r)
    BY <1>3, <2>1, Zenon DEF D!TransitionContract, Moved
  <2> QED BY <1>1, <2>2, <2>3, DealReads
<1> QED BY <1>2, <1>3

LEMMA ScanReads ==
    ASSUME DealInv, NEW c \in DOMAIN contracts, D!ScanExpired(c)
    PROVE  DealInv'
<1>1. Scanner \in D!Clerks /\ c \in 1 .. Len(contracts) /\ contracts[c] \in D!ContractRows
  BY DealTypes DEF D!Clerks
<1>2. PICK new, r : new = Restated(contracts[c], "expired") /\ r = [op |-> "update", contract |-> c, row |-> new]
  OBVIOUS
<1>3. RequestOK(r)
  BY <1>1, <1>2, CopyIs DEF RequestOK
<1>4. D!Reads(Scanner, r)
  BY <1>2, Zenon DEF D!ScanExpired, Restated
<1> QED BY <1>1, <1>3, <1>4, DealReads

-----------------------------------------------------------------------------
(*                            The steps that write                         *)

NewQuote(t) == [status |-> "draft", total |-> t, confirmed |-> FALSE, contract |-> 0]

LEMMA NewQuoteIs ==
    ASSUME NEW t \in Totals
    PROVE  /\ NewQuote(t) \in D!QuoteRows /\ D!QuoteCheck(NewQuote(t)) /\ NewQuote(t).status = "draft"
<1>1. NewQuote(t) \in D!QuoteRows /\ NewQuote(t).status = "draft"
  BY DealAssumption DEF NewQuote, D!QuoteRows
<1>2. D!QuoteCheck(NewQuote(t))
  <2>1. NewQuote(t).status \notin {"confirmed", "converted"}
    BY <1>1
  <2>2. NewQuote(t).confirmed = FALSE
    BY Zenon DEF NewQuote
  <2>3. (NewQuote(t).status \in {"confirmed", "converted"}) = FALSE
    BY <2>1
  <2>4. (NewQuote(t).status \in {"confirmed", "converted"}) = NewQuote(t).confirmed
    BY <2>2, <2>3, Zenon
  <2> QED BY <2>4, Zenon DEF D!QuoteCheck
<1> QED BY <1>1, <1>2

LEMMA NewContractIs ==
    ASSUME NEW q \in 0 .. MaxQuotes, NEW t \in Totals
    PROVE  /\ D!NewContract(q, t) \in D!ContractRows /\ D!ContractCheck(D!NewContract(q, t))
           /\ D!NewContract(q, t).quote = q /\ D!NewContract(q, t).amount = t
<1>1. /\ D!NewContract(q, t) \in D!ContractRows /\ D!NewContract(q, t).quote = q
      /\ D!NewContract(q, t).amount = t /\ D!NewContract(q, t).paid = 0
  BY DEF D!NewContract, D!ContractRows
<1>2. (D!NewContract(q, t).status = "signed") = D!NewContract(q, t).signed
  BY Zenon DEF D!NewContract
<1>3. t \in Nat
  BY DealAssumption
<1> QED BY <1>1, <1>2, <1>3 DEF D!ContractCheck

\* A quote gives way to another row.
LEMMA QuoteChanges ==
    ASSUME DealInv, NEW p \in D!Clerks, counter' = [counter EXCEPT ![p] = NoDeal],
           NEW q \in 1 .. Len(quotes), NEW new \in D!QuoteRows, quotes' = [quotes EXCEPT ![q] = new],
           D!QuoteCheck(new), UNCHANGED ended, DealsStay, agreed' = [k \in 1 .. MaxQuotes |-> agreed'[k]],
           contracts' \in Seq(D!ContractRows), Len(contracts') <= MaxContracts, ContractsOK',
           \A c \in 1 .. Len(contracts') : D!ContractCheck(contracts'[c]),
           new.status \in Sold => new.total \in agreed'[q],
           new.status = "converted" => new.contract \in 1 .. Len(contracts') /\ contracts'[new.contract].quote = q
    PROVE  DealInv'
<1>1. /\ quotes' \in Seq(D!QuoteRows) /\ Len(quotes') = Len(quotes) /\ quotes'[q] = new
      /\ \A k \in 1 .. Len(quotes) : k # q => quotes'[k] = quotes[k]
      /\ DOMAIN quotes' = 1 .. Len(quotes)
  BY DealTypes
<1>2. Len(quotes') \in Nat /\ Len(contracts') \in Nat /\ DOMAIN contracts' = 1 .. Len(contracts')
  BY <1>1
<1>3. RequestsOK'
  BY <1>2, DealEnds
<1>4. D!TypeOK'
  <2>1. \A k \in 1 .. Len(quotes) : D!QuoteCheck(quotes'[k])
    BY <1>1, DealTypes
  <2>2. ended' \subseteq DOMAIN contracts'
    BY <1>2, DealTypes DEF DealInv, D!TypeOK, DealsStay
  <2> QED BY <1>1, <1>2, <2>1, <2>2, DealTypes DEF D!TypeOK, D!QuoteCheck, D!ContractCheck
<1>5. QuotesOK'
  <2>1. ASSUME NEW k \in 1 .. Len(quotes)
        PROVE  /\ quotes'[k].status \in Sold => quotes'[k].total \in agreed'[k]
               /\ quotes'[k].status = "converted" => /\ quotes'[k].contract \in 1 .. Len(contracts')
                                                     /\ contracts'[quotes'[k].contract].quote = k
    <3>1. CASE k = q
      BY <1>1, <3>1
    <3>2. CASE k # q
      <4>1. quotes'[k] = quotes[k] /\ k \in 1 .. MaxQuotes
        BY <1>1, <3>2, DealTypes
      <4>2. /\ quotes[k].status \in Sold => quotes[k].total \in agreed[k]
            /\ quotes[k].status = "converted" => /\ quotes[k].contract \in 1 .. Len(contracts)
                                                 /\ contracts[quotes[k].contract].quote = k
        BY DEF DealInv, QuotesOK
      <4>3. \A c \in 1 .. Len(contracts) : c \in 1 .. Len(contracts')
        BY <1>2, DealTypes DEF DealsStay
      <4> QED BY <4>1, <4>2, <4>3 DEF DealsStay
    <3> QED BY <3>1, <3>2
  <2> QED BY <1>1, <2>1 DEF QuotesOK
<1> QED BY <1>3, <1>4, <1>5 DEF DealInv

\* The quotes rest.
LEMMA QuotesRest ==
    ASSUME DealInv, NEW p \in D!Clerks, counter' = [counter EXCEPT ![p] = NoDeal],
           UNCHANGED <<quotes, agreed, ended>>, DealsStay,
           contracts' \in Seq(D!ContractRows), Len(contracts') <= MaxContracts, ContractsOK',
           \A c \in 1 .. Len(contracts') : D!ContractCheck(contracts'[c])
    PROVE  DealInv'
<1>1. /\ Len(quotes) \in Nat /\ Len(contracts') \in Nat /\ DOMAIN contracts' = 1 .. Len(contracts')
      /\ \A c \in 1 .. Len(contracts) : c \in 1 .. Len(contracts')
  BY DealTypes DEF DealsStay
<1>2. RequestsOK'
  BY <1>1, DealEnds
<1>3. D!TypeOK'
  <2>1. ended' \subseteq DOMAIN contracts'
    BY <1>1, DealTypes DEF DealInv, D!TypeOK
  <2> QED BY <1>1, <2>1 DEF DealInv, D!TypeOK, D!ContractCheck
<1>4. QuotesOK'
  BY <1>1 DEF DealInv, QuotesOK, DealsStay
<1> QED BY <1>2, <1>3, <1>4 DEF DealInv

\* No contract changes.
LEMMA ContractsRest ==
    ASSUME DealInv, contracts' = contracts, \A q \in 1 .. MaxQuotes : agreed[q] \subseteq agreed'[q]
    PROVE  /\ contracts' \in Seq(D!ContractRows) /\ Len(contracts') <= MaxContracts /\ ContractsOK'
           /\ \A c \in 1 .. Len(contracts') : D!ContractCheck(contracts'[c])
           /\ Len(quotes) <= Len(quotes') => DealsStay
<1>1. ASSUME NEW c \in 1 .. Len(contracts), contracts[c].quote # 0
      PROVE  contracts[c].amount \in agreed'[contracts[c].quote]
  <2>1. contracts[c].quote \in 1 .. MaxQuotes
    BY <1>1, DealTypes, DealAssumption DEF D!ContractRows
  <2> QED BY <1>1, <2>1 DEF DealInv, ContractsOK
<1>2. ContractsOK'
  BY <1>1 DEF ContractsOK
<1>3. Len(quotes) <= Len(quotes') => DealsStay
  BY DealTypes DEF DealsStay
<1> QED BY <1>2, <1>3, DealTypes

\* A request ends and writes nothing.
LEMMA DealRefused ==
    ASSUME DealInv, NEW p \in D!Clerks, counter' = [counter EXCEPT ![p] = NoDeal],
           UNCHANGED <<quotes, contracts, agreed, ended>>
    PROVE  DealInv'
<1>1. \A q \in 1 .. MaxQuotes : agreed[q] \subseteq agreed'[q]
  OBVIOUS
<1>2. Len(quotes) <= Len(quotes')
  BY DealTypes
<1>3. DealsStay /\ ContractsOK'
  BY <1>1, <1>2, ContractsRest
<1>4. /\ contracts' \in Seq(D!ContractRows) /\ Len(contracts') <= MaxContracts
      /\ \A c \in 1 .. Len(contracts') : D!ContractCheck(contracts'[c])
  BY <1>1, ContractsRest
<1> QED BY <1>3, <1>4, QuotesRest

LEMMA KeepsAddQuote ==
    ASSUME DealInv, NEW p \in D!Clerks, D!AddQuote(p)
    PROVE  DealInv'
<1>1. PICK r, new : r = counter[p] /\ new = NewQuote(r.total)
  OBVIOUS
<1>2. r.op = "add_quote" /\ r # NoDeal /\ counter' = [counter EXCEPT ![p] = NoDeal]
      /\ UNCHANGED <<contracts, agreed, ended>>
  BY <1>1 DEF D!AddQuote, D!Serving, D!Rings
<1>3. r.no \in 1 .. MaxQuotes /\ r.total \in Totals
  BY <1>1, <1>2 DEF DealInv, RequestsOK, RequestOK
<1>4. CASE quotes' = quotes
  BY <1>2, <1>4, DealRefused
<1>5. CASE r.no = Len(quotes) + 1 /\ quotes' = Append(quotes, new)
  <2>1. new \in D!QuoteRows /\ D!QuoteCheck(new) /\ new.status = "draft"
    BY <1>1, <1>3, NewQuoteIs
  <2>2. PICK n : n = Len(quotes) + 1
    OBVIOUS
  <2>3. /\ quotes' \in Seq(D!QuoteRows) /\ Len(quotes') = n /\ quotes'[n] = new /\ DOMAIN quotes' = 1 .. n
        /\ \A k \in 1 .. n : (k \in 1 .. Len(quotes) /\ quotes'[k] = quotes[k]) \/ k = n
        /\ n \in Nat /\ n <= MaxQuotes /\ Len(quotes) <= n
    BY <1>3, <1>5, <2>1, <2>2, DealTypes, DealAssumption
  <2>4. DealsStay /\ ContractsOK'
    BY <1>2, <2>3, ContractsRest
  <2>5. RequestsOK'
    BY <1>2, <2>3, <2>4, DealEnds, DealTypes
  <2>6. D!TypeOK'
    <3>1. \A k \in 1 .. n : D!QuoteCheck(quotes'[k])
      BY <2>1, <2>3, DealTypes
    <3> QED BY <1>2, <2>3, <3>1 DEF DealInv, D!TypeOK, D!QuoteCheck, D!ContractCheck
  <2>7. QuotesOK'
    BY <1>2, <2>1, <2>3 DEF DealInv, QuotesOK, Sold
  <2> QED BY <2>4, <2>5, <2>6, <2>7 DEF DealInv
<1> QED BY <1>1, <1>4, <1>5, Zenon DEF D!AddQuote, NewQuote

LEMMA KeepsReplaceLines ==
    ASSUME DealInv, NEW p \in D!Clerks, D!ReplaceLines(p)
    PROVE  DealInv'
<1>1. PICK r, new : r = counter[p] /\ new = NewQuote(r.total)
  OBVIOUS
<1>2. r.op = "lines" /\ r # NoDeal /\ counter' = [counter EXCEPT ![p] = NoDeal]
      /\ UNCHANGED <<contracts, agreed, ended>> /\ quotes' = [quotes EXCEPT ![r.quote] = new]
  BY <1>1 DEF D!ReplaceLines, D!Serving, D!Rings, NewQuote
<1>3. r.quote \in 1 .. Len(quotes) /\ r.total \in Totals
  BY <1>1, <1>2 DEF DealInv, RequestsOK, RequestOK
<1>4. new \in D!QuoteRows /\ D!QuoteCheck(new) /\ new.status = "draft"
  BY <1>1, <1>3, NewQuoteIs
<1>5. Len(quotes') = Len(quotes)
  BY <1>2, <1>3, DealTypes
<1>6. DealsStay /\ ContractsOK'
  BY <1>2, <1>5, ContractsRest, DealTypes
<1>7. agreed' = [k \in 1 .. MaxQuotes |-> agreed'[k]]
  BY <1>2 DEF DealInv, QuotesOK
<1> QED BY <1>2, <1>3, <1>4, <1>6, <1>7, ContractsRest, QuoteChanges DEF Sold

TurnedTo(w, to) == [w EXCEPT !.status = to, !.confirmed = w.confirmed \/ to = "confirmed"]

LEMMA TurnedToIs ==
    ASSUME NEW w \in D!QuoteRows, NEW to \in {"confirmed", "voided"}, D!QuoteCheck(TurnedTo(w, to))
    PROVE  /\ TurnedTo(w, to) \in D!QuoteRows /\ TurnedTo(w, to).status = to
           /\ TurnedTo(w, to).total = w.total /\ (to = "confirmed" => TurnedTo(w, to).confirmed)
<1>1. PICK one : one = [w EXCEPT !.status = to]
  OBVIOUS
<1>2. one \in D!QuoteRows /\ one.status = to /\ one.total = w.total
  BY <1>1 DEF D!QuoteRows
<1>3. PICK b : b = (w.confirmed \/ to = "confirmed")
  OBVIOUS
<1>4. b \in BOOLEAN
  BY <1>3, Zenon
<1>5. PICK two : two = [one EXCEPT !.confirmed = b]
  OBVIOUS
<1>6. two \in D!QuoteRows /\ two.status = to /\ two.total = w.total
  BY <1>2, <1>4, <1>5 DEF D!QuoteRows
<1>7. TurnedTo(w, to) = two
  BY <1>1, <1>3, <1>5, Zenon DEF TurnedTo
<1>8. to = "confirmed" => TurnedTo(w, to).confirmed
  <2>1. to = "confirmed" => TurnedTo(w, to).status \in {"confirmed", "converted"}
    BY <1>6, <1>7
  <2> QED BY <2>1, Zenon DEF D!QuoteCheck
<1> QED BY <1>6, <1>7, <1>8

LEMMA KeepsTransitionQuote ==
    ASSUME DealInv, NEW p \in D!Clerks, D!TransitionQuote(p)
    PROVE  DealInv'
<1>1. PICK r, q, new : r = counter[p] /\ q = r.quote /\ new = TurnedTo(quotes[q], r.to)
  OBVIOUS
<1>2. r.op = "turn" /\ r # NoDeal /\ counter' = [counter EXCEPT ![p] = NoDeal] /\ UNCHANGED <<contracts, ended>>
  BY <1>1 DEF D!TransitionQuote, D!Serving, D!Rings
<1>3. q \in 1 .. Len(quotes) /\ r.to \in {"confirmed", "voided"} /\ q \in 1 .. MaxQuotes
  BY <1>1, <1>2, DealTypes DEF DealInv, RequestsOK, RequestOK
<1>4. \/ UNCHANGED <<quotes, agreed>>
      \/ /\ D!QuoteCheck(TurnedTo(quotes[q], r.to)) /\ quotes' = [quotes EXCEPT ![q] = TurnedTo(quotes[q], r.to)]
         /\ agreed' = IF TurnedTo(quotes[q], r.to).confirmed
                      THEN [agreed EXCEPT ![q] = @ \cup {TurnedTo(quotes[q], r.to).total}] ELSE agreed
  BY <1>1, Zenon DEF D!TransitionQuote, TurnedTo
<1>5. CASE UNCHANGED <<quotes, agreed>>
  BY <1>2, <1>5, DealRefused
<1>6. CASE /\ D!QuoteCheck(new) /\ quotes' = [quotes EXCEPT ![q] = new]
           /\ agreed' = IF new.confirmed THEN [agreed EXCEPT ![q] = @ \cup {new.total}] ELSE agreed
  <2>1. new \in D!QuoteRows /\ new.status = r.to /\ (r.to = "confirmed" => new.confirmed)
    BY <1>1, <1>3, <1>6, TurnedToIs, DealTypes
  <2>2. /\ agreed' = [k \in 1 .. MaxQuotes |-> agreed'[k]]
        /\ \A k \in 1 .. MaxQuotes : agreed[k] \subseteq agreed'[k]
    BY <1>6 DEF DealInv, QuotesOK
  <2>3. new.status \in Sold => new.total \in agreed'[q]
    BY <1>3, <1>6, <2>1 DEF DealInv, QuotesOK, Sold
  <2>4. Len(quotes') = Len(quotes)
    BY <1>3, <1>6, DealTypes
  <2>5. DealsStay /\ ContractsOK'
    BY <1>2, <2>2, <2>4, ContractsRest, DealTypes
  <2>6. new.status # "converted"
    BY <1>3, <2>1
  <2> QED BY <1>2, <1>3, <1>6, <2>1, <2>2, <2>3, <2>5, <2>6, ContractsRest, QuoteChanges
<1> QED BY <1>1, <1>4, <1>5, <1>6

Converted(w, n) == [w EXCEPT !.status = "converted", !.contract = n]

LEMMA ConvertedIs ==
    ASSUME NEW w \in D!QuoteRows, NEW n \in 1 .. MaxContracts, D!QuoteCheck(w), D!QuoteCheck(Converted(w, n))
    PROVE  /\ Converted(w, n) \in D!QuoteRows /\ Converted(w, n).status = "converted"
           /\ Converted(w, n).contract = n /\ Converted(w, n).total = w.total
           /\ w.status \in Sold
<1>1. PICK one : one = [w EXCEPT !.status = "converted"]
  OBVIOUS
<1>2. one \in D!QuoteRows /\ one.status = "converted" /\ one.total = w.total /\ one.confirmed = w.confirmed
  BY <1>1 DEF D!QuoteRows
<1>3. PICK two : two = [one EXCEPT !.contract = n]
  OBVIOUS
<1>4. /\ two \in D!QuoteRows /\ two.status = "converted" /\ two.total = w.total
      /\ two.confirmed = w.confirmed /\ two.contract = n
  BY <1>2, <1>3, DealAssumption DEF D!QuoteRows
<1>5. Converted(w, n) = two
  BY <1>1, <1>3, Zenon DEF Converted
<1>6. two.confirmed
  <2>1. two.status \in {"confirmed", "converted"} /\ D!QuoteCheck(two)
    BY <1>4, <1>5
  <2> QED BY <2>1, Zenon DEF D!QuoteCheck
<1>7. w.status \in {"confirmed", "converted"}
  <2>1. (w.status \in {"confirmed", "converted"}) = two.confirmed
    BY <1>4 DEF D!QuoteCheck
  <2> QED BY <1>6, <2>1, Zenon
<1> QED BY <1>4, <1>5, <1>7 DEF Sold

\* A contract is added.
LEMMA ContractAdded ==
    ASSUME DealInv, NEW q \in 0 .. MaxQuotes, NEW t \in Totals, NEW n, n = Len(contracts) + 1, n <= MaxContracts,
           contracts' = Append(contracts, D!NewContract(q, t)), q # 0 => t \in agreed[q], agreed' = agreed
    PROVE  /\ contracts' \in Seq(D!ContractRows) /\ Len(contracts') = n /\ contracts'[n].quote = q
           /\ ContractsOK' /\ \A c \in 1 .. n : D!ContractCheck(contracts'[c])
           /\ Len(quotes') = Len(quotes) => DealsStay
<1>1. PICK new : new = D!NewContract(q, t)
  OBVIOUS
<1>2. new \in D!ContractRows /\ D!ContractCheck(new) /\ new.quote = q /\ new.amount = t
  BY <1>1, NewContractIs
<1>3. /\ contracts' \in Seq(D!ContractRows) /\ Len(contracts') = n /\ contracts'[n] = new
      /\ \A c \in 1 .. n : (c \in 1 .. Len(contracts) /\ contracts'[c] = contracts[c]) \/ c = n
      /\ \A c \in 1 .. Len(contracts) : contracts'[c] = contracts[c]
      /\ Len(contracts) <= n
  BY <1>1, <1>2, DealTypes
<1>4. ContractsOK'
  BY <1>2, <1>3 DEF DealInv, ContractsOK
<1>5. \A c \in 1 .. n : D!ContractCheck(contracts'[c])
  BY <1>2, <1>3, DealTypes
<1>6. Len(quotes') = Len(quotes) => DealsStay
  BY <1>3, DealTypes DEF DealsStay
<1> QED BY <1>2, <1>3, <1>4, <1>5, <1>6

LEMMA KeepsConvertQuote ==
    ASSUME DealInv, NEW p \in D!Clerks, D!ConvertQuote(p)
    PROVE  DealInv'
<1>1. PICK r, q, new : r = counter[p] /\ q = r.quote /\ new = Converted(quotes[q], r.no)
  OBVIOUS
<1>2. r.op = "convert" /\ r # NoDeal /\ counter' = [counter EXCEPT ![p] = NoDeal] /\ UNCHANGED <<agreed, ended>>
  BY <1>1 DEF D!ConvertQuote, D!Serving, D!Rings
<1>3. q \in 1 .. Len(quotes) /\ r.no \in 1 .. MaxContracts /\ r.amount \in Totals /\ r.amount \in agreed[q]
      /\ q \in 1 .. MaxQuotes
  BY <1>1, <1>2, DealTypes DEF DealInv, RequestsOK, RequestOK
<1>4. \/ UNCHANGED <<quotes, contracts>>
      \/ /\ D!QuoteCheck(Converted(quotes[q], r.no)) /\ quotes' = [quotes EXCEPT ![q] = Converted(quotes[q], r.no)]
         /\ r.no = Len(contracts) + 1 /\ contracts' = Append(contracts, D!NewContract(q, r.amount))
  BY <1>1, Zenon DEF D!ConvertQuote, Converted
<1>5. CASE UNCHANGED <<quotes, contracts>>
  BY <1>2, <1>5, DealRefused
<1>6. CASE /\ D!QuoteCheck(new) /\ quotes' = [quotes EXCEPT ![q] = new]
           /\ r.no = Len(contracts) + 1 /\ contracts' = Append(contracts, D!NewContract(q, r.amount))
  <2>1. /\ new \in D!QuoteRows /\ new.status = "converted" /\ new.contract = r.no
        /\ new.total = quotes[q].total /\ quotes[q].status \in Sold
    BY <1>1, <1>3, <1>6, ConvertedIs, DealTypes
  <2>2. quotes[q].total \in agreed[q] /\ agreed = [k \in 1 .. MaxQuotes |-> agreed[k]]
    BY <1>3, <2>1 DEF DealInv, QuotesOK
  <2>3. Len(quotes') = Len(quotes)
    BY <1>3, <1>6, DealTypes
  <2>4. q \in 0 .. MaxQuotes /\ r.no <= MaxContracts /\ r.no \in 1 .. r.no
    BY <1>3, DealAssumption
  <2>5. /\ contracts' \in Seq(D!ContractRows) /\ Len(contracts') = r.no /\ contracts'[r.no].quote = q
        /\ ContractsOK' /\ DealsStay /\ \A c \in 1 .. r.no : D!ContractCheck(contracts'[c])
    BY <1>2, <1>3, <1>6, <2>3, <2>4, ContractAdded
  <2> QED BY <1>2, <1>3, <1>6, <2>1, <2>2, <2>4, <2>5, QuoteChanges
<1> QED BY <1>1, <1>4, <1>5, <1>6

LEMMA KeepsAddContract ==
    ASSUME DealInv, NEW p \in D!Clerks, D!AddContract(p)
    PROVE  DealInv'
<1>1. PICK r : r = counter[p]
  OBVIOUS
<1>2. r.op = "add_contract" /\ r # NoDeal /\ counter' = [counter EXCEPT ![p] = NoDeal]
      /\ UNCHANGED <<quotes, agreed, ended>>
  BY <1>1 DEF D!AddContract, D!Serving, D!Rings
<1>3. r.no \in 1 .. MaxContracts /\ r.amount \in Totals
  BY <1>1, <1>2 DEF DealInv, RequestsOK, RequestOK
<1>4. CASE contracts' = contracts
  BY <1>2, <1>4, DealRefused
<1>5. CASE r.no = Len(contracts) + 1 /\ contracts' = Append(contracts, D!NewContract(0, r.amount))
  <2>1. 0 \in 0 .. MaxQuotes /\ r.no <= MaxContracts
    BY <1>3, DealAssumption
  <2>2. /\ contracts' \in Seq(D!ContractRows) /\ Len(contracts') = r.no
        /\ ContractsOK' /\ DealsStay /\ \A c \in 1 .. r.no : D!ContractCheck(contracts'[c])
    BY <1>2, <1>3, <1>5, <2>1, ContractAdded
  <2>3. Len(contracts') <= MaxContracts /\ \A c \in 1 .. Len(contracts') : D!ContractCheck(contracts'[c])
    BY <2>1, <2>2
  <2> QED BY <1>2, <2>2, <2>3, QuotesRest
<1> QED BY <1>1, <1>4, <1>5 DEF D!AddContract

\* A contract gives way to a row with its quote and its amount.
LEMMA ContractChanges ==
    ASSUME DealInv, NEW p \in D!Clerks, counter' = [counter EXCEPT ![p] = NoDeal],
           UNCHANGED <<quotes, agreed, ended>>, NEW c \in 1 .. Len(contracts), NEW new \in D!ContractRows,
           contracts' = [contracts EXCEPT ![c] = new], D!ContractCheck(new),
           new.quote = contracts[c].quote, new.amount = contracts[c].amount
    PROVE  DealInv'
<1>1. /\ contracts' \in Seq(D!ContractRows) /\ Len(contracts') = Len(contracts) /\ contracts'[c] = new
      /\ \A k \in 1 .. Len(contracts) : k # c => contracts'[k] = contracts[k]
  BY DealTypes
<1>2. \A k \in 1 .. Len(contracts) :
         contracts'[k].quote = contracts[k].quote /\ contracts'[k].amount = contracts[k].amount
  BY <1>1
<1>3. DealsStay
  BY <1>1, <1>2, DealTypes DEF DealsStay
<1>4. ContractsOK'
  BY <1>1, <1>2 DEF DealInv, ContractsOK
<1>5. \A k \in 1 .. Len(contracts') : D!ContractCheck(contracts'[k])
  BY <1>1, DealTypes
<1>6. Len(contracts') <= MaxContracts
  BY <1>1, DealTypes
<1> QED BY <1>1, <1>3, <1>4, <1>5, <1>6, QuotesRest

LEMMA KeepsUpdateContract ==
    ASSUME DealInv, NEW p \in D!Clerks, D!UpdateContract(p)
    PROVE  DealInv'
<1>1. PICK r : r = counter[p]
  OBVIOUS
<1>2. r.op = "update" /\ r # NoDeal /\ counter' = [counter EXCEPT ![p] = NoDeal]
      /\ UNCHANGED <<quotes, agreed, ended>>
  BY <1>1 DEF D!UpdateContract, D!Serving, D!Rings
<1>3. /\ r.contract \in 1 .. Len(contracts) /\ r.row \in D!ContractRows
      /\ r.row.quote = contracts[r.contract].quote /\ r.row.amount = contracts[r.contract].amount
  BY <1>1, <1>2 DEF DealInv, RequestsOK, RequestOK
<1>4. CASE contracts' = contracts
  BY <1>2, <1>4, DealRefused
<1>5. CASE D!ContractCheck(r.row) /\ contracts' = [contracts EXCEPT ![r.contract] = r.row]
  BY <1>2, <1>3, <1>5, ContractChanges
<1> QED BY <1>1, <1>4, <1>5 DEF D!UpdateContract

Paid(w) == [w EXCEPT !.paid = w.paid + 1]

LEMMA PaidIs ==
    ASSUME NEW w \in D!ContractRows, D!ContractCheck(w), w.paid + 1 <= w.amount
    PROVE  /\ Paid(w) \in D!ContractRows /\ D!ContractCheck(Paid(w)) /\ Paid(w).quote = w.quote
           /\ Paid(w).amount = w.amount
<1>1. /\ Paid(w) \in D!ContractRows /\ Paid(w).quote = w.quote /\ Paid(w).amount = w.amount
      /\ Paid(w).paid = w.paid + 1
  BY DEF Paid, D!ContractRows
<1>2. Paid(w).status = w.status /\ Paid(w).signed = w.signed
  BY DEF Paid, D!ContractRows
<1> QED BY <1>1, <1>2 DEF D!ContractCheck

LEMMA KeepsIncrementPaid ==
    ASSUME DealInv, NEW p \in D!Clerks, D!IncrementPaid(p)
    PROVE  DealInv'
<1>1. PICK r, c, new : r = counter[p] /\ c = r.contract /\ new = Paid(contracts[c])
  OBVIOUS
<1>2. r.op = "pay" /\ r # NoDeal /\ counter' = [counter EXCEPT ![p] = NoDeal]
      /\ UNCHANGED <<quotes, agreed, ended>>
  BY <1>1 DEF D!IncrementPaid, D!Serving, D!Rings
<1>3. c \in 1 .. Len(contracts)
  BY <1>1, <1>2 DEF DealInv, RequestsOK, RequestOK
<1>4. \/ contracts' = contracts
      \/ /\ contracts[c].paid + 1 <= contracts[c].amount
         /\ contracts' = [contracts EXCEPT ![c] = Paid(contracts[c])]
  BY <1>1, Zenon DEF D!IncrementPaid, Paid
<1>5. CASE contracts' = contracts
  BY <1>2, <1>5, DealRefused
<1>6. CASE contracts[c].paid + 1 <= contracts[c].amount /\ contracts' = [contracts EXCEPT ![c] = new]
  <2>1. /\ new \in D!ContractRows /\ D!ContractCheck(new) /\ new.quote = contracts[c].quote
        /\ new.amount = contracts[c].amount
    BY <1>1, <1>3, <1>6, PaidIs, DealTypes
  <2> QED BY <1>2, <1>3, <1>6, <2>1, ContractChanges
<1> QED BY <1>1, <1>4, <1>5, <1>6

LEMMA KeepsLastDay ==
    ASSUME DealInv, NEW c \in DOMAIN contracts, D!LastDayPasses(c)
    PROVE  DealInv'
<1>1. ended' = ended \cup {c} /\ UNCHANGED <<quotes, contracts, agreed, counter>>
  BY DEF D!LastDayPasses
<1>2. D!TypeOK'
  BY <1>1 DEF DealInv, D!TypeOK
<1>3. QuotesOK' /\ ContractsOK' /\ RequestsOK'
  BY <1>1 DEF DealInv, QuotesOK, ContractsOK, RequestsOK, RequestOK
<1> QED BY <1>2, <1>3 DEF DealInv

LEMMA DealOfSystem ==
    ASSUME DealInv, [Next]_vars
    PROVE  DealInv'
<1>1. D!Next \/ UNCHANGED dVars
  BY DEF Next, vars
<1>2. CASE UNCHANGED dVars
  BY <1>2 DEF dVars, DealInv, D!TypeOK, QuotesOK, ContractsOK, RequestsOK, RequestOK
<1>3. ASSUME NEW p \in Sellers, D!Quote(p)
      PROVE  DealInv'
  <2>1. p \in D!Clerks
    BY DEF D!Clerks
  <2>2. ASSUME NEW t \in Totals, D!CountQuotes(p, t)
        PROVE  DealInv'
    <3>1. PICK r : r = [op |-> "add_quote", no |-> Len(quotes) + 1, total |-> t]
      OBVIOUS
    <3>2. RequestOK(r)
      BY <2>2, <3>1, DealTypes, DealAssumption DEF D!CountQuotes, RequestOK
    <3> QED BY <2>1, <2>2, <3>1, <3>2, DealReads DEF D!CountQuotes
  <2>3. ASSUME NEW q \in DOMAIN quotes, D!ConfirmReads(p, q) \/ D!VoidReads(p, q) \/ D!ConvertReads(p, q)
        PROVE  DealInv'
    <3>1. q \in 1 .. Len(quotes)
      BY DealTypes
    <3>2. PICK t : t = quotes[q].total
      OBVIOUS
    <3>3. t \in Totals
      BY <3>1, <3>2, DealTypes DEF D!QuoteRows
    <3> QED BY <2>3, <3>3, QuoteReads
  <2> QED BY <1>3, <2>1, <2>2, <2>3, QuoteReads, KeepsAddQuote, KeepsReplaceLines, KeepsTransitionQuote,
             KeepsNumberContract, KeepsConvertQuote DEF D!Quote
<1>4. ASSUME NEW p \in Sellers, D!Contract(p)
      PROVE  DealInv'
  <2>1. p \in D!Clerks
    BY DEF D!Clerks
  <2>2. ASSUME NEW t \in Totals, D!CountContracts(p, t)
        PROVE  DealInv'
    <3>1. PICK r : r = [op |-> "add_contract", no |-> Len(contracts) + 1, amount |-> t]
      OBVIOUS
    <3>2. RequestOK(r)
      BY <2>2, <3>1, DealTypes, DealAssumption DEF D!CountContracts, RequestOK
    <3> QED BY <2>1, <2>2, <3>1, <3>2, DealReads DEF D!CountContracts
  <2> QED BY <1>4, <2>1, <2>2, ContractReads, KeepsAddContract, KeepsUpdateContract, KeepsIncrementPaid DEF D!Contract
<1>5. Scanner \in D!Clerks
  BY DEF D!Clerks
<1> QED BY <1>1, <1>2, <1>3, <1>4, <1>5, ScanReads, KeepsLastDay, KeepsUpdateContract DEF D!Next

LEMMA DealInit ==
    ASSUME D!Init
    PROVE  DealInv
<1>1. quotes = <<>> /\ contracts = <<>> /\ ended = {}
  BY DEF D!Init
<1>2. /\ quotes \in Seq(D!QuoteRows) /\ Len(quotes) = 0 /\ DOMAIN quotes = {}
      /\ contracts \in Seq(D!ContractRows) /\ Len(contracts) = 0 /\ DOMAIN contracts = {}
  BY <1>1
<1>3. D!TypeOK
  BY <1>1, <1>2, DealAssumption DEF D!TypeOK
<1>4. QuotesOK /\ ContractsOK /\ RequestsOK
  BY <1>2 DEF D!Init, QuotesOK, ContractsOK, RequestsOK
<1> QED BY <1>3, <1>4 DEF DealInv

-----------------------------------------------------------------------------
(*               The stages of opportunities: inductive invariant          *)

Pending(p) == visit[p] # NoCustomer /\ visit[p].op = "event"
StageNow(o) == opportunities[o].stage

\* A move that was made, its event inserted or not: the opportunity has left
\* the stage it was in and is in the other or beyond.
MoveOK(e) ==
    /\ e \in P!EventRows /\ e.opportunity \in 1 .. Len(opportunities)
    /\ e.to = StageNow(e.opportunity) \/ P!Rank(e.to) < P!Rank(StageNow(e.opportunity))
    /\ e.from = NoCustomer \/ P!Rank(e.from) < P!Rank(StageNow(e.opportunity))

MovesOK ==
    /\ \A i \in 1 .. Len(stageEvents) : MoveOK(stageEvents[i])
    /\ \A p \in P!Sales : Pending(p) => MoveOK(visit[p].event)

\* No stage of an opportunity is left twice.
Apart(e, f) == e.opportunity = f.opportunity => e.from # f.from
MovesDiffer ==
    /\ \A i, j \in 1 .. Len(stageEvents) : i # j => Apart(stageEvents[i], stageEvents[j])
    /\ \A i \in 1 .. Len(stageEvents), p \in P!Sales : Pending(p) => Apart(stageEvents[i], visit[p].event)
    /\ \A p, q \in P!Sales : p # q /\ Pending(p) /\ Pending(q) => Apart(visit[p].event, visit[q].event)

\* What a request has read.
VisitsOK ==
    /\ visit = [p \in P!Sales |-> visit[p]]
    /\ \A p \in P!Sales : visit[p] # NoCustomer =>
           /\ visit[p].op = "convert" => visit[p].lead \in LeadIds /\ leads[visit[p].lead] # NoCustomer
           /\ visit[p].op = "stage" => /\ visit[p].opportunity \in 1 .. Len(opportunities)
                                       /\ <<visit[p].from, visit[p].to>> \in P!OpportunityTransitions

PipelineTypes ==
    /\ P!TypeOK /\ leads = [l \in LeadIds |-> leads[l]]
    /\ Len(customers) <= MaxAccounts /\ Len(opportunities) <= MaxOpportunities

PipelineInv == PipelineTypes /\ VisitsOK /\ MovesOK /\ MovesDiffer

-----------------------------------------------------------------------------

LEMMA TransitionRises ==
    ASSUME NEW s, NEW t, <<s, t>> \in P!OpportunityTransitions
    PROVE  s \in P!Stages /\ t \in P!Stages /\ P!Rank(s) < P!Rank(t) /\ s # NoCustomer
<1>1. \/ <<s, t>> \in {<<"qualification", "proposal">>, <<"proposal", "negotiation">>, <<"negotiation", "won">>}
      \/ t = "lost" /\ s \in {"qualification", "proposal", "negotiation"}
  BY DEF P!OpportunityTransitions, P!OpenStages, P!Stages
<1>2. /\ P!Rank("qualification") = 1 /\ P!Rank("proposal") = 2 /\ P!Rank("negotiation") = 3
      /\ P!Rank("won") = 4 /\ P!Rank("lost") = 4
  BY DEF P!Rank
<1> QED BY <1>1, <1>2, PipelineAssumption DEF P!Stages

LEMMA RankIs ==
    ASSUME NEW s
    PROVE  P!Rank(s) \in Nat
BY DEF P!Rank

\* The visit of one person gives way to another that is no event.
LEMMA VisitKeeps ==
    ASSUME PipelineInv, NEW p \in P!Sales, NEW v, visit' = [visit EXCEPT ![p] = v],
           v = NoCustomer \/ v.op # "event",
           UNCHANGED <<opportunities, stageEvents>>
    PROVE  MovesOK' /\ MovesDiffer'
<1>1. ~Pending(p)' /\ \A q \in P!Sales : q # p => visit'[q] = visit[q] /\ (Pending(q)' <=> Pending(q))
  BY DEF PipelineInv, VisitsOK, Pending
<1>2. \A e : MoveOK(e)' <=> MoveOK(e)
  BY DEF MoveOK, StageNow
<1>3. MovesOK'
  BY <1>1, <1>2 DEF PipelineInv, MovesOK
<1>4. MovesDiffer'
  BY <1>1 DEF PipelineInv, MovesDiffer, Apart
<1> QED BY <1>3, <1>4

LEMMA PipelineBegins ==
    ASSUME PipelineInv, NEW p \in P!Sales, NEW v, P!Begins(p, v), v.op # "event",
           v.op = "convert" => v.lead \in LeadIds /\ leads[v.lead] # NoCustomer,
           v.op = "stage" => /\ v.opportunity \in 1 .. Len(opportunities)
                             /\ <<v.from, v.to>> \in P!OpportunityTransitions
    PROVE  PipelineInv'
<1>1. visit' = [visit EXCEPT ![p] = v] /\ UNCHANGED <<customers, leads, opportunities, stageEvents>>
  BY DEF P!Begins, P!Visits
<1>2. VisitsOK'
  BY <1>1 DEF PipelineInv, VisitsOK
<1>3. PipelineTypes'
  BY <1>1 DEF PipelineInv, PipelineTypes, P!TypeOK
<1> QED BY <1>1, <1>2, <1>3, VisitKeeps DEF PipelineInv

\* A move is made: the others' events keep, and the new one is pending.
LEMMA MoveMade ==
    ASSUME PipelineInv, NEW p \in P!Sales, NEW e, NEW v, v.op = "event", v.event = e, ~Pending(p),
           visit' = [visit EXCEPT ![p] = v], MoveOK(e)', stageEvents' = stageEvents,
           \A f : MoveOK(f) => MoveOK(f)' /\ Apart(f, e)
    PROVE  MovesOK' /\ MovesDiffer'
<1>1. /\ visit'[p] = v
      /\ \A q \in P!Sales : q # p => visit'[q] = visit[q] /\ (Pending(q)' <=> Pending(q))
  BY DEF PipelineInv, VisitsOK, Pending
<1>2. MovesOK'
  <2>1. ASSUME NEW i \in 1 .. Len(stageEvents)
        PROVE  MoveOK(stageEvents[i])'
    <3>1. PICK f : f = stageEvents[i]
      OBVIOUS
    <3>2. MoveOK(f)
      BY <3>1 DEF PipelineInv, MovesOK
    <3>3. MoveOK(f)'
      BY <3>2
    <3> QED BY <3>1, <3>3
  <2>2. ASSUME NEW q \in P!Sales, Pending(q)'
        PROVE  MoveOK(visit[q].event)'
    <3>1. PICK f : f = visit'[q].event
      OBVIOUS
    <3>2. MoveOK(f)'
      <4>1. CASE q = p
        BY <1>1, <3>1, <4>1
      <4>2. CASE q # p
        <5>1. MoveOK(f)
          BY <1>1, <2>2, <3>1, <4>2 DEF PipelineInv, MovesOK
        <5> QED BY <5>1
      <4> QED BY <4>1, <4>2
    <3> QED BY <3>1, <3>2
  <2> QED BY <2>1, <2>2 DEF MovesOK
<1>3. MovesDiffer'
  <2>1. \A i, j \in 1 .. Len(stageEvents) : i # j => Apart(stageEvents[i], stageEvents[j])
    BY DEF PipelineInv, MovesDiffer
  <2>2. \A i \in 1 .. Len(stageEvents), q \in P!Sales : Pending(q)' => Apart(stageEvents[i], visit'[q].event)
    BY <1>1 DEF PipelineInv, MovesOK, MovesDiffer
  <2>3. \A q, r \in P!Sales : q # r /\ Pending(q)' /\ Pending(r)' => Apart(visit'[q].event, visit'[r].event)
    <3>1. \A f : Apart(f, e) => Apart(e, f)
      BY DEF Apart
    <3>2. \A q \in P!Sales : q # p /\ Pending(q)' => Apart(visit'[q].event, e) /\ Apart(e, visit'[q].event)
      BY <1>1, <3>1 DEF PipelineInv, MovesOK
    <3> QED BY <1>1, <3>2 DEF PipelineInv, MovesDiffer
  <2> QED BY <2>1, <2>2, <2>3 DEF MovesDiffer, Apart
<1> QED BY <1>2, <1>3

\* An opportunity is opened.
LEMMA Opens ==
    ASSUME PipelineInv, NEW p \in P!Sales, NEW a \in 1 .. MaxAccounts, P!OpenOpportunity(p, a), ~Pending(p),
           stageEvents' = stageEvents
    PROVE  /\ MovesOK' /\ MovesDiffer' /\ visit' = [q \in P!Sales |-> visit'[q]]
           /\ opportunities' \in Seq(P!OpportunityRows) /\ Len(opportunities') <= MaxOpportunities
           /\ Len(opportunities) \in Nat /\ Len(opportunities) <= Len(opportunities')
           /\ visit'[p].op = "event" /\ \A q \in P!Sales : q # p => visit'[q] = visit[q]
<1>1. PICK n, new, e, v : /\ n = Len(opportunities) + 1
                          /\ new = [account |-> a, stage |-> "qualification"]
                          /\ e = [opportunity |-> n, from |-> NoCustomer, to |-> "qualification"]
                          /\ v = [op |-> "event", event |-> e]
  OBVIOUS
<1>2. opportunities' = Append(opportunities, new) /\ visit' = [visit EXCEPT ![p] = v]
  BY <1>1 DEF P!OpenOpportunity, P!Visits
<1>3. new \in P!OpportunityRows /\ new.stage = "qualification"
  BY <1>1 DEF P!OpportunityRows, P!Stages
<1>4. opportunities \in Seq(P!OpportunityRows) /\ Len(opportunities) \in Nat
  BY DEF PipelineInv, PipelineTypes, P!TypeOK
<1>5. /\ opportunities' \in Seq(P!OpportunityRows) /\ Len(opportunities') = n /\ opportunities'[n] = new
      /\ \A i \in 1 .. Len(opportunities) : i \in 1 .. n /\ opportunities'[i] = opportunities[i] /\ i # n
      /\ n \in 1 .. MaxOpportunities
  BY <1>1, <1>2, <1>3, <1>4, PipelineAssumption DEF P!OpenOpportunity
<1>6. MoveOK(e)'
  <2>1. e \in P!EventRows /\ e.opportunity = n /\ e.to = "qualification" /\ e.from = NoCustomer
    BY <1>1, <1>5 DEF P!EventRows, P!Stages
  <2>2. n \in 1 .. Len(opportunities')
    BY <1>5
  <2> QED BY <1>3, <1>5, <2>1, <2>2 DEF MoveOK, StageNow
<1>7. ASSUME NEW f, MoveOK(f)
      PROVE  MoveOK(f)' /\ Apart(f, e)
  <2>1. f.opportunity \in 1 .. Len(opportunities)
    BY <1>7 DEF MoveOK
  <2>2. f.opportunity \in 1 .. Len(opportunities') /\ StageNow(f.opportunity)' = StageNow(f.opportunity)
    BY <1>5, <2>1 DEF StageNow
  <2>3. MoveOK(f)'
    BY <1>7, <2>2 DEF MoveOK
  <2>4. Apart(f, e)
    BY <1>1, <1>5, <2>1 DEF Apart
  <2> QED BY <2>3, <2>4
<1>8. v.op = "event" /\ v.event = e
  BY <1>1
<1>9. MovesOK' /\ MovesDiffer'
  BY <1>2, <1>6, <1>7, <1>8, MoveMade
<1>10. /\ visit' = [q \in P!Sales |-> visit'[q]] /\ visit'[p] = v
       /\ \A q \in P!Sales : q # p => visit'[q] = visit[q]
  BY <1>2 DEF PipelineInv, VisitsOK
<1> QED BY <1>1, <1>4, <1>5, <1>8, <1>9, <1>10

LEMMA PipelineCreates ==
    ASSUME PipelineInv, NEW p \in P!Sales, NEW a \in DOMAIN customers, P!CreateOpportunity(p, a)
    PROVE  PipelineInv'
<1>1. visit[p] = NoCustomer /\ P!OpenOpportunity(p, a) /\ UNCHANGED <<customers, leads, stageEvents>>
  BY DEF P!CreateOpportunity
<1>2. a \in 1 .. MaxAccounts
  BY PipelineAssumption DEF PipelineInv, PipelineTypes, P!TypeOK
<1>3. ~Pending(p)
  BY <1>1 DEF Pending
<1>4. /\ MovesOK' /\ MovesDiffer' /\ visit' = [q \in P!Sales |-> visit'[q]]
      /\ opportunities' \in Seq(P!OpportunityRows) /\ Len(opportunities') <= MaxOpportunities
      /\ Len(opportunities) \in Nat /\ Len(opportunities) <= Len(opportunities')
      /\ visit'[p].op = "event" /\ \A q \in P!Sales : q # p => visit'[q] = visit[q]
  BY <1>1, <1>2, <1>3, Opens
<1>5. \A o \in 1 .. Len(opportunities) : o \in 1 .. Len(opportunities')
  BY <1>4
<1>6. VisitsOK'
  BY <1>1, <1>4, <1>5 DEF PipelineInv, VisitsOK
<1>7. PipelineTypes'
  BY <1>1, <1>4 DEF PipelineInv, PipelineTypes, P!TypeOK
<1> QED BY <1>4, <1>6, <1>7 DEF PipelineInv

Turned(l, a) == [l EXCEPT !.status = "converted", !.account = a]

LEMMA TurnedIs ==
    ASSUME NEW l \in P!LeadRows, NEW a \in 1 .. MaxAccounts
    PROVE  Turned(l, a) \in P!LeadRows
<1>1. PICK one : one = [l EXCEPT !.status = "converted"]
  OBVIOUS
<1>2. one \in P!LeadRows
  BY <1>1 DEF P!LeadRows
<1>3. [one EXCEPT !.account = a] \in P!LeadRows
  BY <1>2, PipelineAssumption DEF P!LeadRows
<1>4. Turned(l, a) = [one EXCEPT !.account = a]
  BY <1>1, Zenon DEF Turned
<1> QED BY <1>3, <1>4

LEMMA PipelineConverts ==
    ASSUME PipelineInv, NEW p \in P!Sales, P!ConvertLead(p)
    PROVE  PipelineInv'
<1>1. PICK l, a, with, owner : /\ l = visit[p].lead /\ a = Len(customers) + 1 /\ with = visit[p].opportunity
                               /\ owner = leads[l].owner
  OBVIOUS
<1>2. visit[p] # NoCustomer /\ visit[p].op = "convert" /\ Len(customers) < MaxAccounts
  BY DEF P!ConvertLead, P!Upon
<1>3. l \in LeadIds /\ leads[l] # NoCustomer /\ ~Pending(p)
  BY <1>1, <1>2 DEF PipelineInv, VisitsOK, Pending
<1>4. leads[l] \in P!LeadRows /\ owner \in P!Sales
  BY <1>1, <1>3 DEF PipelineInv, PipelineTypes, P!TypeOK, P!LeadRows
<1>5. a \in 1 .. MaxAccounts
  BY <1>1, <1>2, PipelineAssumption DEF PipelineInv, PipelineTypes, P!TypeOK
<1>6. PICK new : new = Turned(leads[l], a)
  OBVIOUS
<1>7. new \in P!LeadRows
  BY <1>4, <1>5, <1>6, TurnedIs
<1>8. leads' = [leads EXCEPT ![l] = Turned(leads[l], a)]
  BY <1>1, Zenon DEF P!ConvertLead, Turned
<1>9. customers' = Append(customers, owner) /\ stageEvents' = stageEvents
  BY <1>1 DEF P!ConvertLead
<1>10. customers' \in Seq(P!Sales) /\ Len(customers') <= MaxAccounts
  <2>1. customers \in Seq(P!Sales)
    BY DEF PipelineInv, PipelineTypes, P!TypeOK
  <2> QED BY <1>2, <1>4, <1>9, <2>1, PipelineAssumption
<1>11. /\ leads' = [k \in LeadIds |-> leads'[k]]
       /\ \A k \in LeadIds : leads'[k] \in P!LeadRows \cup {NoCustomer}
       /\ \A k \in LeadIds : k # l => leads'[k] = leads[k]
       /\ leads'[l] = new
  BY <1>3, <1>6, <1>7, <1>8 DEF PipelineInv, PipelineTypes, P!TypeOK
<1>12. \/ P!OpenOpportunity(p, a)
       \/ visit' = [visit EXCEPT ![p] = NoCustomer] /\ UNCHANGED opportunities
  BY <1>1 DEF P!ConvertLead, P!Visits
<1>13. /\ MovesOK' /\ MovesDiffer' /\ visit' = [q \in P!Sales |-> visit'[q]]
       /\ opportunities' \in Seq(P!OpportunityRows) /\ Len(opportunities') <= MaxOpportunities
       /\ Len(opportunities) \in Nat /\ Len(opportunities') \in Nat /\ Len(opportunities) <= Len(opportunities')
       /\ (visit'[p] = NoCustomer \/ visit'[p].op = "event") /\ \A q \in P!Sales : q # p => visit'[q] = visit[q]
  <2>1. CASE P!OpenOpportunity(p, a)
    BY <1>3, <1>5, <1>9, <2>1, Opens
  <2>2. CASE visit' = [visit EXCEPT ![p] = NoCustomer] /\ UNCHANGED opportunities
    <3>1. MovesOK' /\ MovesDiffer'
      BY <1>9, <2>2, VisitKeeps
    <3>2. /\ opportunities' \in Seq(P!OpportunityRows) /\ Len(opportunities') <= MaxOpportunities
          /\ Len(opportunities) \in Nat /\ Len(opportunities') = Len(opportunities)
      BY <2>2 DEF PipelineInv, PipelineTypes, P!TypeOK
    <3>3. /\ visit' = [q \in P!Sales |-> visit'[q]] /\ visit'[p] = NoCustomer
          /\ \A q \in P!Sales : q # p => visit'[q] = visit[q]
      BY <2>2 DEF PipelineInv, VisitsOK
    <3> QED BY <3>1, <3>2, <3>3
  <2> QED BY <1>12, <2>1, <2>2
<1>14. \A o \in 1 .. Len(opportunities) : o \in 1 .. Len(opportunities')
  BY <1>13
<1>15. VisitsOK'
  <2>1. ASSUME NEW q \in P!Sales, visit'[q] # NoCustomer
        PROVE  /\ visit'[q].op = "convert" => visit'[q].lead \in LeadIds /\ leads'[visit'[q].lead] # NoCustomer
               /\ visit'[q].op = "stage" => /\ visit'[q].opportunity \in 1 .. Len(opportunities')
                                            /\ <<visit'[q].from, visit'[q].to>> \in P!OpportunityTransitions
    <3>1. new # NoCustomer
      BY <1>7, PipelineAssumption
    <3>2. CASE q = p
      BY <1>13, <2>1, <3>2
    <3>3. CASE q # p
      BY <1>11, <1>13, <1>14, <2>1, <3>1, <3>3 DEF PipelineInv, VisitsOK
    <3> QED BY <3>2, <3>3
  <2> QED BY <1>13, <2>1 DEF VisitsOK
<1>16. PipelineTypes'
  BY <1>9, <1>10, <1>11, <1>13 DEF PipelineInv, PipelineTypes, P!TypeOK
<1> QED BY <1>13, <1>15, <1>16 DEF PipelineInv

LEMMA PipelineTurns ==
    ASSUME PipelineInv, NEW p \in P!Sales, P!TransitionStage(p)
    PROVE  PipelineInv'
<1>1. PICK o, from, to : o = visit[p].opportunity /\ from = visit[p].from /\ to = visit[p].to
  OBVIOUS
<1>2. visit[p] # NoCustomer /\ visit[p].op = "stage" /\ UNCHANGED <<customers, leads, stageEvents>>
  BY DEF P!TransitionStage, P!Upon
<1>3. o \in 1 .. Len(opportunities) /\ <<from, to>> \in P!OpportunityTransitions /\ ~Pending(p)
  BY <1>1, <1>2 DEF PipelineInv, VisitsOK, Pending
<1>4. from \in P!Stages /\ to \in P!Stages /\ P!Rank(from) < P!Rank(to) /\ from # NoCustomer
  BY <1>3, TransitionRises
<1>5. CASE visit' = [visit EXCEPT ![p] = NoCustomer] /\ UNCHANGED opportunities
  <2>1. MovesOK' /\ MovesDiffer'
    BY <1>2, <1>5, VisitKeeps
  <2>2. VisitsOK'
    BY <1>2, <1>5 DEF PipelineInv, VisitsOK
  <2>3. PipelineTypes'
    BY <1>2, <1>5 DEF PipelineInv, PipelineTypes, P!TypeOK
  <2> QED BY <2>1, <2>2, <2>3 DEF PipelineInv
<1>6. ASSUME opportunities[o].stage = from,
             opportunities' = [opportunities EXCEPT ![o].stage = to],
             visit' = [visit EXCEPT ![p] = [op |-> "event", event |-> [opportunity |-> o, from |-> from, to |-> to]]]
      PROVE  PipelineInv'
  <2>1. PICK e, v : e = [opportunity |-> o, from |-> from, to |-> to] /\ v = [op |-> "event", event |-> e]
    OBVIOUS
  <2>2. visit' = [visit EXCEPT ![p] = v] /\ v.op = "event" /\ v.event = e
        /\ e.opportunity = o /\ e.from = from /\ e.to = to
    BY <1>6, <2>1
  <2>3. opportunities \in Seq(P!OpportunityRows) /\ Len(opportunities) \in Nat /\ Len(opportunities) <= MaxOpportunities
    BY DEF PipelineInv, PipelineTypes, P!TypeOK
  <2>4. opportunities[o] \in P!OpportunityRows
    BY <1>3, <2>3
  <2>5. [opportunities[o] EXCEPT !.stage = to] \in P!OpportunityRows /\ [opportunities[o] EXCEPT !.stage = to].stage = to
    BY <1>4, <2>4 DEF P!OpportunityRows
  <2>6. /\ opportunities' \in Seq(P!OpportunityRows) /\ Len(opportunities') = Len(opportunities)
        /\ StageNow(o)' = to /\ \A i \in 1 .. Len(opportunities) : i # o => StageNow(i)' = StageNow(i)
    BY <1>3, <1>6, <2>3, <2>5 DEF StageNow
  <2>7. StageNow(o) = from /\ P!Rank(from) \in Nat /\ P!Rank(to) \in Nat
    BY <1>6, RankIs DEF StageNow
  <2>8. MoveOK(e)'
    <3>1. e \in P!EventRows
      BY <1>3, <1>4, <2>1, <2>3, PipelineAssumption DEF P!EventRows
    <3> QED BY <1>3, <1>4, <2>2, <2>6, <3>1 DEF MoveOK
  <2>9. ASSUME NEW f, MoveOK(f)
        PROVE  MoveOK(f)' /\ Apart(f, e)
    <3>1. P!Rank(f.from) \in Nat /\ P!Rank(f.to) \in Nat
      BY RankIs
    <3>2. CASE f.opportunity # o
      BY <2>2, <2>6, <2>9, <3>2 DEF MoveOK, Apart
    <3>3. CASE f.opportunity = o
      <4>1. /\ f.to = from \/ P!Rank(f.to) < P!Rank(from)
            /\ f.from = NoCustomer \/ P!Rank(f.from) < P!Rank(from)
        BY <2>7, <2>9, <3>3 DEF MoveOK
      <4>2. P!Rank(f.to) < P!Rank(to) /\ (f.from = NoCustomer \/ P!Rank(f.from) < P!Rank(to))
        BY <1>4, <2>7, <3>1, <4>1
      <4>3. f.from # from
        BY <1>4, <2>7, <4>1
      <4>4. MoveOK(f)'
        BY <1>3, <2>6, <2>9, <3>3, <4>2 DEF MoveOK
      <4> QED BY <2>2, <4>3, <4>4 DEF Apart
    <3> QED BY <3>2, <3>3
  <2>10. MovesOK' /\ MovesDiffer'
    BY <1>2, <1>3, <2>2, <2>8, <2>9, MoveMade
  <2>11. VisitsOK'
    BY <1>2, <2>2, <2>6 DEF PipelineInv, VisitsOK
  <2>12. PipelineTypes'
    BY <1>2, <2>3, <2>6 DEF PipelineInv, PipelineTypes, P!TypeOK
  <2> QED BY <2>10, <2>11, <2>12 DEF PipelineInv
<1> QED BY <1>1, <1>5, <1>6 DEF P!TransitionStage, P!Visits

LEMMA PipelineRecords ==
    ASSUME PipelineInv, NEW p \in P!Sales, P!AppendStageEvent(p)
    PROVE  PipelineInv'
<1>1. PICK e : e = visit[p].event
  OBVIOUS
<1>2. /\ Pending(p) /\ visit' = [visit EXCEPT ![p] = NoCustomer] /\ stageEvents' = Append(stageEvents, e)
      /\ UNCHANGED <<customers, leads, opportunities>>
  BY <1>1 DEF P!AppendStageEvent, P!Upon, P!Visits, Pending
<1>3. MoveOK(e) /\ stageEvents \in Seq(P!EventRows)
  BY <1>1, <1>2 DEF PipelineInv, MovesOK, PipelineTypes, P!TypeOK
<1>4. e \in P!EventRows
  BY <1>3 DEF MoveOK
<1>5. PICK n : n = Len(stageEvents) + 1
  OBVIOUS
<1>6. /\ stageEvents' \in Seq(P!EventRows) /\ Len(stageEvents') = n /\ stageEvents'[n] = e
      /\ \A i \in 1 .. n : (i \in 1 .. Len(stageEvents) /\ stageEvents'[i] = stageEvents[i] /\ i # n) \/ i = n
  BY <1>2, <1>3, <1>4, <1>5
<1>7. ~Pending(p)' /\ \A q \in P!Sales : q # p => visit'[q] = visit[q] /\ (Pending(q)' <=> Pending(q))
  BY <1>2 DEF PipelineInv, VisitsOK, Pending
<1>8. \A f : MoveOK(f)' <=> MoveOK(f)
  BY <1>2 DEF MoveOK, StageNow
<1>9. MovesOK'
  BY <1>3, <1>6, <1>7, <1>8 DEF PipelineInv, MovesOK
<1>10. MovesDiffer'
  <2>1. \A f, g : Apart(f, g) => Apart(g, f)
    BY DEF Apart
  <2>2. \A i \in 1 .. Len(stageEvents) : Apart(stageEvents[i], e)
    BY <1>1, <1>2 DEF PipelineInv, MovesDiffer
  <2>3. \A q \in P!Sales : Pending(q)' => Apart(e, visit'[q].event)
    BY <1>1, <1>2, <1>7 DEF PipelineInv, MovesDiffer
  <2>4. \A i, j \in 1 .. n : i # j => Apart(stageEvents'[i], stageEvents'[j])
    BY <1>6, <2>1, <2>2 DEF PipelineInv, MovesDiffer
  <2>5. \A i \in 1 .. n, q \in P!Sales : Pending(q)' => Apart(stageEvents'[i], visit'[q].event)
    BY <1>6, <1>7, <2>3 DEF PipelineInv, MovesDiffer
  <2>6. \A q, r \in P!Sales : q # r /\ Pending(q)' /\ Pending(r)' => Apart(visit'[q].event, visit'[r].event)
    BY <1>7 DEF PipelineInv, MovesDiffer
  <2> QED BY <1>6, <2>4, <2>5, <2>6 DEF MovesDiffer, Apart
<1>11. VisitsOK'
  BY <1>2 DEF PipelineInv, VisitsOK
<1>12. PipelineTypes'
  BY <1>2, <1>6 DEF PipelineInv, PipelineTypes, P!TypeOK
<1> QED BY <1>9, <1>10, <1>11, <1>12 DEF PipelineInv

LEMMA PipelineDies ==
    ASSUME PipelineInv, NEW p \in P!Sales, P!Dies(p)
    PROVE  PipelineInv'
<1>1. visit' = [visit EXCEPT ![p] = NoCustomer] /\ UNCHANGED <<customers, leads, opportunities, stageEvents>>
  BY DEF P!Dies, P!Visits
<1>2. MovesOK' /\ MovesDiffer'
  BY <1>1, VisitKeeps
<1>3. VisitsOK'
  BY <1>1 DEF PipelineInv, VisitsOK
<1>4. PipelineTypes'
  BY <1>1 DEF PipelineInv, PipelineTypes, P!TypeOK
<1> QED BY <1>2, <1>3, <1>4 DEF PipelineInv

\* A customer or a lead is added: the moves are as they were.
LEMMA MovesRest ==
    ASSUME PipelineInv, UNCHANGED <<opportunities, stageEvents, visit>>
    PROVE  MovesOK' /\ MovesDiffer'
BY DEF PipelineInv, MovesOK, MovesDiffer, MoveOK, Apart, StageNow, Pending

LEMMA PipelineCreatesAccount ==
    ASSUME PipelineInv, NEW p \in P!Sales, NEW owner \in P!Sales, P!CreateAccount(p, owner)
    PROVE  PipelineInv'
<1>1. /\ UNCHANGED <<leads, opportunities, stageEvents, visit>> /\ Len(customers) < MaxAccounts
      /\ customers' = Append(customers, owner) /\ customers \in Seq(P!Sales)
  BY DEF P!CreateAccount, PipelineInv, PipelineTypes, P!TypeOK
<1>2. customers' \in Seq(P!Sales) /\ Len(customers') <= MaxAccounts
  BY <1>1, PipelineAssumption
<1> QED BY <1>1, <1>2, MovesRest DEF PipelineInv, PipelineTypes, P!TypeOK, VisitsOK

LEMMA PipelineCreatesLead ==
    ASSUME PipelineInv, NEW p \in P!Sales, NEW l \in LeadIds, P!CreateLead(p, l)
    PROVE  PipelineInv'
<1>1. PICK new : new = [owner |-> p, status |-> "open", account |-> 0]
  OBVIOUS
<1>2. new \in P!LeadRows /\ new # NoCustomer
  BY <1>1, PipelineAssumption DEF P!LeadRows
<1>3. leads' = [leads EXCEPT ![l] = new] /\ UNCHANGED <<customers, opportunities, stageEvents, visit>>
  BY <1>1 DEF P!CreateLead
<1>4. /\ leads' = [k \in LeadIds |-> leads'[k]]
      /\ \A k \in LeadIds : /\ leads'[k] \in P!LeadRows \cup {NoCustomer}
                            /\ leads[k] # NoCustomer => leads'[k] # NoCustomer
  BY <1>2, <1>3 DEF PipelineInv, PipelineTypes, P!TypeOK
<1>5. VisitsOK'
  BY <1>3, <1>4 DEF PipelineInv, VisitsOK
<1>6. PipelineTypes'
  BY <1>3, <1>4 DEF PipelineInv, PipelineTypes, P!TypeOK
<1> QED BY <1>3, <1>5, <1>6, MovesRest DEF PipelineInv

LEMMA PipelineReads ==
    ASSUME PipelineInv, NEW p \in P!Sales, NEW l \in LeadIds, NEW w \in BOOLEAN, P!ConvertLeadReads(p, l, w)
    PROVE  PipelineInv'
<1>1. PICK v : v = [op |-> "convert", lead |-> l, opportunity |-> w]
  OBVIOUS
<1>2. P!Begins(p, v) /\ leads[l] # NoCustomer
  BY <1>1 DEF P!ConvertLeadReads
<1>3. v.op = "convert" /\ v.lead = l
  BY <1>1
<1> QED BY <1>2, <1>3, PipelineBegins

LEMMA PipelineReadsStage ==
    ASSUME PipelineInv, NEW p \in P!Sales, NEW o \in DOMAIN opportunities, NEW s \in P!Stages, P!StageReads(p, o, s)
    PROVE  PipelineInv'
<1>1. PICK v : v = [op |-> "stage", opportunity |-> o, from |-> opportunities[o].stage, to |-> s]
  OBVIOUS
<1>2. P!Begins(p, v) /\ <<opportunities[o].stage, s>> \in P!OpportunityTransitions
  BY <1>1 DEF P!StageReads
<1>3. v.op = "stage" /\ v.opportunity = o /\ v.from = opportunities[o].stage /\ v.to = s
  BY <1>1
<1>4. o \in 1 .. Len(opportunities)
  BY DEF PipelineInv, PipelineTypes, P!TypeOK
<1> QED BY <1>2, <1>3, <1>4, PipelineBegins

LEMMA PipelineOfSystem ==
    ASSUME PipelineInv, [Next]_vars
    PROVE  PipelineInv'
<1>1. P!Next \/ UNCHANGED pVars
  BY DEF Next, vars
<1>2. CASE UNCHANGED pVars
  BY <1>2 DEF pVars, PipelineInv, PipelineTypes, P!TypeOK, VisitsOK, MovesOK, MovesDiffer, MoveOK, StageNow,
              Apart, Pending
<1>3. ASSUME NEW p \in P!Sales, P!Sell(p)
      PROVE  PipelineInv'
  BY <1>3, PipelineCreatesAccount, PipelineCreatesLead, PipelineReads, PipelineReadsStage, PipelineCreates,
     PipelineConverts, PipelineTurns, PipelineRecords, PipelineDies DEF P!Sell
<1> QED BY <1>1, <1>2, <1>3 DEF P!Next

LEMMA PipelineInit ==
    ASSUME P!Init
    PROVE  PipelineInv
<1>1. PipelineTypes
  <2>1. customers = <<>> /\ opportunities = <<>> /\ stageEvents = <<>>
    BY DEF P!Init
  <2>2. customers \in Seq(P!Sales) /\ opportunities \in Seq(P!OpportunityRows) /\ stageEvents \in Seq(P!EventRows)
        /\ Len(customers) = 0 /\ Len(opportunities) = 0
    BY <2>1
  <2>3. leads = [l \in LeadIds |-> leads[l]] /\ \A l \in LeadIds : leads[l] = NoCustomer
    BY DEF P!Init
  <2> QED BY <2>2, <2>3, PipelineAssumption DEF PipelineTypes, P!TypeOK
<1>2. Len(stageEvents) = 0 /\ visit = [p \in P!Sales |-> NoCustomer]
  BY DEF P!Init
<1>3. VisitsOK
  BY <1>2 DEF VisitsOK
<1>4. MovesOK /\ MovesDiffer
  BY <1>2 DEF MovesOK, MovesDiffer, Pending
<1> QED BY <1>1, <1>3, <1>4 DEF PipelineInv

-----------------------------------------------------------------------------
(*               The care for customers: inductive invariant               *)

\* The copies that an edit and the health scan will write.
CopiesOK ==
    /\ caring = [p \in C!Hands \cup C!Rounds |-> caring[p]]
    /\ \A p \in C!Hands : caring[p] # NoVisit =>
           caring[p].account \in Clients /\ caring[p].row \in C!ClientRows
    /\ caring["health"] # NoVisit =>
           caring["health"] \in [bands : [Clients -> C!Bands], left : SUBSET Clients]

\* The notice that is about to be marked has been sent.
NoticeSent ==
    caring["reminder"] # NoVisit =>
        /\ caring["reminder"].activity \in 1 .. Len(activities)
        /\ caring["reminder"].on \in Nat
        /\ <<caring["reminder"].activity, caring["reminder"].on>> \in reminders

\* A plan cites what is there.
CitesOK ==
    \A i \in 1 .. Len(insights) : \A c \in insights[i].cites :
        c \in 1 .. Len(activities) /\ activities[c].account = insights[i].account

CareInv == C!TypeOK /\ CopiesOK /\ NoticeSent /\ CitesOK /\ C!MarksAreTold

-----------------------------------------------------------------------------

\* No activity is lost, nor is its account.
ActivitiesStay ==
    /\ Len(activities) <= Len(activities')
    /\ \A i \in 1 .. Len(activities) : activities'[i].account = activities[i].account

LEMMA CitesKeep ==
    ASSUME CareInv, ActivitiesStay, activities' \in Seq(C!ActivityRows), insights' = insights
    PROVE  CitesOK'
<1>1. Len(activities) \in Nat /\ Len(activities') \in Nat
  BY DEF CareInv, C!TypeOK
<1> QED BY <1>1 DEF CareInv, CitesOK, ActivitiesStay

\* A step that leaves the activities alone and forgets no notice.
LEMMA ActivitiesRest ==
    ASSUME CareInv, activities' = activities, insights' = insights, reminders \subseteq reminders'
    PROVE  CitesOK' /\ C!MarksAreTold'
<1>1. C!MarksAreTold'
  BY DEF CareInv, C!MarksAreTold
<1> QED BY <1>1 DEF CareInv, CitesOK

\* An edit and a contact.
LEMMA CareWrites ==
    ASSUME CareInv, clients' \in [Clients -> C!ClientRows], CopiesOK',
           UNCHANGED <<activities, insights, reminders, day>>, caring'["reminder"] = caring["reminder"]
    PROVE  CareInv'
<1>1. C!TypeOK'
  BY DEF CareInv, C!TypeOK
<1>2. NoticeSent'
  BY DEF CareInv, NoticeSent
<1> QED BY <1>1, <1>2, ActivitiesRest DEF CareInv

LEMMA CareEdits ==
    ASSUME CareInv, NEW p \in C!Hands, NEW a \in Clients, C!EditReads(p, a)
    PROVE  CareInv'
<1>1. PICK asked : /\ asked = [account |-> a, row |-> [clients[a] EXCEPT !.edition = 1]]
                     /\ caring' = [caring EXCEPT ![p] = asked]
  BY DEF C!EditReads, C!Cares
<1>2. clients[a] \in C!ClientRows
  BY DEF CareInv, C!TypeOK
<1>3. asked.account \in Clients /\ asked.row \in C!ClientRows
  BY <1>1, <1>2 DEF C!ClientRows
<1>4. p \notin {"reminder", "health"}
  BY CareAssumption DEF C!Hands
<1>5. CopiesOK' /\ caring'["reminder"] = caring["reminder"]
  BY <1>1, <1>3, <1>4 DEF CareInv, CopiesOK, C!Rounds
<1> QED BY <1>5, CareWrites DEF C!EditReads, CareInv, C!TypeOK

LEMMA CareEdited ==
    ASSUME CareInv, NEW p \in C!Hands, C!EditWrites(p)
    PROVE  CareInv'
<1>1. PICK a, old : a = caring[p].account /\ old = caring[p].row
  OBVIOUS
<1>2. a \in Clients /\ old \in C!ClientRows /\ clients[a] \in C!ClientRows
  BY <1>1 DEF C!EditWrites, CareInv, CopiesOK, C!TypeOK
<1>3. PICK new : new = [old EXCEPT !.contacts = clients[a].contacts]
  OBVIOUS
<1>4. new \in C!ClientRows
  BY <1>2, <1>3 DEF C!ClientRows
<1>5. clients' = [clients EXCEPT ![a] = new] /\ caring' = [caring EXCEPT ![p] = NoVisit]
  BY <1>1, <1>3 DEF C!EditWrites, C!Cares
<1>6. clients' \in [Clients -> C!ClientRows]
  BY <1>2, <1>4, <1>5 DEF CareInv, C!TypeOK
<1>7. p \notin {"reminder", "health"}
  BY CareAssumption DEF C!Hands
<1>8. CopiesOK' /\ caring'["reminder"] = caring["reminder"]
  BY <1>5, <1>7 DEF CareInv, CopiesOK, C!Rounds
<1> QED BY <1>6, <1>8, CareWrites DEF C!EditWrites

LEMMA CareContacts ==
    ASSUME CareInv, NEW p \in C!Hands, NEW a \in Clients, C!CreateContact(p, a)
    PROVE  CareInv'
<1>1. clients' = [clients EXCEPT ![a].contacts = 1] /\ clients[a] \in C!ClientRows
  BY DEF C!CreateContact, CareInv, C!TypeOK
<1>2. clients' \in [Clients -> C!ClientRows]
  BY <1>1 DEF CareInv, C!TypeOK, C!ClientRows
<1>3. CopiesOK' /\ caring'["reminder"] = caring["reminder"]
  BY DEF C!CreateContact, CareInv, CopiesOK
<1> QED BY <1>2, <1>3, CareWrites DEF C!CreateContact

LEMMA CareLogs ==
    ASSUME CareInv, NEW p \in {Keeper, Lead, "agent"}, NEW a \in Clients, NEW k \in {"task", "note"},
           C!LogActivity(p, a, k)
    PROVE  CareInv'
<1>1. PICK new : new = [account |-> a, kind |-> k, by |-> p, reminded |-> 0]
  OBVIOUS
<1>2. new \in C!ActivityRows /\ new.reminded = 0
  BY <1>1 DEF C!ActivityRows
<1>3. activities' = Append(activities, new) /\ activities \in Seq(C!ActivityRows)
  BY <1>1 DEF C!LogActivity, CareInv, C!TypeOK
<1>4. /\ activities' \in Seq(C!ActivityRows) /\ Len(activities) \in Nat
      /\ Len(activities') = Len(activities) + 1
      /\ \A i \in 1 .. Len(activities) : i \in 1 .. Len(activities') /\ activities'[i] = activities[i]
      /\ \A i \in 1 .. Len(activities') : i \in 1 .. Len(activities) \/ activities'[i] = new
  BY <1>2, <1>3
<1>5. UNCHANGED <<clients, insights, reminders, day, caring>>
  BY DEF C!LogActivity
<1>6. ActivitiesStay
  BY <1>4 DEF ActivitiesStay
<1>7. C!TypeOK' /\ CopiesOK' /\ NoticeSent'
  BY <1>4, <1>5 DEF CareInv, C!TypeOK, CopiesOK, NoticeSent
<1>8. C!MarksAreTold'
  <2>1. DOMAIN activities = 1 .. Len(activities) /\ DOMAIN activities' = 1 .. Len(activities')
    BY <1>3, <1>4
  <2> QED BY <1>2, <1>4, <1>5, <2>1 DEF CareInv, C!MarksAreTold
<1> QED BY <1>4, <1>5, <1>6, <1>7, <1>8, CitesKeep DEF CareInv

LEMMA CarePlans ==
    ASSUME CareInv, NEW a \in Clients, NEW cited \in SUBSET (1 .. MaxActivities),
           C!GenerateFollowupPlan(a, cited)
    PROVE  CareInv'
<1>1. PICK new : new = [account |-> a, cites |-> {i \in cited : C!RefBelongs(a, i)}]
  OBVIOUS
<1>2. /\ new \in C!InsightRows
      /\ \A c \in new.cites : c \in 1 .. Len(activities) /\ activities[c].account = new.account
  <2>1. DOMAIN activities = 1 .. Len(activities)
    BY DEF CareInv, C!TypeOK
  <2> QED BY <1>1, <2>1 DEF C!InsightRows, C!RefBelongs
<1>3. insights' = Append(insights, new) /\ insights \in Seq(C!InsightRows)
  BY <1>1 DEF C!GenerateFollowupPlan, CareInv, C!TypeOK
<1>4. /\ insights' \in Seq(C!InsightRows)
      /\ \A i \in 1 .. Len(insights') : (i \in 1 .. Len(insights) /\ insights'[i] = insights[i])
                                        \/ insights'[i] = new
  BY <1>2, <1>3
<1>5. UNCHANGED <<clients, activities, reminders, day, caring>>
  BY DEF C!GenerateFollowupPlan
<1>6. C!TypeOK' /\ CopiesOK' /\ NoticeSent' /\ C!MarksAreTold'
  BY <1>4, <1>5 DEF CareInv, C!TypeOK, CopiesOK, NoticeSent, C!MarksAreTold
<1>7. CitesOK'
  BY <1>2, <1>4, <1>5 DEF CareInv, CitesOK
<1> QED BY <1>6, <1>7 DEF CareInv

LEMMA CareReminds ==
    ASSUME CareInv, NEW t \in DOMAIN activities, C!Remind(t)
    PROVE  CareInv'
<1>1. PICK asked : asked = [activity |-> t, on |-> day] /\ caring' = [caring EXCEPT !["reminder"] = asked]
  BY DEF C!Remind, C!Cares
<1>2. t \in 1 .. Len(activities) /\ day \in Nat
  BY CareAssumption DEF CareInv, C!TypeOK
<1>3. reminders' = reminders \cup {<<t, day>>} /\ UNCHANGED <<clients, activities, insights, day>>
  BY DEF C!Remind
<1>4. \A p \in C!Hands \cup {"health"} : p # "reminder"
  BY CareAssumption DEF C!Hands
<1>5. CopiesOK'
  BY <1>1, <1>4 DEF CareInv, CopiesOK, C!Rounds
<1>6. caring'["reminder"] = asked
  BY <1>1 DEF CareInv, CopiesOK, C!Rounds
<1>7. NoticeSent'
  BY <1>1, <1>2, <1>3, <1>6 DEF NoticeSent
<1>8. C!TypeOK'
  BY <1>3 DEF CareInv, C!TypeOK
<1>9. CitesOK' /\ C!MarksAreTold'
  BY <1>3, ActivitiesRest
<1> QED BY <1>5, <1>7, <1>8, <1>9 DEF CareInv

RemindedOn(a, d) == [a EXCEPT !.reminded = d]

LEMMA CareMarks ==
    ASSUME CareInv, C!MarkReminded
    PROVE  CareInv'
<1>1. PICK t, d : t = caring["reminder"].activity /\ d = caring["reminder"].on
  OBVIOUS
<1>2. /\ t \in 1 .. Len(activities) /\ d \in Nat /\ <<t, d>> \in reminders
      /\ activities \in Seq(C!ActivityRows) /\ activities[t] \in C!ActivityRows
  BY <1>1 DEF C!MarkReminded, CareInv, NoticeSent, C!TypeOK
<1>3. PICK new : new = RemindedOn(activities[t], d)
  OBVIOUS
<1>4. new \in C!ActivityRows /\ new.account = activities[t].account /\ new.reminded = d
  BY <1>2, <1>3 DEF RemindedOn, C!ActivityRows
<1>5. activities' = [activities EXCEPT ![t] = new]
  <2>1. activities' = [activities EXCEPT ![t] = RemindedOn(activities[t], d)]
    BY <1>1, Zenon DEF C!MarkReminded, RemindedOn
  <2> QED BY <1>3, <2>1
<1>6. UNCHANGED <<clients, insights, reminders, day>> /\ caring' = [caring EXCEPT !["reminder"] = NoVisit]
  BY DEF C!MarkReminded, C!Cares
<1>7. /\ activities' \in Seq(C!ActivityRows) /\ Len(activities') = Len(activities)
      /\ activities'[t] = new /\ \A i \in 1 .. Len(activities) : i # t => activities'[i] = activities[i]
      /\ DOMAIN activities' = 1 .. Len(activities) /\ DOMAIN activities = 1 .. Len(activities)
      /\ Len(activities) \in Nat
  BY <1>2, <1>4, <1>5
<1>8. ActivitiesStay
  BY <1>4, <1>7 DEF ActivitiesStay
<1>9. C!TypeOK'
  BY <1>6, <1>7 DEF CareInv, C!TypeOK
<1>10. \A p \in C!Hands \cup {"health"} : p # "reminder"
  BY CareAssumption DEF C!Hands
<1>11. CopiesOK' /\ caring'["reminder"] = NoVisit
  BY <1>6, <1>10 DEF CareInv, CopiesOK, C!Rounds
<1>12. C!MarksAreTold'
  BY <1>2, <1>4, <1>6, <1>7 DEF CareInv, C!MarksAreTold
<1> QED BY <1>6, <1>7, <1>8, <1>9, <1>11, <1>12, CitesKeep DEF CareInv, NoticeSent

LEMMA CareReadsHealth ==
    ASSUME CareInv, C!HealthReads
    PROVE  CareInv'
<1>1. PICK asked : /\ asked = [bands |-> [a \in Clients |-> C!Band(C!Score(a))], left |-> Clients]
                     /\ caring' = [caring EXCEPT !["health"] = asked]
  BY DEF C!HealthReads, C!Cares
<1>2. \A n : C!Band(n) \in C!Bands
  BY DEF C!Band, C!Bands
<1>3. asked \in [bands : [Clients -> C!Bands], left : SUBSET Clients]
  BY <1>1, <1>2
<1>4. \A p \in C!Hands : p # "health"
  BY CareAssumption DEF C!Hands
<1>5. CopiesOK' /\ caring'["reminder"] = caring["reminder"]
  BY <1>1, <1>3, <1>4 DEF CareInv, CopiesOK, C!Rounds
<1> QED BY <1>5, CareWrites DEF C!HealthReads, CareInv, C!TypeOK

LEMMA CareUpdatesHealth ==
    ASSUME CareInv, NEW a \in Clients, C!UpdateAccountHealth(a)
    PROVE  CareInv'
<1>1. PICK old, left : old = caring["health"] /\ left = old.left \ {a}
  OBVIOUS
<1>2. old \in [bands : [Clients -> C!Bands], left : SUBSET Clients]
  BY <1>1 DEF C!UpdateAccountHealth, CareInv, CopiesOK
<1>3. clients' = [clients EXCEPT ![a].band = old.bands[a]] /\ clients[a] \in C!ClientRows
  BY <1>1 DEF C!UpdateAccountHealth, CareInv, C!TypeOK
<1>4. clients' \in [Clients -> C!ClientRows]
  BY <1>2, <1>3 DEF CareInv, C!TypeOK, C!ClientRows
<1>5. PICK asked : asked = [old EXCEPT !.left = left]
  OBVIOUS
<1>6. asked \in [bands : [Clients -> C!Bands], left : SUBSET Clients]
  BY <1>1, <1>2, <1>5
<1>7. \/ caring' = [caring EXCEPT !["health"] = NoVisit]
      \/ caring' = [caring EXCEPT !["health"] = asked]
  BY <1>1, <1>5 DEF C!UpdateAccountHealth, C!Cares
<1>8. \A p \in C!Hands : p # "health"
  BY CareAssumption DEF C!Hands
<1>9. CASE caring' = [caring EXCEPT !["health"] = NoVisit]
  <2>1. CopiesOK' /\ caring'["reminder"] = caring["reminder"]
    BY <1>8, <1>9 DEF CareInv, CopiesOK, C!Rounds
  <2> QED BY <1>4, <2>1, CareWrites DEF C!UpdateAccountHealth
<1>10. CASE caring' = [caring EXCEPT !["health"] = asked]
  <2>1. CopiesOK' /\ caring'["reminder"] = caring["reminder"]
    BY <1>6, <1>8, <1>10 DEF CareInv, CopiesOK, C!Rounds
  <2> QED BY <1>4, <2>1, CareWrites DEF C!UpdateAccountHealth
<1> QED BY <1>7, <1>9, <1>10

LEMMA CareOfSystem ==
    ASSUME CareInv, [Next]_vars
    PROVE  CareInv'
<1>1. C!Next \/ UNCHANGED cVars
  BY DEF Next, vars
<1>2. CASE UNCHANGED cVars
  BY <1>2 DEF cVars, CareInv, C!TypeOK, CopiesOK, NoticeSent, CitesOK, C!MarksAreTold
<1>3. CASE C!NextDay
  <2>1. day' \in 1 .. LastReminder
    BY <1>3, CareAssumption DEF C!NextDay, CareInv, C!TypeOK
  <2> QED BY <1>3, <2>1 DEF C!NextDay, CareInv, C!TypeOK, CopiesOK, NoticeSent, CitesOK, C!MarksAreTold
<1>4. ASSUME NEW p \in C!Hands, NEW a \in Clients, C!Care(p, a)
      PROVE  CareInv'
  <2>1. p \in {Keeper, Lead, "agent"}
    BY DEF C!Hands
  <2> QED BY <1>4, <2>1, CareEdits, CareContacts, CareLogs DEF C!Care
<1>5. ASSUME NEW a \in Clients, C!LogActivity("agent", a, "note")
      PROVE  CareInv'
  BY <1>5, CareLogs
<1> QED BY <1>1, <1>2, <1>3, <1>4, <1>5, CareEdited, CarePlans, CareReminds, CareMarks, CareReadsHealth,
           CareUpdatesHealth DEF C!Next

LEMMA CareInit ==
    ASSUME C!Init
    PROVE  CareInv
<1>1. C!TypeOK
  <2>1. [edition |-> 0, band |-> "none", contacts |-> 0] \in C!ClientRows
    BY DEF C!ClientRows, C!Bands
  <2>2. activities \in Seq(C!ActivityRows) /\ insights \in Seq(C!InsightRows)
    BY DEF C!Init
  <2> QED BY <2>1, <2>2, CareAssumption DEF C!Init, C!TypeOK
<1>2. /\ Len(activities) = 0 /\ DOMAIN activities = {} /\ Len(insights) = 0
      /\ caring = [p \in C!Hands \cup C!Rounds |-> NoVisit]
  BY DEF C!Init
<1>3. CopiesOK
  BY <1>2 DEF CopiesOK, C!Rounds
<1> QED BY <1>1, <1>2, <1>3 DEF CareInv, NoticeSent, CitesOK, C!MarksAreTold, C!Rounds

\* Whoever edits, pays, moves and reminds at once, and whatever dies between two
\* writes: a contract is worth what its quote was confirmed with, the stages of
\* an opportunity lie on one path, plans cite the customer they are about, and
\* a mark claims no reminder that was not sent.
THEOREM SalesTrue == Spec => []SalesAreTrue
<1>1. Init => DealInv /\ PipelineInv /\ CareInv
  BY DealInit, PipelineInit, CareInit DEF Init
<1>2. DealInv /\ PipelineInv /\ CareInv /\ [Next]_vars => DealInv' /\ PipelineInv' /\ CareInv'
  BY DealOfSystem, PipelineOfSystem, CareOfSystem
<1>3. DealInv /\ PipelineInv /\ CareInv => SalesAreTrue
  <2>1. SUFFICES ASSUME DealInv, PipelineInv, CareInv
                 PROVE  SalesAreTrue
    OBVIOUS
  <2>2. D!AmountWasConfirmed
    BY DealTypes, <2>1 DEF DealInv, QuotesOK, ContractsOK, D!AmountWasConfirmed
  <2>3. P!HistoryIsAPath
    <3>1. DOMAIN stageEvents = 1 .. Len(stageEvents)
      BY <2>1 DEF PipelineInv, PipelineTypes, P!TypeOK
    <3> QED BY <2>1, <3>1 DEF PipelineInv, MovesOK, MovesDiffer, MoveOK, Apart, StageNow, P!HistoryIsAPath
  <2>4. C!PlansCiteTheAccount /\ C!MarksAreTold
    <3>1. DOMAIN insights = 1 .. Len(insights)
      BY <2>1 DEF CareInv, C!TypeOK
    <3> QED BY <2>1, <3>1 DEF CareInv, CitesOK, C!PlansCiteTheAccount
  <2> QED BY <2>2, <2>3, <2>4 DEF SalesAreTrue
<1> QED BY <1>1, <1>2, <1>3, PTL DEF Spec
-----------------------------------------------------------------------------
(*             Type correctness: the workforce and the tokens              *)

\* The directory, and the employee that is about to be given knowledge.
DirectoryTypes ==
    /\ WorkforceInv
    /\ jobs \in [JobRoles -> {"none", "active", "disabled"}]
    /\ knowledgeable \subseteq AgentKeys
    /\ \A p \in W!Callers : intake[p] # Nothing /\ intake[p].op = "bind" => intake[p].agent \in AgentKeys

\* A person's next step gives knowledge to an employee, or to nobody.
LEMMA BindsEmployees ==
    ASSUME DirectoryTypes, NEW p \in W!Callers, NEW s, W!Takes(p, s),
           s # Nothing /\ s.op = "bind" => s.agent \in AgentKeys
    PROVE  \A q \in W!Callers : intake'[q] # Nothing /\ intake'[q].op = "bind" => intake'[q].agent \in AgentKeys
<1>1. intake' = [intake EXCEPT ![p] = s] /\ DOMAIN intake = W!Callers
  BY DEF W!Takes, DirectoryTypes, WorkforceInv, WorkforceTypes
<1>2. ASSUME NEW q \in W!Callers, intake'[q] # Nothing, intake'[q].op = "bind"
      PROVE  intake'[q].agent \in AgentKeys
  <2>1. CASE q = p
    BY <1>1, <1>2, <2>1
  <2>2. CASE q # p
    BY <1>1, <1>2, <2>2 DEF DirectoryTypes
  <2> QED BY <2>1, <2>2
<1> QED BY <1>2

LEMMA DirectoryStep ==
    ASSUME DirectoryTypes, W!Next
    PROVE  DirectoryTypes'
<1> DEFINE BindOK(i) == \A q \in W!Callers : i[q] # Nothing /\ i[q].op = "bind" => i[q].agent \in AgentKeys
<1>0. WorkforceInv' /\ BindOK(intake)
  BY WorkforceStep DEF DirectoryTypes
<1>1. CASE W!Configure
  <2>1. UNCHANGED <<knowledgeable, intake>>
    BY <1>1 DEF W!Configure, W!CreateRole, W!UpdateRole, W!UpdateEmployee, W!UpdateAgentConfig
  <2>2. \/ \E r \in JobRoles, s \in {"active", "disabled"} : jobs' = [jobs EXCEPT ![r] = s]
        \/ jobs' = jobs
    BY <1>1 DEF W!Configure, W!CreateRole, W!UpdateRole, W!UpdateEmployee, W!UpdateAgentConfig
  <2>3. jobs' \in [JobRoles -> {"none", "active", "disabled"}]
    BY <2>2 DEF DirectoryTypes
  <2> QED BY <1>0, <2>1, <2>3 DEF DirectoryTypes
<1>2. ASSUME NEW p \in W!Callers, W!Manage(p) PROVE DirectoryTypes'
  <2>1. ASSUME NEW a \in AgentKeys, NEW r \in JobRoles, W!RequireActiveRole(p, a, r) PROVE DirectoryTypes'
    <3> DEFINE s == [op |-> "hire", agent |-> a, role |-> r]
    <3>1. W!Takes(p, s) /\ UNCHANGED <<jobs, knowledgeable>> /\ s.op = "hire"
      BY <2>1 DEF W!RequireActiveRole
    <3> HIDE DEF s
    <3>2. BindOK(intake')
      BY <3>1, BindsEmployees
    <3> QED BY <1>0, <3>1, <3>2 DEF DirectoryTypes
  <2>2. ASSUME NEW a \in AgentKeys, W!BindingAvailable(p, a) PROVE DirectoryTypes'
    <3> DEFINE s == [op |-> "bind", agent |-> a]
    <3>1. W!Takes(p, s) /\ UNCHANGED <<jobs, knowledgeable>> /\ s.agent = a
      BY <2>2 DEF W!BindingAvailable
    <3> HIDE DEF s
    <3>2. BindOK(intake')
      BY <3>1, BindsEmployees
    <3> QED BY <1>0, <3>1, <3>2 DEF DirectoryTypes
  <2>3. ASSUME W!BindKnowledge(p) PROVE DirectoryTypes'
    <3>1. W!Takes(p, Nothing) /\ jobs' = jobs /\ knowledgeable' = knowledgeable \cup {intake[p].agent}
          /\ intake[p] # Nothing /\ intake[p].op = "bind"
      BY <2>3 DEF W!BindKnowledge
    <3>2. BindOK(intake')
      BY <3>1, BindsEmployees
    <3> QED BY <1>0, <3>1, <3>2 DEF DirectoryTypes
  <2>4. ASSUME W!WriteEmployee(p) PROVE DirectoryTypes'
    <3>1. W!Takes(p, Nothing) /\ UNCHANGED <<jobs, knowledgeable>>
      BY <2>4 DEF W!WriteEmployee
    <3>2. BindOK(intake')
      BY <3>1, BindsEmployees
    <3> QED BY <1>0, <3>1, <3>2 DEF DirectoryTypes
  <2> QED BY <1>2, <2>1, <2>2, <2>3, <2>4 DEF W!Manage
<1>3. ASSUME NEW p \in W!Callers, W!Order(p) PROVE DirectoryTypes'
  <2>1. ASSUME NEW k \in TaskKeys, NEW a \in AgentKeys, NEW r \in TaskRisks, W!CreateReads(p, k, a, r)
        PROVE  DirectoryTypes'
    <3>1. PICK s : W!Takes(p, s) /\ s.op = "task" /\ UNCHANGED <<jobs, knowledgeable>>
      <4> DEFINE s == [op |-> "task", key |-> k, agent |-> a, risk |-> r,
                       waived |-> ~W!TaskRequiresApproval(a, r)]
      <4>1. W!Takes(p, s) /\ s.op = "task" /\ UNCHANGED <<jobs, knowledgeable>>
        BY <2>1 DEF W!CreateReads
      <4> HIDE DEF s
      <4> QED BY <4>1
    <3>2. BindOK(intake')
      BY <3>1, BindsEmployees
    <3> QED BY <1>0, <3>1, <3>2 DEF DirectoryTypes
  <2>2. ASSUME W!CreateTask(p) PROVE DirectoryTypes'
    <3>1. W!Takes(p, Nothing) /\ UNCHANGED <<jobs, knowledgeable>>
      BY <2>2 DEF W!CreateTask
    <3>2. BindOK(intake')
      BY <3>1, BindsEmployees
    <3> QED BY <1>0, <3>1, <3>2 DEF DirectoryTypes
  <2>3. ASSUME NEW k \in TaskKeys, W!ApproveTask(p, k) PROVE DirectoryTypes'
    <3>1. UNCHANGED <<jobs, knowledgeable, intake>>
      BY <2>3 DEF W!ApproveTask
    <3> QED BY <1>0, <3>1 DEF DirectoryTypes
  <2> QED BY <1>3, <2>1, <2>2, <2>3 DEF W!Order
<1> QED BY <1>1, <1>2, <1>3 DEF W!Next

LEMMA DirectoryTyped ==
    ASSUME DirectoryTypes, [Next]_vars
    PROVE  DirectoryTypes'
<1>1. W!Next \/ UNCHANGED wVars
  BY DEF Next, vars
<1>2. CASE UNCHANGED wVars
  <2>1. UNCHANGED <<jobs, staff, orders, waived, knowledgeable, intake>>
    BY <1>2 DEF wVars
  <2>2. WorkforceInv'
    BY <2>1, NoOrderChanges DEF DirectoryTypes
  <2> QED BY <2>1, <2>2 DEF DirectoryTypes
<1> QED BY <1>1, <1>2, DirectoryStep

LEMMA DirectoryInit ==
    ASSUME W!Init
    PROVE  DirectoryTypes
BY WorkforceStart DEF W!Init, DirectoryTypes

\* A run holds no more containers than tokens were minted, one more while a
\* turn that has its token is being opened.
GatewayTypes ==
    /\ TokenInv /\ gateway \subseteq T!Bound
    /\ running \in [TaskRuns -> Nat]
    /\ \A r \in TaskRuns : running[r] + (IF opening # Free /\ opening.token # 0 THEN 1 ELSE 0) <= minted
    /\ restarts \in 0 .. MaxRestarts

LEMMA GatewayStep ==
    ASSUME GatewayTypes, T!Next
    PROVE  GatewayTypes'
<1> DEFINE Extra(o) == IF o # Free /\ o.token # 0 THEN 1 ELSE 0
<1>0. /\ TokenInv' /\ minted \in 0 .. MaxTurns /\ registered \in 0 .. minted /\ MaxTurns \in Nat /\ MaxRestarts \in Nat
      /\ opening = Free \/ opening \in Openings
      /\ \A r \in TaskRuns : running[r] \in Nat /\ running[r] + Extra(opening) <= minted
      /\ gateway \subseteq T!Bound /\ restarts \in 0 .. MaxRestarts /\ running \in [TaskRuns -> Nat]
  <2>1. TokenInv'
    BY TokenStep DEF GatewayTypes
  <2>2. /\ minted \in 0 .. MaxTurns /\ registered \in 0 .. minted /\ MaxTurns \in Nat /\ MaxRestarts \in Nat
        /\ opening = Free \/ opening \in Openings
    BY TokenAssumption, BoundsAssumption DEF GatewayTypes, TokenInv, TokenTypes
  <2>3. /\ \A r \in TaskRuns : running[r] \in Nat /\ running[r] + Extra(opening) <= minted
        /\ gateway \subseteq T!Bound /\ restarts \in 0 .. MaxRestarts /\ running \in [TaskRuns -> Nat]
    BY DEF GatewayTypes
  <2> QED BY <2>1, <2>2, <2>3
<1>1. CASE T!OnTerminal \/ T!Expire \/ T!MintRefused \/ \E r \in TaskRuns : T!OpenTurn(r)
  <2>1. UNCHANGED <<running, minted, restarts>>
    BY <1>1 DEF T!OnTerminal, T!Expire, T!MintRefused, T!OpenTurn
  <2>2. gateway' \subseteq gateway
    BY <1>1 DEF T!OnTerminal, T!Expire, T!MintRefused, T!OpenTurn, T!Retire, T!RevokeBinding, T!GatewayRevoke, T!Without
  <2>3. opening' = opening \/ Extra(opening') = 0
    <3>1. CASE T!OnTerminal \/ T!Expire
      BY <3>1 DEF T!OnTerminal, T!Expire
    <3>2. CASE T!MintRefused
      BY <3>2 DEF T!MintRefused
    <3>3. ASSUME NEW r \in TaskRuns, T!OpenTurn(r) PROVE Extra(opening') = 0
      <4>1. opening' = [run |-> r, token |-> 0, generation |-> 0]
        BY <3>3 DEF T!OpenTurn
      <4>2. opening'.token = 0
        BY <4>1
      <4> QED BY <4>2
    <3> QED BY <1>1, <3>1, <3>2, <3>3
  <2>4. Extra(opening) \in {0, 1}
    OBVIOUS
  <2>5. \A r \in TaskRuns : running'[r] + Extra(opening') <= minted'
    <3> HIDE DEF Extra
    <3> QED BY <1>0, <2>1, <2>3, <2>4
  <2> QED BY <1>0, <2>1, <2>2, <2>5 DEF GatewayTypes
<1>2. CASE T!Mint
  <2>1. minted < MaxTurns /\ minted' = minted + 1 /\ UNCHANGED <<running, restarts>>
    BY <1>2 DEF T!Mint
  <2>2. PICK b : b = [token |-> minted + 1, generation |-> registered + 1]
    OBVIOUS
  <2>3. b \in T!Bound
    BY <1>0, <2>1, <2>2 DEF T!Bound, T!Token
  <2>4. gateway' = gateway \cup {b}
    BY <1>2, <2>1, <2>2 DEF T!Mint
  <2>5. Extra(opening') \in {0, 1} /\ Extra(opening) \in {0, 1}
    OBVIOUS
  <2>6. \A r \in TaskRuns : running'[r] + Extra(opening') <= minted'
    <3> HIDE DEF Extra
    <3> QED BY <1>0, <2>1, <2>5
  <2> QED BY <1>0, <2>1, <2>3, <2>4, <2>6 DEF GatewayTypes
<1>3. CASE T!Register
  <2>1. opening # Free /\ opening.token # 0 /\ opening' = Free /\ UNCHANGED <<gateway, minted, restarts>>
        /\ running' = [running EXCEPT ![opening.run] = @ + 1]
    BY <1>3 DEF T!Register
  <2>2. PICK r : r = opening.run
    OBVIOUS
  <2>3. r \in TaskRuns /\ running' = [running EXCEPT ![r] = running[r] + 1]
    BY <1>0, <2>1, <2>2 DEF Openings
  <2>4. \A t \in TaskRuns : running[t] + 1 <= minted
    BY <1>0, <2>1
  <2>5. Extra(opening') = 0
    BY <2>1
  <2>6. \A t \in TaskRuns : running'[t] \in Nat /\ running'[t] <= minted
    BY <1>0, <2>3, <2>4
  <2>7. \A t \in TaskRuns : running'[t] + Extra(opening') <= minted'
    BY <2>1, <2>5, <2>6
  <2>8. running' \in [TaskRuns -> Nat]
    BY <1>0, <2>3
  <2> QED BY <1>0, <2>1, <2>7, <2>8 DEF GatewayTypes
<1>4. CASE T!RollBack
  <2>1. opening' = Free /\ gateway' \subseteq gateway /\ UNCHANGED <<minted, running, restarts>>
    BY <1>4 DEF T!RollBack, T!Without
  <2>2. Extra(opening) \in {0, 1} /\ Extra(opening') = 0
    BY <2>1
  <2>3. \A r \in TaskRuns : running'[r] + Extra(opening') <= minted'
    <3> HIDE DEF Extra
    <3> QED BY <1>0, <2>1, <2>2
  <2> QED BY <1>0, <2>1, <2>3 DEF GatewayTypes
<1>5. ASSUME NEW r \in TaskRuns, T!ContainerEnds(r) \/ T!NeverStarts(r)
      PROVE  GatewayTypes'
  <2>1. running[r] > 0 /\ running' = [running EXCEPT ![r] = running[r] - 1]
        /\ UNCHANGED <<gateway, opening, minted, restarts>>
    BY <1>5 DEF T!ContainerEnds, T!NeverStarts
  <2>2. \A t \in TaskRuns : running'[t] \in Nat /\ running'[t] <= running[t]
    BY <1>0, <2>1
  <2>3. Extra(opening) \in {0, 1}
    OBVIOUS
  <2>4. \A t \in TaskRuns : running'[t] + Extra(opening') <= minted'
    <3> HIDE DEF Extra
    <3> QED BY <1>0, <2>1, <2>2, <2>3
  <2>5. running' \in [TaskRuns -> Nat]
    BY <1>0, <2>1, <2>2
  <2> QED BY <1>0, <2>1, <2>4, <2>5 DEF GatewayTypes
<1>6. CASE T!Restart
  <2>1. /\ restarts < MaxRestarts /\ restarts' = restarts + 1 /\ opening' = Free
        /\ running' = [r \in TaskRuns |-> 0] /\ UNCHANGED <<gateway, minted>>
    BY <1>6 DEF T!Restart
  <2>2. \A t \in TaskRuns : running'[t] + Extra(opening') <= minted'
    BY <1>0, <2>1
  <2>3. restarts' \in 0 .. MaxRestarts
    BY <1>0, <2>1
  <2> QED BY <1>0, <2>1, <2>2, <2>3 DEF GatewayTypes
<1> QED BY <1>1, <1>2, <1>3, <1>4, <1>5, <1>6 DEF T!Next, T!Open, T!Close

LEMMA GatewayTyped ==
    ASSUME GatewayTypes, [Next]_vars
    PROVE  GatewayTypes'
<1>1. T!Next \/ UNCHANGED tVars
  BY DEF Next, vars
<1>2. CASE UNCHANGED tVars
  <2>1. UNCHANGED <<registered, bound, gateway, held, opening, closing, running, minted, endedTurns, restarts>>
    BY <1>2 DEF tVars
  <2>2. TokenInv'
    BY <2>1 DEF GatewayTypes, TokenInv, TokenTypes, OneTurnPerToken, OpeningIsNew, EndedIsUnbound, Turns
  <2> QED BY <2>1, <2>2 DEF GatewayTypes
<1> QED BY <1>1, <1>2, GatewayStep

LEMMA GatewayInit ==
    ASSUME T!Init
    PROVE  GatewayTypes
<1>1. TokenInv
  BY TokenStart
<1>2. opening = Free /\ running = [r \in TaskRuns |-> 0] /\ gateway = {} /\ minted = 0 /\ restarts = 0
  BY DEF T!Init
<1> QED BY <1>1, <1>2, BoundsAssumption DEF GatewayTypes

LEMMA TokensTyped ==
    ASSUME DirectoryTypes, GatewayTypes
    PROVE  W!TypeOK /\ T!TypeOK
<1>1. W!TypeOK
  BY DEF DirectoryTypes, WorkforceInv, WorkforceTypes, StaffOK, OrdersOK, W!TypeOK
<1>2. running \in [TaskRuns -> 0 .. MaxTurns]
  <2>1. \A r \in TaskRuns : running[r] \in Nat /\ running[r] <= minted
    <3>1. SUFFICES ASSUME NEW r \in TaskRuns PROVE running[r] \in Nat /\ running[r] <= minted
      OBVIOUS
    <3>2. running[r] \in Nat /\ minted \in Nat
      BY DEF GatewayTypes, TokenInv, TokenTypes
    <3>3. PICK x \in {0, 1} : running[r] + x <= minted
      BY DEF GatewayTypes
    <3> QED BY <3>2, <3>3
  <2>2. minted \in 0 .. MaxTurns
    BY DEF GatewayTypes, TokenInv, TokenTypes
  <2> QED BY <2>1, <2>2, TokenAssumption DEF GatewayTypes
<1>3. T!TypeOK
  <2>1. registered \in 0 .. MaxTurns
    BY TokenAssumption DEF GatewayTypes, TokenInv, TokenTypes
  <2> QED BY <1>2, <2>1 DEF GatewayTypes, TokenInv, TokenTypes, T!TypeOK, Openings, Closings
<1> QED BY <1>1, <1>3
-----------------------------------------------------------------------------
(*                  Type correctness: decisions on runs                    *)

\* A request that has read a run carries the row it is about to write.
Mishaps == RunIds \X {"abandoned", "unreleased", "unanswered"}

DecisionTypes ==
    /\ PromotionInv
    /\ decisions \subseteq R!DecisionRow
    /\ \A p \in Owners : At(p, {"decide"}) => request[p] \in [step : {"decide"}, row : R!DecisionRow]
    /\ mishaps \subseteq Mishaps
    /\ promotions = [r \in RunIds |-> promotions[r]]

\* One request changes, and decides nothing but with a whole row.
LEMMA DecidesWhole ==
    ASSUME DecisionTypes, PromotionInv', NEW p \in Owners, NEW x, request' = [request EXCEPT ![p] = x],
           x # AtRest /\ x.step = "decide" => x \in [step : {"decide"}, row : R!DecisionRow],
           decisions' \subseteq R!DecisionRow, mishaps' \subseteq Mishaps,
           promotions' = [r \in RunIds |-> promotions'[r]]
    PROVE  DecisionTypes'
<1>1. DOMAIN request = Owners
  BY DEF DecisionTypes, PromotionInv, PromotionTypes
<1>2. ASSUME NEW q \in Owners, request'[q] # AtRest, request'[q].step = "decide"
      PROVE  request'[q] \in [step : {"decide"}, row : R!DecisionRow]
  <2>1. CASE q = p
    BY <1>1, <1>2, <2>1
  <2>2. CASE q # p
    BY <1>1, <1>2, <2>2 DEF DecisionTypes, At
  <2> QED BY <2>1, <2>2
<1> QED BY <1>2 DEF DecisionTypes, At

LEMMA DecisionJudges ==
    ASSUME DecisionTypes, PromotionInv', R!Judge
    PROVE  DecisionTypes'
<1>1. ASSUME NEW p \in Owners, NEW r \in RunIds, NEW k \in DecisionKeys, NEW d \in R!DECISIONS,
             R!DecideReads(p, r, k, d)
      PROVE  DecisionTypes'
  <2>1. stamp < MaxStamps /\ stamp' = stamp + 1 /\ UNCHANGED <<decisions, mishaps, promotions>>
    BY <1>1 DEF R!DecideReads
  <2>2. stamp' \in 1 .. MaxStamps
    BY <2>1, PromotionAssumption DEF DecisionTypes, PromotionInv, PromotionTypes
  <2>3. PICK v : v = R!Verdict(r)
    OBVIOUS
  <2>4. v \in {"met", "unmet"}
    BY <2>3 DEF R!Verdict
  <2>5. PICK w : w = [run |-> r, key |-> k, decision |-> d, structural_verdict |-> v, stamp |-> stamp']
    OBVIOUS
  <2>6. w \in R!DecisionRow
    BY <2>2, <2>4, <2>5 DEF R!DecisionRow
  <2>7. PICK x : x = [step |-> "decide", row |-> w]
    OBVIOUS
  <2>8. request' = [request EXCEPT ![p] = x]
    BY <1>1, <2>3, <2>5, <2>7 DEF R!DecideReads
  <2>9. x \in [step : {"decide"}, row : R!DecisionRow]
    BY <2>6, <2>7
  <2> QED BY <2>1, <2>8, <2>9, DecidesWhole DEF DecisionTypes
<1>2. ASSUME NEW p \in Owners, R!RecordDecision(p)
      PROVE  DecisionTypes'
  <2>1. request' = [request EXCEPT ![p] = AtRest] /\ UNCHANGED <<mishaps, promotions>>
    BY <1>2 DEF R!RecordDecision
  <2>2. request[p] \in [step : {"decide"}, row : R!DecisionRow]
    BY <1>2 DEF R!RecordDecision, DecisionTypes, At
  <2>3. PICK w : w = request[p].row
    OBVIOUS
  <2>4. w \in R!DecisionRow
    BY <2>2, <2>3
  <2>5. decisions' \in {decisions, decisions \cup {w}}
    BY <1>2, <2>3 DEF R!RecordDecision
  <2>6. decisions' \subseteq R!DecisionRow
    BY <2>4, <2>5 DEF DecisionTypes
  <2> QED BY <2>1, <2>6, DecidesWhole DEF DecisionTypes
<1> QED BY <1>1, <1>2 DEF R!Judge

LEMMA DecisionPromotes ==
    ASSUME DecisionTypes, PromotionInv', R!Promote
    PROVE  DecisionTypes'
<1>0. /\ mishaps \subseteq Mishaps /\ decisions \subseteq R!DecisionRow
      /\ promotions = [r \in RunIds |-> promotions[r]]
  BY DEF DecisionTypes
<1>1. ASSUME NEW p \in Owners, NEW r \in RunIds, NEW by \in Promoters, R!PromoteReads(p, r, by)
      PROVE  DecisionTypes'
  <2>1. PICK x : x = [step |-> "claim", run |-> r, by |-> by, task |-> stamp']
    OBVIOUS
  <2>2. request' = [request EXCEPT ![p] = x] /\ UNCHANGED <<decisions, mishaps, promotions>>
    BY <1>1, <2>1 DEF R!PromoteReads
  <2>3. x.step = "claim"
    BY <2>1
  <2> QED BY <1>0, <2>2, <2>3, DecidesWhole
<1>2. ASSUME NEW p \in Owners, R!Claim(p) \/ R!StoreTask(p) \/ R!Release(p)
      PROVE  DecisionTypes'
  <2>0. UNCHANGED decisions /\ mishaps' \subseteq Mishaps
    <3>1. request[p].run \in RunIds
      BY <1>2 DEF DecisionTypes, PromotionInv, PromotionTypes, R!Claim, R!StoreTask, R!Release, At
    <3>2. \A w \in {"unreleased", "unanswered"} : <<request[p].run, w>> \in Mishaps
      BY <3>1 DEF Mishaps
    <3>3. mishaps' = mishaps \/ \E w \in {"unreleased", "unanswered"} : mishaps' = mishaps \cup {<<request[p].run, w>>}
      BY <1>2 DEF R!Claim, R!StoreTask, R!Release
    <3> QED BY <1>0, <1>2, <3>2, <3>3 DEF R!Claim, R!StoreTask, R!Release
  <2>9. promotions' = [r \in RunIds |-> promotions'[r]]
    <3>1. PICK r, id : r = request[p].run /\ id = request[p].task
      OBVIOUS
    <3>2. \/ \E y \in {id, NoTask} : promotions' = [promotions EXCEPT ![r] = y]
          \/ promotions' = promotions
      BY <1>2, <3>1 DEF R!Claim, R!StoreTask, R!Release
    <3> QED BY <1>0, <3>2
  <2>1. Promotes(p)
    BY <1>2 DEF R!Claim, R!StoreTask, R!Release, Promotes, At
  <2>2. request[p] \in [step : {"claim", "store", "release"}, run : RunIds, by : Promoters, task : 1 .. stamp]
    BY <2>1 DEF DecisionTypes, PromotionInv, PromotionTypes, Promotes, At
  <2>3. PICK s, u : s = [request[p] EXCEPT !.step = "store"] /\ u = [request[p] EXCEPT !.step = "release"]
    OBVIOUS
  <2>4. s.step = "store" /\ u.step = "release"
    BY <2>2, <2>3
  <2>5. \/ request' = [request EXCEPT ![p] = AtRest]
        \/ request' = [request EXCEPT ![p] = s]
        \/ request' = [request EXCEPT ![p] = u]
    <3>1. CASE R!Claim(p)
      BY <2>3, <3>1 DEF R!Claim
    <3>2. CASE R!StoreTask(p)
      BY <2>3, <3>2 DEF R!StoreTask
    <3>3. CASE R!Release(p)
      BY <2>3, <3>3 DEF R!Release
    <3> QED BY <1>2, <3>1, <3>2, <3>3
  <2>6. CASE request' = [request EXCEPT ![p] = AtRest]
    BY <1>0, <2>0, <2>6, <2>9, DecidesWhole
  <2>7. CASE request' = [request EXCEPT ![p] = s]
    BY <1>0, <2>0, <2>4, <2>7, <2>9, DecidesWhole
  <2>8. CASE request' = [request EXCEPT ![p] = u]
    BY <1>0, <2>0, <2>4, <2>8, <2>9, DecidesWhole
  <2> QED BY <2>5, <2>6, <2>7, <2>8
<1>3. ASSUME NEW p \in Owners, R!Dies(p)
      PROVE  DecisionTypes'
  <2>1. request' = [request EXCEPT ![p] = AtRest] /\ UNCHANGED <<decisions, promotions>>
        /\ mishaps' = mishaps \cup {<<request[p].run, "abandoned">>}
    BY <1>3 DEF R!Dies
  <2>2. request[p].run \in RunIds
    BY <1>3 DEF DecisionTypes, PromotionInv, PromotionTypes, R!Dies, At
  <2>3. mishaps' \subseteq Mishaps
    BY <1>0, <2>1, <2>2 DEF Mishaps
  <2> QED BY <1>0, <2>1, <2>3, DecidesWhole
<1> QED BY <1>1, <1>2, <1>3 DEF R!Promote

LEMMA DecisionTyped ==
    ASSUME DecisionTypes, [Next]_vars
    PROVE  DecisionTypes'
<1>1. R!Next \/ UNCHANGED rVars
  BY DEF Next, vars
<1>2. PromotionInv'
  BY PromotionOfSystem DEF DecisionTypes
<1>3. CASE UNCHANGED rVars
  BY <1>2, <1>3 DEF rVars, DecisionTypes, At
<1>4. CASE R!Age
  <2>1. UNCHANGED <<request, mishaps>> /\ decisions' \subseteq decisions
    BY <1>4 DEF R!Age, R!Finish, R!PurgeRun
  <2>2. promotions' = [r \in RunIds |-> promotions'[r]]
    BY <1>4 DEF R!Age, R!Finish, R!PurgeRun, DecisionTypes
  <2> QED BY <1>2, <2>1, <2>2 DEF DecisionTypes, At
<1> QED BY <1>1, <1>2, <1>3, <1>4, DecisionJudges, DecisionPromotes DEF R!Next

LEMMA DecisionInit ==
    ASSUME R!Init
    PROVE  DecisionTypes
BY PromotionInit, BoundsAssumption DEF R!Init, DecisionTypes, At

LEMMA DecisionsTyped ==
    ASSUME DecisionTypes
    PROVE  R!TypeOK
<1>1. \A n \in 1 .. stamp : n \in 1 .. MaxStamps
  BY PromotionAssumption DEF DecisionTypes, PromotionInv, PromotionTypes
<1>2. ASSUME NEW p \in Owners
      PROVE  \/ request[p] = AtRest
             \/ request[p] \in [step : {"decide"}, row : R!DecisionRow]
             \/ request[p] \in [step : {"claim", "store", "release"}, run : RunIds, by : Promoters, task : 1 .. MaxStamps]
  <2>1. CASE request[p] # AtRest /\ ~At(p, {"decide"})
    <3>1. request[p] \in [step : {"claim", "store", "release"}, run : RunIds, by : Promoters, task : 1 .. stamp]
      BY <2>1 DEF DecisionTypes, PromotionInv, PromotionTypes
    <3> QED BY <1>1, <3>1
  <2> QED BY <2>1 DEF DecisionTypes
<1>3. /\ promotions \in [RunIds -> 1 .. MaxStamps \cup {NoTask}]
      /\ tasks \subseteq [run : RunIds, by : Promoters, task : 1 .. MaxStamps]
      /\ runs \in [RunIds -> RunRecords] /\ stamp \in 0 .. MaxStamps
  <2>1. /\ promotions = [r \in RunIds |-> promotions[r]] /\ \A r \in RunIds : promotions[r] \in 1 .. stamp \cup {NoTask}
        /\ tasks \subseteq [run : RunIds, by : Promoters, task : 1 .. stamp]
        /\ runs \in [RunIds -> RunRecords] /\ stamp \in 0 .. MaxStamps
    BY DEF DecisionTypes, PromotionInv, PromotionTypes
  <2> QED BY <1>1, <2>1
<1> QED BY <1>2, <1>3 DEF DecisionTypes, Mishaps, R!TypeOK, RunRecords
-----------------------------------------------------------------------------
(*                Type correctness: accounts and sessions                  *)

AccountRows == [status : {Unset, "pending", "approved", "rejected"}, role : I!Roles \cup {Unset},
                secret : BOOLEAN, confirmed : BOOLEAN, last : 0 .. LastStep, subject : Subjects \cup {Unset}]
SessionRows == [id : 1 .. MaxSessions, phone : Phones, revoked : BOOLEAN,
                scope : {"full", "totp_enrollment", "sso_pending"}, state : 0 .. MaxStates]
Asked(x) == x # NoRequest => x.phone \in Phones /\ (x.doing = "sso" => x.subject \in Subjects)

TablesTyped ==
    /\ accounts \in [Phones -> AccountRows]
    /\ failures \in [Phones -> 0 .. MaxFailures]
    /\ sessions \subseteq SessionRows /\ IsFiniteSet(sessions)
    /\ begun \in 0 .. MaxStates

\* What a request has read names a phone, and a sign-on an identity.
AccountTypes ==
    /\ AccountInv /\ TablesTyped
    /\ \A q \in Requests : Asked(copy[q])

-----------------------------------------------------------------------------
(*                              What is written                            *)

LEMMA RowsChange ==
    ASSUME NEW a \in AccountRows
    PROVE  /\ \A n \in 1 .. LastStep : [a EXCEPT !.last = n] \in AccountRows
           /\ \A who \in Subjects : [a EXCEPT !.subject = who] \in AccountRows
           /\ [a EXCEPT !.status = "rejected"] \in AccountRows
           /\ \A r \in I!Roles : Approved(a, r) \in AccountRows
<1>1. \A n \in 1 .. LastStep : n \in 0 .. LastStep
  BY BoundsAssumption
<1> QED BY <1>1 DEF AccountRows, Approved

LEMMA CodesChange ==
    ASSUME NEW a \in AccountRows
    PROVE  /\ Coded(a, TRUE, FALSE, 0) \in AccountRows /\ Coded(a, FALSE, FALSE, 0) \in AccountRows
           /\ \A n \in 1 .. LastStep : InForce(a, n) \in AccountRows
<1>1. 0 \in 0 .. LastStep /\ \A n \in 1 .. LastStep : n \in 0 .. LastStep
  BY BoundsAssumption
<1> QED BY <1>1 DEF AccountRows, Coded, InForce

LEMMA OneAccount ==
    ASSUME TablesTyped, NEW phone \in Phones, NEW a \in AccountRows, accounts' = [accounts EXCEPT ![phone] = a]
    PROVE  accounts' \in [Phones -> AccountRows]
BY DEF TablesTyped

\* A request goes on, or rests.
LEMMA AsksOn ==
    ASSUME AccountTypes, AccountInv', TablesTyped', NEW q \in Requests, NEW x, copy' = [copy EXCEPT ![q] = x], Asked(x)
    PROVE  AccountTypes'
<1>1. DOMAIN copy = Requests
  BY DEF AccountTypes, AccountInv, StatesOK
<1>2. ASSUME NEW u \in Requests PROVE Asked(copy'[u])
  <2>1. CASE u = q
    BY <1>1, <2>1
  <2>2. CASE u # q
    <3>1. copy'[u] = copy[u]
      BY <1>1, <2>2
    <3> QED BY <3>1 DEF AccountTypes
  <2> QED BY <2>1, <2>2
<1> QED BY <1>2 DEF AccountTypes, Asked

LEMMA NobodyAsks ==
    ASSUME AccountTypes, AccountInv', TablesTyped', copy' = copy
    PROVE  AccountTypes'
BY DEF AccountTypes, Asked

LEMMA SameCount ==
    ASSUME NEW set
    PROVE  I!Cardinality(set) = Cardinality(set)
BY Zenon DEF I!Cardinality, Cardinality

\* A session is issued while there is room for one.
LEMMA IssuesTyped ==
    ASSUME TablesTyped, NEW phone \in Phones, NEW scope \in {"full", "totp_enrollment", "sso_pending"},
           NEW state \in 0 .. MaxStates, I!Issue(phone, scope, state)
    PROVE  sessions' \subseteq SessionRows /\ IsFiniteSet(sessions')
<1>1. PICK n : n = Cardinality(sessions)
  OBVIOUS
<1>2. IsFiniteSet(sessions) /\ n \in Nat
  BY <1>1, FS_CardinalityType DEF TablesTyped
<1>3. I!Cardinality(sessions) = n
  BY <1>1, SameCount
<1>4. n < MaxSessions
  BY <1>3 DEF I!Issue
<1>5. n + 1 \in 1 .. MaxSessions
  BY <1>2, <1>4, BoundsAssumption
<1>6. PICK new : new = [id |-> n + 1, phone |-> phone, scope |-> scope, state |-> state, revoked |-> FALSE]
  OBVIOUS
<1>7. sessions' = sessions \cup {new}
  BY <1>3, <1>6 DEF I!Issue
<1>8. new \in SessionRows
  BY <1>5, <1>6 DEF SessionRows
<1>9. IsFiniteSet(sessions \cup {new})
  BY <1>2, FS_AddElement
<1> QED BY <1>7, <1>8, <1>9 DEF TablesTyped

-----------------------------------------------------------------------------
(*                                The steps                                *)

LEMMA RegistersTyped ==
    ASSUME AccountTypes, AccountInv', I!Register
    PROVE  AccountTypes'
<1>0. TablesTyped
  BY DEF AccountTypes
<1>1. ASSUME NEW q \in Requests, I!AddAccount(q)
      PROVE  AccountTypes'
  <2>1. PICK phone : phone = copy[q].phone
    OBVIOUS
  <2>2. phone \in Phones
    BY <1>1, <2>1 DEF I!AddAccount, I!Doing, AccountTypes, Asked
  <2>3. PICK entry : entry \in {[I!Absent EXCEPT !.status = "pending"], [I!Absent EXCEPT !.status = "approved", !.role = "super_admin"]}
                   /\ accounts' = IF accounts[phone] # I!Absent THEN accounts ELSE [accounts EXCEPT ![phone] = entry]
    BY <1>1, <2>1, Zenon DEF I!AddAccount
  <2>4. entry \in AccountRows
    <3>1. I!Absent \in AccountRows /\ "super_admin" \in I!Roles
      BY BoundsAssumption DEF AccountRows, I!Absent, I!Roles
    <3>2. PICK a : a = I!Absent
      OBVIOUS
    <3>3. [a EXCEPT !.status = "pending"] \in AccountRows
      BY <3>1, <3>2 DEF AccountRows
    <3>4. [a EXCEPT !.status = "approved", !.role = "super_admin"] \in AccountRows
      BY <3>1, <3>2 DEF AccountRows
    <3> QED BY <2>3, <3>2, <3>3, <3>4
  <2>5. accounts' \in [Phones -> AccountRows]
    BY <1>0, <2>2, <2>3, <2>4, OneAccount DEF TablesTyped
  <2>6. UNCHANGED <<failures, begun, sessions>> /\ copy' = [copy EXCEPT ![q] = NoRequest]
    BY <1>1 DEF I!AddAccount, I!Done
  <2>7. TablesTyped'
    BY <1>0, <2>5, <2>6 DEF TablesTyped
  <2> QED BY <2>6, <2>7, AsksOn DEF Asked
<1>2. ASSUME NEW q \in Requests, NEW phone \in Phones, I!RegistrationReads(q, phone)
      PROVE  AccountTypes'
  <2>1. PICK pending : copy' = [copy EXCEPT ![q] = [doing |-> "register", phone |-> phone, pending |-> pending]]
    BY <1>2, Zenon DEF I!RegistrationReads
  <2>2. PICK x : x.doing = "register" /\ x.phone = phone /\ copy' = [copy EXCEPT ![q] = x]
    BY <2>1
  <2>3. UNCHANGED <<accounts, failures, begun, sessions>>
    BY <1>2 DEF I!RegistrationReads
  <2>4. TablesTyped'
    BY <1>0, <2>3 DEF TablesTyped
  <2> QED BY <2>2, <2>4, AsksOn DEF Asked
<1>3. ASSUME NEW phone \in Phones, I!Reject(phone)
      PROVE  AccountTypes'
  <2>1. PICK entry : entry = [accounts[phone] EXCEPT !.status = "rejected"]
    OBVIOUS
  <2>2. accounts' = [accounts EXCEPT ![phone] = entry] /\ UNCHANGED <<failures, begun, sessions, copy>>
    BY <1>3, <2>1 DEF I!Reject
  <2>3. entry \in AccountRows
    BY <1>0, <2>1, RowsChange DEF TablesTyped
  <2>4. TablesTyped'
    BY <1>0, <2>2, <2>3, OneAccount DEF TablesTyped
  <2> QED BY <2>2, <2>4, NobodyAsks
<1>4. ASSUME NEW phone \in Phones, NEW role \in ReviewedRoles, I!Approve(phone, role)
      PROVE  AccountTypes'
  <2>1. PICK entry : entry = Approved(accounts[phone], role)
    OBVIOUS
  <2>2. accounts' = [accounts EXCEPT ![phone] = entry]
    <3>1. accounts' = [accounts EXCEPT ![phone] = Approved(accounts[phone], role)]
      BY <1>4, Zenon DEF I!Approve, Approved
    <3> QED BY <2>1, <3>1
  <2>3. UNCHANGED <<failures, begun, sessions, copy>>
    BY <1>4 DEF I!Approve
  <2>4. entry \in AccountRows
    BY <1>0, <2>1, RowsChange, BoundsAssumption DEF TablesTyped
  <2>5. TablesTyped'
    BY <1>0, <2>2, <2>3, <2>4, OneAccount DEF TablesTyped
  <2> QED BY <2>3, <2>5, NobodyAsks
<1> QED BY <1>1, <1>2, <1>3, <1>4 DEF I!Register

\* A failure is counted up to the bound.
LEMMA FailuresTyped ==
    ASSUME TablesTyped, NEW phone \in Phones, NEW n \in {0, failures[phone], failures[phone] + 1},
           n <= MaxFailures, failures' = [failures EXCEPT ![phone] = n]
    PROVE  failures' \in [Phones -> 0 .. MaxFailures]
<1>1. n \in 0 .. MaxFailures
  BY BoundsAssumption DEF TablesTyped
<1> QED BY <1>1 DEF TablesTyped

LEMMA CountsTyped ==
    ASSUME TablesTyped, NEW phone \in Phones, I!CountFailure(phone)
    PROVE  failures' \in [Phones -> 0 .. MaxFailures]
<1>1. PICK n : n = IF failures[phone] < MaxFailures THEN failures[phone] + 1 ELSE failures[phone]
  OBVIOUS
<1>2. failures' = [failures EXCEPT ![phone] = n]
  BY <1>1 DEF I!CountFailure
<1>3. failures[phone] \in 0 .. MaxFailures
  BY DEF TablesTyped
<1>4. n \in 0 .. MaxFailures
  BY <1>1, <1>3, BoundsAssumption
<1> QED BY <1>2, <1>4 DEF TablesTyped

LEMMA ClearsTyped ==
    ASSUME TablesTyped, NEW phone \in Phones,
           failures' = failures \/ failures' = [failures EXCEPT ![phone] = 0]
    PROVE  failures' \in [Phones -> 0 .. MaxFailures]
BY BoundsAssumption DEF TablesTyped

LEMMA LogsIn ==
    ASSUME AccountTypes, AccountInv', NEW q \in Requests,
           \/ \E phone \in Phones : I!LoginReads(q, phone)
           \/ I!LoginFails(q)
           \/ \E step \in 1 .. LastStep : I!LoginSucceeds(q, step)
    PROVE  AccountTypes'
<1>0. TablesTyped
  BY DEF AccountTypes
<1>1. ASSUME NEW phone \in Phones, I!LoginReads(q, phone)
      PROVE  AccountTypes'
  <2>1. PICK x : /\ x = [doing |-> "login", phone |-> phone, account |-> accounts[phone]]
                 /\ copy' = [copy EXCEPT ![q] = x]
    BY <1>1 DEF I!LoginReads
  <2>2. TablesTyped' /\ x.doing = "login" /\ x.phone = phone
    BY <1>0, <1>1, <2>1 DEF I!LoginReads, TablesTyped
  <2> QED BY <2>1, <2>2, AsksOn DEF Asked
<1>2. ASSUME I!LoginFails(q)
      PROVE  AccountTypes'
  <2>1. copy[q].phone \in Phones
    BY <1>2 DEF I!LoginFails, I!Doing, AccountTypes, Asked
  <2>2. /\ I!CountFailure(copy[q].phone) /\ copy' = [copy EXCEPT ![q] = NoRequest]
        /\ UNCHANGED <<accounts, begun, sessions>>
    BY <1>2 DEF I!LoginFails, I!Done
  <2>3. failures' \in [Phones -> 0 .. MaxFailures]
    BY <1>0, <2>1, <2>2, CountsTyped
  <2>4. TablesTyped'
    BY <1>0, <2>2, <2>3 DEF TablesTyped
  <2> QED BY <2>2, <2>4, AsksOn DEF Asked
<1>3. ASSUME NEW step \in 1 .. LastStep, I!LoginSucceeds(q, step)
      PROVE  AccountTypes'
  <2>1. PICK phone : phone = copy[q].phone
    OBVIOUS
  <2>2. phone \in Phones
    BY <1>3, <2>1 DEF I!LoginSucceeds, I!Doing, AccountTypes, Asked
  <2>3. PICK entry : entry = [accounts[phone] EXCEPT !.last = step]
    OBVIOUS
  <2>4. accounts' = accounts \/ accounts' = [accounts EXCEPT ![phone] = entry]
    BY <1>3, <2>1, <2>3 DEF I!LoginSucceeds
  <2>5. entry \in AccountRows
    BY <1>0, <2>2, <2>3, RowsChange DEF TablesTyped
  <2>6. accounts' \in [Phones -> AccountRows]
    BY <1>0, <2>2, <2>4, <2>5, OneAccount DEF TablesTyped
  <2>7. failures' = failures \/ failures' = [failures EXCEPT ![phone] = 0]
    BY <1>3, <2>1 DEF I!LoginSucceeds
  <2>8. PICK scope \in {"full", "totp_enrollment", "sso_pending"} : I!Issue(phone, scope, 0)
    BY <1>3, <2>1 DEF I!LoginSucceeds
  <2>9. sessions' \subseteq SessionRows /\ IsFiniteSet(sessions')
    <3>1. 0 \in 0 .. MaxStates
      BY BoundsAssumption
    <3> QED BY <1>0, <2>2, <2>8, <3>1, IssuesTyped
  <2>10. begun' = begun /\ copy' = [copy EXCEPT ![q] = NoRequest]
    BY <1>3 DEF I!LoginSucceeds, I!Done
  <2>11. failures' \in [Phones -> 0 .. MaxFailures]
    BY <1>0, <2>2, <2>7, ClearsTyped
  <2>12. TablesTyped'
    BY <1>0, <2>6, <2>9, <2>10, <2>11 DEF TablesTyped
  <2> QED BY <2>10, <2>12, AsksOn DEF Asked
<1> QED BY <1>1, <1>2, <1>3

LEMMA SignsOn ==
    ASSUME AccountTypes, AccountInv', NEW q \in Requests,
           \/ \E state \in ssoStates, phone \in Phones, who \in Subjects : I!ConsumeState(q, state, phone, who)
           \/ I!CompleteSso(q)
    PROVE  AccountTypes'
<1>0. TablesTyped
  BY DEF AccountTypes
<1>1. ASSUME NEW state \in ssoStates, NEW phone \in Phones, NEW who \in Subjects, I!ConsumeState(q, state, phone, who)
      PROVE  AccountTypes'
  <2>1. PICK x : /\ x = [doing |-> "sso", phone |-> phone, subject |-> who, state |-> state, account |-> accounts[phone]]
                 /\ copy' = [copy EXCEPT ![q] = x]
    BY <1>1 DEF I!ConsumeState
  <2>2. TablesTyped' /\ x.subject = who /\ x.phone = phone
    BY <1>0, <1>1, <2>1 DEF I!ConsumeState, TablesTyped
  <2> QED BY <2>1, <2>2, AsksOn DEF Asked
<1>2. ASSUME I!CompleteSso(q)
      PROVE  AccountTypes'
  <2>1. PICK phone, who, state : phone = copy[q].phone /\ who = copy[q].subject /\ state = copy[q].state
    OBVIOUS
  <2>2. phone \in Phones /\ who \in Subjects
    BY <1>2, <2>1 DEF I!CompleteSso, I!Doing, AccountTypes, Asked
  <2>3. state \in 0 .. MaxStates
    BY <1>2, <2>1, BoundsAssumption DEF I!CompleteSso, AccountTypes, AccountInv, StatesOK, TablesTyped
  <2>4. PICK entry : entry = [accounts[phone] EXCEPT !.subject = who]
    OBVIOUS
  <2>5. accounts' = accounts \/ accounts' = [accounts EXCEPT ![phone] = entry]
    BY <1>2, <2>1, <2>4 DEF I!CompleteSso
  <2>6. entry \in AccountRows
    BY <1>0, <2>2, <2>4, RowsChange DEF TablesTyped
  <2>7. accounts' \in [Phones -> AccountRows]
    BY <1>0, <2>2, <2>5, <2>6, OneAccount DEF TablesTyped
  <2>8. UNCHANGED sessions \/ \E scope \in {"full", "sso_pending"} : I!Issue(phone, scope, state)
    BY <1>2, <2>1 DEF I!CompleteSso
  <2>9. sessions' \subseteq SessionRows /\ IsFiniteSet(sessions')
    BY <1>0, <2>2, <2>3, <2>8, IssuesTyped DEF TablesTyped
  <2>10. UNCHANGED <<failures, begun>> /\ copy' = [copy EXCEPT ![q] = NoRequest]
    BY <1>2 DEF I!CompleteSso, I!Done
  <2>11. TablesTyped'
    BY <1>0, <2>7, <2>9, <2>10 DEF TablesTyped
  <2> QED BY <2>10, <2>11, AsksOn DEF Asked
<1> QED BY <1>1, <1>2

LEMMA SignsInTyped ==
    ASSUME AccountTypes, AccountInv', I!SignIn
    PROVE  AccountTypes'
<1>0. TablesTyped
  BY DEF AccountTypes
<1>1. CASE I!BeginSsoLogin
  <2>1. begun < MaxStates /\ begun' = begun + 1 /\ UNCHANGED <<accounts, failures, sessions, copy>>
    BY <1>1 DEF I!BeginSsoLogin
  <2>2. begun' \in 0 .. MaxStates
    BY <1>0, <2>1, BoundsAssumption DEF TablesTyped
  <2>3. TablesTyped'
    BY <1>0, <2>1, <2>2 DEF TablesTyped
  <2> QED BY <2>1, <2>3, NobodyAsks
<1>2. ASSUME NEW s \in sessions, NEW step \in 1 .. LastStep, I!VerifySsoTotp(s, step)
      PROVE  AccountTypes'
  <2>1. PICK phone : phone = s.phone
    OBVIOUS
  <2>2. s \in SessionRows
    BY <1>0 DEF TablesTyped
  <2>3. phone \in Phones
    BY <2>1, <2>2 DEF SessionRows
  <2>4. begun' = begun /\ copy' = copy
    BY <1>2 DEF I!VerifySsoTotp
  <2>5. CASE I!CountFailure(phone) /\ UNCHANGED <<accounts, sessions>>
    <3>1. failures' \in [Phones -> 0 .. MaxFailures]
      BY <1>0, <2>3, <2>5, CountsTyped
    <3>2. TablesTyped'
      BY <1>0, <2>4, <2>5, <3>1 DEF TablesTyped
    <3> QED BY <2>4, <3>2, NobodyAsks
  <2>6. CASE ~(I!CountFailure(phone) /\ UNCHANGED <<accounts, sessions>>)
    <3>1. PICK entry : entry = [accounts[phone] EXCEPT !.last = step]
      OBVIOUS
    <3>2. /\ accounts' = [accounts EXCEPT ![phone] = entry] /\ failures' = [failures EXCEPT ![phone] = 0]
          /\ I!Issue(phone, "full", 0)
      BY <1>2, <2>1, <2>6, <3>1 DEF I!VerifySsoTotp
    <3>3. entry \in AccountRows
      BY <1>0, <2>3, <3>1, RowsChange DEF TablesTyped
    <3>4. accounts' \in [Phones -> AccountRows]
      BY <1>0, <2>3, <3>2, <3>3, OneAccount
    <3>5. 0 \in 0 .. MaxStates
      BY BoundsAssumption
    <3>6. sessions' \subseteq SessionRows /\ IsFiniteSet(sessions')
      BY <1>0, <2>3, <3>2, <3>5, IssuesTyped
    <3>7. failures' \in [Phones -> 0 .. MaxFailures]
      BY <1>0, <2>3, <3>2, ClearsTyped
    <3>8. TablesTyped'
      BY <1>0, <2>4, <3>4, <3>6, <3>7 DEF TablesTyped
    <3> QED BY <2>4, <3>8, NobodyAsks
  <2> QED BY <2>5, <2>6
<1>3. ASSUME NEW phone \in Phones, I!LockExpires(phone)
      PROVE  AccountTypes'
  <2>1. UNCHANGED <<accounts, begun, sessions, copy>> /\ failures' = [failures EXCEPT ![phone] = 0]
    BY <1>3 DEF I!LockExpires
  <2>2. TablesTyped'
    BY <1>0, <2>1, ClearsTyped DEF TablesTyped
  <2> QED BY <2>1, <2>2, NobodyAsks
<1> QED BY <1>1, <1>2, <1>3, LogsIn, SignsOn DEF I!SignIn

LEMMA EnrolsTyped ==
    ASSUME AccountTypes, AccountInv', I!Enrol
    PROVE  AccountTypes'
<1>0. TablesTyped
  BY DEF AccountTypes
<1>1. ASSUME NEW phone \in Phones,
             I!StartTotp(phone) \/ I!ResetTotp(phone) \/ \E n \in 1 .. LastStep : I!ConfirmTotp(phone, n)
      PROVE  AccountTypes'
  <2>1. UNCHANGED <<failures, begun, sessions, copy>>
    BY <1>1 DEF I!StartTotp, I!ResetTotp, I!ConfirmTotp
  <2>0. accounts[phone] \in AccountRows
    BY <1>0 DEF TablesTyped
  <2>2. PICK entry \in AccountRows : accounts' = [accounts EXCEPT ![phone] = entry]
    <3>1. CASE I!StartTotp(phone)
      <4>1. accounts' = [accounts EXCEPT ![phone] = Coded(accounts[phone], TRUE, FALSE, 0)]
        BY <3>1, Zenon DEF I!StartTotp, Coded
      <4>2. Coded(accounts[phone], TRUE, FALSE, 0) \in AccountRows
        BY <2>0, CodesChange
      <4> QED BY <4>1, <4>2
    <3>2. CASE I!ResetTotp(phone)
      <4>1. accounts' = [accounts EXCEPT ![phone] = Coded(accounts[phone], FALSE, FALSE, 0)]
        BY <3>2, Zenon DEF I!ResetTotp, Coded
      <4>2. Coded(accounts[phone], FALSE, FALSE, 0) \in AccountRows
        BY <2>0, CodesChange
      <4> QED BY <4>1, <4>2
    <3>3. ASSUME NEW n \in 1 .. LastStep, I!ConfirmTotp(phone, n)
          PROVE  \E entry \in AccountRows : accounts' = [accounts EXCEPT ![phone] = entry]
      <4>1. accounts' = [accounts EXCEPT ![phone] = InForce(accounts[phone], n)]
        BY <3>3, Zenon DEF I!ConfirmTotp, InForce
      <4>2. InForce(accounts[phone], n) \in AccountRows
        BY <2>0, CodesChange
      <4> QED BY <4>1, <4>2
    <3> QED BY <1>1, <3>1, <3>2, <3>3
  <2>5. TablesTyped'
    BY <1>0, <2>1, <2>2, OneAccount DEF TablesTyped
  <2> QED BY <2>1, <2>5, NobodyAsks
<1>2. ASSUME NEW s \in sessions, I!Logout(s)
      PROVE  AccountTypes'
  <2>1. PICK t : t = [s EXCEPT !.revoked = TRUE]
    OBVIOUS
  <2>2. UNCHANGED <<accounts, failures, begun, copy>> /\ sessions' = (sessions \ {s}) \cup {t}
    BY <1>2, <2>1 DEF I!Logout
  <2>3. s \in SessionRows
    BY <1>0 DEF TablesTyped
  <2>4. t \in SessionRows
    BY <2>1, <2>3 DEF SessionRows
  <2>5. IsFiniteSet(sessions \ {s})
    BY <1>0, FS_Subset DEF TablesTyped
  <2>6. IsFiniteSet((sessions \ {s}) \cup {t})
    BY <2>5, FS_AddElement
  <2>7. TablesTyped'
    BY <1>0, <2>2, <2>4, <2>6 DEF TablesTyped
  <2> QED BY <2>2, <2>7, NobodyAsks
<1> QED BY <1>1, <1>2 DEF I!Enrol

LEMMA AccountTyped ==
    ASSUME AccountTypes, [Next]_vars
    PROVE  AccountTypes'
<1>1. I!Next \/ UNCHANGED iVars
  BY DEF Next, vars
<1>2. AccountInv'
  BY AccountOfSystem DEF AccountTypes
<1>3. CASE UNCHANGED iVars
  <2>1. UNCHANGED <<accounts, failures, begun, sessions, copy>>
    BY <1>3 DEF iVars
  <2>2. TablesTyped'
    BY <2>1 DEF TablesTyped, AccountTypes
  <2> QED BY <1>2, <2>1, <2>2, NobodyAsks
<1> QED BY <1>1, <1>2, <1>3, RegistersTyped, SignsInTyped, EnrolsTyped DEF I!Next

LEMMA AccountTypesInit ==
    ASSUME I!Init
    PROVE  AccountTypes
<1>1. AccountInv
  BY AccountInit
<1>2. I!Absent \in AccountRows
  BY BoundsAssumption DEF I!Absent, AccountRows
<1>3. /\ accounts = [p \in Phones |-> I!Absent] /\ failures = [p \in Phones |-> 0] /\ begun = 0 /\ sessions = {}
      /\ copy = [q \in Requests |-> NoRequest]
  BY DEF I!Init
<1>4. TablesTyped
  BY <1>2, <1>3, FS_EmptySet, BoundsAssumption DEF TablesTyped
<1> QED BY <1>1, <1>3, <1>4 DEF AccountTypes, Asked

LEMMA AccountsTyped ==
    ASSUME AccountTypes
    PROVE  I!TypeOK
BY DEF AccountTypes, AccountInv, AccountsOK, StatesOK, TablesTyped, I!TypeOK, AccountRows, SessionRows
-----------------------------------------------------------------------------
(*                Type correctness: processes that come up                 *)

\* Where the processes and the threads of the worker are.
PlacesTyped ==
    /\ settings \in Deployments
    /\ lock \in Instances \cup {Nobody}
    /\ place \in [Instances -> 0 .. 24]
    /\ slots \subseteq A!SlotNames
    /\ mind \in [Threads -> {"idle", "wait", "build", "run"}]
    /\ key \in Threads \cup {Nobody}

\* What a refused stage would have built is not recorded.
BuiltTyped == \A p \in Instances : \A i \in 1 .. Len(built[p]) : built[p][i] # "refused"

AssemblyTypes == AssemblyInv /\ PlacesTyped /\ BuiltTyped

LEMMA UpTo ==
    ASSUME NEW m \in Nat
    PROVE  IsFiniteSet(1 .. m) /\ Cardinality(1 .. m) = m
<1>1. IsFiniteSet(1 .. m)
  BY FS_Interval
<1>2. Cardinality(1 .. m) = IF 1 > m THEN 0 ELSE m - 1 + 1
  BY FS_Interval
<1> QED BY <1>1, <1>2

LEMMA SlotsLeft ==
    ASSUME slots \subseteq A!SlotNames, slots # A!SlotNames
    PROVE  A!Order[A!Cardinality(slots) + 1] \in A!SlotNames
<1>1. DOMAIN A!Order = 1 .. 7 /\ A!SlotNames = {A!Order[i] : i \in 1 .. 7}
  BY DEF A!Order, A!SlotNames
<1>2. PICK f : f = [i \in 1 .. 7 |-> A!Order[i]]
  OBVIOUS
<1>3. f \in Surjection(1 .. 7, A!SlotNames)
  BY <1>1, <1>2 DEF Surjection
<1>4. IsFiniteSet(1 .. 7) /\ Cardinality(1 .. 7) = 7
  BY UpTo
<1>5. IsFiniteSet(A!SlotNames) /\ Cardinality(A!SlotNames) <= 7
  BY <1>3, <1>4, FS_Surjection
<1>6. PICK n : n = Cardinality(slots)
  OBVIOUS
<1>7. n \in Nat /\ n < Cardinality(A!SlotNames) /\ Cardinality(A!SlotNames) \in Nat
  <2>1. slots \in SUBSET A!SlotNames /\ slots # A!SlotNames
    OBVIOUS
  <2>2. IsFiniteSet(slots) /\ n <= Cardinality(A!SlotNames) /\ n # Cardinality(A!SlotNames)
    BY <1>5, <1>6, <2>1, FS_Subset
  <2>3. n \in Nat /\ Cardinality(A!SlotNames) \in Nat
    BY <1>5, <1>6, <2>2, FS_CardinalityType
  <2> QED BY <2>2, <2>3
<1>8. n + 1 \in 1 .. 7
  BY <1>5, <1>7
<1>9. A!Cardinality(slots) = n
  BY <1>6, Zenon DEF A!Cardinality, Cardinality
<1> QED BY <1>1, <1>8, <1>9

LEMMA BootsTyped ==
    ASSUME AssemblyTypes, AssemblyInv', A!Boot
    PROVE  AssemblyTypes'
<1>0. PlacesTyped /\ BuiltTyped
  BY DEF AssemblyTypes
<1>1. UNCHANGED <<settings, slots, mind, key>>
  BY DEF A!Boot, A!Start, A!BuildStage, A!Refuse, A!Dies, A!WorkerUnchanged
<1>2. ASSUME NEW p \in Instances, A!Start(p)
      PROVE  PlacesTyped' /\ BuiltTyped'
  <2>1. place' = [place EXCEPT ![p] = 1] /\ built' = [built EXCEPT ![p] = <<>>] /\ lock' = lock
    BY <1>2 DEF A!Start
  <2>2. PlacesTyped'
    BY <1>0, <1>1, <2>1 DEF PlacesTyped
  <2>3. BuiltTyped'
    BY <1>0, <2>1 DEF BuiltTyped, AssemblyTypes, AssemblyInv, PartsOK
  <2> QED BY <2>2, <2>3
<1>3. ASSUME NEW p \in Instances, A!BuildStage(p)
      PROVE  PlacesTyped' /\ BuiltTyped'
  <2>1. place[p] \in 1 .. 23 /\ place' = [place EXCEPT ![p] = @ + 1] /\ lock' = lock
    BY <1>3 DEF A!BuildStage, A!Stages
  <2>2. place[p] + 1 \in 0 .. 24
    BY <2>1
  <2>3. PlacesTyped'
    BY <1>0, <1>1, <2>1, <2>2 DEF PlacesTyped
  <2>4. PICK o : o = A!Outcomes[place[p]]
    OBVIOUS
  <2>5. o # "refused" /\ built' = [built EXCEPT ![p] = Append(built[p], o)] /\ o \in Outcomes
    BY <1>3, <2>4, StageIs DEF A!BuildStage
  <2>6. built = [q \in Instances |-> built[q]] /\ built[p] \in Seq(Outcomes)
    BY DEF AssemblyTypes, AssemblyInv, PartsOK
  <2>7. PICK list : list = Append(built[p], o)
    OBVIOUS
  <2>8. \A i \in 1 .. Len(list) : list[i] = o \/ (i \in 1 .. Len(built[p]) /\ list[i] = built[p][i])
    BY <2>5, <2>6, <2>7
  <2>9. \A i \in 1 .. Len(list) : list[i] # "refused"
    BY <1>0, <2>5, <2>8 DEF BuiltTyped
  <2>10. BuiltTyped'
    BY <1>0, <2>5, <2>6, <2>7, <2>9 DEF BuiltTyped
  <2> QED BY <2>3, <2>10
<1>4. ASSUME NEW p \in Instances, A!Refuse(p) \/ A!Dies(p)
      PROVE  PlacesTyped' /\ BuiltTyped'
  <2>1. place' = [place EXCEPT ![p] = 0] /\ built' = built /\ lock' \in {lock, Nobody}
    BY <1>4 DEF A!Refuse, A!Dies
  <2> QED BY <1>0, <1>1, <2>1 DEF PlacesTyped, BuiltTyped
<1>5. PlacesTyped' /\ BuiltTyped'
  BY <1>2, <1>3, <1>4 DEF A!Boot
<1> QED BY <1>5 DEF AssemblyTypes

LEMMA MigratesTyped ==
    ASSUME AssemblyTypes, AssemblyInv', A!Migrate
    PROVE  AssemblyTypes'
<1>1. UNCHANGED <<settings, place, built, slots, mind, key>>
  BY DEF A!Migrate, A!LockMigrations, A!ApplyMigration, A!CommitMigrations, A!WorkerUnchanged
<1>2. lock' \in Instances \cup {Nobody}
  BY DEF A!Migrate, A!LockMigrations, A!ApplyMigration, A!CommitMigrations, AssemblyTypes, PlacesTyped
<1> QED BY <1>1, <1>2 DEF AssemblyTypes, PlacesTyped, BuiltTyped

LEMMA WorksTyped ==
    ASSUME AssemblyTypes, AssemblyInv', A!Task
    PROVE  AssemblyTypes'
<1>1. UNCHANGED <<settings, lock, place, built>>
  BY DEF A!Task, A!EnsureRuntime, A!TakeLock, A!SetSlot, A!ReturnRuntime, A!RunTask, A!ApiUnchanged
<1>2. BuiltTyped'
  BY <1>1 DEF AssemblyTypes, BuiltTyped
<1>3. ASSUME NEW t \in Threads,
             A!EnsureRuntime(t) \/ A!TakeLock(t) \/ A!SetSlot(t) \/ A!ReturnRuntime(t) \/ A!RunTask(t)
      PROVE  PlacesTyped'
  <2>1. \/ mind' = mind
        \/ \E where \in {"idle", "wait", "build", "run"} : mind' = [mind EXCEPT ![t] = where]
    BY <1>3 DEF A!EnsureRuntime, A!TakeLock, A!SetSlot, A!ReturnRuntime, A!RunTask, A!Move
  <2>2. key' \in {key, t, Nobody}
    BY <1>3 DEF A!EnsureRuntime, A!TakeLock, A!SetSlot, A!ReturnRuntime, A!RunTask
  <2>3. slots' \subseteq A!SlotNames
    <3>1. CASE A!SetSlot(t)
      <4>1. slots # A!SlotNames /\ slots' = slots \cup {A!Order[A!Cardinality(slots) + 1]}
        BY <3>1 DEF A!SetSlot
      <4> QED BY <4>1, SlotsLeft DEF AssemblyTypes, PlacesTyped
    <3>2. CASE ~A!SetSlot(t)
      <4>1. slots' = slots
        BY <1>3, <3>2 DEF A!EnsureRuntime, A!TakeLock, A!ReturnRuntime, A!RunTask
      <4> QED BY <4>1 DEF AssemblyTypes, PlacesTyped
    <3> QED BY <3>1, <3>2
  <2>4. mind' \in [Threads -> {"idle", "wait", "build", "run"}]
    BY <2>1 DEF AssemblyTypes, PlacesTyped
  <2> QED BY <1>1, <2>2, <2>3, <2>4 DEF AssemblyTypes, PlacesTyped
<1>4. PlacesTyped'
  BY <1>3 DEF A!Task
<1> QED BY <1>2, <1>4 DEF AssemblyTypes

LEMMA AssemblyTyped ==
    ASSUME AssemblyTypes, [Next]_vars
    PROVE  AssemblyTypes'
<1>1. A!Boot \/ A!Migrate \/ A!Task \/ UNCHANGED aVars
  BY DEF Next, vars
<1>2. AssemblyInv'
  BY AssemblyOfSystem DEF AssemblyTypes
<1>3. CASE UNCHANGED aVars
  BY <1>2, <1>3 DEF aVars, AssemblyTypes, PlacesTyped, BuiltTyped
<1> QED BY <1>1, <1>2, <1>3, BootsTyped, MigratesTyped, WorksTyped

LEMMA AssemblyTypesInit ==
    ASSUME A!Init
    PROVE  AssemblyTypes
<1>1. AssemblyInv
  BY AssemblyInit
<1>2. PlacesTyped
  BY DEF A!Init, PlacesTyped
<1>3. BuiltTyped
  BY DEF A!Init, BuiltTyped
<1> QED BY <1>1, <1>2, <1>3 DEF AssemblyTypes

LEMMA ServersTyped ==
    ASSUME AssemblyTypes
    PROVE  A!TypeOK
<1>1. schema \in [1 .. Versions -> Nat] /\ draft \subseteq 1 .. Versions
  BY DEF AssemblyTypes, AssemblyInv, SchemaOK, A!Pending
<1>2. ASSUME NEW p \in Instances
      PROVE  A!Kinds(p) \subseteq {"durable", "file", "memory", "ready", "off"}
  <2>1. built[p] \in Seq(Outcomes)
    BY DEF AssemblyTypes, AssemblyInv, PartsOK
  <2>2. A!Kinds(p) = {built[p][i] : i \in 1 .. Len(built[p])}
    BY <2>1 DEF A!Kinds
  <2>3. \A i \in 1 .. Len(built[p]) : built[p][i] \in Outcomes /\ built[p][i] # "refused"
    BY <2>1 DEF AssemblyTypes, BuiltTyped
  <2> QED BY <2>2, <2>3 DEF Outcomes
<1>3. builds \in Nat
  BY DEF AssemblyTypes, AssemblyInv, WorkerOK
<1> QED BY <1>1, <1>2, <1>3 DEF AssemblyTypes, PlacesTyped, A!TypeOK, A!Serving
-----------------------------------------------------------------------------
(*                     Type correctness: runs                               *)

\* The plans the runs start with are plans, and short enough.
LEMMA PlansFit == \A plan \in MCPlans : plan \in Seq(L!Modes) /\ Len(plan) \in 1 .. MaxSteps
<1> SUFFICES ASSUME NEW plan \in MCPlans
             PROVE  plan \in Seq(L!Modes) /\ Len(plan) \in 1 .. MaxSteps
  OBVIOUS
<1>1. plan \in Seq(L!Modes) /\ Len(plan) \in 1 .. 2
  <2>1. PICK a, p, s, f : a = "auto" /\ p = "approve" /\ s = "skip" /\ f = "fail"
    OBVIOUS
  <2>2. {a, p, s, f} = L!Modes
    BY <2>1 DEF L!Modes
  <2>3. plan = <<p>> \/ plan = <<p, p>> \/ plan = <<a, p>> \/ plan = <<a, s>> \/ plan = <<a, f>>
    BY <2>1 DEF MCPlans
  <2>4. PICK Kinds : Kinds = L!Modes
    OBVIOUS
  <2>5. a \in Kinds /\ p \in Kinds /\ s \in Kinds /\ f \in Kinds
    BY <2>2, <2>4
  <2>6. plan \in Seq(Kinds) /\ Len(plan) \in 1 .. 2
    <3>1. CASE plan = <<p>>
      BY <2>5, <3>1
    <3>2. CASE plan = <<p, p>>
      BY <2>5, <3>2
    <3>3. CASE plan = <<a, p>>
      BY <2>5, <3>3
    <3>4. CASE plan = <<a, s>>
      BY <2>5, <3>4
    <3>5. CASE plan = <<a, f>>
      BY <2>5, <3>5
    <3> QED BY <2>3, <3>1, <3>2, <3>3, <3>4, <3>5
  <2> QED BY <2>4, <2>6
<1>2. Len(plan) <= MaxSteps /\ MaxSteps \in Nat
  BY BoundsAssumption, RunAssumption
<1> QED BY <1>1, <1>2

\* What the place of a thread says about the copy and argument it holds.
HandlerOK(h) ==
    /\ IF next[h] = "idle" THEN seen[h] = NoRun ELSE seen[h] \in L!State
    /\ next[h] \in {"result", "fail", "next"} =>
          L!Position(h) \in 1 .. Len(seen[h].plan)
    /\ next[h] = "request" => L!RequestId(seen[h]) \in L!Ids
    /\ next[h] \in {"decide", "reject", "tool", "close"} => deciding[h].id \in L!Ids

RunTypes == L!TypeOK /\ \A h \in Handlers : HandlerOK(h)

LEMMA PlansOfRuns ==
    ASSUME NEW s \in L!State
    PROVE  /\ Len(s.plan) \in 1 .. MaxSteps
           /\ 1 .. Len(s.plan) \subseteq L!Ids
           /\ \A i \in 1 .. Len(s.plan) : s.plan[i] \in L!Modes
<1>1. s.plan \in Seq(L!Modes) /\ Len(s.plan) \in 1 .. MaxSteps
  BY PlansFit DEF L!State
<1> QED
  BY <1>1, RunAssumption DEF L!Ids, L!MaxId

\* A thread that leaves, whatever was written to the stateRow before, owes nothing.
LEMMA RunLeft ==
    ASSUME RunTypes, NEW h \in Handlers, L!Leave(h),
           stateRow' \in L!State \cup {NoRun}, eventLog' \in Seq(L!Event),
           purgedEvents' \in 0 .. Len(eventLog')
    PROVE  RunTypes'
<1>1. L!TypeOK'
  BY DEF L!Leave, RunTypes, L!TypeOK, L!NoArg, L!Pcs
<1>2. ASSUME NEW k \in Handlers PROVE HandlerOK(k)'
  <2>1. CASE k = h
    BY <2>1 DEF L!Leave, RunTypes, L!TypeOK, HandlerOK
  <2>2. CASE k # h
    BY <2>2 DEF L!Leave, RunTypes, L!TypeOK, HandlerOK, L!Position, L!RequestId
  <2> QED BY <2>1, <2>2
<1> QED BY <1>1, <1>2 DEF RunTypes

\* One transaction of _emit keeps the types, and moves the thread to a place
\* the rest of the handler is entitled to.
LEMMA RunEmitted ==
    ASSUME RunTypes, NEW h \in Handlers, NEW s \in L!State, NEW e, NEW goes \in L!Pcs,
           e \in [type : L!EventTypes, ref : L!Ids \cup {L!NoId}, ok : BOOLEAN],
           L!Emit(h, s, e, goes),
           goes # "request", goes # "idle",
           goes \in {"result", "fail", "next"} => L!Position(h) \in 1 .. Len(s.plan),
           goes \in {"decide", "reject", "tool", "close"} => deciding[h].id \in L!Ids
    PROVE  RunTypes'
<1> DEFINE n == [s EXCEPT !.count = s.count + 1]
<1>0. n \in L!State /\ n.plan = s.plan
  BY DEF L!State
<1>1. CASE /\ eventLog' = Append(eventLog, [seq |-> s.count + 1, type |-> e.type,
                                  ref |-> e.ref, ok |-> e.ok])
           /\ stateRow' = n
           /\ seen' = [seen EXCEPT ![h] = n]
           /\ next' = [next EXCEPT ![h] = goes]
           /\ UNCHANGED <<purgedEvents, deciding>>
  <2>1. [seq |-> s.count + 1, type |-> e.type, ref |-> e.ref, ok |-> e.ok] \in L!Event
    BY DEF L!State, L!Event
  <2>2. eventLog' \in Seq(L!Event) /\ purgedEvents' \in 0 .. Len(eventLog')
    BY <1>1, <2>1 DEF RunTypes, L!TypeOK
  <2>3. L!TypeOK'
    BY <1>0, <1>1, <2>2 DEF RunTypes, L!TypeOK
  <2>4. ASSUME NEW k \in Handlers PROVE HandlerOK(k)'
    <3>1. CASE k = h
      <4>1. next'[k] = goes /\ seen'[k] = n /\ deciding'[k] = deciding[k]
        BY <1>1, <3>1 DEF RunTypes, L!TypeOK
      <4> HIDE DEF n
      <4> QED BY <1>0, <3>1, <4>1 DEF HandlerOK, L!Position
    <3>2. CASE k # h
      BY <1>1, <3>2 DEF RunTypes, L!TypeOK, HandlerOK, L!Position, L!RequestId
    <3> QED BY <3>1, <3>2
  <2> QED BY <2>3, <2>4 DEF RunTypes
<1>2. CASE L!Leave(h) /\ UNCHANGED L!store
  BY <1>2, RunLeft DEF L!store, RunTypes, L!TypeOK
<1> QED BY <1>1, <1>2 DEF L!Emit

LEMMA RunSaved ==
    ASSUME RunTypes, NEW h \in Handlers, NEW s \in L!State, L!Save(h, s)
    PROVE  RunTypes'
<1>1. [s EXCEPT !.saved = TRUE] \in L!State
  BY DEF L!State
<1> QED
  BY <1>1, RunLeft DEF L!Save, RunTypes, L!TypeOK

\* A request that has just read the stateRow.
LEMMA RunRead ==
    ASSUME RunTypes, NEW h \in Handlers, NEW op \in Ops, L!Read(h, op),
           deciding' \in [Handlers -> [id : L!Ids \cup {L!NoId}, ok : BOOLEAN]],
           \A k \in Handlers \ {h} : deciding'[k] = deciding[k],
           op = "request" => L!RequestId(stateRow) \in L!Ids,
           op = "decide" => deciding'[h].id \in L!Ids
    PROVE  RunTypes'
<1>1. op \in {"pause", "resume", "cancel", "request", "decide"}
  BY RunAssumption
<1>2. stateRow \in L!State
  BY DEF L!Read, RunTypes, L!TypeOK
<1>3. L!TypeOK'
  BY <1>1, <1>2 DEF L!Read, RunTypes, L!TypeOK, L!store, L!Pcs
<1>4. ASSUME NEW k \in Handlers PROVE HandlerOK(k)'
  <2>1. CASE k = h
    BY <1>1, <1>2, <2>1 DEF L!Read, RunTypes, L!TypeOK, HandlerOK, L!Position, L!RequestId
  <2>2. CASE k # h
    BY <2>2 DEF L!Read, RunTypes, L!TypeOK, HandlerOK, L!Position, L!RequestId
  <2> QED BY <2>1, <2>2
<1> QED BY <1>3, <1>4 DEF RunTypes

LEMMA RunTypesInit == L!Init => RunTypes
BY RunAssumption DEF L!Init, RunTypes, L!TypeOK, HandlerOK, L!NoArg, L!Pcs

LEMMA RunStarted ==
    ASSUME RunTypes, NEW h \in Handlers, L!StartRun(h)
    PROVE  RunTypes'
<1> USE DEF L!Say, L!NoId, L!EventTypes, L!Pcs
<1>0. next[h] # "idle" => /\ seen[h] \in L!State
                        /\ deciding[h] \in [id : L!Ids \cup {L!NoId}, ok : BOOLEAN]
                        /\ deciding[h].id \in Int
  BY RunAssumption DEF RunTypes, L!TypeOK, HandlerOK, L!Ids, L!MaxId
<1>1. ASSUME NEW plan \in MCPlans, L!Create(h, plan) PROVE RunTypes'
  <2>1. L!Fresh(plan) \in L!State
    BY DEF L!Fresh, L!State, L!Statuses, L!Verdicts
  <2>2. L!TypeOK'
    BY <1>1, <2>1 DEF L!Create, RunTypes, L!TypeOK
  <2>3. ASSUME NEW k \in Handlers PROVE HandlerOK(k)'
    <3>1. CASE k = h
      BY <1>1, <2>1, <3>1 DEF L!Create, RunTypes, L!TypeOK, HandlerOK
    <3>2. CASE k # h
      BY <1>1, <3>2 DEF L!Create, RunTypes, L!TypeOK, HandlerOK, L!Position, L!RequestId
    <3> QED BY <3>1, <3>2
  <2> QED BY <2>2, <2>3 DEF RunTypes
<1>2. CASE L!PlanCreated(h)
  BY <1>0, <1>2, RunEmitted DEF L!PlanCreated
<1>3. CASE L!StepStarted(h)
  <2>1. /\ seen[h] \in L!State
        /\ L!Position(h) \in 1 .. Len(seen[h].plan) /\ L!Position(h) \in L!Ids
    BY <1>0, <1>3, PlansOfRuns DEF L!StepStarted, L!AtStep, L!Position, L!Ids
  <2> QED
    BY <1>3, <2>1, RunEmitted DEF L!StepStarted
<1>4. CASE L!StepResult(h)
  <2> DEFINE counted == [seen[h] EXCEPT !.calls = @ + 1]
  <2>1. /\ seen[h] \in L!State
        /\ L!Position(h) \in 1 .. Len(seen[h].plan) /\ L!Position(h) \in L!Ids
        /\ L!Position(h) \in 1 .. MaxSteps
    BY <1>0, <1>4, PlansOfRuns, RunAssumption DEF L!StepResult, RunTypes, HandlerOK
  <2>2. counted \in L!State /\ counted.plan = seen[h].plan
    BY <2>1 DEF L!State
  <2>3. /\ [counted EXCEPT !.done = @ \cup {L!Position(h)}] \in L!State
        /\ [counted EXCEPT !.done = @ \cup {L!Position(h)}].plan = seen[h].plan
    BY <2>1, <2>2 DEF L!State
  <2>4. CASE L!Emit(h, counted, L!Say("tool.result", L!Position(h), FALSE), "fail")
    BY <2>1, <2>2, <2>4, RunEmitted
  <2>5. CASE L!Emit(h, [counted EXCEPT !.done = @ \cup {L!Position(h)}],
                  L!Say("tool.result", L!Position(h), TRUE), "next")
    <3> HIDE DEF counted
    <3> QED BY <2>1, <2>3, <2>5, RunEmitted
  <2> QED BY <1>4, <2>4, <2>5 DEF L!StepResult
<1>5. CASE L!StepFailed(h)
  <2>1. /\ seen[h] \in L!State /\ L!Position(h) \in L!Ids
    BY <1>0, <1>5, PlansOfRuns DEF L!StepFailed, RunTypes, HandlerOK
  <2>2. [seen[h] EXCEPT !.status = "failed"] \in L!State
    BY <2>1 DEF L!State, L!Statuses
  <2> QED BY <1>5, <2>1, <2>2, RunEmitted DEF L!StepFailed
<1>6. CASE L!StepNeedsApproval(h)
  <2> DEFINE s == [seen[h] EXCEPT !.approvals[L!Position(h)] = "pending"]
  <2>1. /\ seen[h] \in L!State
        /\ L!Position(h) \in 1 .. Len(seen[h].plan) /\ L!Position(h) \in L!Ids
    BY <1>0, <1>6, PlansOfRuns DEF L!StepNeedsApproval, L!AtStep, L!Position, L!Ids
  <2>2. s \in L!State /\ s.plan = seen[h].plan
    BY <2>1 DEF L!State, L!Verdicts
  <2>3. L!Emit(h, s, L!Say("approval.requested", L!Position(h), FALSE), "next")
    BY <1>6 DEF L!StepNeedsApproval
  <2> HIDE DEF s
  <2> QED BY <2>1, <2>2, <2>3, RunEmitted
<1>7. CASE L!NextStep(h)
  <2>1. /\ seen[h] \in L!State
        /\ L!Position(h) \in 1 .. Len(seen[h].plan) /\ L!Position(h) \in L!Ids
    BY <1>0, <1>7, PlansOfRuns DEF L!NextStep, L!AtStep, L!Position, L!Ids, RunTypes, HandlerOK
  <2>2. L!TypeOK'
    BY <1>0, <1>7, <2>1 DEF L!NextStep, L!Position, RunTypes, L!TypeOK
  <2>3. ASSUME NEW k \in Handlers PROVE HandlerOK(k)'
    <3>1. CASE k = h
      BY <1>7, <2>1, <3>1 DEF L!NextStep, RunTypes, L!TypeOK, HandlerOK
    <3>2. CASE k # h
      BY <1>7, <3>2 DEF L!NextStep, RunTypes, L!TypeOK, HandlerOK, L!Position, L!RequestId
    <3> QED BY <3>1, <3>2
  <2> QED BY <2>2, <2>3 DEF RunTypes
<1>8. CASE L!PlanDone(h)
  <2>1. seen[h] \in L!State /\ [seen[h] EXCEPT !.status = "completed"] \in L!State
    BY <1>0, <1>8 DEF L!PlanDone, L!State, L!Statuses
  <2>2. CASE L!Emit(h, [seen[h] EXCEPT !.status = "completed"],
                  L!Say("run.completed", L!NoId, TRUE), "save")
    BY <2>1, <2>2, RunEmitted
  <2>3. CASE L!Save(h, seen[h])
    BY <2>1, <2>3, RunSaved
  <2> QED BY <1>8, <2>2, <2>3 DEF L!PlanDone
<1> QED
  BY <1>1, <1>2, <1>3, <1>4, <1>5, <1>6, <1>7, <1>8 DEF L!StartRun

LEMMA RunOperated ==
    ASSUME RunTypes, NEW h \in Handlers, L!OperateRun(h)
    PROVE  RunTypes'
<1> USE DEF L!Say, L!NoId, L!EventTypes, L!Pcs
<1>0. next[h] # "idle" => /\ seen[h] \in L!State
                        /\ deciding[h] \in [id : L!Ids \cup {L!NoId}, ok : BOOLEAN]
  BY DEF RunTypes, L!TypeOK, HandlerOK
<1>1. ASSUME NEW op \in {"pause", "resume", "cancel"}, L!Intervene(h, op)
      PROVE  RunTypes'
  BY <1>1, RunRead DEF L!Intervene, L!Read, RunTypes, L!TypeOK
<1>2. CASE L!Pause(h)
  <2>1. [seen[h] EXCEPT !.status = "paused"] \in L!State
    BY <1>0, <1>2 DEF L!Pause, L!State, L!Statuses
  <2> QED BY <1>2, <2>1, RunEmitted DEF L!Pause
<1>3. CASE L!Resume(h)
  <2>1. [seen[h] EXCEPT !.status = "running"] \in L!State
    BY <1>0, <1>3 DEF L!Resume, L!State, L!Statuses
  <2> QED BY <1>3, <2>1, RunSaved DEF L!Resume
<1>4. CASE L!Cancel(h)
  <2>1. [seen[h] EXCEPT !.status = "cancelled"] \in L!State
    BY <1>0, <1>4 DEF L!Cancel, L!State, L!Statuses
  <2> QED BY <1>4, <2>1, RunEmitted DEF L!Cancel
<1>5. CASE L!BeginRequest(h)
  BY <1>5, RunRead DEF L!BeginRequest, L!Read, RunTypes, L!TypeOK
<1>6. CASE L!RequestApproval(h)
  <2>1. seen[h] \in L!State /\ L!RequestId(seen[h]) \in L!Ids
    BY <1>6 DEF L!RequestApproval, RunTypes, HandlerOK
  <2>2. CASE UNCHANGED L!store
    BY <1>6, <2>2, RunLeft DEF L!RequestApproval, L!store, RunTypes, L!TypeOK
  <2>3. CASE /\ eventLog' = Append(eventLog, [seq |-> seen[h].count + 1,
                                    type |-> "approval.requested",
                                    ref |-> L!RequestId(seen[h]), ok |-> FALSE])
             /\ stateRow' = [seen[h] EXCEPT !.count = @ + 1,
                                      !.approvals[L!RequestId(seen[h])] = "pending"]
             /\ UNCHANGED purgedEvents
    <3> DEFINE q == [seen[h] EXCEPT !.approvals[L!RequestId(seen[h])] = "pending"]
    <3>0. q \in L!State
      BY <2>1 DEF L!State, L!Verdicts
    <3>1. stateRow' \in L!State
      <4>1. stateRow' = [q EXCEPT !.count = seen[h].count + 1]
        BY <2>1, <2>3 DEF L!State
      <4>2. seen[h].count + 1 \in Nat
        BY <2>1 DEF L!State
      <4> HIDE DEF q
      <4> QED BY <3>0, <4>1, <4>2 DEF L!State
    <3>2. [seq |-> seen[h].count + 1, type |-> "approval.requested",
           ref |-> L!RequestId(seen[h]), ok |-> FALSE] \in L!Event
      BY <2>1 DEF L!State, L!Event
    <3>3. eventLog' \in Seq(L!Event) /\ purgedEvents' \in 0 .. Len(eventLog')
      BY <2>3, <3>2 DEF RunTypes, L!TypeOK
    <3> QED BY <1>6, <3>1, <3>3, RunLeft DEF L!RequestApproval
  <2> QED BY <1>6, <2>2, <2>3 DEF L!RequestApproval
<1>7. ASSUME NEW id \in L!Ids, NEW ok \in BOOLEAN, L!BeginDecide(h, id, ok)
      PROVE  RunTypes'
  BY <1>7, RunRead DEF L!BeginDecide, L!Read, RunTypes, L!TypeOK
<1>8. CASE L!Decide(h)
  <2> DEFINE s == [seen[h] EXCEPT !.approvals[deciding[h].id] =
                       IF deciding[h].ok THEN "approved" ELSE "rejected"]
  <2>1. seen[h] \in L!State /\ deciding[h].id \in L!Ids /\ deciding[h].ok \in BOOLEAN
    BY <1>0, <1>8 DEF L!Decide, RunTypes, HandlerOK
  <2>2. s \in L!State
    BY <2>1 DEF L!State, L!Verdicts
  <2>3. L!Emit(h, s, L!Say("approval.decided", deciding[h].id, deciding[h].ok),
             IF deciding[h].ok THEN "tool" ELSE "reject")
    BY <1>8 DEF L!Decide
  <2> HIDE DEF s
  <2> QED BY <2>1, <2>2, <2>3, RunEmitted
<1>9. CASE L!Reject(h)
  <2>1. [seen[h] EXCEPT !.status = "failed"] \in L!State /\ deciding[h].id \in L!Ids
    BY <1>0, <1>9 DEF L!Reject, L!State, L!Statuses, RunTypes, HandlerOK
  <2> QED BY <1>9, <2>1, RunEmitted DEF L!Reject
<1>10. CASE L!RunTool(h)
  <2> DEFINE s == [seen[h] EXCEPT !.calls = @ + 1, !.done = @ \cup {deciding[h].id}]
  <2>1. /\ seen[h] \in L!State /\ deciding[h].id \in L!Ids
        /\ deciding[h].id \in 1 .. MaxSteps
    BY <1>0, <1>10, PlansOfRuns, RunAssumption
    DEF L!RunTool, L!ToolDue, RunTypes, HandlerOK, L!Ids
  <2>2. s \in L!State
    <3> DEFINE q == [seen[h] EXCEPT !.done = @ \cup {deciding[h].id}]
    <3>1. q \in L!State
      BY <2>1 DEF L!State
    <3>2. s = [q EXCEPT !.calls = seen[h].calls + 1]
      BY <2>1 DEF L!State
    <3>3. seen[h].calls + 1 \in Nat
      BY <2>1 DEF L!State
    <3> HIDE DEF q, s
    <3> QED BY <3>1, <3>2, <3>3 DEF L!State
  <2>3. L!Emit(h, s, L!Say("tool.result", deciding[h].id, TRUE), "close")
    BY <1>10 DEF L!RunTool
  <2> HIDE DEF s
  <2> QED BY <2>1, <2>2, <2>3, RunEmitted
<1>11. CASE L!Close(h)
  <2>1. seen[h] \in L!State /\ [seen[h] EXCEPT !.status = "completed"] \in L!State
    BY <1>0, <1>11 DEF L!Close, L!State, L!Statuses
  <2>2. CASE L!Emit(h, [seen[h] EXCEPT !.status = "completed"],
                  L!Say("run.completed", L!NoId, TRUE), "save")
    BY <2>1, <2>2, RunEmitted
  <2>3. CASE L!Save(h, seen[h])
    BY <2>1, <2>3, RunSaved
  <2> QED BY <1>11, <2>2, <2>3 DEF L!Close
<1>12. CASE L!SaveCheckpoint(h)
  BY <1>0, <1>12, RunSaved DEF L!SaveCheckpoint
<1> QED
  BY <1>1, <1>2, <1>3, <1>4, <1>5, <1>6, <1>7, <1>8, <1>9, <1>10, <1>11, <1>12
  DEF L!OperateRun

LEMMA RunTyped == RunTypes /\ [L!Next]_lVars => RunTypes'
<1> SUFFICES ASSUME RunTypes, [L!Next]_lVars PROVE RunTypes'
  OBVIOUS
<1>1. ASSUME NEW h \in Handlers, L!Crash(h) PROVE RunTypes'
  BY <1>1, RunLeft DEF L!Crash, L!store, RunTypes, L!TypeOK
<1>2. CASE L!PurgeEvents
  <2>1. L!TypeOK'
    BY <1>2 DEF L!PurgeEvents, RunTypes, L!TypeOK
  <2>2. ASSUME NEW k \in Handlers PROVE HandlerOK(k)'
    BY <1>2 DEF L!PurgeEvents, RunTypes, HandlerOK, L!Position, L!RequestId
  <2> QED BY <2>1, <2>2 DEF RunTypes
<1>3. CASE UNCHANGED lVars
  BY <1>3 DEF lVars, RunTypes, L!TypeOK, HandlerOK, L!Position, L!RequestId
<1> QED
  BY <1>1, <1>2, <1>3, RunStarted, RunOperated DEF L!Next

-----------------------------------------------------------------------------
(*                     Type correctness: the whole                         *)

\* What every part knows of itself.
BusinessTypes ==
    /\ DealInv /\ PipelineInv /\ CareInv /\ ApprovalInv
    /\ DirectoryTypes /\ GatewayTypes /\ DecisionTypes
    /\ AccountTypes /\ RunTypes /\ AssemblyTypes

LEMMA BusinessTypesInit == Init => BusinessTypes
<1>1. SUFFICES ASSUME Init PROVE BusinessTypes
  OBVIOUS
<1>2. /\ D!Init /\ P!Init /\ C!Init /\ W!Init /\ T!Init /\ R!Init /\ I!Init
      /\ X!Init /\ L!Init /\ A!Init
  BY <1>1 DEF Init
<1>3. DealInv /\ PipelineInv /\ CareInv
  BY <1>2, DealInit, PipelineInit, CareInit
<1>4. ApprovalInv /\ RunTypes /\ AssemblyTypes
  BY <1>2, ApprovalStart, RunTypesInit, AssemblyTypesInit
<1>5. DirectoryTypes /\ GatewayTypes /\ DecisionTypes /\ AccountTypes
  BY <1>2, DirectoryInit, GatewayInit, DecisionInit, AccountTypesInit
<1> QED BY <1>3, <1>4, <1>5 DEF BusinessTypes

LEMMA BusinessTypesKept == BusinessTypes /\ [Next]_vars => BusinessTypes'
<1>1. SUFFICES ASSUME BusinessTypes, [Next]_vars PROVE BusinessTypes'
  OBVIOUS
<1>2. /\ DealInv /\ PipelineInv /\ CareInv /\ ApprovalInv
      /\ DirectoryTypes /\ GatewayTypes /\ DecisionTypes
      /\ AccountTypes /\ RunTypes /\ AssemblyTypes
  BY <1>1 DEF BusinessTypes
<1>3. DealInv' /\ PipelineInv' /\ CareInv'
  BY <1>1, <1>2, DealOfSystem, PipelineOfSystem, CareOfSystem
<1>4. ApprovalInv'
  BY <1>1, <1>2, ApprovalOfSystem, ApprovalStep, ApprovalUnchanged
<1>5. RunTypes'
  <2>1. L!Next \/ UNCHANGED lVars
    BY <1>1 DEF Next, vars
  <2> QED BY <1>2, <2>1, RunTyped
<1>6. DirectoryTypes' /\ GatewayTypes'
  BY <1>1, <1>2, DirectoryTyped, GatewayTyped
<1>7. DecisionTypes' /\ AccountTypes' /\ AssemblyTypes'
  BY <1>1, <1>2, DecisionTyped, AccountTyped, AssemblyTyped
<1> QED BY <1>3, <1>4, <1>5, <1>6, <1>7 DEF BusinessTypes

\* Every variable of every part keeps its type: the rows of deals, sales, care,
\* workforce, tasks and accounts are complete rows, a request carries whole
\* rows, and a counter stays within its bound.
THEOREM BusinessTyped == Spec => []TypeOK
<1>1. BusinessTypes => TypeOK
  <2>1. SUFFICES ASSUME BusinessTypes PROVE TypeOK
    OBVIOUS
  <2>2. /\ DealInv /\ PipelineInv /\ CareInv /\ ApprovalInv
        /\ DirectoryTypes /\ GatewayTypes /\ DecisionTypes
        /\ AccountTypes /\ RunTypes /\ AssemblyTypes
    BY <2>1 DEF BusinessTypes
  <2>3. D!TypeOK /\ P!TypeOK /\ C!TypeOK
    BY <2>2 DEF DealInv, PipelineInv, PipelineTypes, CareInv
  <2>4. X!TypeOK /\ L!TypeOK
    BY <2>2 DEF ApprovalInv, RunTypes
  <2>5. W!TypeOK /\ T!TypeOK
    BY <2>2, TokensTyped
  <2>6. R!TypeOK /\ I!TypeOK /\ A!TypeOK
    BY <2>2, DecisionsTyped, AccountsTyped, ServersTyped
  <2> QED BY <2>3, <2>4, <2>5, <2>6 DEF TypeOK
<1> QED BY <1>1, BusinessTypesInit, BusinessTypesKept, PTL DEF Spec
=============================================================================
