----------------------------- MODULE TurnTokens -----------------------------
(***************************************************************************)
(* The short-lived gateway token of a turn (one container execution of one *)
(* task): TurnTokenController mints it at the model gateway, records its   *)
(* binding in the workbench (TokenBindingStore), registers the turn as the *)
(* session's current execution (ActiveExecutionRegistry) and takes all of  *)
(* it back when the container ends.  A callback from the container is      *)
(* accepted when its token's binding is the session's current execution.   *)
(*                                                                         *)
(* The controller's lock covers open_turn from end to end but, of          *)
(* on_terminal, only the lookup of the run: retiring the session, dropping *)
(* the binding and revoking at the gateway are three steps anyone can      *)
(* interleave with.  The session is one task; its runs, and several tools  *)
(* of one run, execute at the same time.                                   *)
(***************************************************************************)
EXTENDS Naturals, FiniteSets

CONSTANTS Runs,           \* the runs of the task
          OrphanLimit,    \* tokens the gateway keeps before it stops minting
          MaxTurns,       \* tokens minted in a behaviour
          MaxRestarts,    \* restarts of the workbench process
          NoTurn,         \* _by_run has no entry for the run
          Free            \* nobody holds the controller's lock

VARIABLES registered,   \* generation of the current execution, 0 when there is none
          bound,        \* TokenBindingStore: tokens and the generation they are bound to
          gateway,      \* the gateway's TokenStore: live tokens and their bound label
          held,         \* TurnTokenController._by_run
          opening,      \* the open_turn that holds the lock, and how far it is
          closing,      \* the on_terminal calls under way
          running,      \* containers at work for each run
          minted,       \* tokens minted so far
          ended,        \* tokens whose turn is over and cleaned up, or was rolled back
          restarts

tokenVars == <<registered, bound, gateway, held, opening, closing, running, minted, ended, restarts>>

Token == 1 .. MaxTurns
Bound == [token : Token, generation : Token]

\* Keeps every token but those that carry this generation's label.
Without(tokens, generation) == {b \in tokens : b.generation # generation}

-----------------------------------------------------------------------------
(* open_turn *)

\* The run is popped from _by_run; the rest of on_terminal is still to do.
Pop(r, locked) ==
  /\ held' = [held EXCEPT ![r] = NoTurn]
  /\ closing' = closing \cup {[turn |-> held[r], step |-> "retire", locked |-> locked]}

\* open_turn takes the lock; a run entered twice is first cleaned up under it.
OpenTurn(r) ==
  /\ opening = Free
  /\ opening' = [run |-> r, token |-> 0, generation |-> 0]
  /\ IF held[r] = NoTurn THEN UNCHANGED <<held, closing>> ELSE Pop(r, TRUE)
  /\ UNCHANGED <<registered, bound, gateway, running, minted, ended, restarts>>

MayMint == /\ opening # Free
           /\ opening.token = 0
           /\ \A c \in closing : ~c.locked

\* The generation is one more than the current execution's; the gateway mints.
Mint ==
  /\ MayMint
  /\ minted < MaxTurns
  /\ Cardinality(gateway) < OrphanLimit
  /\ minted' = minted + 1
  /\ gateway' = gateway \cup {[token |-> minted', generation |-> registered + 1]}
  /\ \/ opening' = [opening EXCEPT !.token = minted', !.generation = registered + 1]
     \/ opening' = Free                          \* the answer is lost: an orphan stays behind
  /\ UNCHANGED <<registered, bound, held, closing, running, ended, restarts>>

\* The gateway has OrphanLimit tokens, refuses the secret or cannot be reached.
MintRefused ==
  /\ MayMint
  /\ opening' = Free
  /\ UNCHANGED <<registered, bound, gateway, held, closing, running, minted, ended, restarts>>

\* ActiveExecutionRegistry.register raises: not the first of its session, or not newer.
NotNewer(generation) == IF registered = 0 THEN generation # 1 ELSE generation <= registered

\* The binding is recorded and registered, and the container starts.
Register ==
  /\ opening # Free /\ opening.token # 0
  /\ ~NotNewer(opening.generation)
  /\ LET b == [token |-> opening.token, generation |-> opening.generation]
     IN  /\ bound' = bound \cup {b}
         /\ held' = [held EXCEPT ![opening.run] = b]
  /\ registered' = opening.generation
  /\ running' = [running EXCEPT ![opening.run] = @ + 1]
  /\ opening' = Free
  /\ UNCHANGED <<gateway, closing, minted, ended, restarts>>

\* Or the registration raises and the token is taken back, at the gateway if it answers.
RollBack ==
  /\ opening # Free /\ opening.token # 0
  /\ NotNewer(opening.generation)
  /\ bound' = {b \in bound : b.token # opening.token}
  /\ gateway' \in {gateway, Without(gateway, opening.generation)}
  /\ ended' = ended \cup {opening.token}
  /\ opening' = Free
  /\ UNCHANGED <<registered, held, closing, running, minted, restarts>>

-----------------------------------------------------------------------------
(* The container ends and on_terminal cleans up *)

\* ContainerExecutor.execute leaves its try block: _revoke_on_terminal pops the run's turn.
ContainerEnds(r) ==
  /\ running[r] > 0
  /\ opening = Free
  /\ running' = [running EXCEPT ![r] = @ - 1]
  /\ IF held[r] = NoTurn THEN UNCHANGED <<held, closing>> ELSE Pop(r, FALSE)
  /\ UNCHANGED <<registered, bound, gateway, opening, minted, ended, restarts>>

\* No container is made (orphan limit, Docker, a tool that runs in the process): nobody cleans up.
NeverStarts(r) ==
  /\ running[r] > 0
  /\ running' = [running EXCEPT ![r] = @ - 1]
  /\ UNCHANGED <<registered, bound, gateway, held, opening, closing, minted, ended, restarts>>

\* The next step of an on_terminal call, in the order the code makes them.
Retire(c) ==
  /\ c.step = "retire"
  /\ registered' = 0
  /\ closing' = (closing \ {c}) \cup {[c EXCEPT !.step = "unbind"]}
  /\ UNCHANGED <<bound, gateway, ended>>

\* Mutant: the binding stays.
RevokeNothing(c) ==
  /\ c.step = "unbind"
  /\ closing' = (closing \ {c}) \cup {[c EXCEPT !.step = "revoke"]}
  /\ UNCHANGED <<registered, bound, gateway, ended>>

RevokeBinding(c) ==
  /\ c.step = "unbind"
  /\ bound' = Without(bound, c.turn.generation)
  /\ closing' = (closing \ {c}) \cup {[c EXCEPT !.step = "revoke"]}
  /\ UNCHANGED <<registered, gateway, ended>>

GatewayRevoke(c) ==
  /\ c.step = "revoke"
  /\ gateway' \in {gateway, Without(gateway, c.turn.generation)}
  /\ ended' = ended \cup {c.turn.token}
  /\ closing' = closing \ {c}
  /\ UNCHANGED <<registered, bound>>

OnTerminal == \E c \in closing :
  /\ Retire(c) \/ RevokeBinding(c) \/ GatewayRevoke(c)
  /\ UNCHANGED <<held, opening, running, minted, restarts>>

-----------------------------------------------------------------------------
(* Around them *)

\* A token reaches the end of its life at the gateway.
Expire == /\ \E b \in gateway : gateway' = gateway \ {b}
          /\ UNCHANGED <<registered, bound, held, opening, closing, running, minted, ended, restarts>>

\* The workbench restarts: what it holds is in memory; the gateway's tokens stay.
Restart ==
  /\ restarts < MaxRestarts
  /\ restarts' = restarts + 1
  /\ registered' = 0 /\ bound' = {}
  /\ held' = [r \in Runs |-> NoTurn]
  /\ opening' = Free /\ closing' = {}
  /\ running' = [r \in Runs |-> 0]
  /\ UNCHANGED <<gateway, minted, ended>>

Init == /\ registered = 0 /\ bound = {} /\ gateway = {}
        /\ held = [r \in Runs |-> NoTurn]
        /\ opening = Free /\ closing = {}
        /\ running = [r \in Runs |-> 0]
        /\ minted = 0 /\ ended = {} /\ restarts = 0

Open == (\E r \in Runs : OpenTurn(r)) \/ Mint \/ MintRefused \/ Register \/ RollBack
Close == (\E r \in Runs : ContainerEnds(r) \/ NeverStarts(r)) \/ OnTerminal

Next == Open \/ Close \/ Expire \/ Restart

Spec == Init /\ [][Next]_tokenVars

-----------------------------------------------------------------------------
(* Properties *)

\* Every variable keeps the shape its store gives it.
TypeOK ==
  /\ registered \in 0 .. MaxTurns
  /\ bound \subseteq Bound
  /\ gateway \subseteq Bound
  /\ held \in [Runs -> Bound \cup {NoTurn}]
  /\ opening = Free \/ opening \in [run : Runs, token : 0 .. MaxTurns, generation : 0 .. MaxTurns]
  /\ closing \subseteq [turn : Bound, step : {"retire", "unbind", "revoke"}, locked : BOOLEAN]
  /\ running \in [Runs -> 0 .. MaxTurns]
  /\ minted \in 0 .. MaxTurns
  /\ ended \subseteq Token
  /\ restarts \in 0 .. MaxRestarts

\* WorkbenchCallbackGuard.authorize: the token's binding is the session's current execution.
Authorized(token) == \E b \in bound : b.token = token /\ b.generation = registered

\* The token of a turn that was cleaned up or rolled back is never authorized again, although
\* generations start over at one whenever the session is retired.
EndedTurnIsRefused == \A token \in ended : ~Authorized(token)

=============================================================================
