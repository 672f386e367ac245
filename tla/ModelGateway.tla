---------------------------- MODULE ModelGateway ----------------------------
(***************************************************************************)
(* The gateway between the containers and the supplier of the model: a     *)
(* threading HTTP server whose token store, rate limiter and meter have no *)
(* lock.  A thread scans the tokens for the one it was given, judges the   *)
(* rate of that token in two steps, reads the body, sends the request      *)
(* upstream, again if the transport fails, relays the answer and counts it *)
(* in two steps.  A body that cannot be read, a table that grows or        *)
(* shrinks under a scan, or an expired token somebody else has deleted,    *)
(* ends the request with an error.                                         *)
(***************************************************************************)
EXTENDS Naturals, FiniteSets, FiniteSetsExt

CONSTANTS Handlers,
          Tokens,        \* tokens that may be minted
          OrphanLimit,   \* orphan_token_limit
          RateLimit,     \* rate_limit_per_minute; 0 would switch the limiter off
          MaxRetries,    \* max_retries of the forwarder
          MaxRequests,   \* bound: requests in a behaviour,
          Presented,     \*        and the tokens they come with
          NoToken

VARIABLES tokens,    \* _tokens: those that are there
          expired,   \* tokens whose time is over, deleted or not
          spent,     \* tokens that were minted at some time
          count,     \* _windows: requests of the current window, by token
          meter,     \* totalRequests, denied, byStatus (all of it)
          at, doing, \* where a thread is; its token and what it has read
          requests,  \* requests so far
          admitted,  \* history: requests the limiter let through in this window
          lost,      \* history: requests sent upstream that ended without a status
          late,      \* threads whose clock shows a window that is over
          calm       \* history: no two threads were busy at a time

vars == <<tokens, expired, spent, count, meter, at, doing, requests, admitted, lost, late,
          calm>>
table == <<tokens, expired, spent>>

Nothing == [token |-> NoToken, size |-> 0, count |-> 0, attempts |-> 0, served |-> 0]

Go(t, place) == at' = [at EXCEPT ![t] = place]
Leave(t) == Go(t, "idle") /\ doing' = [doing EXCEPT ![t] = Nothing]
Alone(t) == calm' = (calm /\ \A u \in Handlers \ {t} : at[u] = "idle")

Init ==
    /\ tokens = {} /\ expired = {} /\ spent = {}
    /\ count = [k \in Tokens |-> 0] /\ admitted = [k \in Tokens |-> 0]
    /\ meter = [requests |-> 0, denied |-> 0, answers |-> 0]
    /\ at = [t \in Handlers |-> "idle"] /\ doing = [t \in Handlers |-> Nothing]
    /\ requests = 0 /\ lost = 0 /\ late = {} /\ calm = TRUE

-----------------------------------------------------------------------------
(*                               Control plane                             *)

\* mint deletes what has expired, counts, and enters the token after that.
MintCounts(t) ==
    /\ at[t] = "idle"
    /\ tokens' = tokens \ expired
    /\ IF Cardinality(tokens') >= OrphanLimit
       THEN UNCHANGED at                        \* OrphanTokenLimitExceeded
       ELSE Go(t, "mint")
    /\ Alone(t)
    /\ UNCHANGED <<expired, spent, count, meter, doing, requests, admitted, lost, late>>

Mint(t) ==
    /\ at[t] = "mint"
    /\ \E k \in Tokens \ spent : tokens' = tokens \cup {k} /\ spent' = spent \cup {k}
    /\ Leave(t) /\ Alone(t)
    /\ UNCHANGED <<expired, count, meter, requests, admitted, lost, late>>

\* The token of a turn that is over, wherever its label is found.
Revoke(t) ==
    /\ at[t] = "idle"
    /\ \E k \in tokens : tokens' = tokens \ {k}
    /\ Alone(t)
    /\ UNCHANGED <<expired, spent, count, meter, at, doing, requests, admitted, lost, late>>

-----------------------------------------------------------------------------
(*                                Data plane                               *)

\* authorize compares with every token of the table.
Request(t) ==
    /\ at[t] = "idle" /\ requests < MaxRequests
    /\ requests' = requests + 1
    /\ \E k \in spent \cap Presented : doing' = [doing EXCEPT ![t].token = k, ![t].size = Cardinality(tokens)]
    /\ Go(t, "scan") /\ Alone(t)
    /\ UNCHANGED <<table, count, meter, admitted, lost, late>>

Denied(t) == /\ meter' = [meter EXCEPT !.denied = @ + 1]
             /\ Leave(t)

\* The dispatcher turns any exception into an answer of its own.
GatewayError(t) == Leave(t) /\ UNCHANGED meter

\* The scan is over: the table has changed its size, the token is unknown, its
\* time is over, or it is good.
Scanned(t) ==
    /\ at[t] = "scan"
    /\ LET k == doing[t].token
       IN  \/ Cardinality(tokens) # doing[t].size /\ GatewayError(t)
           \/ k \notin tokens /\ Denied(t)
           \/ /\ k \in tokens
              /\ Go(t, IF k \in expired THEN "delete" ELSE "rate")
              /\ UNCHANGED <<meter, doing>>
    /\ Alone(t)
    /\ UNCHANGED <<table, count, requests, admitted, lost, late>>

\* An expired token is deleted; if somebody else has done so, that raises.
DeleteExpired(t) ==
    /\ at[t] = "delete"
    /\ IF doing[t].token \in tokens THEN Denied(t) ELSE GatewayError(t)
    /\ tokens' = tokens \ {doing[t].token}
    /\ Alone(t)
    /\ UNCHANGED <<expired, spent, count, requests, admitted, lost, late>>

\* allow reads the clock and then the count of the window.  By a clock that was
\* read before the window turned it finds the count of the last one, or none.
ReadRate(t) ==
    /\ at[t] = "rate"
    /\ \E n \in IF t \in late THEN 0..RateLimit ELSE {count[doing[t].token]} :
        doing' = [doing EXCEPT ![t].count = n]
    /\ Go(t, "allow") /\ Alone(t)
    /\ UNCHANGED <<table, count, meter, requests, admitted, lost, late>>

\* The count of the token is written.  With a window that is over it is no count
\* of this one, and the next to read it starts anew.
Write(t, n) ==
    /\ count' = [count EXCEPT ![doing[t].token] = IF t \in late THEN 0 ELSE n]
    /\ late' = late \ {t}

Admit(t) ==
    /\ admitted' = [admitted EXCEPT ![doing[t].token] = IF t \in late THEN @ ELSE @ + 1]
    /\ Go(t, "body") /\ UNCHANGED <<meter, doing>>

\* Variant: the request after the last is let through.
AllowOneMore(t) ==
    /\ at[t] = "allow" /\ doing[t].count <= RateLimit
    /\ Write(t, doing[t].count + 1) /\ Admit(t) /\ Alone(t)
    /\ UNCHANGED <<table, requests, lost>>

\* ... and writes the one after it.
Allow(t) ==
    /\ at[t] = "allow"
    /\ IF doing[t].count >= RateLimit
       THEN Write(t, doing[t].count) /\ Denied(t) /\ UNCHANGED admitted
       ELSE Write(t, doing[t].count + 1) /\ Admit(t)
    /\ Alone(t)
    /\ UNCHANGED <<table, requests, lost>>

\* The body is read, or that fails and the request ends without being counted.
ReadBody(t) ==
    /\ at[t] = "body"
    /\ \/ GatewayError(t)
       \/ meter' = [meter EXCEPT !.requests = @ + 1] /\ Go(t, "send") /\ UNCHANGED doing
    /\ Alone(t)
    /\ UNCHANGED <<table, count, requests, admitted, lost, late>>

\* One attempt: the supplier answers; or the transport fails, after it has
\* served the request or before, and the forwarder tries again or gives up.
Send(t) ==
    /\ at[t] = "send"
    /\ \E served \in {0, 1}, answered \in BOOLEAN :
        /\ answered => served = 1
        /\ LET attempts == doing[t].attempts + 1
           IN  /\ doing' = [doing EXCEPT ![t].attempts = attempts, ![t].served = @ + served]
               /\ Go(t, IF answered THEN "relay"
                        ELSE IF attempts <= MaxRetries THEN "send" ELSE "failed")
    /\ Alone(t)
    /\ UNCHANGED <<table, count, meter, requests, admitted, lost, late>>

\* The request ends without a status in the meter.
Lose(t) == lost' = lost + 1 /\ Leave(t) /\ UNCHANGED meter

\* UpstreamTransportError: 502.
Failed(t) ==
    /\ at[t] = "failed"
    /\ Lose(t) /\ Alone(t)
    /\ UNCHANGED <<table, count, requests, admitted, late>>

\* The answer is relayed to its end and the count of its status is read; or the
\* supplier or the reader of the answer is gone on the way.
Relay(t) ==
    /\ at[t] = "relay"
    /\ \/ Lose(t)
       \/ /\ doing' = [doing EXCEPT ![t].count = meter.answers]
          /\ Go(t, "record") /\ UNCHANGED <<meter, lost>>
    /\ Alone(t)
    /\ UNCHANGED <<table, count, requests, admitted, late>>

\* ... and the one after it is written.
RecordStatus(t) ==
    /\ at[t] = "record"
    /\ meter' = [meter EXCEPT !.answers = doing[t].count + 1]
    /\ Leave(t) /\ Alone(t)
    /\ UNCHANGED <<table, count, requests, admitted, lost, late>>

-----------------------------------------------------------------------------

\* A token's time is over.
Expire ==
    /\ \E k \in spent \ expired : expired' = expired \cup {k}
    /\ UNCHANGED <<tokens, spent, count, meter, at, doing, requests, admitted, lost, late, calm>>

\* A minute is over.  Who has read the clock by then, and his count or not yet,
\* judges and writes by the window that is over.
NextWindow ==
    /\ late' \in SUBSET {t \in Handlers : at[t] \in {"rate", "allow"}}
    /\ \A t \in Handlers : at[t] = "allow" => t \in late'
    /\ late \subseteq late'
    /\ count' = [k \in Tokens |-> 0] /\ admitted' = [k \in Tokens |-> 0]
    /\ UNCHANGED <<table, meter, at, doing, requests, lost, calm>>

Serve(t) == \/ MintCounts(t) \/ Mint(t) \/ Revoke(t)
            \/ Request(t) \/ Scanned(t) \/ DeleteExpired(t) \/ ReadRate(t) \/ Allow(t)
            \/ ReadBody(t) \/ Send(t) \/ Failed(t) \/ Relay(t) \/ RecordStatus(t)

Next == (\E t \in Handlers : Serve(t)) \/ Expire \/ NextWindow

Spec == Init /\ [][Next]_vars

-----------------------------------------------------------------------------
(*                                Properties                               *)

\* Every variable has its type.
TypeOK ==
    /\ tokens \subseteq spent /\ expired \subseteq spent /\ spent \subseteq Tokens
    /\ count \in [Tokens -> 0..RateLimit] /\ admitted \in [Tokens -> 0..MaxRequests]
    /\ at \in [Handlers -> {"idle", "mint", "scan", "delete", "rate", "allow", "body",
                           "send", "failed", "relay", "record"}]
    /\ \A t \in Handlers : doing[t].token \in Tokens \cup {NoToken}
    /\ requests \in 0..MaxRequests /\ late \subseteq Handlers /\ calm \in BOOLEAN

\* How far the threads are from the limit: f[i] of them would write at most i, or,
\* for i = 0, by a window that is over.
Progressions ==
    {f \in [0..RateLimit -> 0..Cardinality(Handlers)] :
        \A i, j \in 0..RateLimit : i <= j => f[i] <= f[j]}

\* The limits hold for one request at a time.  Of requests that overlap each other
\* thread may put one token too many into the store.  The limiter is worse off: a
\* thread that writes an old count sets the others back, again and again.  Still an
\* admission leaves a state of the limiter that does not come back within the window,
\* so that no more are admitted than there are states, less one for each thread.
LimitsHold ==
    /\ Cardinality(tokens) < OrphanLimit + Cardinality(Handlers)
    /\ calm => Cardinality(tokens) <= OrphanLimit
    /\ \A k \in Tokens :
        /\ admitted[k] + Cardinality(Handlers) < Cardinality(Progressions)
        /\ calm => admitted[k] <= RateLimit

Upstream == {t \in Handlers : at[t] \in {"send", "failed", "relay", "record"}}

\* The meter never shows more answers than requests were sent upstream and are not
\* under way any more, and for one request at a time what is missing are those that
\* ended without a status: requests that overlap may lose a count, never add one.
\* The supplier has served a request once for each attempt at most.
UpstreamIsAccounted ==
    /\ meter.answers + lost + Cardinality(Upstream) <= meter.requests
    /\ calm => meter.requests = meter.answers + lost + Cardinality(Upstream)
    /\ \A t \in Handlers :
        /\ doing[t].served <= MaxRetries + 1
        /\ at[t] \in {"relay", "record"} => doing[t].served > 0
=============================================================================
