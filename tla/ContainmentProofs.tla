------------------------- MODULE ContainmentProofs -------------------------
(***************************************************************************)
(* What MCOperations states of the gateway to the model, the containers, a *)
(* tool call and conversations that are shared and exported, for every set *)
(* of threads, tokens, processes, workers and callers and every limit.     *)
(* Each part has an inductive invariant of its own: it speaks of that      *)
(* part's variables only, which the steps of the others leave alone, so    *)
(* that every step of the composition keeps it.                            *)
(*                                                                         *)
(* The limiter reads and writes its count in two steps.  What the threads  *)
(* of a token hold and what is stored put each thread at a level: how much *)
(* it would write, 0 for one that judges by a window that is over.  Count  *)
(* the threads at or below each level: whoever is let through leaves a     *)
(* state of these numbers that never comes back, so there are no more of   *)
(* them than states.                                                       *)
(***************************************************************************)
EXTENDS MCOperations, FiniteSetTheorems, WellFoundedInduction, TLAPS

-----------------------------------------------------------------------------
(*              The states of the limiter, and in which order              *)

Levels == 0 .. RateLimit
Crowd == Cardinality(Handlers)

\* One state of the limiter comes before another: at the first level they differ
\* in, more threads are held back.
Before(f, g) == \E j \in Levels : g[j] < f[j] /\ \A i \in 0 .. j - 1 : f[i] = g[i]
Below(g) == {f \in G!Progressions : Before(f, g)}

LEMMA SameCardinality ==
    ASSUME NEW S
    PROVE  G!Cardinality(S) = Cardinality(S)
BY Zenon DEF G!Cardinality, Cardinality

LEMMA CrowdIsNatural == Crowd \in Nat /\ RateLimit \in Nat /\ RateLimit > 0
BY FS_CardinalityType, GatewayAssumption DEF Crowd

LEMMA ProgressionsAre ==
    G!Progressions = {f \in [Levels -> 0 .. Crowd] : \A i, j \in Levels : i <= j => f[i] <= f[j]}
BY SameCardinality DEF G!Progressions, Levels, Crowd

\* A state is known by its graph, and a finite plane has finitely many subsets.
LEMMA ProgressionsAreFinite == IsFiniteSet(G!Progressions)
<1> DEFINE Plane == Levels \X (0 .. Crowd)
           Graph == [f \in G!Progressions |-> {<<i, f[i]>> : i \in Levels}]
<1>1. IsFiniteSet(SUBSET Plane)
  <2>1. IsFiniteSet(Levels) /\ IsFiniteSet(0 .. Crowd)
    BY FS_Interval, CrowdIsNatural DEF Levels
  <2> QED BY <2>1, FS_Product, FS_SUBSET
<1>2. Graph \in [G!Progressions -> SUBSET Plane]
  BY ProgressionsAre
<1>3. ASSUME NEW f \in G!Progressions, NEW g \in G!Progressions, Graph[f] = Graph[g]
      PROVE  f = g
  <2>1. ASSUME NEW i \in Levels
        PROVE  f[i] = g[i]
    <3>1. <<i, f[i]>> \in Graph[f]
      OBVIOUS
    <3>2. <<i, f[i]>> \in {<<j, g[j]>> : j \in Levels}
      BY <1>3, <3>1
    <3> QED BY <3>2
  <2>2. f \in [Levels -> 0 .. Crowd] /\ g \in [Levels -> 0 .. Crowd]
    BY ProgressionsAre
  <2> QED BY <2>1, <2>2
<1>4. Graph \in Injection(G!Progressions, SUBSET Plane)
  BY <1>2, <1>3 DEF Injection, IsInjective
<1> QED BY <1>1, <1>4, FS_Injection

LEMMA BelowIsFinite ==
    ASSUME NEW g
    PROVE  IsFiniteSet(Below(g)) /\ Cardinality(Below(g)) \in Nat
BY ProgressionsAreFinite, FS_Subset, FS_CardinalityType DEF Below

LEMMA BeforeIsTransitive ==
    ASSUME NEW f \in G!Progressions, NEW g \in G!Progressions, NEW h \in G!Progressions,
           Before(f, g), Before(g, h)
    PROVE  Before(f, h)
<1>1. /\ f \in [Levels -> 0 .. Crowd] /\ g \in [Levels -> 0 .. Crowd]
      /\ h \in [Levels -> 0 .. Crowd]
  BY ProgressionsAre
<1>2. PICK a \in Levels : g[a] < f[a] /\ \A i \in 0 .. a - 1 : f[i] = g[i]
  BY DEF Before
<1>3. PICK b \in Levels : h[b] < g[b] /\ \A i \in 0 .. b - 1 : g[i] = h[i]
  BY DEF Before
<1>4. CASE a <= b
  <2>1. h[a] < f[a] /\ \A i \in 0 .. a - 1 : f[i] = h[i]
    BY <1>1, <1>2, <1>3, <1>4, CrowdIsNatural DEF Levels
  <2> QED BY <2>1 DEF Before
<1>5. CASE b < a
  <2>1. h[b] < f[b] /\ \A i \in 0 .. b - 1 : f[i] = h[i]
    BY <1>1, <1>2, <1>3, <1>5, CrowdIsNatural DEF Levels
  <2> QED BY <2>1 DEF Before
<1> QED BY <1>4, <1>5 DEF Levels

LEMMA BeforeIsStrict ==
    ASSUME NEW f \in G!Progressions
    PROVE  ~Before(f, f)
<1>1. f \in [Levels -> 0 .. Crowd]
  BY ProgressionsAre
<1> QED BY <1>1 DEF Before

\* A later state has more before it.
LEMMA LaterHasMoreBelow ==
    ASSUME NEW f \in G!Progressions, NEW g \in G!Progressions, Before(f, g)
    PROVE  Cardinality(Below(f)) + 1 <= Cardinality(Below(g))
<1>1. f \notin Below(f)
  BY BeforeIsStrict DEF Below
<1>2. Below(f) \cup {f} \subseteq Below(g)
  BY BeforeIsTransitive DEF Below
<1>3. IsFiniteSet(Below(f)) /\ IsFiniteSet(Below(g))
  BY BelowIsFinite
<1>4. Cardinality(Below(f) \cup {f}) = Cardinality(Below(f)) + 1
  BY <1>1, <1>3, FS_AddElement
<1>5. Cardinality(Below(f) \cup {f}) <= Cardinality(Below(g))
  BY <1>2, <1>3, FS_Subset
<1> QED BY <1>4, <1>5

\* A window that begins: whoever is not late is below a state for every thread
\* that might have been.
LEMMA FirstHasSomeBelow ==
    ASSUME NEW f \in G!Progressions, \A i \in 1 .. RateLimit : f[i] = Crowd
    PROVE  Crowd - f[0] <= Cardinality(Below(f))
<1> DEFINE More == f[0] + 1 .. Crowd
           Held == [m \in More |-> [f EXCEPT ![0] = m]]
<1>1. f \in [Levels -> 0 .. Crowd] /\ \A i, j \in Levels : i <= j => f[i] <= f[j]
  BY ProgressionsAre
<1>2. f[0] \in 0 .. Crowd /\ 0 \in Levels
  BY <1>1, CrowdIsNatural DEF Levels
<1>3. ASSUME NEW m \in More
      PROVE  Held[m] \in Below(f) /\ Held[m][0] = m
  <2>1. Held[m] \in [Levels -> 0 .. Crowd] /\ Held[m][0] = m
    BY <1>1, <1>2, CrowdIsNatural
  <2>2. ASSUME NEW i \in Levels, NEW j \in Levels, i <= j
        PROVE  Held[m][i] <= Held[m][j]
    <3>1. CASE i = 0
      BY <1>1, <1>2, <2>1, <2>2, <3>1, CrowdIsNatural DEF Levels
    <3>2. CASE i # 0
      BY <1>1, <1>2, <2>1, <2>2, <3>2, CrowdIsNatural DEF Levels
    <3> QED BY <3>1, <3>2
  <2>3. f[0] < Held[m][0] /\ 0 .. 0 - 1 = {}
    BY <1>2, <2>1, CrowdIsNatural
  <2>4. Before(Held[m], f)
    BY <1>2, <2>3 DEF Before
  <2>5. Held[m] \in G!Progressions
    BY <2>1, <2>2, ProgressionsAre
  <2> QED BY <2>1, <2>4, <2>5 DEF Below
<1>4. Held \in Injection(More, Below(f))
  BY <1>3 DEF Injection, IsInjective
<1>5. Cardinality(More) <= Cardinality(Below(f))
  BY <1>4, BelowIsFinite, FS_Injection
<1>6. Cardinality(More) = Crowd - f[0]
  <2>1. f[0] + 1 \in Int /\ Crowd \in Int
    BY <1>2, CrowdIsNatural
  <2>2. Cardinality(More) = IF f[0] + 1 > Crowd THEN 0 ELSE Crowd - (f[0] + 1) + 1
    BY <2>1, FS_Interval
  <2> QED BY <1>2, <2>2, CrowdIsNatural
<1> QED BY <1>5, <1>6

\* Whatever the state, there is one after it for every thread that is late.
LEMMA LateAreAbove ==
    ASSUME NEW f \in G!Progressions
    PROVE  Cardinality(Below(f)) + 1 + f[0] <= Cardinality(G!Progressions)
<1> DEFINE Fewer == 0 .. f[0] - 1
           Freeing(m) == [i \in Levels |-> IF i = 0 THEN m ELSE Crowd]
           Freed == [m \in Fewer |-> Freeing(m)]
           Above == {g \in G!Progressions : g[0] < f[0]}
<1>1. f \in [Levels -> 0 .. Crowd]
  BY ProgressionsAre
<1>2. f[0] \in 0 .. Crowd /\ 0 \in Levels
  BY <1>1, CrowdIsNatural DEF Levels
<1>3. ASSUME NEW m \in Fewer
      PROVE  Freed[m] \in Above /\ Freed[m][0] = m
  <2>1. Freed[m] \in [Levels -> 0 .. Crowd] /\ Freed[m][0] = m
    BY <1>2, CrowdIsNatural
  <2>2. ASSUME NEW i \in Levels, NEW j \in Levels, i <= j
        PROVE  Freed[m][i] <= Freed[m][j]
    BY <1>2, <2>2, CrowdIsNatural DEF Levels
  <2>3. Freed[m] \in G!Progressions
    BY <2>1, <2>2, ProgressionsAre
  <2> QED BY <1>2, <2>1, <2>3
<1>4. IsFiniteSet(Above)
  BY ProgressionsAreFinite, FS_Subset
<1>5. Freed \in Injection(Fewer, Above)
  BY <1>3 DEF Injection, IsInjective
<1>6. Cardinality(Fewer) <= Cardinality(Above)
  BY <1>4, <1>5, FS_Injection
<1>7. Cardinality(Fewer) = f[0]
  <2>1. 0 \in Int /\ f[0] - 1 \in Int
    BY <1>2
  <2>2. Cardinality(Fewer) = IF 0 > f[0] - 1 THEN 0 ELSE f[0] - 1 - 0 + 1
    BY <2>1, FS_Interval
  <2> QED BY <1>2, <2>2, CrowdIsNatural
<1> DEFINE Rest == Below(f) \cup {f}
<1>8. IsFiniteSet(Rest) /\ Cardinality(Rest) = Cardinality(Below(f)) + 1
  <2>1. f \notin Below(f)
    BY BeforeIsStrict DEF Below
  <2> QED BY <2>1, BelowIsFinite, FS_AddElement
<1>9. Rest \cap Above = {}
  <2>1. ASSUME NEW g \in Below(f)
        PROVE  ~(g[0] < f[0])
    <3>1. g \in [Levels -> 0 .. Crowd] /\ Before(g, f)
      BY ProgressionsAre DEF Below
    <3>2. PICK j \in Levels : f[j] < g[j] /\ \A i \in 0 .. j - 1 : g[i] = f[i]
      BY <3>1 DEF Before
    <3>3. CASE j = 0
      BY <1>2, <3>1, <3>2, <3>3, CrowdIsNatural
    <3>4. CASE j # 0
      <4>1. 0 \in 0 .. j - 1
        BY <3>4 DEF Levels
      <4> QED BY <1>2, <3>2, <4>1
    <3> QED BY <3>3, <3>4
  <2> QED BY <1>2, <2>1
<1>10. Cardinality(Rest \cup Above) = Cardinality(Rest) + Cardinality(Above)
  <2>1. Cardinality(Rest \cup Above) = Cardinality(Rest) + Cardinality(Above) - Cardinality(Rest \cap Above)
    BY <1>4, <1>8, FS_Union
  <2>2. Cardinality(Rest \cap Above) = 0
    BY <1>9, FS_EmptySet
  <2> QED BY <1>4, <1>8, <2>1, <2>2, FS_CardinalityType
<1>11. Cardinality(Rest \cup Above) <= Cardinality(G!Progressions)
  <2>1. Rest \cup Above \subseteq G!Progressions
    BY DEF Below
  <2> QED BY <2>1, ProgressionsAreFinite, FS_Subset
<1> QED BY <1>2, <1>4, <1>6, <1>7, <1>8, <1>10, <1>11, FS_CardinalityType, BelowIsFinite, ProgressionsAreFinite

-----------------------------------------------------------------------------
(*                      How the threads see the limiter                    *)

\* How many threads see at most i.
Count(V) == [i \in Levels |-> Cardinality({t \in Handlers : V[t] <= i})]

Views == [Handlers -> 0 .. RateLimit + 1]

\* How many threads are at or below each level is a state of the limiter.
LEMMA CountIsProgression ==
    ASSUME NEW V \in Views
    PROVE  Count(V) \in G!Progressions
<1> DEFINE Low(i) == {t \in Handlers : V[t] <= i}
<1>1. ASSUME NEW i \in Levels
      PROVE  IsFiniteSet(Low(i)) /\ Cardinality(Low(i)) \in 0 .. Crowd
  <2>1. IsFiniteSet(Low(i)) /\ Cardinality(Low(i)) <= Crowd
    BY GatewayAssumption, FS_Subset DEF Crowd
  <2> QED BY <2>1, FS_CardinalityType, CrowdIsNatural
<1>2. ASSUME NEW i \in Levels, NEW j \in Levels, i <= j
      PROVE  Cardinality(Low(i)) <= Cardinality(Low(j))
  <2>1. Low(i) \subseteq Low(j)
    BY <1>2 DEF Views, Levels
  <2> QED BY <1>1, <2>1, FS_Subset
<1>3. Count(V) = [i \in Levels |-> Cardinality(Low(i))]
  BY DEF Count
<1> QED BY <1>1, <1>2, <1>3, ProgressionsAre

\* The threads at or below a level stay as they were, up to the level where one
\* of them leaves and none comes.
LEMMA LeavingALevelIsLater ==
    ASSUME NEW V \in Views, NEW W \in Views, NEW m \in Levels,
           \A t \in Handlers : V[t] < m \/ W[t] < m => V[t] = W[t],
           \A t \in Handlers : W[t] <= m => V[t] <= m,
           \E t \in Handlers : V[t] <= m /\ m < W[t]
    PROVE  Before(Count(V), Count(W))
<1>1. ASSUME NEW i \in 0 .. m - 1
      PROVE  Count(V)[i] = Count(W)[i]
  <2>1. {t \in Handlers : V[t] <= i} = {t \in Handlers : W[t] <= i}
    BY DEF Views, Levels
  <2>2. i \in Levels
    BY CrowdIsNatural DEF Levels
  <2> QED BY <2>1, <2>2 DEF Count
<1> DEFINE Old == {t \in Handlers : V[t] <= m}
           New == {t \in Handlers : W[t] <= m}
<1>2. PICK t \in Handlers : V[t] <= m /\ m < W[t]
  OBVIOUS
<1>3. New \subseteq Old \ {t}
  BY <1>2 DEF Views, Levels
<1>4. IsFiniteSet(Old) /\ IsFiniteSet(New)
  BY GatewayAssumption, FS_Subset
<1>5. Cardinality(Old \ {t}) = Cardinality(Old) - 1 /\ IsFiniteSet(Old \ {t})
  BY <1>2, <1>4, FS_RemoveElement
<1>6. Cardinality(New) <= Cardinality(Old \ {t})
  BY <1>3, <1>5, FS_Subset
<1>7. Count(W)[m] < Count(V)[m]
  BY <1>4, <1>5, <1>6, FS_CardinalityType DEF Count
<1> QED BY <1>1, <1>7 DEF Before

\* The view of a thread: late, or what it would write at most.
ViewOf(k) ==
    [t \in Handlers |->
        IF t \in late /\ serving[t].token = k THEN 0
        ELSE IF gatewayAt[t] = "allow" /\ serving[t].token = k THEN serving[t].count + 1
        ELSE count[k] + 1]

State(k) == Count(ViewOf(k))

Servings == [token : Tokens \cup {NoToken}, size : Nat, count : Nat,
             attempts : 0 .. MaxRetries + 1, served : 0 .. MaxRetries + 1]
GatewayPlaces == {"idle", "mint", "scan", "delete", "rate", "allow", "body",
                  "send", "failed", "relay", "record"}
Sending == {"send", "failed", "relay", "record"}

GatewayTypes ==
    /\ IsFiniteSet(tokens) /\ tokens \subseteq Tokens /\ spent \subseteq Tokens
    /\ count \in [Tokens -> Levels] /\ admitted \in [Tokens -> Nat]
    /\ gatewayAt \in [Handlers -> GatewayPlaces] /\ serving \in [Handlers -> Servings]
    /\ late \subseteq {t \in Handlers : gatewayAt[t] \in {"rate", "allow"}}
    /\ servedCalmly \in BOOLEAN
    /\ \A t \in Handlers : gatewayAt[t] \notin {"idle", "mint"} => serving[t].token \in Tokens
    /\ \A t \in Handlers : gatewayAt[t] = "allow" => serving[t].count \in Levels

\* When no two threads were busy at a time, at most one is.
Alone ==
    servedCalmly => \A t, u \in Handlers : gatewayAt[t] # "idle" /\ gatewayAt[u] # "idle" => t = u

\* Who is about to enter a token has counted.
Minting == {t \in Handlers : gatewayAt[t] = "mint"}
TokensFit ==
    /\ Cardinality(tokens) + Cardinality(Minting) < OrphanLimit + Crowd
    /\ servedCalmly => Cardinality(tokens) + Cardinality(Minting) <= OrphanLimit

\* Without overlap the count is true.
CountIsTrue ==
    servedCalmly =>
        /\ \A k \in Tokens : admitted[k] <= count[k] /\ (late # {} => admitted[k] = 0)
        /\ \A t \in Handlers \ late : gatewayAt[t] = "allow" => serving[t].count = count[serving[t].token]

\* Whoever was let through has left a state of the limiter behind.
StatesAreLeft ==
    \A k \in Tokens : admitted[k] + Crowd - State(k)[0] <= Cardinality(Below(State(k)))

RateInv == GatewayTypes /\ Alone /\ TokensFit /\ CountIsTrue /\ StatesAreLeft

Pending == {t \in Handlers : gatewayAt[t] \in Sending}

SendingOK(t) ==
    /\ serving[t].served <= serving[t].attempts
    /\ gatewayAt[t] = "send" => serving[t].attempts <= MaxRetries
    /\ gatewayAt[t] \in {"relay", "record"} => serving[t].served > 0
    /\ gatewayAt[t] \notin Sending => serving[t].attempts = 0

\* The requests that may show in the meter as answered.
Done == meter.requests - uncounted - Cardinality(Pending)

\* Whoever is about to write has read a count that was true then.
MeterInv ==
    /\ meter \in [requests : Nat, denied : Nat, answers : Nat] /\ uncounted \in Nat
    /\ meter.answers <= Done
    /\ \A t \in Handlers : gatewayAt[t] = "record" => serving[t].count <= Done
    /\ servedCalmly =>
        /\ meter.answers = Done
        /\ \A t \in Handlers : gatewayAt[t] = "record" => serving[t].count = Done
    /\ \A t \in Handlers : SendingOK(t)

-----------------------------------------------------------------------------

LEMMA ViewsAreViews ==
    ASSUME GatewayTypes, NEW k \in Tokens
    PROVE  /\ ViewOf(k) \in Views
           /\ State(k) \in G!Progressions
           /\ State(k)[0] = Cardinality({t \in late : serving[t].token = k})
<1>1. ViewOf(k) \in Views
  BY CrowdIsNatural DEF GatewayTypes, ViewOf, Views, Servings, Levels
<1>2. State(k) \in G!Progressions
  BY <1>1, CountIsProgression DEF State
<1>3. {t \in Handlers : ViewOf(k)[t] <= 0} = {t \in late : serving[t].token = k}
  BY CrowdIsNatural DEF GatewayTypes, ViewOf, Servings, Levels
<1>4. 0 \in Levels
  BY CrowdIsNatural DEF Levels
<1>5. State(k)[0] = Cardinality({t \in Handlers : ViewOf(k)[t] <= 0})
  BY <1>4 DEF State, Count
<1> QED BY <1>1, <1>2, <1>3, <1>5

\* What the threads see does not change, and nobody is let through.
LEMMA SameView ==
    ASSUME RateInv, NEW k \in Tokens, ViewOf(k)' = ViewOf(k), admitted'[k] = admitted[k]
    PROVE  admitted'[k] + Crowd - State(k)'[0] <= Cardinality(Below(State(k)'))
<1>1. State(k)' = State(k)
  BY DEF State, Count, Levels
<1> QED BY <1>1 DEF RateInv, StatesAreLeft

\* They see a later state: one more may be let through.
LEMMA LaterView ==
    ASSUME RateInv, GatewayTypes', NEW k \in Tokens, Before(State(k), State(k)'),
           admitted'[k] - State(k)'[0] <= admitted[k] + 1 - State(k)[0]
    PROVE  admitted'[k] + Crowd - State(k)'[0] <= Cardinality(Below(State(k)'))
<1>1. State(k) \in G!Progressions /\ admitted[k] \in Nat /\ State(k)[0] \in Nat
  <2>1. State(k) \in G!Progressions /\ admitted[k] \in Nat
    BY ViewsAreViews DEF RateInv, GatewayTypes
  <2>2. State(k) \in [Levels -> 0 .. Crowd] /\ 0 \in Levels
    BY <2>1, ProgressionsAre, CrowdIsNatural DEF Levels
  <2> QED BY <2>1, <2>2, CrowdIsNatural
<1>2. State(k)' \in G!Progressions /\ admitted'[k] \in Nat
  <2>1. ViewOf(k)' \in Views
    BY CrowdIsNatural DEF GatewayTypes, ViewOf, Views, Servings, Levels
  <2> QED BY <2>1, CountIsProgression DEF State, GatewayTypes, Count, Levels
<1>3. State(k)'[0] \in Nat
  BY <1>2, ProgressionsAre, CrowdIsNatural DEF Levels
<1>4. PICK f, g : f = State(k) /\ g = State(k)'
  OBVIOUS
<1>5. Cardinality(Below(f)) + 1 <= Cardinality(Below(g))
  BY <1>1, <1>2, <1>4, LaterHasMoreBelow
<1>6. Cardinality(Below(f)) \in Nat /\ Cardinality(Below(g)) \in Nat
  BY BelowIsFinite
<1>7. admitted[k] + Crowd - f[0] <= Cardinality(Below(f))
  BY <1>4 DEF RateInv, StatesAreLeft
<1>8. admitted'[k] + Crowd - g[0] <= Cardinality(Below(g))
  BY <1>1, <1>2, <1>3, <1>4, <1>5, <1>6, <1>7, CrowdIsNatural
<1> QED BY <1>4, <1>8

-----------------------------------------------------------------------------
(*                          One thread moves                               *)

GatewayInv == RateInv /\ MeterInv

\* A thread goes to a place with what it has read.
Moves(t, p, s) ==
    /\ t \in Handlers /\ p \in GatewayPlaces /\ s \in Servings
    /\ p \notin {"idle", "mint"} => s.token \in Tokens
    /\ p = "allow" => s.count \in Levels
    /\ gatewayAt' = [gatewayAt EXCEPT ![t] = p] /\ serving' = [serving EXCEPT ![t] = s]
    /\ G!Alone(t)

LEMMA NothingIsServing == G!Nothing \in Servings /\ G!Nothing.attempts = 0 /\ G!Nothing.served = 0
BY CrowdIsNatural, GatewayAssumption DEF G!Nothing, Servings, Levels

LEMMA MoveKeepsAlone ==
    ASSUME GatewayTypes, Alone, NEW t, NEW p, NEW s, Moves(t, p, s)
    PROVE  /\ Alone' /\ servedCalmly' \in BOOLEAN
           /\ servedCalmly' => servedCalmly /\ \A u \in Handlers : u # t => gatewayAt[u] = "idle"
BY DEF Moves, Alone, G!Alone, GatewayTypes

LEMMA FewerTokensFit ==
    ASSUME GatewayTypes, TokensFit, tokens' \subseteq tokens, Minting' \subseteq Minting,
           servedCalmly' => servedCalmly
    PROVE  TokensFit' /\ IsFiniteSet(tokens') /\ tokens' \subseteq Tokens
<1>1. IsFiniteSet(tokens) /\ IsFiniteSet(Minting)
  BY GatewayAssumption, FS_Subset DEF GatewayTypes, Minting
<1>2. PICK more, fewer : more = Minting /\ fewer = Minting'
  OBVIOUS
<1>3. PICK old, new : old = tokens /\ new = tokens'
  OBVIOUS
<1>4. /\ IsFiniteSet(new) /\ Cardinality(new) <= Cardinality(old)
      /\ Cardinality(fewer) <= Cardinality(more) /\ IsFiniteSet(fewer)
  BY <1>1, <1>2, <1>3, FS_Subset
<1>5. /\ Cardinality(new) \in Nat /\ Cardinality(old) \in Nat
      /\ Cardinality(fewer) \in Nat /\ Cardinality(more) \in Nat
  BY <1>1, <1>2, <1>3, <1>4, FS_CardinalityType
<1>6. TokensFit'
  <2>1. Cardinality(new) + Cardinality(fewer) <= Cardinality(old) + Cardinality(more)
    BY <1>4, <1>5
  <2> QED BY <1>2, <1>3, <1>5, <2>1, CrowdIsNatural, GatewayAssumption DEF TokensFit
<1> QED BY <1>3, <1>4, <1>6 DEF GatewayTypes

\* Nobody has to do with the limiter.
LEMMA QuietMove ==
    ASSUME GatewayInv, NEW t, NEW p, NEW s, Moves(t, p, s),
           gatewayAt[t] \notin {"rate", "allow"}, p # "allow",
           UNCHANGED <<count, admitted, late>>,
           TokensFit', IsFiniteSet(tokens'), tokens' \subseteq Tokens, spent' \subseteq Tokens
    PROVE  RateInv'
<1>1. GatewayTypes /\ Alone
  BY DEF GatewayInv, RateInv
<1>2. t \notin late
  BY <1>1 DEF GatewayTypes
<1>3. Alone' /\ servedCalmly' \in BOOLEAN /\ (servedCalmly' => servedCalmly)
  BY <1>1, MoveKeepsAlone
<1>4. GatewayTypes'
  BY <1>1, <1>2, <1>3 DEF GatewayTypes, Moves
<1>5. CountIsTrue'
  BY <1>1, <1>3 DEF GatewayInv, RateInv, CountIsTrue, Moves, GatewayTypes
<1>6. ASSUME NEW k \in Tokens
      PROVE  ViewOf(k)' = ViewOf(k)
  BY <1>1, <1>2 DEF ViewOf, Moves, GatewayTypes
<1>7. StatesAreLeft'
  BY <1>6, SameView DEF GatewayInv, StatesAreLeft
<1> QED BY <1>3, <1>4, <1>5, <1>7 DEF RateInv

\* A thread that is on the way counts what is done as it finds it; one that has
\* written its count has one more done.
LEMMA MeterMoves ==
    ASSUME GatewayInv, NEW t, NEW p, NEW s, Moves(t, p, s), SendingOK(t)',
           meter' \in [requests : Nat, denied : Nat, answers : Nat], uncounted' \in Nat,
           \/ /\ Done' = Done /\ meter'.answers = meter.answers
              /\ p = "record" => s.count = meter.answers
           \/ /\ Done' = Done + 1 /\ meter'.answers = serving[t].count + 1
              /\ gatewayAt[t] = "record" /\ p = "idle"
    PROVE  MeterInv'
<1>1. GatewayTypes /\ Alone /\ MeterInv /\ t \in Handlers
  BY DEF GatewayInv, RateInv, Moves
<1>2. /\ gatewayAt'[t] = p /\ serving'[t] = s
      /\ \A u \in Handlers : u # t => gatewayAt'[u] = gatewayAt[u] /\ serving'[u] = serving[u]
  BY <1>1 DEF Moves, GatewayTypes
<1>3. servedCalmly' => servedCalmly /\ \A u \in Handlers : u # t => gatewayAt[u] = "idle"
  BY <1>1, MoveKeepsAlone
<1>4. PICK done, later : done = Done /\ later = Done'
  OBVIOUS
<1>5. done \in Int /\ meter.answers \in Nat /\ \A u \in Handlers : serving[u].count \in Nat
  <2>1. Cardinality(Pending) \in Nat
    BY GatewayAssumption, FS_Subset, FS_CardinalityType DEF Pending
  <2> QED BY <1>1, <1>4, <2>1 DEF Done, MeterInv, GatewayTypes, Servings
<1>6. /\ meter.answers <= done /\ \A u \in Handlers : gatewayAt[u] = "record" => serving[u].count <= done
      /\ servedCalmly => /\ meter.answers = done
                         /\ \A u \in Handlers : gatewayAt[u] = "record" => serving[u].count = done
  BY <1>1, <1>4 DEF MeterInv
<1>7. \/ /\ later = done /\ meter'.answers = meter.answers /\ (p = "record" => s.count = meter.answers)
      \/ /\ later = done + 1 /\ meter'.answers = serving[t].count + 1
         /\ gatewayAt[t] = "record" /\ p = "idle"
  BY <1>4
<1>8. /\ meter'.answers <= later
      /\ \A u \in Handlers : gatewayAt'[u] = "record" => serving'[u].count <= later
  BY <1>1, <1>2, <1>5, <1>6, <1>7
<1>9. servedCalmly' => /\ meter'.answers = later
                       /\ \A u \in Handlers : gatewayAt'[u] = "record" => serving'[u].count = later
  BY <1>1, <1>2, <1>3, <1>5, <1>6, <1>7
<1>10. \A u \in Handlers : SendingOK(u)'
  BY <1>1, <1>2 DEF MeterInv, SendingOK
<1> QED BY <1>4, <1>8, <1>9, <1>10 DEF MeterInv

\* Nothing is sent upstream.
LEMMA QuietMeter ==
    ASSUME GatewayInv, NEW t, NEW p, NEW s, Moves(t, p, s),
           gatewayAt[t] \notin Sending, p \notin Sending,
           s.attempts = 0, s.served = 0, UNCHANGED uncounted,
           \/ UNCHANGED meter
           \/ meter' = [meter EXCEPT !.denied = @ + 1]
    PROVE  MeterInv'
<1>1. GatewayTypes /\ MeterInv
  BY DEF GatewayInv, RateInv
<1>2. Pending' = Pending
  BY <1>1 DEF Pending, Moves, GatewayTypes
<1>3. /\ meter' \in [requests : Nat, denied : Nat, answers : Nat] /\ uncounted' \in Nat
      /\ meter'.requests = meter.requests /\ meter'.answers = meter.answers
  BY <1>1 DEF MeterInv
<1>4. Done' = Done
  BY <1>2, <1>3 DEF Done
<1>5. SendingOK(t)'
  <2>1. serving'[t] = s /\ gatewayAt'[t] = p
    BY <1>1 DEF Moves, GatewayTypes
  <2> QED BY <2>1 DEF SendingOK, Sending
<1>6. p # "record"
  BY DEF Sending
<1> QED BY <1>3, <1>4, <1>5, <1>6, MeterMoves

\* A request that is sent upstream and one that is not any more.
LEMMA PendingMoves ==
    ASSUME GatewayInv, NEW t, NEW p, NEW s, Moves(t, p, s)
    PROVE  /\ Cardinality(Pending) \in Nat
           /\ gatewayAt[t] \in Sending /\ p \in Sending => Pending' = Pending
           /\ gatewayAt[t] \notin Sending /\ p \in Sending => Cardinality(Pending') = Cardinality(Pending) + 1
           /\ gatewayAt[t] \in Sending /\ p \notin Sending => Cardinality(Pending') = Cardinality(Pending) - 1
<1>1. GatewayTypes
  BY DEF GatewayInv, RateInv
<1>2. PICK old, new : old = Pending /\ new = Pending'
  OBVIOUS
<1>3. IsFiniteSet(old) /\ Cardinality(old) \in Nat
  BY <1>2, GatewayAssumption, FS_Subset, FS_CardinalityType DEF Pending
<1>4. gatewayAt[t] \in Sending /\ p \in Sending => new = old
  BY <1>1, <1>2 DEF Pending, Moves, GatewayTypes
<1>5. gatewayAt[t] \notin Sending /\ p \in Sending => new = old \cup {t} /\ t \notin old
  BY <1>1, <1>2 DEF Pending, Moves, GatewayTypes
<1>6. gatewayAt[t] \in Sending /\ p \notin Sending => new = old \ {t} /\ t \in old
  BY <1>1, <1>2 DEF Pending, Moves, GatewayTypes
<1>7. gatewayAt[t] \notin Sending /\ p \in Sending => Cardinality(new) = Cardinality(old) + 1
  BY <1>3, <1>5, FS_AddElement
<1>8. gatewayAt[t] \in Sending /\ p \notin Sending => Cardinality(new) = Cardinality(old) - 1
  BY <1>3, <1>6, FS_RemoveElement
<1> QED BY <1>2, <1>3, <1>4, <1>7, <1>8

LEMMA UnreadIsZero ==
    ASSUME GatewayInv, NEW t \in Handlers, gatewayAt[t] \notin Sending
    PROVE  serving[t].attempts = 0 /\ serving[t].served = 0 /\ serving[t] \in Servings
<1>1. serving[t] \in Servings /\ serving[t].served \in Nat
  BY GatewayAssumption DEF GatewayInv, RateInv, GatewayTypes, Servings
<1> QED BY <1>1 DEF GatewayInv, MeterInv, SendingOK

-----------------------------------------------------------------------------
(*                              Control plane                              *)

LEMMA MintCountsKeeps ==
    ASSUME GatewayInv, NEW t \in Handlers, G!MintCounts(t)
    PROVE  GatewayInv'
<1>1. GatewayTypes /\ Alone /\ TokensFit
  BY DEF GatewayInv, RateInv
<1>2. PICK p : /\ gatewayAt' = [gatewayAt EXCEPT ![t] = p]
               /\ p = "idle" \/ (p = "mint" /\ Cardinality(tokens') < OrphanLimit)
  <2>1. \/ gatewayAt' = gatewayAt
        \/ gatewayAt' = [gatewayAt EXCEPT ![t] = "mint"] /\ ~(Cardinality(tokens') >= OrphanLimit)
    BY SameCardinality DEF G!MintCounts, G!Go
  <2>2. CASE gatewayAt' = gatewayAt
    <3>1. gatewayAt' = [gatewayAt EXCEPT ![t] = "idle"]
      BY <1>1, <2>2 DEF G!MintCounts, GatewayTypes
    <3> QED BY Zenon, <3>1
  <2>3. CASE gatewayAt' = [gatewayAt EXCEPT ![t] = "mint"] /\ ~(Cardinality(tokens') >= OrphanLimit)
    <3>1. tokens' \subseteq tokens
      BY DEF G!MintCounts
    <3>2. PICK new : new = tokens'
      OBVIOUS
    <3>3. Cardinality(new) \in Nat
      BY <1>1, <3>1, <3>2, FS_Subset, FS_CardinalityType DEF GatewayTypes
    <3>4. Cardinality(new) < OrphanLimit
      BY <2>3, <3>2, <3>3, GatewayAssumption
    <3>5. Cardinality(tokens') < OrphanLimit
      BY <3>2, <3>4
    <3> QED BY Zenon, <2>3, <3>5
  <2> QED BY <2>1, <2>2, <2>3
<1>3. tokens' \subseteq tokens /\ UNCHANGED <<spent, count, meter, serving, admitted, uncounted, late>>
  BY DEF G!MintCounts
<1>4. gatewayAt[t] = "idle" /\ G!Alone(t)
  BY DEF G!MintCounts
<1>5. Moves(t, p, serving[t])
  BY <1>1, <1>2, <1>3, <1>4 DEF Moves, GatewayTypes, GatewayPlaces
<1>6. servedCalmly' => servedCalmly /\ \A u \in Handlers : u # t => gatewayAt[u] = "idle"
  BY <1>1, <1>5, MoveKeepsAlone
<1>7. TokensFit' /\ IsFiniteSet(tokens') /\ tokens' \subseteq Tokens
  <2>1. CASE p = "idle"
    <3>1. Minting' \subseteq Minting
      BY <1>1, <1>2, <2>1 DEF Minting, GatewayTypes
    <3> QED BY <1>1, <1>3, <1>6, <3>1, FewerTokensFit
  <2>2. CASE p = "mint"
    <3>1. PICK new, all : new = tokens' /\ all = Minting'
      OBVIOUS
    <3>2. IsFiniteSet(new) /\ Cardinality(new) \in Nat /\ new \subseteq Tokens
      BY <1>1, <1>3, <3>1, FS_Subset, FS_CardinalityType DEF GatewayTypes
    <3>3. all \subseteq Handlers
      BY <3>1 DEF Minting
    <3>4. Cardinality(all) <= Crowd /\ Cardinality(all) \in Nat
      BY <3>3, GatewayAssumption, FS_Subset, FS_CardinalityType DEF Crowd
    <3>5. servedCalmly' => Cardinality(all) <= 1
      <4>1. ASSUME servedCalmly'
            PROVE  all \subseteq {t}
        BY <1>1, <1>2, <1>6, <3>1, <4>1 DEF Minting, GatewayTypes
      <4>2. IsFiniteSet({t}) /\ Cardinality({t}) = 1
        BY FS_Singleton
      <4> QED BY <4>1, <4>2, FS_Subset
    <3>6. Cardinality(new) < OrphanLimit
      BY <1>2, <2>2, <3>1
    <3>7. /\ Cardinality(new) + Cardinality(all) < OrphanLimit + Crowd
          /\ servedCalmly' => Cardinality(new) + Cardinality(all) <= OrphanLimit
      BY <3>2, <3>4, <3>5, <3>6, CrowdIsNatural, GatewayAssumption
    <3> QED BY <3>1, <3>2, <3>7 DEF TokensFit
  <2> QED BY <1>2, <2>1, <2>2
<1>8. RateInv'
  BY <1>1, <1>2, <1>3, <1>4, <1>5, <1>7, QuietMove DEF GatewayTypes
<1>9. MeterInv'
  BY <1>2, <1>3, <1>4, <1>5, QuietMeter, UnreadIsZero DEF Sending
<1> QED BY <1>8, <1>9 DEF GatewayInv

LEMMA MintKeeps ==
    ASSUME GatewayInv, NEW t \in Handlers, G!Mint(t)
    PROVE  GatewayInv'
<1>1. GatewayTypes /\ Alone /\ TokensFit
  BY DEF GatewayInv, RateInv
<1>2. PICK k \in Tokens : tokens' = tokens \cup {k} /\ spent' = spent \cup {k}
  BY DEF G!Mint
<1>3. Moves(t, "idle", G!Nothing) /\ gatewayAt[t] = "mint"
  BY NothingIsServing DEF G!Mint, G!Leave, G!Go, Moves, GatewayPlaces
<1>4. UNCHANGED <<count, meter, admitted, uncounted, late>>
  BY DEF G!Mint
<1>5. servedCalmly' => servedCalmly
  BY <1>1, <1>3, MoveKeepsAlone
<1>6. TokensFit' /\ IsFiniteSet(tokens')
  <2>1. PICK old, new, more, fewer : old = tokens /\ new = tokens' /\ more = Minting /\ fewer = Minting'
    OBVIOUS
  <2>2. fewer = more \ {t} /\ t \in more
    BY <1>1, <1>3, <2>1 DEF Minting, Moves, GatewayTypes
  <2>3. IsFiniteSet(old) /\ IsFiniteSet(more)
    BY <1>1, <2>1, GatewayAssumption, FS_Subset DEF GatewayTypes, Minting
  <2>4. Cardinality(fewer) = Cardinality(more) - 1 /\ Cardinality(more) \in Nat /\ Cardinality(fewer) \in Nat
    BY <2>2, <2>3, FS_RemoveElement, FS_CardinalityType
  <2>5. new = old \cup {k}
    BY <1>2, <2>1
  <2>6. IsFiniteSet(new) /\ Cardinality(new) = (IF k \in old THEN Cardinality(old) ELSE Cardinality(old) + 1)
    BY <2>3, <2>5, FS_AddElement
  <2>7. Cardinality(new) \in Nat /\ Cardinality(old) \in Nat
    BY <2>3, <2>6, FS_CardinalityType
  <2>8. Cardinality(new) + Cardinality(fewer) <= Cardinality(old) + Cardinality(more)
    BY <2>4, <2>6, <2>7
  <2> QED BY <1>1, <1>5, <2>1, <2>4, <2>6, <2>7, <2>8, CrowdIsNatural, GatewayAssumption DEF TokensFit
<1>7. tokens' \subseteq Tokens /\ spent' \subseteq Tokens
  BY <1>1, <1>2 DEF GatewayTypes
<1>8. RateInv'
  BY <1>3, <1>4, <1>6, <1>7, QuietMove
<1>9. MeterInv'
  BY <1>3, <1>4, QuietMeter, NothingIsServing DEF Sending
<1> QED BY <1>8, <1>9 DEF GatewayInv

LEMMA RevokeKeeps ==
    ASSUME GatewayInv, NEW t \in Handlers, G!Revoke(t)
    PROVE  GatewayInv'
<1>1. GatewayTypes /\ Alone /\ TokensFit
  BY DEF GatewayInv, RateInv
<1>2. /\ tokens' \subseteq tokens /\ gatewayAt[t] = "idle"
      /\ UNCHANGED <<spent, count, meter, gatewayAt, serving, admitted, uncounted, late>>
  BY DEF G!Revoke
<1>3. Moves(t, "idle", serving[t])
  BY <1>1, <1>2 DEF G!Revoke, Moves, GatewayTypes, GatewayPlaces
<1>4. TokensFit' /\ IsFiniteSet(tokens') /\ tokens' \subseteq Tokens
  BY <1>1, <1>2, <1>3, FewerTokensFit, MoveKeepsAlone DEF Minting
<1>5. RateInv'
  BY <1>1, <1>2, <1>3, <1>4, QuietMove DEF GatewayTypes
<1>6. MeterInv'
  BY <1>2, <1>3, QuietMeter, UnreadIsZero DEF Sending
<1> QED BY <1>5, <1>6 DEF GatewayInv

-----------------------------------------------------------------------------
(*                                Data plane                               *)

Opened(d, k, n) == [d EXCEPT !.token = k, !.size = n]
Tried(d, n) == [d EXCEPT !.attempts = d.attempts + 1, !.served = d.served + n]

LEMMA OpenedServing ==
    ASSUME NEW d \in Servings, NEW k \in Tokens, NEW n \in Nat
    PROVE  /\ Opened(d, k, n) \in Servings /\ Opened(d, k, n).token = k
           /\ Opened(d, k, n).attempts = d.attempts /\ Opened(d, k, n).served = d.served
<1>1. PICK e : e = [d EXCEPT !.token = k]
  OBVIOUS
<1>2. e \in Servings /\ e.token = k /\ e.attempts = d.attempts /\ e.served = d.served
  BY <1>1 DEF Servings
<1>3. PICK f : f = [e EXCEPT !.size = n]
  OBVIOUS
<1>4. f \in Servings /\ f.token = k /\ f.attempts = d.attempts /\ f.served = d.served
  BY <1>2, <1>3 DEF Servings
<1>5. Opened(d, k, n) = f
  BY <1>1, <1>3, Zenon DEF Opened
<1> QED BY <1>4, <1>5

LEMMA TriedServing ==
    ASSUME NEW d \in Servings, NEW n \in {0, 1}, d.attempts <= MaxRetries, d.served <= d.attempts
    PROVE  /\ Tried(d, n) \in Servings /\ Tried(d, n).token = d.token
           /\ Tried(d, n).attempts = d.attempts + 1 /\ Tried(d, n).served = d.served + n
<1>1. PICK e : e = [d EXCEPT !.attempts = d.attempts + 1]
  OBVIOUS
<1>2. d.attempts \in Nat /\ d.served \in Nat /\ MaxRetries \in Nat
  BY GatewayAssumption DEF Servings
<1>3. e \in Servings /\ e.token = d.token /\ e.attempts = d.attempts + 1 /\ e.served = d.served
  BY <1>1, <1>2 DEF Servings
<1>4. PICK f : f = [e EXCEPT !.served = d.served + n]
  OBVIOUS
<1>5. d.served + n \in 0 .. MaxRetries + 1
  BY <1>2
<1>6. f \in Servings /\ f.token = d.token /\ f.attempts = d.attempts + 1 /\ f.served = d.served + n
  BY <1>3, <1>4, <1>5 DEF Servings
<1>7. Tried(d, n) = f
  BY <1>1, <1>4, Zenon DEF Tried
<1> QED BY <1>6, <1>7

LEMMA SameTokens ==
    ASSUME GatewayInv, NEW t, NEW p, NEW s, Moves(t, p, s), p # "mint", tokens' = tokens
    PROVE  TokensFit' /\ IsFiniteSet(tokens') /\ tokens' \subseteq Tokens
<1>1. GatewayTypes /\ Alone /\ TokensFit
  BY DEF GatewayInv, RateInv
<1>2. Minting' \subseteq Minting
  BY <1>1 DEF Minting, Moves, GatewayTypes
<1> QED BY <1>1, <1>2, MoveKeepsAlone, FewerTokensFit

LEMMA RequestKeeps ==
    ASSUME GatewayInv, NEW t \in Handlers, G!Request(t)
    PROVE  GatewayInv'
<1>1. GatewayTypes
  BY DEF GatewayInv, RateInv
<1>2. PICK size : size = Cardinality(tokens) /\ size \in Nat
  BY <1>1, FS_CardinalityType DEF GatewayTypes
<1>3. gatewayAt[t] = "idle" /\ UNCHANGED <<tokens, expired, spent, count, meter, admitted, uncounted, late>>
  BY DEF G!Request, G!table
<1>4. PICK k \in spent : serving' = [serving EXCEPT ![t].token = k, ![t].size = G!Cardinality(tokens)]
  BY DEF G!Request
<1>5. k \in Tokens /\ serving[t] \in Servings
  BY <1>1 DEF GatewayTypes
<1>6. serving' = [serving EXCEPT ![t].token = k, ![t].size = size]
  BY <1>2, <1>4, SameCardinality
<1>7. serving' = [serving EXCEPT ![t] = Opened(serving[t], k, size)]
  BY <1>6, Zenon DEF Opened
<1>8. Moves(t, "scan", Opened(serving[t], k, size))
  BY <1>2, <1>5, <1>7, OpenedServing DEF Moves, GatewayPlaces, G!Request, G!Go
<1>9. RateInv'
  <2>1. TokensFit' /\ IsFiniteSet(tokens') /\ tokens' \subseteq Tokens
    BY <1>3, <1>8, SameTokens
  <2>2. spent' \subseteq Tokens
    BY <1>1, <1>3 DEF GatewayTypes
  <2> QED BY <1>3, <1>8, <2>1, <2>2, QuietMove
<1>10. MeterInv'
  <2>1. Opened(serving[t], k, size).attempts = 0 /\ Opened(serving[t], k, size).served = 0
    BY <1>2, <1>3, <1>5, OpenedServing, UnreadIsZero DEF Sending
  <2> QED BY <1>3, <1>8, <2>1, QuietMeter DEF Sending
<1> QED BY <1>9, <1>10 DEF GatewayInv

LEMMA ScannedKeeps ==
    ASSUME GatewayInv, NEW t \in Handlers, G!Scanned(t)
    PROVE  GatewayInv'
<1>1. GatewayTypes
  BY DEF GatewayInv, RateInv
<1>2. /\ gatewayAt[t] = "scan" /\ G!Alone(t)
      /\ UNCHANGED <<tokens, expired, spent, count, admitted, uncounted, late>>
  BY DEF G!Scanned, G!table
<1>3. serving[t] \in Servings /\ serving[t].token \in Tokens
  BY <1>1, <1>2 DEF GatewayTypes
<1>4. PICK p, s : /\ Moves(t, p, s) /\ p \in {"idle", "delete", "rate"}
                  /\ s.attempts = 0 /\ s.served = 0
                  /\ UNCHANGED meter \/ meter' = [meter EXCEPT !.denied = @ + 1]
  <2>1. \/ gatewayAt' = [gatewayAt EXCEPT ![t] = "idle"] /\ serving' = [serving EXCEPT ![t] = G!Nothing]
           /\ (UNCHANGED meter \/ meter' = [meter EXCEPT !.denied = @ + 1])
        \/ /\ \E p \in {"delete", "rate"} : gatewayAt' = [gatewayAt EXCEPT ![t] = p]
           /\ UNCHANGED <<meter, serving>>
    BY DEF G!Scanned, G!GatewayError, G!Denied, G!Leave, G!Go
  <2>2. CASE gatewayAt' = [gatewayAt EXCEPT ![t] = "idle"] /\ serving' = [serving EXCEPT ![t] = G!Nothing]
             /\ (UNCHANGED meter \/ meter' = [meter EXCEPT !.denied = @ + 1])
    <3>1. Moves(t, "idle", G!Nothing)
      BY <1>2, <2>2, NothingIsServing DEF Moves, GatewayPlaces
    <3> QED BY <2>2, <3>1, NothingIsServing
  <2>3. CASE /\ \E p \in {"delete", "rate"} : gatewayAt' = [gatewayAt EXCEPT ![t] = p]
             /\ UNCHANGED <<meter, serving>>
    <3>1. PICK p \in {"delete", "rate"} : gatewayAt' = [gatewayAt EXCEPT ![t] = p]
      BY <2>3
    <3>2. serving' = [serving EXCEPT ![t] = serving[t]]
      BY <1>1, <2>3 DEF GatewayTypes
    <3>3. Moves(t, p, serving[t])
      BY <1>2, <1>3, <3>1, <3>2 DEF Moves, GatewayPlaces
    <3>4. serving[t].attempts = 0 /\ serving[t].served = 0
      BY <1>2, UnreadIsZero DEF Sending
    <3> QED BY <2>3, <3>3, <3>4
  <2> QED BY <2>1, <2>2, <2>3
<1>5. RateInv'
  <2>1. TokensFit' /\ IsFiniteSet(tokens') /\ tokens' \subseteq Tokens
    BY <1>2, <1>4, SameTokens
  <2>2. spent' \subseteq Tokens
    BY <1>1, <1>2 DEF GatewayTypes
  <2> QED BY <1>2, <1>4, <2>1, <2>2, QuietMove
<1>6. MeterInv'
  BY <1>2, <1>4, QuietMeter DEF Sending
<1> QED BY <1>5, <1>6 DEF GatewayInv

LEMMA DeleteExpiredKeeps ==
    ASSUME GatewayInv, NEW t \in Handlers, G!DeleteExpired(t)
    PROVE  GatewayInv'
<1>1. GatewayTypes /\ Alone /\ TokensFit
  BY DEF GatewayInv, RateInv
<1>2. /\ gatewayAt[t] = "delete" /\ tokens' \subseteq tokens
      /\ UNCHANGED <<expired, spent, count, admitted, uncounted, late>>
      /\ UNCHANGED meter \/ meter' = [meter EXCEPT !.denied = @ + 1]
  BY DEF G!DeleteExpired, G!Denied, G!GatewayError
<1>3. Moves(t, "idle", G!Nothing)
  BY NothingIsServing DEF Moves, GatewayPlaces, G!DeleteExpired, G!Denied, G!GatewayError, G!Leave, G!Go
<1>4. TokensFit' /\ IsFiniteSet(tokens') /\ tokens' \subseteq Tokens
  <2>1. Minting' \subseteq Minting
    BY <1>1, <1>3 DEF Minting, Moves, GatewayTypes
  <2> QED BY <1>1, <1>2, <1>3, <2>1, FewerTokensFit, MoveKeepsAlone
<1>5. RateInv'
  BY <1>1, <1>2, <1>3, <1>4, QuietMove DEF GatewayTypes
<1>6. MeterInv'
  BY <1>2, <1>3, QuietMeter, NothingIsServing DEF Sending
<1> QED BY <1>5, <1>6 DEF GatewayInv

LEMMA ReadRateKeeps ==
    ASSUME GatewayInv, NEW t \in Handlers, G!ReadRate(t)
    PROVE  GatewayInv'
<1>1. GatewayTypes /\ Alone
  BY DEF GatewayInv, RateInv
<1>2. /\ gatewayAt[t] = "rate" /\ G!Alone(t)
      /\ UNCHANGED <<tokens, expired, spent, count, meter, admitted, uncounted, late>>
  BY DEF G!ReadRate, G!table
<1>3. serving[t] \in Servings /\ serving[t].token \in Tokens
  BY <1>1, <1>2 DEF GatewayTypes
<1>4. PICK n \in Levels : /\ serving' = [serving EXCEPT ![t].count = n]
                          /\ t \notin late => n = count[serving[t].token]
  <2>1. PICK n \in IF t \in late THEN 0 .. RateLimit ELSE {count[serving[t].token]} :
            serving' = [serving EXCEPT ![t].count = n]
    BY DEF G!ReadRate
  <2>2. n \in Levels /\ (t \notin late => n = count[serving[t].token])
    BY <1>1, <1>3, <2>1 DEF GatewayTypes, Levels
  <2> QED BY <2>1, <2>2
<1>5. PICK s : s = [serving[t] EXCEPT !.count = n]
  OBVIOUS
<1>6. /\ s \in Servings /\ s.token = serving[t].token /\ s.count = n
      /\ s.attempts = serving[t].attempts /\ s.served = serving[t].served
  <2>1. n \in Nat
    BY <1>4, CrowdIsNatural DEF Levels
  <2> QED BY <1>3, <1>5, <2>1 DEF Servings
<1>7. Moves(t, "allow", s)
  BY <1>2, <1>3, <1>4, <1>5, <1>6 DEF Moves, GatewayPlaces, G!ReadRate, G!Go
<1>8. Alone' /\ servedCalmly' \in BOOLEAN /\ (servedCalmly' => servedCalmly)
  BY <1>1, <1>7, MoveKeepsAlone
<1>9. TokensFit'
  BY <1>2, <1>7, SameTokens
<1>10. GatewayTypes'
  BY <1>1, <1>2, <1>3, <1>6, <1>7, <1>8 DEF GatewayTypes, Moves
<1>11. CountIsTrue'
  BY <1>1, <1>2, <1>3, <1>4, <1>6, <1>7, <1>8 DEF GatewayInv, RateInv, CountIsTrue, Moves, GatewayTypes
<1>12. ASSUME NEW k \in Tokens
       PROVE  ViewOf(k)' = ViewOf(k)
  BY <1>1, <1>2, <1>3, <1>4, <1>6, <1>7 DEF ViewOf, Moves, GatewayTypes
<1>13. StatesAreLeft'
  BY <1>2, <1>12, SameView DEF GatewayInv, StatesAreLeft
<1>14. RateInv'
  BY <1>8, <1>9, <1>10, <1>11, <1>13 DEF RateInv
<1>15. MeterInv'
  BY <1>2, <1>6, <1>7, QuietMeter, UnreadIsZero DEF Sending
<1> QED BY <1>14, <1>15 DEF GatewayInv

-----------------------------------------------------------------------------
(*                          The limiter's answer                           *)

\* A thread that is not late writes w: those that see the count see it now.
LEMMA WritingIsLater ==
    ASSUME NEW V \in Views, NEW W \in Views, NEW t \in Handlers,
           NEW Hold \in SUBSET Handlers, t \notin Hold,
           NEW v \in Levels, NEW c \in Levels, NEW w \in Levels,
           V[t] = v + 1, W[t] = w + 1,
           \A u \in Hold : V[u] = W[u],
           \A u \in Handlers \ (Hold \cup {t}) : V[u] = c + 1 /\ W[u] = w + 1,
           v < w \/ (v = w /\ w = RateLimit)
    PROVE  /\ v < w => Before(Count(V), Count(W))
           /\ Before(Count(V), Count(W)) \/ V = W
<1>1. CASE \E u \in Handlers \ (Hold \cup {t}) : c < v
  <2>1. PICK u \in Handlers \ (Hold \cup {t}) : c < v
    BY <1>1
  <2>2. PICK m \in Levels : m = c + 1
    BY <2>1, CrowdIsNatural DEF Levels
  <2>3. \A x \in Handlers : V[x] < m \/ W[x] < m => V[x] = W[x]
    BY <2>1, <2>2 DEF Levels, Views
  <2>4. \A x \in Handlers : W[x] <= m => V[x] <= m
    BY <2>1, <2>2 DEF Levels, Views
  <2>5. V[u] <= m /\ m < W[u]
    BY <2>1, <2>2 DEF Levels, Views
  <2>6. Before(Count(V), Count(W))
    BY <2>3, <2>4, <2>5, LeavingALevelIsLater
  <2> QED BY <2>6
<1>2. CASE v < w /\ ~(\E u \in Handlers \ (Hold \cup {t}) : c < v)
  <2>1. PICK m \in Levels : m = v + 1
    BY <1>2, CrowdIsNatural DEF Levels
  <2>2. \A x \in Handlers : V[x] < m \/ W[x] < m => V[x] = W[x]
    BY <1>2, <2>1 DEF Levels, Views
  <2>3. \A x \in Handlers : W[x] <= m => V[x] <= m
    BY <1>2, <2>1 DEF Levels, Views
  <2>4. V[t] <= m /\ m < W[t]
    BY <1>2, <2>1 DEF Levels, Views
  <2>5. Before(Count(V), Count(W))
    BY <2>2, <2>3, <2>4, LeavingALevelIsLater
  <2> QED BY <2>5
<1>3. CASE v = w /\ w = RateLimit /\ ~(\E u \in Handlers \ (Hold \cup {t}) : c < v)
  <2>1. \A x \in Handlers : V[x] = W[x]
    BY <1>3 DEF Levels, Views
  <2>2. V = W
    BY <2>1 DEF Views
  <2> QED BY <1>3, <2>2 DEF Levels
<1> QED BY <1>1, <1>2, <1>3

\* The limiter's answer: the request goes on with w written, or is denied.
Answered(t, p, k, v, w) ==
    /\ gatewayAt[t] = "allow" /\ k = serving[t].token /\ v = serving[t].count /\ w \in Levels
    /\ \/ p = "body" /\ v < w /\ Moves(t, p, serving[t])
       \/ p = "idle" /\ v = w /\ w = RateLimit /\ Moves(t, p, G!Nothing)
    /\ count' = [count EXCEPT ![k] = IF t \in late THEN 0 ELSE w]
    /\ admitted' = [admitted EXCEPT ![k] = IF t \notin late /\ p = "body" THEN @ + 1 ELSE @]
    /\ late' = late \ {t}
    /\ UNCHANGED <<tokens, spent>>

LEMMA AnswerTypes ==
    ASSUME GatewayInv, NEW t \in Handlers, NEW p, NEW k, NEW v, NEW w, Answered(t, p, k, v, w), w <= v + 1
    PROVE  /\ GatewayTypes' /\ Alone' /\ TokensFit' /\ CountIsTrue'
           /\ k \in Tokens /\ v \in Levels
           /\ \A u \in Handlers : u # t => gatewayAt'[u] = gatewayAt[u] /\ serving'[u] = serving[u]
           /\ gatewayAt'[t] # "allow"
           /\ \A j \in Tokens : j # k => gatewayAt'[t] # "allow" /\ (serving'[t].token # j)
<1>1. GatewayTypes /\ Alone /\ CountIsTrue /\ TokensFit
  BY DEF GatewayInv, RateInv
<1>2. k \in Tokens /\ v \in Levels /\ serving[t] \in Servings /\ w \in Levels /\ 0 \in Levels
  BY <1>1, CrowdIsNatural DEF Answered, GatewayTypes, Servings, Levels
<1>3. PICK s : Moves(t, p, s) /\ p \in {"body", "idle"} /\ (s = serving[t] \/ s = G!Nothing)
  BY DEF Answered
<1>4. /\ Alone' /\ servedCalmly' \in BOOLEAN
      /\ servedCalmly' => servedCalmly /\ \A u \in Handlers : u # t => gatewayAt[u] = "idle"
  BY <1>1, <1>3, MoveKeepsAlone
<1>5. TokensFit' /\ IsFiniteSet(tokens') /\ tokens' \subseteq Tokens
  BY <1>3, SameTokens DEF Answered
<1>6. /\ gatewayAt' \in [Handlers -> GatewayPlaces] /\ serving' \in [Handlers -> Servings]
      /\ gatewayAt'[t] = p /\ serving'[t] = s
      /\ \A u \in Handlers : u # t => gatewayAt'[u] = gatewayAt[u] /\ serving'[u] = serving[u]
  BY <1>1, <1>3 DEF GatewayTypes, Moves
<1>7. /\ count' \in [Tokens -> Levels] /\ admitted' \in [Tokens -> Nat]
      /\ count'[k] = (IF t \in late THEN 0 ELSE w)
      /\ admitted'[k] = (IF t \notin late /\ p = "body" THEN admitted[k] + 1 ELSE admitted[k])
      /\ \A j \in Tokens : j # k => count'[j] = count[j] /\ admitted'[j] = admitted[j]
  BY <1>1, <1>2 DEF Answered, GatewayTypes
<1>8. late' \subseteq {u \in Handlers : gatewayAt'[u] \in {"rate", "allow"}}
  BY <1>1, <1>6 DEF Answered, GatewayTypes
<1>9. GatewayTypes'
  BY <1>1, <1>3, <1>4, <1>5, <1>6, <1>7, <1>8 DEF GatewayTypes, Answered, Moves
<1>10. CountIsTrue'
  <2>1. SUFFICES ASSUME servedCalmly'
                 PROVE  /\ \A j \in Tokens : admitted'[j] <= count'[j] /\ (late' # {} => admitted'[j] = 0)
                        /\ \A u \in Handlers \ late' : gatewayAt'[u] = "allow" =>
                                serving'[u].count = count'[serving'[u].token]
    BY DEF CountIsTrue
  <2>2. late' = {} /\ \A u \in Handlers : gatewayAt'[u] # "allow"
    BY <1>1, <1>3, <1>4, <1>6, <2>1 DEF Answered, GatewayTypes
  <2>3. admitted'[k] <= count'[k]
    <3>1. admitted[k] <= count[k] /\ admitted[k] \in Nat
      BY <1>1, <1>2, <1>4, <2>1 DEF CountIsTrue, GatewayTypes
    <3>2. CASE t \in late
      <4>1. admitted[k] = 0
        BY <1>1, <1>2, <1>4, <2>1, <3>2 DEF CountIsTrue
      <4> QED BY <1>7, <3>2, <4>1
    <3>3. CASE t \notin late
      <4>1. v = count[k]
        BY <1>1, <1>4, <2>1, <3>3 DEF CountIsTrue, Answered
      <4>2. (p = "body" => v < w) /\ v <= w
        BY <1>2 DEF Answered, Levels
      <4> QED BY <1>2, <1>7, <3>1, <3>3, <4>1, <4>2 DEF Levels
    <3> QED BY <3>2, <3>3
  <2>4. \A j \in Tokens : admitted'[j] <= count'[j]
    BY <1>1, <1>4, <1>7, <2>1, <2>3 DEF CountIsTrue
  <2> QED BY <2>2, <2>4
<1>11. \A j \in Tokens : j # k => serving'[t].token # j
  BY <1>3, <1>6, GatewayAssumption DEF Answered, G!Nothing
<1> QED BY <1>2, <1>3, <1>4, <1>5, <1>6, <1>9, <1>10, <1>11

LEMMA AnswerOfToken ==
    ASSUME GatewayInv, NEW t \in Handlers, NEW p, NEW k, NEW v, NEW w, Answered(t, p, k, v, w), w <= v + 1
    PROVE  admitted'[k] + Crowd - State(k)'[0] <= Cardinality(Below(State(k)'))
<1>1. GatewayTypes /\ GatewayTypes'
  BY AnswerTypes DEF GatewayInv, RateInv
<1>2. /\ k \in Tokens /\ v \in Levels /\ w \in Levels
      /\ \A u \in Handlers : u # t => gatewayAt'[u] = gatewayAt[u] /\ serving'[u] = serving[u]
      /\ gatewayAt'[t] # "allow"
  BY AnswerTypes DEF Answered
<1>3. PICK V, W : V = ViewOf(k) /\ W = ViewOf(k)'
  OBVIOUS
<1>4. V \in Views /\ State(k)[0] = Cardinality({u \in late : serving[u].token = k})
  BY <1>1, <1>2, <1>3, ViewsAreViews
<1>5. W \in Views
  BY <1>1, <1>2, <1>3, CrowdIsNatural DEF GatewayTypes, ViewOf, Views, Servings, Levels
<1>6. State(k)' = Count(W) /\ State(k) = Count(V)
  BY <1>3 DEF State, Count, Levels
<1>7. State(k)'[0] = Cardinality({u \in late' : serving'[u].token = k})
  <2>1. {u \in Handlers : W[u] <= 0} = {u \in late' : serving'[u].token = k}
    BY <1>1, <1>2, <1>3, CrowdIsNatural DEF GatewayTypes, ViewOf, Servings, Levels
  <2>2. 0 \in Levels
    BY CrowdIsNatural DEF Levels
  <2>3. Count(W)[0] = Cardinality({u \in Handlers : W[u] <= 0})
    BY <2>2 DEF Count
  <2> QED BY <1>6, <2>1, <2>3
<1>8. /\ admitted[k] \in Nat
      /\ count'[k] = (IF t \in late THEN 0 ELSE w)
      /\ admitted'[k] = (IF t \notin late /\ p = "body" THEN admitted[k] + 1 ELSE admitted[k])
  BY <1>1, <1>2 DEF Answered, GatewayTypes
<1> DEFINE Old == {u \in late : serving[u].token = k}
           New == {u \in late' : serving'[u].token = k}
<1>9. IsFiniteSet(Old) /\ Cardinality(Old) \in Nat
  <2>1. Old \subseteq Handlers
    BY <1>1 DEF GatewayTypes
  <2> QED BY <2>1, GatewayAssumption, FS_Subset, FS_CardinalityType
<1>10. New = Old \ {t}
  BY <1>1, <1>2 DEF Answered, GatewayTypes
<1>11. CASE t \in late
  <2>1. t \in Old /\ Cardinality(New) = Cardinality(Old) - 1
    <3>1. t \in Old
      BY <1>11 DEF Answered
    <3> QED BY <1>9, <1>10, <3>1, FS_RemoveElement
  <2>2. PICK m \in Levels : m = 0
    BY CrowdIsNatural DEF Levels
  <2>3. V[t] = 0 /\ W[t] = 1
    BY <1>2, <1>3, <1>8, <1>11 DEF ViewOf, Answered
  <2>4. \A u \in Handlers : V[u] < m \/ W[u] < m => V[u] = W[u]
    BY <1>4, <1>5, <2>2 DEF Views
  <2>5. \A u \in Handlers : W[u] <= m => V[u] <= m
    <3>1. SUFFICES ASSUME NEW u \in Handlers, W[u] <= 0
                   PROVE  V[u] <= 0
      BY <2>2
    <3>2. u # t
      BY <2>3, <3>1
    <3>3. u \in late' /\ serving'[u].token = k
      BY <1>1, <1>2, <1>3, <3>1, CrowdIsNatural DEF GatewayTypes, ViewOf, Servings, Levels
    <3> QED BY <1>2, <1>3, <3>2, <3>3 DEF ViewOf, Answered
  <2>6. V[t] <= m /\ m < W[t]
    BY <2>2, <2>3
  <2>7. Before(Count(V), Count(W))
    BY <1>4, <1>5, <2>4, <2>5, <2>6, LeavingALevelIsLater
  <2>8. admitted'[k] - State(k)'[0] <= admitted[k] + 1 - State(k)[0]
    BY <1>4, <1>7, <1>8, <1>9, <1>11, <2>1
  <2> QED BY <1>1, <1>2, <1>6, <2>7, <2>8, LaterView DEF GatewayInv
<1>12. CASE t \notin late
  <2> DEFINE Hold == {u \in Handlers \ {t} : serving[u].token = k /\ (u \in late \/ gatewayAt[u] = "allow")}
  <2>1. New = Old
    BY <1>10, <1>12
  <2>2. V[t] = v + 1 /\ W[t] = w + 1
    BY <1>2, <1>3, <1>8, <1>12 DEF ViewOf, Answered
  <2>3. \A u \in Hold : V[u] = W[u]
    BY <1>2, <1>3 DEF ViewOf, Answered
  <2>4. PICK c \in Levels : c = count[k]
    BY <1>1, <1>2 DEF GatewayTypes
  <2>5. \A u \in Handlers \ (Hold \cup {t}) : V[u] = c + 1 /\ W[u] = w + 1
    BY <1>2, <1>3, <1>8, <1>12, <2>4 DEF ViewOf, Answered
  <2>6. v < w \/ (v = w /\ w = RateLimit)
    BY DEF Answered
  <2>7. Hold \in SUBSET Handlers /\ t \notin Hold
    OBVIOUS
  <2> HIDE DEF Hold
  <2>8. (v < w => Before(Count(V), Count(W))) /\ (Before(Count(V), Count(W)) \/ V = W)
    BY <1>2, <1>4, <1>5, <2>2, <2>3, <2>4, <2>5, <2>6, <2>7, WritingIsLater
  <2>9. admitted'[k] - State(k)'[0] <= admitted[k] + 1 - State(k)[0]
    <3>1. State(k)'[0] = State(k)[0] /\ State(k)[0] \in Nat
      BY <1>4, <1>7, <1>9, <2>1
    <3>2. admitted'[k] <= admitted[k] + 1 /\ admitted'[k] \in Nat
      BY <1>8
    <3> QED BY <1>8, <3>1, <3>2
  <2>10. CASE Before(Count(V), Count(W))
    BY <1>1, <1>2, <1>6, <2>9, <2>10, LaterView DEF GatewayInv
  <2>11. CASE V = W /\ ~Before(Count(V), Count(W))
    <3>1. p = "idle" /\ admitted'[k] = admitted[k]
      BY <1>8, <2>8, <2>11 DEF Answered
    <3> QED BY <1>2, <1>3, <2>11, <3>1, SameView DEF GatewayInv
  <2> QED BY <2>8, <2>10, <2>11
<1> QED BY <1>11, <1>12

LEMMA AnswerKeepsRate ==
    ASSUME GatewayInv, NEW t \in Handlers, NEW p, NEW k, NEW v, NEW w, Answered(t, p, k, v, w), w <= v + 1
    PROVE  RateInv'
<1>1. /\ GatewayTypes /\ GatewayTypes' /\ Alone' /\ TokensFit' /\ CountIsTrue' /\ k \in Tokens
      /\ \A u \in Handlers : u # t => gatewayAt'[u] = gatewayAt[u] /\ serving'[u] = serving[u]
      /\ gatewayAt'[t] # "allow" /\ \A j \in Tokens : j # k => serving'[t].token # j
  BY AnswerTypes DEF GatewayInv, RateInv
<1>2. ASSUME NEW j \in Tokens, j # k
      PROVE  admitted'[j] + Crowd - State(j)'[0] <= Cardinality(Below(State(j)'))
  <2>1. admitted'[j] = admitted[j] /\ count'[j] = count[j]
    BY <1>1, <1>2 DEF Answered, GatewayTypes
  <2>2. serving[t].token # j
    BY <1>2 DEF Answered
  <2>3. \A u \in Handlers : u # t => (u \in late' <=> u \in late)
    BY DEF Answered
  <2>4. ViewOf(j)' = ViewOf(j)
    BY <1>1, <1>2, <2>1, <2>2, <2>3 DEF ViewOf
  <2> QED BY <2>1, <2>4, SameView DEF GatewayInv
<1>3. StatesAreLeft'
  BY <1>2, AnswerOfToken DEF StatesAreLeft
<1> QED BY <1>1, <1>3 DEF RateInv

LEMMA AllowKeeps ==
    ASSUME GatewayInv, NEW t \in Handlers, G!Allow(t)
    PROVE  GatewayInv'
<1>1. GatewayTypes /\ MeterInv
  BY DEF GatewayInv, RateInv
<1>2. /\ gatewayAt[t] = "allow" /\ G!Alone(t)
      /\ UNCHANGED <<tokens, expired, spent, requests, uncounted>>
  BY DEF G!Allow, G!table
<1>3. PICK k, v : k = serving[t].token /\ v = serving[t].count
  OBVIOUS
<1>4. serving[t] \in Servings /\ k \in Tokens /\ v \in Levels
  BY <1>1, <1>2, <1>3 DEF GatewayTypes
<1>5. serving[t].attempts = 0 /\ serving[t].served = 0
  BY <1>2, UnreadIsZero DEF Sending
<1>6. CASE v >= RateLimit
  <2>1. v = RateLimit
    BY <1>4, <1>6, CrowdIsNatural DEF Levels
  <2>2. /\ count' = [count EXCEPT ![k] = IF t \in late THEN 0 ELSE v] /\ late' = late \ {t}
        /\ meter' = [meter EXCEPT !.denied = @ + 1] /\ UNCHANGED admitted
        /\ gatewayAt' = [gatewayAt EXCEPT ![t] = "idle"] /\ serving' = [serving EXCEPT ![t] = G!Nothing]
    BY <1>3, <1>6 DEF G!Allow, G!Write, G!Denied, G!Leave, G!Go
  <2>3. Moves(t, "idle", G!Nothing)
    BY <1>2, <2>2, NothingIsServing DEF Moves, GatewayPlaces
  <2>4. Answered(t, "idle", k, v, v)
    <3>1. admitted' = [admitted EXCEPT ![k] = IF t \notin late /\ "idle" = "body" THEN @ + 1 ELSE @]
      BY <1>1, <1>4, <2>2 DEF GatewayTypes
    <3> QED BY <1>2, <1>3, <1>4, <2>1, <2>2, <2>3, <3>1 DEF Answered
  <2>5. RateInv'
    <3>1. v <= v + 1
      BY <1>4 DEF Levels
    <3> QED BY <2>4, <3>1, AnswerKeepsRate
  <2>6. MeterInv'
    BY <1>2, <2>2, <2>3, QuietMeter, NothingIsServing DEF Sending
  <2> QED BY <2>5, <2>6 DEF GatewayInv
<1>7. CASE v < RateLimit
  <2>1. ~(v >= RateLimit) /\ v + 1 \in Levels /\ v < v + 1 /\ v + 1 <= v + 1
    BY <1>4, <1>7, CrowdIsNatural DEF Levels
  <2>2. /\ count' = [count EXCEPT ![k] = IF t \in late THEN 0 ELSE v + 1] /\ late' = late \ {t}
        /\ UNCHANGED meter
        /\ admitted' = [admitted EXCEPT ![k] = IF t \in late THEN @ ELSE @ + 1]
        /\ gatewayAt' = [gatewayAt EXCEPT ![t] = "body"] /\ UNCHANGED serving
    BY <1>3, <2>1 DEF G!Allow, G!Write, G!Admit, G!Go
  <2>3. Moves(t, "body", serving[t])
    <3>1. serving' = [serving EXCEPT ![t] = serving[t]]
      BY <1>1, <2>2 DEF GatewayTypes
    <3> QED BY <1>2, <1>3, <1>4, <2>2, <3>1 DEF Moves, GatewayPlaces
  <2>4. Answered(t, "body", k, v, v + 1)
    <3>1. admitted' = [admitted EXCEPT ![k] = IF t \notin late /\ "body" = "body" THEN @ + 1 ELSE @]
      BY <1>1, <1>4, <2>2 DEF GatewayTypes
    <3> QED BY <1>2, <1>3, <1>4, <2>1, <2>2, <2>3, <3>1 DEF Answered
  <2>5. RateInv'
    BY <2>1, <2>4, AnswerKeepsRate
  <2>6. MeterInv'
    BY <1>2, <1>5, <2>2, <2>3, QuietMeter DEF Sending
  <2> QED BY <2>5, <2>6 DEF GatewayInv
<1> QED BY <1>4, <1>6, <1>7, CrowdIsNatural DEF Levels

-----------------------------------------------------------------------------
(*                             The supplier's answer                       *)

LEMMA SendKeeps ==
    ASSUME GatewayInv, NEW t \in Handlers, G!Send(t)
    PROVE  GatewayInv'
<1>1. GatewayTypes /\ MeterInv
  BY DEF GatewayInv, RateInv
<1>2. /\ gatewayAt[t] = "send" /\ G!Alone(t)
      /\ UNCHANGED <<tokens, expired, spent, count, meter, requests, admitted, uncounted, late>>
  BY DEF G!Send, G!table
<1>3. PICK n \in {0, 1}, came \in BOOLEAN :
        /\ came => n = 1
        /\ LET attempts == serving[t].attempts + 1
           IN  /\ serving' = [serving EXCEPT ![t].attempts = attempts, ![t].served = @ + n]
               /\ gatewayAt' = [gatewayAt EXCEPT ![t] = IF came THEN "relay"
                                    ELSE IF attempts <= MaxRetries THEN "send" ELSE "failed"]
  BY DEF G!Send, G!Go
<1>4. /\ serving[t] \in Servings /\ serving[t].token \in Tokens
      /\ serving[t].served <= serving[t].attempts /\ serving[t].attempts <= MaxRetries
  BY <1>1, <1>2 DEF GatewayTypes, MeterInv, SendingOK
<1>5. PICK s : s = Tried(serving[t], n)
  OBVIOUS
<1>6. serving' = [serving EXCEPT ![t] = s]
  BY <1>3, <1>5, Zenon DEF Tried
<1>7. /\ s \in Servings /\ s.token \in Tokens /\ s.attempts = serving[t].attempts + 1
      /\ s.served = serving[t].served + n /\ s.served \in Nat /\ s.attempts \in Nat
  <2>1. s \in Servings /\ s.token = serving[t].token /\ s.attempts = serving[t].attempts + 1
        /\ s.served = serving[t].served + n
    BY <1>4, <1>5, TriedServing
  <2> QED BY <1>4, <2>1, GatewayAssumption DEF Servings
<1>8. PICK p : /\ gatewayAt' = [gatewayAt EXCEPT ![t] = p]
               /\ \/ p = "relay" /\ n = 1
                  \/ p = "send" /\ s.attempts <= MaxRetries
                  \/ p = "failed"
  BY <1>3, <1>7
<1>9. Moves(t, p, s)
  BY <1>2, <1>6, <1>7, <1>8 DEF Moves, GatewayPlaces
<1>10. RateInv'
  <2>1. TokensFit' /\ IsFiniteSet(tokens') /\ tokens' \subseteq Tokens
    BY <1>2, <1>8, <1>9, SameTokens
  <2>2. spent' \subseteq Tokens
    BY <1>1, <1>2 DEF GatewayTypes
  <2> QED BY <1>2, <1>8, <1>9, <2>1, <2>2, QuietMove
<1>11. MeterInv'
  <2>1. Pending' = Pending /\ p # "record"
    BY <1>2, <1>8, <1>9, PendingMoves DEF Sending
  <2>2. serving[t].served \in Nat /\ serving[t].attempts \in Nat
    BY <1>4, GatewayAssumption DEF Servings
  <2>3. SendingOK(t)'
    BY <1>1, <1>4, <1>6, <1>7, <1>8, <2>2 DEF SendingOK, GatewayTypes, Sending
  <2>4. Done' = Done
    BY <1>2, <2>1 DEF Done
  <2> QED BY <1>1, <1>2, <1>9, <2>1, <2>3, <2>4, MeterMoves DEF MeterInv
<1> QED BY <1>10, <1>11 DEF GatewayInv

LEMMA LimiterRests ==
    ASSUME GatewayInv, NEW t, NEW p, NEW s, Moves(t, p, s),
           gatewayAt[t] \notin {"rate", "allow"}, p \notin {"allow", "mint"},
           UNCHANGED <<tokens, spent, count, admitted, late>>
    PROVE  RateInv'
<1>1. GatewayTypes
  BY DEF GatewayInv, RateInv
<1>2. TokensFit' /\ IsFiniteSet(tokens') /\ tokens' \subseteq Tokens
  BY SameTokens
<1>3. spent' \subseteq Tokens
  BY <1>1 DEF GatewayTypes
<1> QED BY <1>2, <1>3, QuietMove

\* A request whose body was read is counted as it is sent.
LEMMA ReadBodyKeeps ==
    ASSUME GatewayInv, NEW t \in Handlers, G!ReadBody(t)
    PROVE  GatewayInv'
<1>1. GatewayTypes /\ MeterInv
  BY DEF GatewayInv, RateInv
<1>2. /\ gatewayAt[t] = "body" /\ G!Alone(t)
      /\ UNCHANGED <<tokens, expired, spent, count, requests, admitted, uncounted, late>>
  BY DEF G!ReadBody, G!table
<1>3. CASE G!GatewayError(t)
  <2>1. Moves(t, "idle", G!Nothing) /\ UNCHANGED meter
    BY <1>2, <1>3, NothingIsServing DEF Moves, GatewayPlaces, G!GatewayError, G!Leave, G!Go
  <2>2. MeterInv'
    BY <1>2, <2>1, QuietMeter, NothingIsServing DEF Sending
  <2> QED BY <1>2, <2>1, <2>2, LimiterRests DEF GatewayInv
<1>4. CASE meter' = [meter EXCEPT !.requests = @ + 1] /\ G!Go(t, "send") /\ UNCHANGED serving
  <2>1. serving[t].attempts = 0 /\ serving[t].served = 0 /\ serving[t] \in Servings
    BY <1>2, UnreadIsZero DEF Sending
  <2>2. Moves(t, "send", serving[t])
    BY <1>1, <1>2, <1>4, <2>1 DEF Moves, GatewayTypes, GatewayPlaces, G!Go
  <2>3. Cardinality(Pending') = Cardinality(Pending) + 1 /\ Cardinality(Pending) \in Nat
    BY <1>2, <2>2, PendingMoves DEF Sending
  <2>4. /\ meter' \in [requests : Nat, denied : Nat, answers : Nat] /\ uncounted \in Nat
        /\ meter'.requests = meter.requests + 1 /\ meter'.answers = meter.answers
        /\ meter.requests \in Nat
    BY <1>1, <1>4 DEF MeterInv
  <2>5. Done' = Done
    BY <1>2, <2>3, <2>4 DEF Done
  <2>6. SendingOK(t)'
    BY <1>1, <2>1, <2>2, GatewayAssumption DEF SendingOK, Moves, GatewayTypes, Sending
  <2>7. MeterInv'
    BY <1>2, <2>2, <2>4, <2>5, <2>6, MeterMoves
  <2> QED BY <1>2, <2>2, <2>7, LimiterRests DEF GatewayInv
<1> QED BY <1>3, <1>4 DEF G!ReadBody

\* It ends without a status.
LEMMA LoseKeeps ==
    ASSUME GatewayInv, NEW t \in Handlers, gatewayAt[t] \in {"failed", "relay"}, G!Alone(t), G!Lose(t),
           UNCHANGED <<tokens, spent, count, admitted, late>>
    PROVE  GatewayInv'
<1>1. MeterInv
  BY DEF GatewayInv
<1>2. Moves(t, "idle", G!Nothing) /\ UNCHANGED meter /\ uncounted' = uncounted + 1
  BY NothingIsServing DEF Moves, GatewayPlaces, G!Lose, G!Leave, G!Go
<1>3. Cardinality(Pending') = Cardinality(Pending) - 1 /\ Cardinality(Pending) \in Nat
  BY <1>2, PendingMoves DEF Sending
<1>4. meter.requests \in Nat /\ uncounted \in Nat /\ uncounted' \in Nat
  BY <1>1, <1>2 DEF MeterInv
<1>5. Done' = Done
  BY <1>2, <1>3, <1>4 DEF Done
<1>6. SendingOK(t)'
  BY <1>2, NothingIsServing DEF GatewayInv, RateInv, GatewayTypes, SendingOK, Moves, Sending
<1>7. MeterInv'
  BY <1>1, <1>2, <1>4, <1>5, <1>6, MeterMoves DEF MeterInv
<1> QED BY <1>2, <1>7, LimiterRests DEF GatewayInv

LEMMA EndingKeeps ==
    ASSUME GatewayInv, NEW t \in Handlers, G!Failed(t) \/ G!Relay(t)
    PROVE  GatewayInv'
<1>1. GatewayTypes /\ MeterInv
  BY DEF GatewayInv, RateInv
<1>2. /\ gatewayAt[t] \in {"failed", "relay"} /\ G!Alone(t)
      /\ UNCHANGED <<tokens, expired, spent, count, requests, admitted, late>>
  BY DEF G!Failed, G!Relay, G!table
<1>3. CASE G!Lose(t)
  BY <1>2, <1>3, LoseKeeps
<1>4. CASE /\ gatewayAt[t] = "relay" /\ serving' = [serving EXCEPT ![t].count = meter.answers]
           /\ G!Go(t, "record") /\ UNCHANGED <<meter, uncounted>>
  <2>1. PICK n : n = meter.answers /\ n \in Nat
    BY <1>1 DEF MeterInv
  <2>2. PICK s : s = [serving[t] EXCEPT !.count = n]
    OBVIOUS
  <2>3. serving[t] \in Servings /\ serving[t].token \in Tokens
    BY <1>1, <1>4 DEF GatewayTypes
  <2>4. /\ s \in Servings /\ s.token \in Tokens /\ s.count = n
        /\ s.attempts = serving[t].attempts /\ s.served = serving[t].served
    BY <2>1, <2>2, <2>3 DEF Servings
  <2>5. serving' = [serving EXCEPT ![t] = s]
    BY <1>4, <2>1, <2>2
  <2>6. Moves(t, "record", s)
    BY <1>2, <1>4, <2>4, <2>5 DEF Moves, GatewayPlaces, G!Go
  <2>7. Pending' = Pending
    BY <1>4, <2>6, PendingMoves DEF Sending
  <2>8. Done' = Done
    BY <1>4, <2>7 DEF Done
  <2>9. SendingOK(t)'
    BY <1>1, <1>4, <2>4, <2>6 DEF MeterInv, SendingOK, Moves, GatewayTypes, Sending
  <2>10. MeterInv'
    BY <1>1, <1>4, <2>1, <2>4, <2>6, <2>8, <2>9, MeterMoves DEF MeterInv
  <2> QED BY <1>2, <2>6, <2>10, LimiterRests DEF GatewayInv
<1> QED BY <1>2, <1>3, <1>4 DEF G!Failed, G!Relay

LEMMA RecordStatusKeeps ==
    ASSUME GatewayInv, NEW t \in Handlers, G!RecordStatus(t)
    PROVE  GatewayInv'
<1>1. GatewayTypes /\ MeterInv
  BY DEF GatewayInv, RateInv
<1>2. /\ gatewayAt[t] = "record" /\ G!Alone(t)
      /\ meter' = [meter EXCEPT !.answers = serving[t].count + 1]
      /\ UNCHANGED <<tokens, expired, spent, count, requests, admitted, uncounted, late>>
  BY DEF G!RecordStatus, G!table
<1>3. Moves(t, "idle", G!Nothing)
  BY <1>2, NothingIsServing DEF Moves, GatewayPlaces, G!RecordStatus, G!Leave, G!Go
<1>4. Cardinality(Pending') = Cardinality(Pending) - 1 /\ Cardinality(Pending) \in Nat
  BY <1>2, <1>3, PendingMoves DEF Sending
<1>5. serving[t].count \in Nat
  BY <1>1 DEF GatewayTypes, Servings
<1>6. /\ meter' \in [requests : Nat, denied : Nat, answers : Nat] /\ uncounted \in Nat
      /\ meter'.requests = meter.requests /\ meter'.answers = serving[t].count + 1
      /\ meter.requests \in Nat
  BY <1>1, <1>2, <1>5 DEF MeterInv
<1>7. Done' = Done + 1
  BY <1>2, <1>4, <1>6 DEF Done
<1>8. SendingOK(t)'
  BY <1>1, <1>3, NothingIsServing DEF GatewayTypes, SendingOK, Moves, Sending
<1>9. MeterInv'
  BY <1>2, <1>3, <1>6, <1>7, <1>8, MeterMoves
<1> QED BY <1>2, <1>3, <1>9, LimiterRests DEF GatewayInv

-----------------------------------------------------------------------------
(*                                   Time                                  *)

LEMMA NextWindowKeeps ==
    ASSUME GatewayInv, G!NextWindow
    PROVE  GatewayInv'
<1>1. GatewayTypes /\ Alone /\ TokensFit /\ MeterInv
  BY DEF GatewayInv, RateInv
<1>2. /\ late' \in SUBSET {t \in Handlers : gatewayAt[t] \in {"rate", "allow"}}
      /\ \A t \in Handlers : gatewayAt[t] = "allow" => t \in late'
      /\ count' = [k \in Tokens |-> 0] /\ admitted' = [k \in Tokens |-> 0]
      /\ UNCHANGED <<tokens, expired, spent, meter, gatewayAt, serving, requests, uncounted, servedCalmly>>
  BY DEF G!NextWindow, G!table
<1>3. GatewayTypes'
  <2>1. 0 \in Levels
    BY CrowdIsNatural DEF Levels
  <2> QED BY <1>1, <1>2, <2>1 DEF GatewayTypes
<1>4. Alone' /\ TokensFit' /\ CountIsTrue'
  BY <1>1, <1>2 DEF Alone, TokensFit, CountIsTrue, Minting
<1>5. ASSUME NEW k \in Tokens
      PROVE  admitted'[k] + Crowd - State(k)'[0] <= Cardinality(Below(State(k)'))
  <2>1. PICK W : W = ViewOf(k)'
    OBVIOUS
  <2>2. W \in Views /\ \A t \in Handlers : W[t] \in 0 .. 1
    BY <1>2, <1>3, <2>1, CrowdIsNatural DEF GatewayTypes, ViewOf, Views, Servings, Levels
  <2>3. State(k)' = Count(W)
    BY <2>1 DEF State, Count, Levels
  <2>4. Count(W) \in G!Progressions
    BY <2>2, CountIsProgression
  <2>5. ASSUME NEW i \in 1 .. RateLimit
        PROVE  Count(W)[i] = Crowd
    <3>1. {t \in Handlers : W[t] <= i} = Handlers
      BY <2>2
    <3>2. i \in Levels
      BY CrowdIsNatural DEF Levels
    <3> QED BY <3>1, <3>2 DEF Count, Crowd
  <2>6. Crowd - Count(W)[0] <= Cardinality(Below(Count(W)))
    BY <2>4, <2>5, FirstHasSomeBelow
  <2>7. Count(W)[0] \in Nat
    BY <2>4, ProgressionsAre, CrowdIsNatural DEF Levels
  <2>8. 0 + Crowd - Count(W)[0] <= Cardinality(Below(Count(W)))
    BY <2>6, <2>7, CrowdIsNatural
  <2> QED BY <1>2, <2>3, <2>8
<1>6. RateInv'
  BY <1>3, <1>4, <1>5 DEF RateInv, StatesAreLeft
<1>7. MeterInv'
  BY <1>1, <1>2 DEF MeterInv, Done, Pending, SendingOK
<1> QED BY <1>6, <1>7 DEF GatewayInv

LEMMA NothingHappens ==
    ASSUME GatewayInv,
           UNCHANGED <<tokens, spent, count, meter, gatewayAt, serving, admitted, uncounted, late, servedCalmly>>
    PROVE  GatewayInv'
<1>1. GatewayTypes /\ Alone /\ TokensFit /\ CountIsTrue /\ MeterInv
  BY DEF GatewayInv, RateInv
<1>2. GatewayTypes' /\ Alone' /\ TokensFit' /\ CountIsTrue' /\ MeterInv'
  BY <1>1 DEF GatewayTypes, Alone, TokensFit, CountIsTrue, MeterInv, Minting, Done, Pending, SendingOK
<1>3. ASSUME NEW k \in Tokens
      PROVE  ViewOf(k)' = ViewOf(k)
  BY DEF ViewOf
<1>4. StatesAreLeft'
  BY <1>3, SameView DEF GatewayInv, StatesAreLeft
<1> QED BY <1>2, <1>4 DEF GatewayInv, RateInv

\* A step of another part leaves the gateway alone.
LEMMA GatewayOfSystem ==
    ASSUME GatewayInv, [Next]_vars
    PROVE  GatewayInv'
<1>1. G!Next \/ UNCHANGED gVars
  BY DEF Next, vars
<1>2. CASE UNCHANGED gVars
  BY <1>2, NothingHappens DEF gVars
<1>3. CASE \E t \in Handlers : G!Serve(t)
  BY <1>3, MintCountsKeeps, MintKeeps, RevokeKeeps, RequestKeeps, ScannedKeeps, DeleteExpiredKeeps,
     ReadRateKeeps, AllowKeeps, ReadBodyKeeps, SendKeeps, EndingKeeps, RecordStatusKeeps DEF G!Serve
<1>4. CASE G!Expire
  BY <1>4, NothingHappens DEF G!Expire
<1>5. CASE G!NextWindow
  BY <1>5, NextWindowKeeps
<1> QED BY <1>1, <1>2, <1>3, <1>4, <1>5 DEF G!Next

LEMMA GatewayInit ==
    ASSUME G!Init
    PROVE  GatewayInv
<1>1. /\ tokens = {} /\ spent = {} /\ late = {}
      /\ count = [k \in Tokens |-> 0] /\ admitted = [k \in Tokens |-> 0]
      /\ meter = [requests |-> 0, denied |-> 0, answers |-> 0] /\ uncounted = 0
      /\ gatewayAt = [t \in Handlers |-> "idle"] /\ serving = [t \in Handlers |-> G!Nothing]
      /\ servedCalmly = TRUE
  BY DEF G!Init
<1>2. GatewayTypes
  BY <1>1, NothingIsServing, FS_EmptySet, CrowdIsNatural DEF GatewayTypes, GatewayPlaces, Levels
<1>3. Alone /\ CountIsTrue
  BY <1>1 DEF Alone, CountIsTrue
<1>4. TokensFit
  <2>1. Minting = {} /\ Cardinality({}) = 0
    BY <1>1, FS_EmptySet DEF Minting
  <2>2. Crowd > 0
    BY GatewayAssumption, FS_EmptySet, CrowdIsNatural DEF Crowd
  <2> QED BY <1>1, <2>1, <2>2, CrowdIsNatural, GatewayAssumption DEF TokensFit
<1>5. ASSUME NEW k \in Tokens
      PROVE  admitted[k] + Crowd - State(k)[0] <= Cardinality(Below(State(k)))
  <2>1. ViewOf(k) \in Views /\ State(k) \in G!Progressions
    BY <1>2, ViewsAreViews
  <2>2. \A t \in Handlers : ViewOf(k)[t] = 1
    BY <1>1 DEF ViewOf
  <2>3. ASSUME NEW i \in 1 .. RateLimit
        PROVE  State(k)[i] = Crowd
    <3>1. {t \in Handlers : ViewOf(k)[t] <= i} = Handlers
      BY <2>2
    <3>2. i \in Levels
      BY CrowdIsNatural DEF Levels
    <3> QED BY <3>1, <3>2 DEF State, Count, Crowd
  <2>4. Crowd - State(k)[0] <= Cardinality(Below(State(k)))
    BY <2>1, <2>3, FirstHasSomeBelow
  <2>5. State(k)[0] \in Nat
    BY <2>1, ProgressionsAre, CrowdIsNatural DEF Levels
  <2> QED BY <1>1, <2>4, <2>5, CrowdIsNatural
<1>6. MeterInv
  <2>1. Pending = {} /\ Cardinality({}) = 0
    BY <1>1, FS_EmptySet DEF Pending, Sending
  <2>2. Done = 0
    BY <1>1, <2>1 DEF Done
  <2> QED BY <1>1, <2>2, NothingIsServing DEF MeterInv, SendingOK
<1> QED BY <1>2, <1>3, <1>4, <1>5, <1>6 DEF GatewayInv, RateInv, StatesAreLeft

LEMMA GatewayIsContained ==
    ASSUME GatewayInv
    PROVE  G!LimitsHold /\ G!UpstreamIsAccounted
<1>1. GatewayTypes /\ TokensFit /\ CountIsTrue /\ StatesAreLeft /\ MeterInv
  BY DEF GatewayInv, RateInv
<1>2. G!Cardinality(tokens) < OrphanLimit + G!Cardinality(Handlers)
      /\ (servedCalmly => G!Cardinality(tokens) <= OrphanLimit)
  <2>1. Cardinality(tokens) \in Nat /\ Cardinality(Minting) \in Nat
    BY <1>1, GatewayAssumption, FS_Subset, FS_CardinalityType DEF GatewayTypes, Minting
  <2>2. Cardinality(tokens) < OrphanLimit + Crowd /\ (servedCalmly => Cardinality(tokens) <= OrphanLimit)
    BY <1>1, <2>1, CrowdIsNatural, GatewayAssumption DEF TokensFit
  <2> QED BY <2>2, SameCardinality DEF Crowd
<1>3. ASSUME NEW k \in Tokens
      PROVE  /\ admitted[k] + G!Cardinality(Handlers) < G!Cardinality(G!Progressions)
             /\ servedCalmly => admitted[k] <= RateLimit
  <2>1. State(k) \in G!Progressions
    BY <1>1, <1>3, ViewsAreViews
  <2>2. PICK f \in G!Progressions : f = State(k)
    BY <2>1
  <2>3. Cardinality(Below(f)) + 1 + f[0] <= Cardinality(G!Progressions)
    BY LateAreAbove
  <2>4. f[0] \in Nat /\ Cardinality(Below(f)) \in Nat /\ Cardinality(G!Progressions) \in Nat
    BY <2>2, ProgressionsAre, BelowIsFinite, ProgressionsAreFinite, FS_CardinalityType, CrowdIsNatural DEF Levels
  <2>5. admitted[k] + Crowd - f[0] <= Cardinality(Below(f)) /\ admitted[k] \in Nat /\ count[k] \in Levels
    BY <1>1, <1>3, <2>2 DEF StatesAreLeft, GatewayTypes
  <2>6. admitted[k] + Crowd < Cardinality(G!Progressions)
    BY <2>3, <2>4, <2>5, CrowdIsNatural
  <2>7. servedCalmly => admitted[k] <= RateLimit
    BY <1>1, <1>3, <2>5, CrowdIsNatural DEF CountIsTrue, Levels
  <2> QED BY <2>6, <2>7, SameCardinality DEF Crowd
<1>4. G!UpstreamIsAccounted
  <2>1. G!Upstream = Pending
    BY DEF G!Upstream, Pending, Sending
  <2>2. ASSUME NEW t \in Handlers
        PROVE  serving[t].served <= MaxRetries + 1 /\ (gatewayAt[t] \in {"relay", "record"} => serving[t].served > 0)
    <3>1. serving[t] \in Servings /\ SendingOK(t)
      BY <1>1 DEF GatewayTypes, MeterInv
    <3> QED BY <3>1, GatewayAssumption DEF Servings, SendingOK
  <2>3. PICK n : n = Cardinality(Pending) /\ n \in Nat
    BY GatewayAssumption, FS_Subset, FS_CardinalityType DEF Pending
  <2>4. /\ meter.answers \in Nat /\ meter.requests \in Nat /\ uncounted \in Nat
        /\ meter.answers <= meter.requests - uncounted - n
        /\ servedCalmly => meter.answers = meter.requests - uncounted - n
    BY <1>1, <2>3 DEF MeterInv, Done
  <2>5. /\ meter.answers + uncounted + n <= meter.requests
        /\ servedCalmly => meter.requests = meter.answers + uncounted + n
    BY <2>3, <2>4
  <2> QED BY <2>1, <2>2, <2>3, <2>5, SameCardinality DEF G!UpstreamIsAccounted
<1> QED BY <1>2, <1>3, <1>4 DEF G!LimitsHold

-----------------------------------------------------------------------------
(*                               Containers                                *)

Numbers == 1 .. createdBoxes
Stations == {"idle", "create", "track", "wait", "finally", "remove"}
Exits == {"none", "ok", "failed"}
Results == {"none", "ok", "failed", "error", "timeout"}

PoolTypes ==
    /\ createdBoxes \in Nat /\ boxes \subseteq Numbers
    /\ tracked \in [Processes -> SUBSET Numbers] /\ sweep \in [Processes -> SUBSET Numbers]
    /\ executorAt \in [Q!Executions -> Stations]
    /\ mine \in [Q!Executions -> Numbers \cup {NoContainer}]
    /\ exit \in [Q!Executions -> Exits] /\ outcome \in [Q!Executions -> Results]

\* An execution has a container of its own from its creation to its removal.
BoxesAreOwn ==
    /\ \A e \in Q!Executions :
        IF executorAt[e] \in {"idle", "create"}
        THEN mine[e] = NoContainer /\ outcome[e] = "none" /\ exit[e] = "none"
        ELSE mine[e] \in Numbers
    /\ \A e, f \in Q!Executions : mine[e] # NoContainer /\ mine[e] = mine[f] => e = f

\* What a process tracks is what its executions wait for and remove.
TracksItsOwn ==
    \A p \in Processes :
        tracked[p] = {mine[e] : e \in {f \in Q!Executions : f[1] = p /\ executorAt[f] \in {"wait", "finally"}}}

ListedWasEarly ==
    \A e \in Q!Executions :
        executorAt[e] \in {"track", "wait"} /\ mine[e] \in sweep[e[1]] => e \in early

Creating == {e \in Q!Executions : executorAt[e] = "create"}
Running == {e \in Q!Executions : executorAt[e] \in {"wait", "finally"}}

BoxesFit == Cardinality(boxes) + Cardinality(Creating) <= LeftoverLimit + Cardinality(Q!Executions)

PoolInv ==
    PoolTypes /\ BoxesAreOwn /\ TracksItsOwn /\ ListedWasEarly /\ BoxesFit /\ Q!OutcomesAreEarned

-----------------------------------------------------------------------------

LEMMA SamePoolCardinality ==
    ASSUME NEW S
    PROVE  Q!Cardinality(S) = Cardinality(S)
BY Zenon DEF Q!Cardinality, Cardinality

LEMMA ExecutionsArePairs ==
    /\ IsFiniteSet(Q!Executions) /\ Cardinality(Q!Executions) \in Nat
    /\ \A e \in Q!Executions : e[1] \in Processes
    /\ \A e \in Q!Executions, p \in Processes : e \in Q!Own(p) <=> e[1] = p
<1>1. IsFiniteSet(Q!Executions)
  BY PoolAssumption, FS_Product DEF Q!Executions
<1> QED BY <1>1, FS_CardinalityType DEF Q!Executions, Q!Own

LEMMA PoolIsFinite ==
    ASSUME PoolTypes
    PROVE  /\ IsFiniteSet(boxes) /\ Cardinality(boxes) \in Nat
           /\ IsFiniteSet(Creating) /\ Cardinality(Creating) \in Nat
           /\ IsFiniteSet(Running) /\ Cardinality(Running) \in Nat
<1>1. IsFiniteSet(Numbers)
  BY FS_Interval DEF PoolTypes, Numbers
<1>2. IsFiniteSet(boxes) /\ IsFiniteSet(Creating) /\ IsFiniteSet(Running)
  BY <1>1, ExecutionsArePairs, FS_Subset DEF PoolTypes, Creating, Running
<1> QED BY <1>2, FS_CardinalityType

\* Neither more containers nor more that are to be created.
LEMMA NoMoreFit ==
    ASSUME PoolTypes, BoxesFit, boxes' \subseteq boxes, Creating' \subseteq Creating
    PROVE  BoxesFit'
<1>1. PICK old, new, more, fewer : old = boxes /\ new = boxes' /\ more = Creating /\ fewer = Creating'
  OBVIOUS
<1>2. /\ IsFiniteSet(old) /\ IsFiniteSet(more) /\ Cardinality(old) \in Nat /\ Cardinality(more) \in Nat
  BY <1>1, PoolIsFinite
<1>3. /\ Cardinality(new) <= Cardinality(old) /\ Cardinality(fewer) <= Cardinality(more)
      /\ Cardinality(new) \in Nat /\ Cardinality(fewer) \in Nat
  BY <1>1, <1>2, FS_Subset, FS_CardinalityType
<1>4. Cardinality(old) + Cardinality(more) <= LeftoverLimit + Cardinality(Q!Executions)
  BY <1>1 DEF BoxesFit
<1>5. Cardinality(new) + Cardinality(fewer) <= LeftoverLimit + Cardinality(Q!Executions)
  BY <1>2, <1>3, <1>4, PoolAssumption, ExecutionsArePairs
<1>6. Q!Executions' = Q!Executions
  BY DEF Q!Executions
<1> QED BY <1>1, <1>5, <1>6 DEF BoxesFit

\* One more container is one fewer to be created.
LEMMA CreatedFits ==
    ASSUME PoolTypes, BoxesFit, NEW e \in Creating, NEW c, boxes' = boxes \cup {c}, Creating' = Creating \ {e}
    PROVE  BoxesFit'
<1>1. PICK old, new, more, fewer : old = boxes /\ new = boxes' /\ more = Creating /\ fewer = Creating'
  OBVIOUS
<1>2. /\ IsFiniteSet(old) /\ IsFiniteSet(more) /\ Cardinality(old) \in Nat /\ Cardinality(more) \in Nat
  BY <1>1, PoolIsFinite
<1>3. new = old \cup {c} /\ fewer = more \ {e} /\ e \in more
  BY <1>1
<1>4. Cardinality(fewer) = Cardinality(more) - 1
  BY <1>2, <1>3, FS_RemoveElement
<1>5. Cardinality(new) = (IF c \in old THEN Cardinality(old) ELSE Cardinality(old) + 1)
  BY <1>2, <1>3, FS_AddElement
<1>6. Cardinality(old) + Cardinality(more) <= LeftoverLimit + Cardinality(Q!Executions)
  BY <1>1 DEF BoxesFit
<1>7. Cardinality(new) + Cardinality(fewer) <= LeftoverLimit + Cardinality(Q!Executions)
  BY <1>2, <1>4, <1>5, <1>6, PoolAssumption, ExecutionsArePairs
<1>8. Q!Executions' = Q!Executions
  BY DEF Q!Executions
<1> QED BY <1>1, <1>7, <1>8 DEF BoxesFit

\* Whoever passes the check finds no more leftovers than allowed; what his process
\* tracks belongs to executions that do not create.
LEMMA EnforcedFits ==
    ASSUME PoolTypes, BoxesAreOwn, TracksItsOwn, NEW p \in Processes,
           Cardinality(boxes \ tracked[p]) <= LeftoverLimit,
           boxes' = boxes, Creating' \subseteq Q!Executions \ Running
    PROVE  BoxesFit'
<1>1. PICK old, new, more, all, rest : /\ old = boxes /\ new = Creating' /\ more = Running
                                       /\ all = Q!Executions /\ rest = tracked[p]
  OBVIOUS
<1>2. /\ IsFiniteSet(old) /\ IsFiniteSet(more) /\ IsFiniteSet(all) /\ Cardinality(all) \in Nat
      /\ more \subseteq all
  BY <1>1, PoolIsFinite, ExecutionsArePairs DEF Running
<1>3. IsFiniteSet(new) /\ new \cap more = {} /\ new \cup more \subseteq all
  BY <1>1, <1>2, FS_Subset
<1>4. Cardinality(new) + Cardinality(more) <= Cardinality(all)
  <2>1. Cardinality(new \cup more) = Cardinality(new) + Cardinality(more) - Cardinality(new \cap more)
    BY <1>2, <1>3, FS_Union
  <2>2. Cardinality(new \cap more) = 0
    BY <1>3, FS_EmptySet
  <2>3. Cardinality(new \cup more) <= Cardinality(all)
    BY <1>2, <1>3, FS_Subset
  <2> QED BY <1>2, <1>3, <2>1, <2>2, <2>3, FS_CardinalityType
<1>5. IsFiniteSet(rest) /\ Cardinality(rest) <= Cardinality(more)
  <2> DEFINE OwnRunning == {e \in more : e[1] = p}
             Box == [e \in OwnRunning |-> mine[e]]
  <2>1. rest = {mine[e] : e \in OwnRunning}
    BY <1>1 DEF TracksItsOwn, Running
  <2>2. Box \in Surjection(OwnRunning, rest)
    BY <2>1 DEF Surjection
  <2>3. IsFiniteSet(OwnRunning) /\ Cardinality(OwnRunning) <= Cardinality(more)
    BY <1>2, FS_Subset
  <2>4. IsFiniteSet(rest) /\ Cardinality(rest) <= Cardinality(OwnRunning)
    BY <2>2, <2>3, FS_Surjection
  <2> QED BY <1>2, <2>3, <2>4, FS_CardinalityType
<1>6. Cardinality(old) <= LeftoverLimit + Cardinality(rest)
  <2>1. Cardinality(old \ rest) = Cardinality(old) - Cardinality(old \cap rest)
    BY <1>2, FS_Difference
  <2>2. IsFiniteSet(old \cap rest) /\ Cardinality(old \cap rest) <= Cardinality(rest)
    BY <1>5, FS_Intersection
  <2>3. Cardinality(old \ rest) <= LeftoverLimit
    BY <1>1
  <2> QED BY <1>2, <1>5, <2>1, <2>2, <2>3, FS_CardinalityType, PoolAssumption
<1>7. Cardinality(old) + Cardinality(new) <= LeftoverLimit + Cardinality(all)
  BY <1>2, <1>3, <1>4, <1>5, <1>6, FS_CardinalityType, PoolAssumption
<1>8. Q!Executions' = Q!Executions
  BY DEF Q!Executions
<1> QED BY <1>1, <1>7, <1>8 DEF BoxesFit

-----------------------------------------------------------------------------

\* The containers of an execution: what a step does to the rest of the pool.
LEMMA OwnContainers ==
    ASSUME PoolInv, NEW e \in Q!Executions
    PROVE  /\ e[1] \in Processes /\ tracked[e[1]] \subseteq Numbers /\ sweep[e[1]] \subseteq Numbers
           /\ executorAt[e] \in Stations /\ exit[e] \in Exits /\ outcome[e] \in Results
           /\ mine[e] \in Numbers \cup {NoContainer}
           /\ executorAt[e] \in {"idle", "create"} =>
                mine[e] = NoContainer /\ outcome[e] = "none" /\ exit[e] = "none"
           /\ executorAt[e] \notin {"idle", "create"} => mine[e] \in Numbers
           /\ NoContainer \notin Numbers /\ NoContainer \notin boxes
BY ExecutionsArePairs, PoolAssumption DEF PoolInv, PoolTypes, BoxesAreOwn, Numbers

LEMMA EnforceLimitKeeps ==
    ASSUME PoolInv, NEW e \in Q!Executions, Q!EnforceLimit(e)
    PROVE  PoolInv'
<1>1. /\ executorAt[e] = "idle" /\ executorAt' = [executorAt EXCEPT ![e] = "create"]
      /\ Cardinality(boxes \ tracked[e[1]]) <= LeftoverLimit
      /\ UNCHANGED <<boxes, createdBoxes, tracked, sweep, mine, exit, outcome, early>>
  BY SamePoolCardinality DEF Q!EnforceLimit, Q!Go, Q!Orphans, Q!daemon, Q!making
<1>2. PoolTypes'
  BY <1>1 DEF PoolInv, PoolTypes, Stations, Numbers, Q!Executions
<1>3. BoxesAreOwn' /\ TracksItsOwn' /\ ListedWasEarly' /\ Q!OutcomesAreEarned'
  BY <1>1, OwnContainers DEF PoolInv, PoolTypes, BoxesAreOwn, TracksItsOwn, ListedWasEarly, Numbers,
     Q!Executions, Q!OutcomesAreEarned
<1>4. Creating' \subseteq Q!Executions \ Running
  BY <1>1 DEF PoolInv, PoolTypes, Creating, Running, TracksItsOwn, Q!Executions
<1>5. BoxesFit'
  BY <1>1, <1>4, EnforcedFits, ExecutionsArePairs DEF PoolInv
<1> QED BY <1>2, <1>3, <1>5 DEF PoolInv

\* A new container has a number of its own.
LEMMA NumbersGrow ==
    ASSUME PoolTypes, createdBoxes' = createdBoxes + 1, boxes' = boxes \cup {createdBoxes + 1}
    PROVE  /\ createdBoxes' \in Nat /\ Numbers \subseteq Numbers' /\ boxes' \subseteq Numbers'
           /\ boxes' \cap Numbers = boxes
           /\ createdBoxes + 1 \in Numbers' /\ createdBoxes + 1 \notin Numbers
<1>1. PICK n \in Nat : n = createdBoxes
  BY DEF PoolTypes
<1>2. Numbers = 1 .. n /\ Numbers' = 1 .. n + 1 /\ boxes' = boxes \cup {n + 1}
  BY <1>1 DEF Numbers
<1>3. n + 1 \notin 1 .. n /\ n + 1 \in 1 .. n + 1 /\ 1 .. n \subseteq 1 .. n + 1 /\ boxes \subseteq 1 .. n
  BY <1>1 DEF PoolTypes, Numbers
<1>4. createdBoxes' = n + 1 /\ n + 1 \in Nat /\ createdBoxes + 1 = n + 1
  BY <1>1
<1>5. boxes' \cap (1 .. n) = boxes /\ boxes' \subseteq 1 .. n + 1
  BY <1>2, <1>3
<1> QED BY <1>2, <1>3, <1>4, <1>5

LEMMA CreateFailsKeeps ==
    ASSUME PoolInv, NEW e \in Q!Executions, Q!CreateFails(e)
    PROVE  PoolInv'
<1>1. /\ executorAt[e] = "create" /\ executorAt' = [executorAt EXCEPT ![e] = "idle"]
      /\ mine' = [mine EXCEPT ![e] = NoContainer] /\ exit' = [exit EXCEPT ![e] = "none"]
      /\ outcome' = [outcome EXCEPT ![e] = "none"] /\ early' = early \ {e}
      /\ UNCHANGED <<tracked, sweep>>
  BY DEF Q!CreateFails, Q!Leave, Q!Go
<1>2. \/ UNCHANGED <<boxes, createdBoxes>>
      \/ createdBoxes' = createdBoxes + 1 /\ boxes' = boxes \cup {createdBoxes + 1}
  BY DEF Q!CreateFails, Q!NewContainer, Q!daemon
<1>3. createdBoxes' \in Nat /\ Numbers \subseteq Numbers' /\ boxes' \subseteq Numbers'
      /\ boxes' \cap Numbers = boxes
  BY <1>2, NumbersGrow DEF PoolInv, PoolTypes, Numbers
<1>4. UNCHANGED <<mine, exit, outcome>>
  BY <1>1, OwnContainers DEF PoolInv, PoolTypes
<1>5. PoolTypes'
  BY <1>1, <1>3, <1>4 DEF PoolInv, PoolTypes, Stations, Q!Executions
<1>6. BoxesAreOwn'
  BY <1>1, <1>3, <1>4 DEF PoolInv, PoolTypes, BoxesAreOwn, Q!Executions
<1>7. TracksItsOwn' /\ ListedWasEarly'
  BY <1>1, <1>4 DEF PoolInv, PoolTypes, TracksItsOwn, ListedWasEarly, Q!Executions
<1>8. Q!OutcomesAreEarned'
  <2>1. ASSUME NEW f \in Q!Executions, outcome[f] = "failed"
        PROVE  mine[f] \in Numbers
    BY <2>1, OwnContainers
  <2> QED BY <1>3, <1>4, <2>1 DEF PoolInv, Q!OutcomesAreEarned, Q!Executions
<1>9. BoxesFit'
  <2>1. e \in Creating /\ Creating' = Creating \ {e}
    BY <1>1 DEF Creating, PoolInv, PoolTypes, Q!Executions
  <2> QED BY <1>2, <2>1, NoMoreFit, CreatedFits DEF PoolInv
<1> QED BY <1>5, <1>6, <1>7, <1>8, <1>9 DEF PoolInv

LEMMA CreateKeeps ==
    ASSUME PoolInv, NEW e \in Q!Executions, Q!Create(e)
    PROVE  PoolInv'
<1>1. /\ executorAt[e] = "create" /\ executorAt' = [executorAt EXCEPT ![e] = "track"]
      /\ createdBoxes' = createdBoxes + 1 /\ boxes' = boxes \cup {createdBoxes + 1}
      /\ mine' = [mine EXCEPT ![e] = createdBoxes + 1]
      /\ UNCHANGED <<tracked, sweep, exit, outcome, early>>
  BY DEF Q!Create, Q!Go, Q!NewContainer
<1>2. createdBoxes' \in Nat /\ Numbers \subseteq Numbers' /\ boxes' \subseteq Numbers'
      /\ boxes' \cap Numbers = boxes /\ createdBoxes + 1 \in Numbers' /\ createdBoxes + 1 \notin Numbers
  BY <1>1, NumbersGrow DEF PoolInv
<1>3. PoolTypes'
  BY <1>1, <1>2 DEF PoolInv, PoolTypes, Stations, Q!Executions
<1>4. \A f \in Q!Executions : mine[f] # NoContainer => mine[f] \in Numbers
  BY DEF PoolInv, PoolTypes
<1>5. createdBoxes + 1 # NoContainer
  BY PoolAssumption DEF PoolInv, PoolTypes
<1>6. BoxesAreOwn'
  BY <1>1, <1>2, <1>4, <1>5 DEF PoolInv, PoolTypes, BoxesAreOwn, Q!Executions
<1>7. TracksItsOwn'
  BY <1>1 DEF PoolInv, PoolTypes, TracksItsOwn, Q!Executions
<1>8. ListedWasEarly'
  BY <1>1, <1>2, ExecutionsArePairs DEF PoolInv, PoolTypes, ListedWasEarly, Q!Executions
<1>9. Q!OutcomesAreEarned'
  <2>1. outcome[e] = "none"
    BY <1>1, OwnContainers
  <2>2. ASSUME NEW f \in Q!Executions, outcome[f] = "failed"
        PROVE  mine[f] \in Numbers
    BY <2>2, OwnContainers
  <2> QED BY <1>1, <1>2, <2>1, <2>2 DEF PoolInv, PoolTypes, Q!OutcomesAreEarned, Q!Executions
<1>10. BoxesFit'
  <2>1. e \in Creating /\ Creating' = Creating \ {e}
    BY <1>1 DEF Creating, PoolInv, PoolTypes, Q!Executions
  <2> QED BY <1>1, <2>1, CreatedFits DEF PoolInv
<1> QED BY <1>3, <1>6, <1>7, <1>8, <1>9, <1>10 DEF PoolInv

LEMMA TrackKeeps ==
    ASSUME PoolInv, NEW e \in Q!Executions, Q!Track(e)
    PROVE  PoolInv'
<1>1. /\ executorAt[e] = "track" /\ executorAt' = [executorAt EXCEPT ![e] = "wait"]
      /\ tracked' = [tracked EXCEPT ![e[1]] = @ \cup {mine[e]}]
      /\ UNCHANGED <<boxes, createdBoxes, sweep, mine, exit, outcome, early>>
  BY DEF Q!Track, Q!Go, Q!daemon, Q!making
<1>2. mine[e] \in Numbers /\ e[1] \in Processes
  BY <1>1, OwnContainers
<1>3. PoolTypes'
  BY <1>1, <1>2 DEF PoolInv, PoolTypes, Stations, Numbers, Q!Executions
<1>4. BoxesAreOwn' /\ ListedWasEarly' /\ Q!OutcomesAreEarned'
  BY <1>1 DEF PoolInv, PoolTypes, BoxesAreOwn, ListedWasEarly, Q!OutcomesAreEarned, Numbers, Q!Executions
<1>5. ASSUME NEW p \in Processes
      PROVE  tracked'[p] = {mine[f] : f \in {g \in Q!Executions : g[1] = p /\ executorAt'[g] \in {"wait", "finally"}}}
  <2> DEFINE Mine == {g \in Q!Executions : g[1] = p /\ executorAt[g] \in {"wait", "finally"}}
             Then == {g \in Q!Executions : g[1] = p /\ executorAt'[g] \in {"wait", "finally"}}
  <2>1. tracked[p] = {mine[f] : f \in Mine}
    BY DEF PoolInv, TracksItsOwn
  <2>2. Then = IF p = e[1] THEN Mine \cup {e} ELSE Mine
    BY <1>1 DEF PoolInv, PoolTypes
  <2>3. tracked'[p] = IF p = e[1] THEN tracked[p] \cup {mine[e]} ELSE tracked[p]
    BY <1>1, <1>2 DEF PoolInv, PoolTypes
  <2> QED BY <2>1, <2>2, <2>3
<1>6. TracksItsOwn'
  BY <1>1, <1>5 DEF TracksItsOwn, Q!Executions
<1>7. BoxesFit'
  BY <1>1, NoMoreFit DEF PoolInv, Creating, PoolTypes, Q!Executions
<1> QED BY <1>3, <1>4, <1>6, <1>7 DEF PoolInv

\* The wait ends, with an outcome that was earned.
LEMMA EndKeeps ==
    ASSUME PoolInv, NEW e \in Q!Executions, executorAt[e] = "wait",
           NEW result \in {"ok", "failed", "error", "timeout"},
           executorAt' = [executorAt EXCEPT ![e] = "finally"],
           outcome' = [outcome EXCEPT ![e] = result],
           UNCHANGED <<boxes, createdBoxes, tracked, sweep, mine, early>>,
           exit' = exit \/ (exit' = [exit EXCEPT ![e] = "failed"] /\ exit[e] = "none" /\ result = "timeout"),
           result = "ok" => exit[e] = "ok",
           result = "failed" => exit[e] = "failed" \/ mine[e] \notin boxes
    PROVE  PoolInv'
<1>1. exit' \in [Q!Executions -> Exits] /\ \A f \in Q!Executions : f # e => exit'[f] = exit[f]
  BY DEF PoolInv, PoolTypes, Exits
<1>2. PoolTypes'
  BY <1>1 DEF PoolInv, PoolTypes, Stations, Results, Numbers, Q!Executions
<1>3. BoxesAreOwn'
  BY <1>1 DEF PoolInv, PoolTypes, BoxesAreOwn, Numbers, Q!Executions
<1>4. ListedWasEarly'
  BY DEF PoolInv, PoolTypes, ListedWasEarly, Q!Executions
<1>5. Q!OutcomesAreEarned'
  <2>1. result # "timeout" => exit' = exit
    OBVIOUS
  <2> QED BY <1>1, <2>1 DEF PoolInv, PoolTypes, Q!OutcomesAreEarned, Q!Executions
<1>6. TracksItsOwn'
  <2>1. \A f \in Q!Executions : executorAt'[f] \in {"wait", "finally"} <=> executorAt[f] \in {"wait", "finally"}
    BY DEF PoolInv, PoolTypes
  <2> QED BY <2>1 DEF PoolInv, TracksItsOwn, Q!Executions
<1>7. BoxesFit'
  BY NoMoreFit DEF PoolInv, Creating, PoolTypes, Q!Executions
<1> QED BY <1>2, <1>3, <1>4, <1>5, <1>6, <1>7 DEF PoolInv

LEMMA WaitedKeeps ==
    ASSUME PoolInv, NEW e \in Q!Executions, Q!Waited(e)
    PROVE  PoolInv'
<1>1. PICK result \in {"ok", "failed", "error"} :
        /\ executorAt' = [executorAt EXCEPT ![e] = "finally"] /\ outcome' = [outcome EXCEPT ![e] = result]
        /\ result = "ok" => exit[e] = "ok"
        /\ result = "failed" => exit[e] = "failed" \/ mine[e] \notin boxes
  BY DEF Q!Waited, Q!End, Q!Go
<1>2. executorAt[e] = "wait" /\ UNCHANGED <<boxes, createdBoxes, tracked, sweep, mine, exit, early>>
  BY DEF Q!Waited, Q!daemon
<1> QED BY <1>1, <1>2, EndKeeps

LEMMA TimedOutKeeps ==
    ASSUME PoolInv, NEW e \in Q!Executions, Q!TimedOut(e)
    PROVE  PoolInv'
<1>1. /\ executorAt[e] = "wait" /\ exit[e] = "none"
      /\ exit' = exit \/ exit' = [exit EXCEPT ![e] = "failed"]
      /\ executorAt' = [executorAt EXCEPT ![e] = "finally"] /\ outcome' = [outcome EXCEPT ![e] = "timeout"]
      /\ UNCHANGED <<boxes, createdBoxes, tracked, sweep, mine, early>>
  BY DEF Q!TimedOut, Q!End, Q!Go, Q!daemon
<1> QED BY <1>1, EndKeeps

LEMMA ForgetKeeps ==
    ASSUME PoolInv, NEW e \in Q!Executions, Q!Forget(e)
    PROVE  PoolInv'
<1>1. /\ executorAt[e] = "finally" /\ executorAt' = [executorAt EXCEPT ![e] = "remove"]
      /\ tracked' = [tracked EXCEPT ![e[1]] = @ \ {mine[e]}]
      /\ UNCHANGED <<boxes, createdBoxes, sweep, mine, exit, outcome, early>>
  BY DEF Q!Forget, Q!Go, Q!daemon, Q!making
<1>2. mine[e] \in Numbers /\ e[1] \in Processes /\ mine[e] # NoContainer
  BY <1>1, OwnContainers
<1>3. PoolTypes'
  BY <1>1, <1>2 DEF PoolInv, PoolTypes, Stations, Numbers, Q!Executions
<1>4. BoxesAreOwn' /\ ListedWasEarly' /\ Q!OutcomesAreEarned'
  BY <1>1 DEF PoolInv, PoolTypes, BoxesAreOwn, ListedWasEarly, Q!OutcomesAreEarned, Numbers, Q!Executions
<1>5. ASSUME NEW p \in Processes
      PROVE  tracked'[p] = {mine[f] : f \in {g \in Q!Executions : g[1] = p /\ executorAt'[g] \in {"wait", "finally"}}}
  <2> DEFINE Mine == {g \in Q!Executions : g[1] = p /\ executorAt[g] \in {"wait", "finally"}}
             Then == {g \in Q!Executions : g[1] = p /\ executorAt'[g] \in {"wait", "finally"}}
  <2>1. tracked[p] = {mine[f] : f \in Mine}
    BY DEF PoolInv, TracksItsOwn
  <2>2. Then = IF p = e[1] THEN Mine \ {e} ELSE Mine
    BY <1>1 DEF PoolInv, PoolTypes
  <2>3. tracked'[p] = IF p = e[1] THEN tracked[p] \ {mine[e]} ELSE tracked[p]
    BY <1>1, <1>2 DEF PoolInv, PoolTypes
  <2>4. \A f \in Mine : mine[f] = mine[e] => f = e
    BY <1>2 DEF PoolInv, BoxesAreOwn
  <2>5. p = e[1] => {mine[f] : f \in Then} = {mine[f] : f \in Mine} \ {mine[e]}
    BY <2>2, <2>4
  <2> QED BY <2>1, <2>2, <2>3, <2>5
<1>6. TracksItsOwn'
  BY <1>1, <1>5 DEF TracksItsOwn, Q!Executions
<1>7. BoxesFit'
  BY <1>1, NoMoreFit DEF PoolInv, Creating, PoolTypes, Q!Executions
<1> QED BY <1>3, <1>4, <1>6, <1>7 DEF PoolInv

LEMMA RemoveKeeps ==
    ASSUME PoolInv, NEW e \in Q!Executions, Q!Remove(e)
    PROVE  PoolInv'
<1>1. /\ executorAt[e] = "remove" /\ executorAt' = [executorAt EXCEPT ![e] = "idle"]
      /\ mine' = [mine EXCEPT ![e] = NoContainer] /\ exit' = [exit EXCEPT ![e] = "none"]
      /\ outcome' = [outcome EXCEPT ![e] = "none"] /\ early' = early \ {e}
      /\ boxes' \subseteq boxes
      /\ UNCHANGED <<createdBoxes, tracked, sweep>>
  BY DEF Q!Remove, Q!Leave, Q!Go
<1>2. PoolTypes'
  BY <1>1 DEF PoolInv, PoolTypes, Stations, Exits, Results, Numbers, Q!Executions
<1>3. BoxesAreOwn'
  BY <1>1 DEF PoolInv, PoolTypes, BoxesAreOwn, Numbers, Q!Executions
<1>4. TracksItsOwn'
  <2>1. \A f \in Q!Executions : executorAt'[f] \in {"wait", "finally"} =>
            executorAt[f] \in {"wait", "finally"} /\ f # e
    BY <1>1 DEF PoolInv, PoolTypes
  <2>2. \A f \in Q!Executions : executorAt[f] \in {"wait", "finally"} =>
            executorAt'[f] \in {"wait", "finally"} /\ f # e /\ mine'[f] = mine[f]
    BY <1>1 DEF PoolInv, PoolTypes
  <2> QED BY <1>1, <2>1, <2>2 DEF PoolInv, TracksItsOwn, Q!Executions
<1>5. ListedWasEarly'
  BY <1>1 DEF PoolInv, PoolTypes, ListedWasEarly, Q!Executions
<1>6. Q!OutcomesAreEarned'
  BY <1>1 DEF PoolInv, PoolTypes, Q!OutcomesAreEarned, Q!Executions
<1>7. BoxesFit'
  BY <1>1, NoMoreFit DEF PoolInv, Creating, PoolTypes, Q!Executions
<1> QED BY <1>2, <1>3, <1>4, <1>5, <1>6, <1>7 DEF PoolInv

LEMMA ExitKeeps ==
    ASSUME PoolInv, NEW e \in Q!Executions, Q!Exit(e)
    PROVE  PoolInv'
<1>1. PICK result \in {"ok", "failed"} : exit' = [exit EXCEPT ![e] = result]
  BY DEF Q!Exit
<1>2. /\ mine[e] \in boxes /\ exit[e] = "none"
      /\ UNCHANGED <<boxes, createdBoxes, tracked, sweep, executorAt, mine, outcome, early>>
  BY DEF Q!Exit, Q!daemon
<1>3. executorAt[e] \notin {"idle", "create"}
  BY <1>2, OwnContainers
<1>4. PoolTypes'
  BY <1>1, <1>2 DEF PoolInv, PoolTypes, Exits, Numbers, Q!Executions
<1>5. BoxesAreOwn' /\ TracksItsOwn' /\ ListedWasEarly' /\ BoxesFit'
  BY <1>1, <1>2, <1>3 DEF PoolInv, PoolTypes, BoxesAreOwn, TracksItsOwn, ListedWasEarly, BoxesFit,
     Creating, Numbers, Q!Executions
<1>6. Q!OutcomesAreEarned'
  BY <1>1, <1>2 DEF PoolInv, PoolTypes, Q!OutcomesAreEarned, Q!Executions
<1> QED BY <1>4, <1>5, <1>6 DEF PoolInv

LEMMA ListOrphansKeeps ==
    ASSUME PoolInv, NEW p \in Processes, Q!ListOrphans(p)
    PROVE  PoolInv'
<1>1. /\ sweep' = [sweep EXCEPT ![p] = boxes \ tracked[p]]
      /\ early' = early \cup {e \in Q!Own(p) : executorAt[e] = "track"}
      /\ UNCHANGED <<boxes, createdBoxes, tracked, executorAt, mine, exit, outcome>>
  BY DEF Q!ListOrphans, Q!Orphans, Q!daemon, Q!making
<1>2. PoolTypes'
  BY <1>1 DEF PoolInv, PoolTypes, Numbers, Q!Executions
<1>3. BoxesAreOwn' /\ TracksItsOwn' /\ BoxesFit' /\ Q!OutcomesAreEarned'
  BY <1>1 DEF PoolInv, BoxesAreOwn, TracksItsOwn, BoxesFit, Q!OutcomesAreEarned, Creating, Numbers,
     Q!Executions
<1>4. ASSUME NEW e \in Q!Executions, executorAt[e] \in {"track", "wait"}, mine[e] \in sweep'[e[1]]
      PROVE  e \in early'
  <2>1. CASE e[1] # p
    BY <1>1, <1>4, <2>1, ExecutionsArePairs DEF PoolInv, PoolTypes, ListedWasEarly
  <2>2. CASE e[1] = p /\ executorAt[e] = "track"
    BY <1>1, <2>2, ExecutionsArePairs
  <2>3. CASE e[1] = p /\ executorAt[e] = "wait"
    <3>1. mine[e] \in tracked[p]
      BY <2>3 DEF PoolInv, TracksItsOwn
    <3> QED BY <1>1, <1>4, <2>3, <3>1 DEF PoolInv, PoolTypes
  <2> QED BY <1>4, <2>1, <2>2, <2>3
<1>5. ListedWasEarly'
  BY <1>1, <1>4 DEF ListedWasEarly, Q!Executions
<1> QED BY <1>2, <1>3, <1>5 DEF PoolInv

LEMMA SweepOneKeeps ==
    ASSUME PoolInv, NEW p \in Processes, Q!SweepOne(p)
    PROVE  PoolInv'
<1>1. PICK c \in sweep[p] : sweep' = [sweep EXCEPT ![p] = @ \ {c}] /\ boxes' \in {boxes, boxes \ {c}}
  BY DEF Q!SweepOne
<1>2. boxes' \subseteq boxes /\ UNCHANGED <<createdBoxes, tracked, executorAt, mine, exit, outcome, early>>
  BY <1>1 DEF Q!SweepOne, Q!making
<1>3. PoolTypes'
  BY <1>1, <1>2 DEF PoolInv, PoolTypes, Numbers, Q!Executions
<1>4. BoxesAreOwn' /\ TracksItsOwn' /\ Q!OutcomesAreEarned'
  BY <1>2 DEF PoolInv, BoxesAreOwn, TracksItsOwn, Q!OutcomesAreEarned, Numbers, Q!Executions
<1>5. ListedWasEarly'
  BY <1>1, <1>2, ExecutionsArePairs DEF PoolInv, PoolTypes, ListedWasEarly, Q!Executions
<1>6. BoxesFit'
  BY <1>2, NoMoreFit DEF PoolInv, Creating, Q!Executions
<1> QED BY <1>3, <1>4, <1>5, <1>6 DEF PoolInv

LEMMA PoolRests ==
    ASSUME PoolInv,
           UNCHANGED <<boxes, createdBoxes, tracked, sweep, executorAt, mine, exit, outcome, early>>
    PROVE  PoolInv'
<1>1. PoolTypes' /\ BoxesAreOwn' /\ TracksItsOwn' /\ ListedWasEarly'
  BY DEF PoolInv, PoolTypes, BoxesAreOwn, TracksItsOwn, ListedWasEarly, Numbers, Q!Executions
<1>2. BoxesFit' /\ Q!OutcomesAreEarned'
  BY DEF PoolInv, BoxesFit, Q!OutcomesAreEarned, Creating, Q!Executions
<1> QED BY <1>1, <1>2 DEF PoolInv

LEMMA RestartKeeps ==
    ASSUME PoolInv, NEW p \in Processes, Q!Restart(p)
    PROVE  PoolInv'
<1>1. /\ tracked' = [tracked EXCEPT ![p] = {}] /\ UNCHANGED <<boxes, createdBoxes>>
      /\ sweep' = [sweep EXCEPT ![p] = boxes] \/ sweep' = [sweep EXCEPT ![p] = {}]
  BY DEF Q!Restart, Q!daemon
<1>2. /\ executorAt' = [e \in Q!Executions |-> IF e \in Q!Own(p) THEN "idle" ELSE executorAt[e]]
      /\ mine' = [e \in Q!Executions |-> IF e \in Q!Own(p) THEN NoContainer ELSE mine[e]]
      /\ exit' = [e \in Q!Executions |-> IF e \in Q!Own(p) THEN "none" ELSE exit[e]]
      /\ outcome' = [e \in Q!Executions |-> IF e \in Q!Own(p) THEN "none" ELSE outcome[e]]
      /\ early' = early \ Q!Own(p)
  BY DEF Q!Restart
<1>3. \A e \in Q!Executions :
        /\ e[1] = p => executorAt'[e] = "idle" /\ mine'[e] = NoContainer /\ exit'[e] = "none"
                       /\ outcome'[e] = "none"
        /\ e[1] # p => executorAt'[e] = executorAt[e] /\ mine'[e] = mine[e] /\ exit'[e] = exit[e]
                       /\ outcome'[e] = outcome[e] /\ (e \in early' <=> e \in early)
                       /\ sweep'[e[1]] = sweep[e[1]]
  BY <1>1, <1>2, ExecutionsArePairs DEF PoolInv, PoolTypes
<1>4. PoolTypes'
  BY <1>1, <1>2 DEF PoolInv, PoolTypes, Stations, Exits, Results, Numbers, Q!Executions
<1>5. BoxesAreOwn'
  <2>1. Numbers' = Numbers /\ Q!Executions' = Q!Executions
    BY <1>1 DEF Numbers, Q!Executions
  <2>2. \A e \in Q!Executions : IF executorAt'[e] \in {"idle", "create"}
            THEN mine'[e] = NoContainer /\ outcome'[e] = "none" /\ exit'[e] = "none"
            ELSE mine'[e] \in Numbers
    BY <1>3 DEF PoolInv, BoxesAreOwn
  <2>3. \A e, f \in Q!Executions : mine'[e] # NoContainer /\ mine'[e] = mine'[f] => e = f
    BY <1>3 DEF PoolInv, BoxesAreOwn
  <2> QED BY <2>1, <2>2, <2>3 DEF BoxesAreOwn
<1>6. ListedWasEarly'
  BY <1>3 DEF PoolInv, ListedWasEarly, Q!Executions
<1>7. Q!OutcomesAreEarned'
  BY <1>1, <1>3 DEF PoolInv, Q!OutcomesAreEarned, Q!Executions
<1>8. ASSUME NEW q \in Processes
      PROVE  tracked'[q] = {mine'[f] : f \in {g \in Q!Executions : g[1] = q /\ executorAt'[g] \in {"wait", "finally"}}}
  <2> DEFINE Mine == {g \in Q!Executions : g[1] = q /\ executorAt[g] \in {"wait", "finally"}}
             Then == {g \in Q!Executions : g[1] = q /\ executorAt'[g] \in {"wait", "finally"}}
  <2>1. CASE q = p
    BY <1>1, <1>3, <2>1 DEF PoolInv, PoolTypes
  <2>2. CASE q # p
    <3>1. Then = Mine /\ \A f \in Mine : mine'[f] = mine[f]
      BY <1>3, <2>2
    <3>2. tracked'[q] = tracked[q] /\ tracked[q] = {mine[f] : f \in Mine}
      BY <1>1, <2>2 DEF PoolInv, PoolTypes, TracksItsOwn
    <3> QED BY <3>1, <3>2
  <2> QED BY <2>1, <2>2
<1>9. TracksItsOwn'
  BY <1>8 DEF TracksItsOwn, Q!Executions
<1>10. BoxesFit'
  BY <1>1, <1>3, NoMoreFit DEF PoolInv, Creating, Q!Executions
<1> QED BY <1>4, <1>5, <1>6, <1>7, <1>9, <1>10 DEF PoolInv

\* A step of another part leaves the containers alone.
LEMMA PoolOfSystem ==
    ASSUME PoolInv, [Next]_vars
    PROVE  PoolInv'
<1>1. Q!Next \/ UNCHANGED qVars
  BY DEF Next, vars
<1>2. CASE UNCHANGED qVars
  BY <1>2, PoolRests DEF qVars
<1>3. CASE \E e \in Q!Executions : Q!Execute(e)
  BY <1>3, EnforceLimitKeeps, CreateFailsKeeps, CreateKeeps, TrackKeeps, WaitedKeeps, TimedOutKeeps,
     ForgetKeeps, RemoveKeeps, ExitKeeps DEF Q!Execute
<1>4. CASE \E p \in Processes : Q!Serve(p)
  BY <1>4, PoolRests DEF Q!Serve, Q!daemon, Q!making
<1>5. CASE \E p \in Processes : Q!ListOrphans(p) \/ Q!SweepOne(p) \/ Q!Restart(p)
  BY <1>5, ListOrphansKeeps, SweepOneKeeps, RestartKeeps
<1> QED BY <1>1, <1>2, <1>3, <1>4, <1>5 DEF Q!Next, Q!CleanUp

LEMMA PoolInit ==
    ASSUME Q!Init
    PROVE  PoolInv
<1>1. /\ boxes = {} /\ createdBoxes = 0 /\ early = {}
      /\ tracked = [p \in Processes |-> {}] /\ sweep = [p \in Processes |-> {}]
      /\ executorAt = [e \in Q!Executions |-> "idle"] /\ mine = [e \in Q!Executions |-> NoContainer]
      /\ exit = [e \in Q!Executions |-> "none"] /\ outcome = [e \in Q!Executions |-> "none"]
  BY DEF Q!Init
<1>2. PoolTypes /\ BoxesAreOwn /\ ListedWasEarly /\ Q!OutcomesAreEarned
  BY <1>1 DEF PoolTypes, BoxesAreOwn, ListedWasEarly, Q!OutcomesAreEarned, Stations, Exits, Results
<1>3. TracksItsOwn
  BY <1>1 DEF TracksItsOwn
<1>4. BoxesFit
  <2>1. Creating = {} /\ Cardinality({}) = 0
    BY <1>1, FS_EmptySet DEF Creating
  <2> QED BY <1>1, <2>1, ExecutionsArePairs, PoolAssumption DEF BoxesFit
<1> QED BY <1>2, <1>3, <1>4 DEF PoolInv

LEMMA PoolIsContained ==
    ASSUME PoolInv
    PROVE  Q!ContainersAreBounded /\ Q!OutcomesAreEarned /\ Q!OwnAreKept
<1>1. Q!ContainersAreBounded
  BY SamePoolCardinality DEF PoolInv, BoxesFit, Creating, Q!ContainersAreBounded
<1>2. Q!OwnAreKept
  BY DEF PoolInv, ListedWasEarly, Q!OwnAreKept
<1> QED BY <1>1, <1>2 DEF PoolInv

-----------------------------------------------------------------------------
(*                               Tool calls                                *)

CallRecords == [tool : T!Tools, fits : BOOLEAN, words : {"plain", "denied"}, policy : BOOLEAN]
ActionRecords == [status : {"none", "pending", "approved", "rejected", "expired"},
                  by : {"none", "human", "gate"}, body : BOOLEAN]
EntryRecords == [what : {"executed", "blocked"}, why : T!Reasons \cup {"none"}, of : {"step", "action"}]
CalledRecords == [tool : T!Tools, gates : SUBSET T!Places, first : BOOLEAN]
RegisterRecords == [rows : Nat, old : BOOLEAN]

PassTypes ==
    /\ pipelineAt \in T!Places /\ first \in BOOLEAN /\ why \in T!Reasons \cup {"none"}
    /\ call \in CallRecords \cup {T!NoCall} /\ action \in ActionRecords /\ artifacts \in RegisterRecords

\* Nothing is executed, told or answered.
Fresh == callTrail = <<>> /\ answers = <<>> /\ calls = <<>> /\ artifacts.rows = 0

Told(e) == callTrail = <<e>>
Rejection == [what |-> "blocked", why |-> "blacklisted", of |-> "action"]

\* Between passes: the first is over, or none was, or its action waits.
RestInv ==
    pipelineAt = "idle" =>
        /\ passed = {}
        /\ call = T!NoCall => action = T!NoAction /\ first /\ Fresh
        /\ first /\ action # T!NoAction => Fresh
        /\ ~lost => \/ callTrail = <<>> /\ answers = <<>>
                    \/ \E e \in EntryRecords : Told(e) /\ answers = <<T!EndOf(e)>>

GatesBefore(place) ==
    CASE place = "path" -> {"whitelist"}
      [] place = "danger" -> {"whitelist", "path"}
      [] place \in {"risk", "authorize"} -> {"whitelist", "path", "danger"}
      [] place = "execute" -> {"whitelist", "path", "danger", "authorize"}
      [] OTHER -> {}
Unexecuted == {"restore", "whitelist", "path", "danger", "risk", "authorize", "execute"}

\* In a pass: what is behind it, by place.
PassInv ==
    pipelineAt # "idle" =>
        /\ call \in CallRecords /\ answers = <<>> /\ artifacts.rows = 0
        /\ first => action = T!NoAction
        /\ ~first /\ pipelineAt # "restore" => action.status = "approved"
        /\ pipelineAt \in Unexecuted => Fresh /\ passed = GatesBefore(pipelineAt)
        /\ pipelineAt \in {"authorize", "execute"} /\ first => ~T!Tool[call.tool].approval
        /\ pipelineAt \in {"executed", "blocked"} => callTrail = <<>>
        /\ pipelineAt = "blocked" => why \in T!Reasons
        /\ pipelineAt = "register" => \E e \in EntryRecords : Told(e) /\ e.what = "executed"
        /\ pipelineAt = "mark" => ~first /\ why = "blacklisted" /\ Told(Rejection)

CallsInv ==
    \/ calls = <<>>
    \/ \E c \in CalledRecords : /\ calls = <<c>> /\ c.gates = GatesBefore("execute")
                                /\ T!Tool[c.tool].approval => ~c.first

ToldInv ==
    /\ action.by = "gate" => Told(Rejection)
    /\ ~first => answers = <<>> \/ \E a \in T!Ended : /\ answers = <<a>>
                                                      /\ a \in T!Reasons \ {"blacklisted"} => action.status = "approved"
    /\ action.body => action.status \in {"pending", "approved"}
    /\ artifacts.rows <= ChangesMax
    /\ artifacts.rows > 0 => \E e \in EntryRecords : Told(e) /\ e.what = "executed"

ToolsInv == PassTypes /\ RestInv /\ PassInv /\ CallsInv /\ ToldInv

-----------------------------------------------------------------------------

LEMMA NobodyCalls == T!NoCall \notin CallRecords /\ T!NoAction \in ActionRecords
BY DEF T!NoCall, CallRecords, T!Tools, T!Tool, T!NoAction, ActionRecords

\* A pass ends, with a word only when it was executed or refused.
LEMMA AnswerIs ==
    ASSUME answers = <<>>, NEW a, T!Answer(a)
    PROVE  /\ pipelineAt' = "idle" /\ why' = "none" /\ passed' = {}
           /\ answers' = IF a \in T!Ended THEN <<a>> ELSE <<>>
<1>1. answers' = IF a \in T!Ended THEN Append(answers, a) ELSE answers
  BY DEF T!Answer
<1>2. Append(<<>>, a) = <<a>>
  OBVIOUS
<1> QED BY <1>1, <1>2 DEF T!Answer, T!Go

LEMMA AskKeeps ==
    ASSUME ToolsInv, NEW tool \in T!Tools, NEW fits \in BOOLEAN, NEW policy \in BOOLEAN,
           NEW words \in {"plain", "denied"}, T!Ask(tool, fits, words, policy)
    PROVE  ToolsInv'
<1>1. /\ pipelineAt = "idle" /\ call = T!NoCall
      /\ call' = [tool |-> tool, fits |-> fits, words |-> words, policy |-> policy]
      /\ first' = TRUE /\ pipelineAt' = "whitelist"
      /\ UNCHANGED <<why, passed, action, callTrail, artifacts, answers, calls, lost>>
  BY DEF T!Ask, T!Go, T!told
<1>2. action = T!NoAction /\ Fresh /\ passed = {}
  BY <1>1 DEF ToolsInv, RestInv
<1>3. call' \in CallRecords
  BY <1>1 DEF CallRecords
<1>4. PassTypes'
  BY <1>1, <1>3 DEF ToolsInv, PassTypes, T!Places
<1>5. RestInv' /\ PassInv'
  BY <1>1, <1>2, <1>3 DEF RestInv, PassInv, GatesBefore, Unexecuted, Fresh
<1>6. CallsInv' /\ ToldInv'
  BY <1>1, <1>2 DEF ToolsInv, CallsInv, ToldInv, Fresh, Told
<1> QED BY <1>4, <1>5, <1>6 DEF ToolsInv

\* A gate of a pass is passed, or refuses.
LEMMA GateKeeps ==
    ASSUME ToolsInv, NEW place \in {"whitelist", "path", "danger", "authorize"}, NEW ok \in BOOLEAN,
           NEW reason \in T!Reasons, NEW next \in {"path", "danger", "risk", "execute"},
           T!Gate(place, ok, reason, next),
           GatesBefore(place) \cup {place} = GatesBefore(next),
           next = "execute" => place = "authorize",
           place = "authorize" => next = "execute"
    PROVE  ToolsInv'
<1>1. /\ pipelineAt = place
      /\ \/ passed' = passed \cup {place} /\ pipelineAt' = next /\ why' = why
         \/ why' = reason /\ pipelineAt' = "blocked" /\ passed' = passed
      /\ UNCHANGED <<call, first, action, callTrail, artifacts, answers, calls, lost>>
  BY DEF T!Gate, T!Go, T!told
<1>2. /\ call \in CallRecords /\ Fresh /\ passed = GatesBefore(place)
      /\ first => action = T!NoAction
      /\ ~first => action.status = "approved"
      /\ place = "authorize" /\ first => ~T!Tool[call.tool].approval
  BY <1>1 DEF ToolsInv, PassInv, Unexecuted
<1>3. PassTypes'
  BY <1>1 DEF ToolsInv, PassTypes, T!Places
<1>4. RestInv'
  BY <1>1 DEF RestInv
<1>5. PassInv'
  BY <1>1, <1>2 DEF PassInv, Unexecuted, Fresh
<1>6. CallsInv' /\ ToldInv'
  BY <1>1 DEF ToolsInv, CallsInv, ToldInv, Told
<1> QED BY <1>3, <1>4, <1>5, <1>6 DEF ToolsInv

LEMMA GatesKeep ==
    ASSUME ToolsInv, T!Whitelist \/ T!Path \/ T!Danger \/ T!Authorize
    PROVE  ToolsInv'
<1>1. CASE T!Whitelist
  <2>1. PICK ok \in BOOLEAN, reason \in T!Reasons : T!Gate("whitelist", ok, reason, "path")
    <3>1. T!Fits \in BOOLEAN
      <4>1. pipelineAt = "whitelist"
        BY <1>1 DEF T!Whitelist, T!Gate
      <4>2. call \in CallRecords
        BY <4>1 DEF ToolsInv, PassInv
      <4> QED BY <4>2 DEF T!Fits, CallRecords
    <3> QED BY <1>1, <3>1 DEF T!Whitelist, T!Reasons
  <2> QED BY <2>1, GateKeeps DEF GatesBefore
<1>2. CASE T!Path
  <2>1. PICK ok \in BOOLEAN : T!Gate("path", ok, "path_denied", "danger")
    BY <1>2 DEF T!Path
  <2> QED BY <2>1, GateKeeps DEF GatesBefore, T!Reasons
<1>3. CASE T!Danger
  <2>1. PICK ok \in BOOLEAN : T!Gate("danger", ok, "blacklisted", "risk")
    BY <1>3 DEF T!Danger
  <2> QED BY <2>1, GateKeeps DEF GatesBefore, T!Reasons
<1>4. CASE T!Authorize
  <2>1. PICK ok \in BOOLEAN : T!Gate("authorize", ok, "not_authorized", "execute")
    BY <1>4 DEF T!Authorize, T!Approved
  <2> QED BY <2>1, GateKeeps DEF GatesBefore, T!Reasons
<1> QED BY <1>1, <1>2, <1>3, <1>4

LEMMA RiskKeeps ==
    ASSUME ToolsInv, T!Risk
    PROVE  ToolsInv'
<1>1. /\ pipelineAt = "risk" /\ pipelineAt' = "authorize"
      /\ first => ~T!Tool[call.tool].approval
      /\ UNCHANGED <<call, first, why, passed, action, callTrail, artifacts, answers, calls, lost>>
  BY DEF T!Risk, T!Go, T!told, T!Kind
<1>2. PassTypes' /\ RestInv' /\ CallsInv' /\ ToldInv'
  BY <1>1 DEF ToolsInv, PassTypes, RestInv, CallsInv, ToldInv, Told, T!Places
<1>3. PassInv'
  BY <1>1 DEF ToolsInv, PassInv, Unexecuted, Fresh, GatesBefore
<1> QED BY <1>2, <1>3 DEF ToolsInv

LEMMA ToolsAreKnown ==
    ASSUME NEW t \in T!Tools
    PROVE  T!Tool[t].bodies \in Nat
<1>1. t \in {"read", "write", "run", "export", "log"}
  BY DEF T!Tools, T!Tool
<1> QED BY <1>1 DEF T!Tool

LEMMA PersistKeeps ==
    ASSUME ToolsInv, T!Persist
    PROVE  ToolsInv'
<1>1. /\ pipelineAt = "risk" /\ first
      /\ UNCHANGED <<call, first, callTrail, artifacts, calls, lost>>
  BY DEF T!Persist
<1>2. call \in CallRecords /\ Fresh /\ action = T!NoAction
  BY <1>1 DEF ToolsInv, PassInv, Unexecuted
<1>3. PICK a \in {"pending", "unavailable"} : T!Answer(a)
  BY DEF T!Persist
<1>4. pipelineAt' = "idle" /\ why' = "none" /\ passed' = {} /\ answers' = <<>>
  BY <1>2, <1>3, AnswerIs DEF Fresh, T!Ended, T!Reasons
<1>5. action' \in ActionRecords /\ action'.by = "none"
      /\ (action'.body => action'.status \in {"pending", "approved"})
  <2>1. CASE UNCHANGED action
    BY <1>2, <2>1, NobodyCalls DEF T!NoAction
  <2>2. CASE action' = [T!NoAction EXCEPT !.status = "pending", !.body = T!Kind.bodies > 0]
    <3>1. action' = [status |-> "pending", by |-> "none", body |-> T!Kind.bodies > 0]
      BY Zenon, <2>2 DEF T!NoAction
    <3>2. PICK n \in Nat : n = T!Kind.bodies
      BY <1>2, ToolsAreKnown DEF CallRecords, T!Kind
    <3>3. (n > 0) \in BOOLEAN
      OBVIOUS
    <3>4. action' = [status |-> "pending", by |-> "none", body |-> n > 0]
      BY <3>1, <3>2
    <3> QED BY <3>3, <3>4 DEF ActionRecords
  <2> QED BY <2>1, <2>2 DEF T!Persist
<1>6. PassTypes'
  BY <1>1, <1>4, <1>5 DEF ToolsInv, PassTypes, T!Places
<1>7. Fresh'
  BY <1>1, <1>2, <1>4 DEF Fresh
<1>8. RestInv' /\ PassInv'
  BY <1>1, <1>2, <1>4, <1>7, NobodyCalls DEF RestInv, PassInv, Fresh
<1>9. CallsInv' /\ ToldInv'
  BY <1>1, <1>5, <1>7 DEF ToolsInv, CallsInv, ToldInv, Fresh
<1> QED BY <1>6, <1>8, <1>9 DEF ToolsInv

LEMMA ExecuteKeeps ==
    ASSUME ToolsInv, T!Execute
    PROVE  ToolsInv'
<1>1. /\ pipelineAt = "execute"
      /\ calls' = Append(calls, [tool |-> call.tool, gates |-> passed, first |-> first])
      /\ \/ pipelineAt' = "executed" /\ why' = why
         \/ pipelineAt' = "blocked" /\ why' \in {"timeout", "runtime_error"}
      /\ UNCHANGED <<call, first, passed, action, callTrail, artifacts, answers, lost>>
  BY DEF T!Execute, T!Go
<1>2. /\ call \in CallRecords /\ Fresh /\ passed = GatesBefore("execute")
      /\ first => ~T!Tool[call.tool].approval
  BY <1>1 DEF ToolsInv, PassInv, Unexecuted
<1>3. PassTypes'
  BY <1>1 DEF ToolsInv, PassTypes, T!Places, T!Reasons
<1>4. RestInv' /\ PassInv' /\ ToldInv'
  BY <1>1, <1>2 DEF ToolsInv, RestInv, PassInv, ToldInv, Unexecuted, Fresh, Told, T!Reasons
<1>5. CallsInv'
  <2>1. PICK c : c = [tool |-> call.tool, gates |-> passed, first |-> first]
    OBVIOUS
  <2>2. calls' = <<c>>
    BY <1>1, <1>2, <2>1 DEF Fresh
  <2>3. c \in CalledRecords
    BY <1>2, <2>1 DEF CallRecords, CalledRecords, GatesBefore, T!Places, ToolsInv, PassTypes
  <2>4. c.gates = GatesBefore("execute") /\ (T!Tool[c.tool].approval => ~c.first)
    BY <1>2, <2>1
  <2> QED BY <2>2, <2>3, <2>4 DEF CallsInv
<1> QED BY <1>3, <1>4, <1>5 DEF ToolsInv

LEMMA AuditFailsKeeps ==
    ASSUME ToolsInv, T!AuditFails
    PROVE  ToolsInv'
<1>1. /\ pipelineAt \in {"executed", "blocked"} /\ lost' = TRUE /\ T!Answer("broken")
      /\ UNCHANGED <<call, first, action, callTrail, artifacts, calls>>
  BY DEF T!AuditFails
<1>2. /\ call \in CallRecords /\ answers = <<>> /\ artifacts.rows = 0 /\ callTrail = <<>>
      /\ first => action = T!NoAction
  BY <1>1 DEF ToolsInv, PassInv
<1>3. pipelineAt' = "idle" /\ why' = "none" /\ passed' = {} /\ answers' = <<>>
  BY <1>1, <1>2, AnswerIs DEF T!Ended, T!Reasons
<1>4. PassTypes'
  BY <1>1, <1>3 DEF ToolsInv, PassTypes, T!Places
<1>5. RestInv' /\ PassInv'
  BY <1>1, <1>2, <1>3, NobodyCalls DEF RestInv, PassInv
<1>6. CallsInv' /\ ToldInv'
  BY <1>1, <1>2, <1>3 DEF ToolsInv, CallsInv, ToldInv, Told
<1> QED BY <1>4, <1>5, <1>6 DEF ToolsInv

LEMMA RecordExecutedKeeps ==
    ASSUME ToolsInv, T!RecordExecuted
    PROVE  ToolsInv'
<1>1. PICK of \in {"step", "action"} :
        callTrail' = Append(callTrail, [what |-> "executed", why |-> "none", of |-> of])
  BY DEF T!RecordExecuted, T!Tell
<1>2. /\ pipelineAt = "executed" /\ pipelineAt' = "register"
      /\ UNCHANGED <<call, first, why, passed, action, artifacts, answers, calls, lost>>
  BY DEF T!RecordExecuted, T!Go, T!told
<1>3. PICK e \in EntryRecords : callTrail' = Append(callTrail, e) /\ e.what = "executed"
  BY <1>1 DEF EntryRecords
<1>4. /\ call \in CallRecords /\ answers = <<>> /\ artifacts.rows = 0 /\ callTrail = <<>>
      /\ first => action = T!NoAction
      /\ ~first => action.status = "approved"
  BY <1>2 DEF ToolsInv, PassInv
<1>5. callTrail' = <<e>>
  BY <1>3, <1>4
<1>6. PassTypes' /\ RestInv' /\ CallsInv'
  BY <1>2 DEF ToolsInv, PassTypes, RestInv, CallsInv, T!Places
<1>7. PassInv'
  BY <1>2, <1>3, <1>4, <1>5 DEF PassInv, Unexecuted, Told
<1>8. action.by # "gate"
  <2>1. CASE action.by = "gate"
    BY <1>4, <2>1 DEF ToolsInv, ToldInv, Told
  <2> QED BY <2>1
<1>9. ToldInv'
  BY <1>2, <1>4, <1>8 DEF ToolsInv, ToldInv
<1> QED BY <1>6, <1>7, <1>9 DEF ToolsInv

\* No more files than the frame showed are inserted.
LEMMA RecordedAre ==
    ASSUME artifacts \in RegisterRecords, artifacts.rows = 0, NEW n \in T!FileChanges,
           artifacts' \in T!Recorded(T!Kept(n))
    PROVE  artifacts' \in RegisterRecords /\ artifacts'.rows <= ChangesMax
<1>1. n \in Nat
  BY PipelineAssumption DEF T!FileChanges, T!Decoded
<1>2. T!Kept(n) \in 0 .. ChangesMax
  BY <1>1, PipelineAssumption DEF T!Kept
<1>3. PICK k \in 0 .. ChangesMax : k = T!Kept(n)
  BY <1>2
<1>4. CASE artifacts' = artifacts
  BY <1>4, PipelineAssumption
<1>5. CASE artifacts' = [artifacts EXCEPT !.rows = artifacts.rows + k]
  BY <1>5, PipelineAssumption DEF RegisterRecords
<1> QED BY <1>3, <1>4, <1>5 DEF T!Recorded, T!Inserted

LEMMA RegisterKeeps ==
    ASSUME ToolsInv, T!Register
    PROVE  ToolsInv'
<1>1. /\ pipelineAt = "register" /\ T!Answer("executed")
      /\ UNCHANGED <<call, first, action, callTrail, calls, lost>>
  BY DEF T!Register
<1>2. /\ call \in CallRecords /\ answers = <<>> /\ artifacts.rows = 0
      /\ first => action = T!NoAction
  BY <1>1 DEF ToolsInv, PassInv
<1>3. PICK e \in EntryRecords : Told(e) /\ e.what = "executed"
  BY <1>1 DEF ToolsInv, PassInv
<1>4. artifacts' \in RegisterRecords /\ artifacts'.rows <= ChangesMax
  BY <1>2, RecordedAre DEF T!Register, ToolsInv, PassTypes
<1>5. pipelineAt' = "idle" /\ why' = "none" /\ passed' = {} /\ answers' = <<"executed">>
  BY <1>1, <1>2, AnswerIs DEF T!Ended
<1>6. PassTypes'
  BY <1>1, <1>4, <1>5 DEF ToolsInv, PassTypes, T!Places
<1>7. T!EndOf(e) = "executed"
  BY <1>3 DEF T!EndOf
<1>8. RestInv' /\ PassInv'
  BY <1>1, <1>2, <1>3, <1>5, <1>7, NobodyCalls DEF RestInv, PassInv, Told
<1>9. CallsInv'
  BY <1>1 DEF ToolsInv, CallsInv
<1>10. ToldInv'
  BY <1>1, <1>3, <1>4, <1>5 DEF ToolsInv, ToldInv, Told, T!Ended, T!Reasons
<1> QED BY <1>6, <1>8, <1>9, <1>10 DEF ToolsInv

LEMMA BlockKeeps ==
    ASSUME ToolsInv, T!Block
    PROVE  ToolsInv'
<1>1. /\ pipelineAt = "blocked" /\ UNCHANGED <<call, first, action, artifacts, calls, lost>>
  BY DEF T!Block
<1>2. /\ call \in CallRecords /\ answers = <<>> /\ artifacts.rows = 0 /\ callTrail = <<>>
      /\ first => action = T!NoAction
      /\ ~first => action.status = "approved"
      /\ why \in T!Reasons
  BY <1>1 DEF ToolsInv, PassInv
<1>3. PICK of \in {"step", "action"} :
        /\ callTrail' = Append(callTrail, [what |-> "blocked", why |-> why, of |-> of])
        /\ T!Named => of = "action"
  BY DEF T!Block, T!Tell
<1>4. PICK e : e = [what |-> "blocked", why |-> why, of |-> of]
  OBVIOUS
<1>5. callTrail' = <<e>> /\ e \in EntryRecords /\ T!EndOf(e) = why
  BY <1>2, <1>3, <1>4 DEF EntryRecords, T!EndOf
<1>6. CallsInv'
  BY <1>1 DEF ToolsInv, CallsInv
<1>7. action.by # "gate"
  <2>1. CASE action.by = "gate"
    BY <1>2, <2>1 DEF ToolsInv, ToldInv, Told
  <2> QED BY <2>1
<1>8. CASE T!Named /\ why = "blacklisted"
  <2>1. pipelineAt' = "mark" /\ UNCHANGED <<why, passed, answers>> /\ ~first
    BY <1>8 DEF T!Block, T!Go, T!Named
  <2>2. callTrail' = <<Rejection>>
    BY <1>3, <1>4, <1>5, <1>8 DEF Rejection
  <2>3. PassTypes' /\ RestInv'
    BY <1>1, <2>1 DEF ToolsInv, PassTypes, RestInv, T!Places
  <2>4. PassInv'
    BY <1>1, <1>2, <1>8, <2>1, <2>2 DEF PassInv, Unexecuted, Told
  <2>5. ToldInv'
    BY <1>1, <1>2, <1>7, <2>1 DEF ToolsInv, ToldInv
  <2> QED BY <1>6, <2>3, <2>4, <2>5 DEF ToolsInv
<1>9. CASE ~(T!Named /\ why = "blacklisted")
  <2>1. T!Answer(why)
    BY <1>9 DEF T!Block
  <2>2. pipelineAt' = "idle" /\ why' = "none" /\ passed' = {} /\ answers' = <<why>>
    BY <1>2, <2>1, AnswerIs DEF T!Ended
  <2>3. PassTypes'
    BY <1>1, <2>2 DEF ToolsInv, PassTypes, T!Places
  <2>4. RestInv' /\ PassInv'
    BY <1>1, <1>2, <1>5, <2>2, NobodyCalls DEF RestInv, PassInv, Told
  <2>5. ToldInv'
    BY <1>1, <1>2, <1>7, <2>2 DEF ToolsInv, ToldInv, T!Ended
  <2> QED BY <1>6, <2>3, <2>4, <2>5 DEF ToolsInv
<1> QED BY <1>8, <1>9

LEMMA MarkRejectedKeeps ==
    ASSUME ToolsInv, T!MarkRejected
    PROVE  ToolsInv'
<1>1. /\ pipelineAt = "mark" /\ action' \in {action, T!Rejected("gate")} /\ T!Answer(why)
      /\ UNCHANGED <<call, first, callTrail, artifacts, calls, lost>>
  BY DEF T!MarkRejected
<1>2. /\ call \in CallRecords /\ answers = <<>> /\ artifacts.rows = 0
      /\ ~first /\ why = "blacklisted" /\ Told(Rejection)
  BY <1>1 DEF ToolsInv, PassInv
<1>3. pipelineAt' = "idle" /\ why' = "none" /\ passed' = {} /\ answers' = <<"blacklisted">>
  BY <1>1, <1>2, AnswerIs DEF T!Ended, T!Reasons
<1>4. PassTypes'
  <2>1. T!Rejected("gate") \in ActionRecords
    BY DEF T!Rejected, ActionRecords
  <2>2. action' \in ActionRecords
    BY <1>1, <2>1 DEF ToolsInv, PassTypes
  <2> QED BY <1>1, <1>3, <2>2 DEF ToolsInv, PassTypes, T!Places
<1>5. Rejection \in EntryRecords /\ T!EndOf(Rejection) = "blacklisted"
  BY DEF Rejection, EntryRecords, T!EndOf, T!Reasons
<1>6. RestInv' /\ PassInv'
  BY <1>1, <1>2, <1>3, <1>5, NobodyCalls DEF RestInv, PassInv, Told
<1>7. CallsInv'
  BY <1>1 DEF ToolsInv, CallsInv
<1>8. T!Rejected("gate").body = FALSE
  BY DEF T!Rejected
<1>9. ToldInv'
  BY <1>1, <1>2, <1>3, <1>8 DEF ToolsInv, ToldInv, Told, T!Ended, T!Reasons
<1> QED BY <1>4, <1>6, <1>7, <1>9 DEF ToolsInv

\* An action is decided before anything is executed, told or answered for it.
LEMMA DecideKeeps ==
    ASSUME ToolsInv, NEW approve \in BOOLEAN, T!Decide(approve)
    PROVE  ToolsInv'
<1>1. /\ pipelineAt = "idle" /\ first /\ action # T!NoAction /\ first' = FALSE
      /\ pipelineAt' = IF approve THEN "restore" ELSE "idle"
      /\ UNCHANGED <<call, why, passed, callTrail, artifacts, answers, calls, lost>>
  BY DEF T!Decide, T!Go, T!told
<1>2. Fresh /\ passed = {} /\ call \in CallRecords
  BY <1>1 DEF ToolsInv, RestInv, PassTypes
<1>3. action.by # "gate" /\ (action.body => action.status \in {"pending", "approved"})
  <2>1. CASE action.by = "gate"
    BY <1>2, <2>1 DEF ToolsInv, ToldInv, Told, Fresh
  <2> QED BY <2>1 DEF ToolsInv, ToldInv
<1>4. action' \in ActionRecords /\ action'.by # "gate"
      /\ (action'.body => action'.status \in {"pending", "approved"})
  <2>1. CASE action.status # "pending"
    <3>1. action' = action
      BY <2>1 DEF T!Decide
    <3> QED BY <1>3, <3>1 DEF ToolsInv, PassTypes
  <2>2. CASE action.status = "pending" /\ approve
    <3>1. action' = [action EXCEPT !.status = "approved", !.by = "human"]
      BY <2>2 DEF T!Decide
    <3>2. PICK more : more = [action EXCEPT !.status = "approved"]
      OBVIOUS
    <3>3. action' = [more EXCEPT !.by = "human"]
      BY Zenon, <3>1, <3>2
    <3>4. more \in ActionRecords /\ more.status = "approved"
      BY <3>2 DEF ToolsInv, PassTypes, ActionRecords
    <3> QED BY <3>3, <3>4 DEF ActionRecords
  <2>3. CASE action.status = "pending" /\ ~approve
    <3>1. action' = T!Rejected("human")
      BY <2>3 DEF T!Decide
    <3> QED BY <3>1 DEF T!Rejected, ActionRecords
  <2> QED BY <2>1, <2>2, <2>3
<1>5. PassTypes'
  BY <1>1, <1>4 DEF ToolsInv, PassTypes, T!Places
<1>6. Fresh'
  BY <1>1, <1>2 DEF Fresh
<1>7. RestInv' /\ PassInv'
  BY <1>1, <1>2, <1>6, NobodyCalls DEF RestInv, PassInv, Fresh, Unexecuted, GatesBefore
<1>8. CallsInv' /\ ToldInv'
  BY <1>1, <1>4, <1>6 DEF ToolsInv, CallsInv, ToldInv, Fresh
<1> QED BY <1>5, <1>7, <1>8 DEF ToolsInv

LEMMA ExpireBodyKeeps ==
    ASSUME ToolsInv, T!ExpireBody
    PROVE  ToolsInv'
<1>1. /\ action.status = "pending" /\ action' = [T!NoAction EXCEPT !.status = "expired"]
      /\ UNCHANGED <<call, pipelineAt, first, why, passed, callTrail, artifacts, answers, calls, lost>>
  BY DEF T!ExpireBody, T!told
<1>2. action' = [status |-> "expired", by |-> "none", body |-> FALSE]
  BY Zenon, <1>1 DEF T!NoAction
<1>3. action # T!NoAction /\ action' # T!NoAction /\ action' \in ActionRecords
      /\ action'.by = "none" /\ ~action'.body
  <2>1. T!NoAction.status = "none"
    BY DEF T!NoAction
  <2>2. action'.status = "expired" /\ action'.by = "none" /\ action'.body = FALSE
    BY <1>2
  <2>3. action' \in ActionRecords
    BY <1>2 DEF ActionRecords
  <2> QED BY <1>1, <2>1, <2>2, <2>3
<1>4. PassTypes'
  BY <1>1, <1>3 DEF ToolsInv, PassTypes
<1>5. RestInv' /\ PassInv'
  BY <1>1, <1>3 DEF ToolsInv, RestInv, PassInv, Fresh, Told
<1>6. CallsInv' /\ ToldInv'
  BY <1>1, <1>3 DEF ToolsInv, CallsInv, ToldInv, Told
<1> QED BY <1>4, <1>5, <1>6 DEF ToolsInv

\* The second pass does not begin.
LEMMA SecondPassEndsKeeps ==
    ASSUME ToolsInv, T!NothingApproved \/ T!TwoBodies
    PROVE  ToolsInv'
<1>1. PICK a \in {"conflict", "broken"} : T!Answer(a)
  BY DEF T!NothingApproved, T!TwoBodies
<1>2. pipelineAt = "restore" /\ UNCHANGED <<call, first, action, callTrail, artifacts, calls, lost>>
  BY DEF T!NothingApproved, T!TwoBodies
<1>3. Fresh /\ call \in CallRecords /\ (first => action = T!NoAction)
  BY <1>2 DEF ToolsInv, PassInv, Unexecuted
<1>4. pipelineAt' = "idle" /\ why' = "none" /\ passed' = {} /\ answers' = <<>>
  BY <1>1, <1>3, AnswerIs DEF Fresh, T!Ended, T!Reasons
<1>5. PassTypes'
  BY <1>2, <1>4 DEF ToolsInv, PassTypes, T!Places
<1>6. Fresh'
  BY <1>2, <1>3, <1>4 DEF Fresh
<1>7. RestInv' /\ PassInv'
  BY <1>2, <1>3, <1>4, <1>6, NobodyCalls DEF RestInv, PassInv, Fresh
<1>8. CallsInv' /\ ToldInv'
  BY <1>2, <1>4 DEF ToolsInv, CallsInv, ToldInv, Told
<1> QED BY <1>5, <1>7, <1>8 DEF ToolsInv

LEMMA RestoreKeeps ==
    ASSUME ToolsInv, T!Restore
    PROVE  ToolsInv'
<1>1. /\ pipelineAt = "restore" /\ action.status = "approved"
      /\ \/ pipelineAt' = "whitelist" /\ why' = why
         \/ pipelineAt' = "blocked" /\ why' \in {"not_in_catalog", "runtime_error"}
      /\ UNCHANGED <<call, first, passed, action, callTrail, artifacts, answers, calls, lost>>
  BY DEF T!Restore, T!Go, T!Approved, T!Unrestorable, T!told
<1>2. Fresh /\ call \in CallRecords /\ passed = {} /\ (first => action = T!NoAction)
  BY <1>1 DEF ToolsInv, PassInv, Unexecuted, GatesBefore
<1>3. PassTypes'
  BY <1>1 DEF ToolsInv, PassTypes, T!Places, T!Reasons
<1>4. RestInv' /\ PassInv'
  BY <1>1, <1>2 DEF RestInv, PassInv, Unexecuted, GatesBefore, Fresh, T!Reasons
<1>5. CallsInv' /\ ToldInv'
  BY <1>1 DEF ToolsInv, CallsInv, ToldInv, Told
<1> QED BY <1>3, <1>4, <1>5 DEF ToolsInv

\* A process that dies in a pass leaves what the pass has done so far.
LEMMA RedeployKeeps ==
    ASSUME ToolsInv, T!Redeploy
    PROVE  ToolsInv'
<1>1. /\ pipelineAt' = "idle" /\ why' = "none" /\ passed' = {}
      /\ lost' = (lost \/ pipelineAt # "idle")
      /\ UNCHANGED <<call, first, action, callTrail, artifacts, answers, calls>>
  BY DEF T!Redeploy, T!Go
<1>2. PassTypes'
  BY <1>1 DEF ToolsInv, PassTypes, T!Places
<1>3. RestInv'
  <2>1. CASE pipelineAt = "idle"
    BY <1>1, <2>1 DEF ToolsInv, RestInv, Fresh, Told
  <2>2. CASE pipelineAt # "idle"
    BY <1>1, <2>2, NobodyCalls DEF ToolsInv, PassInv, RestInv
  <2> QED BY <2>1, <2>2
<1>4. PassInv' /\ CallsInv' /\ ToldInv'
  BY <1>1 DEF ToolsInv, PassInv, CallsInv, ToldInv, Told
<1> QED BY <1>2, <1>3, <1>4 DEF ToolsInv

\* Only the register changes, by its age.
LEMMA RegisterAgesKeeps ==
    ASSUME ToolsInv, T!Age \/ T!PurgeExpired
    PROVE  ToolsInv'
<1>1. UNCHANGED <<call, pipelineAt, first, why, passed, action, callTrail, answers, calls, lost>>
  BY DEF T!Age, T!PurgeExpired, T!told
<1>2. artifacts' \in RegisterRecords /\ artifacts'.rows \in {0, artifacts.rows} /\ artifacts.rows > 0
  <2>1. CASE T!Age
    BY <2>1 DEF T!Age, ToolsInv, PassTypes, RegisterRecords
  <2>2. CASE T!PurgeExpired
    BY <2>2 DEF T!PurgeExpired, RegisterRecords
  <2> QED BY <2>1, <2>2
<1>3. pipelineAt = "idle"
  BY <1>2 DEF ToolsInv, PassInv
<1>4. PassTypes'
  BY <1>1, <1>2 DEF ToolsInv, PassTypes
<1>5. RestInv' /\ PassInv'
  BY <1>1, <1>2, <1>3 DEF ToolsInv, RestInv, PassInv, Fresh, Told
<1>6. CallsInv' /\ ToldInv'
  BY <1>1, <1>2, PipelineAssumption DEF ToolsInv, CallsInv, ToldInv, Told
<1> QED BY <1>4, <1>5, <1>6 DEF ToolsInv

LEMMA CallRests ==
    ASSUME ToolsInv,
           UNCHANGED <<call, pipelineAt, first, why, passed, action, callTrail, artifacts, answers, calls, lost>>
    PROVE  ToolsInv'
<1>1. PassTypes' /\ RestInv' /\ PassInv'
  BY DEF ToolsInv, PassTypes, RestInv, PassInv, Fresh, Told
<1>2. CallsInv' /\ ToldInv'
  BY DEF ToolsInv, CallsInv, ToldInv, Told
<1> QED BY <1>1, <1>2 DEF ToolsInv

\* A step of another part leaves the call alone.
LEMMA ToolsOfSystem ==
    ASSUME ToolsInv, [Next]_vars
    PROVE  ToolsInv'
<1>1. T!Next \/ UNCHANGED tVars
  BY DEF Next, vars
<1>2. CASE UNCHANGED tVars
  BY <1>2, CallRests DEF tVars
<1>3. CASE T!Pass
  BY <1>3, GatesKeep, RiskKeeps, PersistKeeps, ExecuteKeeps, AuditFailsKeeps, RecordExecutedKeeps,
     RegisterKeeps, BlockKeeps, MarkRejectedKeeps DEF T!Pass
<1>4. CASE T!Drift
  BY <1>4, CallRests DEF T!Drift, T!told
<1>5. CASE T!NothingApproved \/ T!TwoBodies \/ T!Restore \/ T!ExpireBody \/ T!Redeploy \/ T!Age \/ T!PurgeExpired
  BY <1>5, SecondPassEndsKeeps, RestoreKeeps, ExpireBodyKeeps, RedeployKeeps, RegisterAgesKeeps
<1>6. CASE \E approve \in BOOLEAN : T!Decide(approve)
  BY <1>6, DecideKeeps
<1>7. CASE \E tool \in T!Tools, fits, policy \in BOOLEAN, words \in {"plain", "denied"} :
            T!Ask(tool, fits, words, policy)
  BY <1>7, AskKeeps
<1> QED BY <1>1, <1>2, <1>3, <1>4, <1>5, <1>6, <1>7 DEF T!Next

LEMMA ToolsInit ==
    ASSUME T!Init
    PROVE  ToolsInv
<1>1. /\ call = T!NoCall /\ pipelineAt = "idle" /\ first = TRUE /\ why = "none" /\ passed = {}
      /\ action = T!NoAction /\ callTrail = <<>> /\ artifacts = [rows |-> 0, old |-> FALSE]
      /\ answers = <<>> /\ calls = <<>> /\ lost = FALSE
  BY DEF T!Init
<1>2. PassTypes
  BY <1>1, NobodyCalls DEF PassTypes, T!Places, RegisterRecords
<1>3. Fresh
  BY <1>1 DEF Fresh
<1>4. T!NoAction.by = "none" /\ ~T!NoAction.body
  BY DEF T!NoAction
<1>5. RestInv /\ PassInv /\ CallsInv /\ ToldInv
  BY <1>1, <1>3, <1>4, PipelineAssumption DEF RestInv, PassInv, CallsInv, ToldInv, Fresh
<1> QED BY <1>2, <1>5 DEF ToolsInv

LEMMA ToolsAreContained ==
    ASSUME ToolsInv
    PROVE  T!ExecutedAsJudged /\ T!RefusalIsTold /\ T!TrailTells
<1>1. T!ExecutedAsJudged
  <2>1. CASE calls = <<>>
    BY <2>1 DEF T!ExecutedAsJudged, T!ToSet
  <2>2. CASE calls # <<>>
    <3>1. PICK c \in CalledRecords : /\ calls = <<c>> /\ c.gates = GatesBefore("execute")
                                     /\ T!Tool[c.tool].approval => ~c.first
      BY <2>2 DEF ToolsInv, CallsInv
    <3>2. Len(calls) <= 1 /\ T!ToSet(calls) = {c}
      BY <3>1 DEF T!ToSet
    <3> QED BY <3>1, <3>2 DEF T!ExecutedAsJudged, GatesBefore
  <2> QED BY <2>1, <2>2
<1>2. ASSUME NEW e, Told(e)
      PROVE  e \in T!ToSet(callTrail)
  BY <1>2 DEF Told, T!ToSet
<1>3. T!RefusalIsTold
  <2>1. ASSUME ~first, answers # <<>>, T!Last(answers) \in T!Reasons \ {"blacklisted"}
        PROVE  T!Approved
    <3>1. PICK a \in T!Ended : /\ answers = <<a>>
                               /\ a \in T!Reasons \ {"blacklisted"} => action.status = "approved"
      BY <2>1 DEF ToolsInv, ToldInv
    <3>2. T!Last(answers) = a
      BY <3>1 DEF T!Last
    <3> QED BY <2>1, <3>1, <3>2 DEF T!Approved
  <2> QED BY <1>2, <2>1 DEF T!RefusalIsTold, ToolsInv, ToldInv, Rejection
<1>4. T!TrailTells
  <2>1. ASSUME ~lost, pipelineAt = "idle"
        PROVE  [i \in DOMAIN callTrail |-> T!EndOf(callTrail[i])] = answers
    <3>1. CASE callTrail = <<>> /\ answers = <<>>
      BY <3>1
    <3>2. CASE \E e \in EntryRecords : Told(e) /\ answers = <<T!EndOf(e)>>
      BY <3>2 DEF Told
    <3> QED BY <2>1, <3>1, <3>2 DEF ToolsInv, RestInv
  <2> QED BY <1>2, <2>1 DEF T!TrailTells, ToolsInv, ToldInv
<1> QED BY <1>1, <1>3, <1>4

LEMMA SameSharingCardinality ==
    ASSUME NEW S
    PROVE  H!Cardinality(S) = Cardinality(S)
BY Zenon DEF H!Cardinality, Cardinality

-----------------------------------------------------------------------------
(*                          Shared conversations                           *)

Tasks == [guest : Guests, grant : H!Access, previous : H!Access]
Changing == {"vet", "previous", "change", "audit"}

\* Typed, and whoever changes the members knows of whom.
SharingTypes ==
    /\ H!TypeOK
    /\ \A t \in Tabs : sharingAt[t] \in Changing => sharingTask[t] \in Tasks

\* What a guest must have had to be at a place of his request.
Entitles(known, place) ==
    /\ place = "show" => known \cap H!Permissions # {}
    /\ place \in {"question", "answer"} => {"write", "active"} \subseteq known
    /\ place \in {"admitQuestion", "admitReply"} => "active" \in known

HeldTells == \A g \in Guests : Entitles(held[g], sharingAt[g])

GrantsAreVetted ==
    /\ H!MembersAreShareable
    /\ \A t \in Tabs : sharingAt[t] \in {"previous", "change", "audit"} /\ sharingTask[t].grant # "none"
                          => sharingTask[t].guest \in Shareable

Spoken == {"reply", "admitReply", "answer"}

\* While requests do not overlap: who changes a membership knows what it was, and
\* after it what the trail lacks; who speaks may, and owes the reply.
InOrder ==
    /\ \A x, y \in H!Threads : sharingAt[x] # "idle" /\ sharingAt[y] # "idle" => x = y
    /\ \A t \in Tabs :
        /\ sharingAt[t] = "change" => sharingTask[t].previous = members[sharingTask[t].guest]
        /\ sharingAt[t] = "audit" => sharingTask[t].grant = members[sharingTask[t].guest]
    /\ \A g \in Guests : \/ trail[g] = members[g]
                         \/ \E t \in Tabs : sharingAt[t] = "audit" /\ sharingTask[t].guest = g
    /\ \A x \in H!Threads :
        /\ sharingAt[x] \in Spoken \cup {"admitQuestion", "question"} => H!Active
        /\ sharingAt[x] \in Spoken \cup {"question"} => H!CanSpeak(x)
    /\ \/ questions = replies /\ \A x \in H!Threads : sharingAt[x] \notin Spoken
       \/ questions = replies + 1 /\ \E x \in H!Threads : sharingAt[x] \in Spoken

CalmSharing == sharedCalmly => InOrder

SharingInv == SharingTypes /\ HeldTells /\ GrantsAreVetted /\ CalmSharing

LEMMA AtMostOne ==
    ASSUME NEW S, IsFiniteSet(S), H!Cardinality(S) <= 1, NEW x \in S, NEW y \in S
    PROVE  x = y
<1>1. Cardinality(S) \in Nat /\ Cardinality({x, y}) <= Cardinality(S)
  BY FS_CardinalityType, FS_Subset
<1>2. ASSUME x # y
      PROVE  FALSE
  <2>1. Cardinality({x}) = 1 /\ IsFiniteSet({x})
    BY FS_Singleton
  <2>2. {x, y} = {x} \cup {y} /\ y \notin {x}
    BY <1>2
  <2>3. Cardinality({x, y}) = 2
    BY <2>1, <2>2, FS_AddElement
  <2> QED BY <1>1, <2>3, SameSharingCardinality
<1> QED BY <1>2

\* Whoever moves while it stays calm is the only one in progress.
LEMMA OthersRest ==
    ASSUME SharingTypes, CalmSharing, NEW x \in H!Threads, NEW place \in H!Places, H!Go(x, place),
           sharedCalmly' = (sharedCalmly /\ H!Cardinality(H!Busy') <= 1), sharedCalmly'
    PROVE  /\ InOrder
           /\ sharingAt' = [sharingAt EXCEPT ![x] = place] /\ sharingAt'[x] = place
           /\ \A y \in H!Threads \ {x} : sharingAt'[y] = sharingAt[y]
           /\ \A y, z \in H!Threads : sharingAt'[y] # "idle" /\ sharingAt'[z] # "idle" => y = z
           /\ sharingAt[x] # "idle" \/ place # "idle" => \A y \in H!Threads \ {x} : sharingAt[y] = "idle"
<1>1. InOrder /\ sharingAt \in [H!Threads -> H!Places]
  BY DEF CalmSharing, SharingTypes, H!TypeOK
<1>2. /\ sharingAt' = [sharingAt EXCEPT ![x] = place] /\ sharingAt'[x] = place
      /\ \A y \in H!Threads \ {x} : sharingAt'[y] = sharingAt[y]
  BY <1>1 DEF H!Go
<1>3. PICK S : S = H!Busy'
  OBVIOUS
<1>4. IsFiniteSet(S)
  <2>1. IsFiniteSet(H!Threads)
    BY SharingAssumption, FS_Union DEF H!Threads
  <2>2. S \subseteq H!Threads
    BY <1>3 DEF H!Busy
  <2> QED BY <2>1, <2>2, FS_Subset
<1>5. H!Cardinality(S) <= 1
  BY <1>3
<1>6. ASSUME NEW y \in H!Threads, NEW z \in H!Threads, sharingAt'[y] # "idle", sharingAt'[z] # "idle"
      PROVE  y = z
  <2>1. y \in S /\ z \in S
    BY <1>3, <1>6 DEF H!Busy
  <2> QED BY <1>4, <1>5, <2>1, AtMostOne
<1>7. ASSUME sharingAt[x] # "idle" \/ place # "idle", NEW y \in H!Threads \ {x}
      PROVE  sharingAt[y] = "idle"
  BY <1>1, <1>2, <1>6, <1>7 DEF InOrder
<1> QED BY <1>1, <1>2, <1>6, <1>7

LEMMA MoreIsHeld ==
    ASSUME NEW known, NEW more, NEW place, Entitles(known, place), known \subseteq more
    PROVE  Entitles(more, place)
BY DEF Entitles

\* Only the one who moves needs to have had what his next place asks for.
LEMMA HeldAtNext ==
    ASSUME SharingTypes, HeldTells, NEW x \in H!Threads, NEW place \in H!Places, H!Go(x, place),
           H!Remember, x \in Guests => Entitles(held[x] \cup H!Facts(x)', place)
    PROVE  HeldTells'
<1>1. sharingAt \in [H!Threads -> H!Places] /\ sharingAt' = [sharingAt EXCEPT ![x] = place]
  BY DEF SharingTypes, H!TypeOK, H!Go
<1>2. SUFFICES ASSUME NEW g \in Guests
               PROVE  Entitles(held'[g], sharingAt'[g])
  BY DEF HeldTells
<1>3. Guests \subseteq H!Threads
  BY DEF H!Threads
<1>4. held'[g] = IF sharingAt'[g] = "idle" THEN {} ELSE held[g] \cup H!Facts(g)'
  BY DEF H!Remember
<1>5. CASE sharingAt'[g] = "idle"
  BY <1>5 DEF Entitles
<1>6. CASE sharingAt'[g] # "idle" /\ g = x
  BY <1>1, <1>3, <1>4, <1>6
<1>7. CASE sharingAt'[g] # "idle" /\ g # x
  <2>1. sharingAt'[g] = sharingAt[g] /\ Entitles(held[g], sharingAt[g])
    BY <1>1, <1>3, <1>7 DEF HeldTells
  <2> QED BY <1>4, <1>7, <2>1, MoreIsHeld
<1> QED BY <1>5, <1>6, <1>7

\* The facts and the variables of a move have their types.
LEMMA HeldTypes ==
    ASSUME H!Remember, members' \in [Guests -> H!Access],
           held \in [Guests -> SUBSET (H!Access \cup {"active"})]
    PROVE  held' \in [Guests -> SUBSET (H!Access \cup {"active"})]
<1>1. ASSUME NEW g \in Guests
      PROVE  H!Facts(g)' \subseteq H!Access \cup {"active"}
  BY DEF H!Facts
<1> QED BY <1>1 DEF H!Remember

\* What is noted of every step of a request.
Observed ==
    /\ H!Remember
    /\ sharedCalmly' = (sharedCalmly /\ H!Cardinality(H!Busy') <= 1)

\* Nobody but this request is in progress, and all is in order.
Sole(x) == InOrder /\ \A y \in H!Threads \ {x} : sharingAt[y] = "idle"

\* A move that leaves the conversation, its members and their tasks.
LEMMA MoveKeeps ==
    ASSUME SharingInv, Observed, NEW x \in H!Threads, NEW place \in H!Places, H!Go(x, place),
           UNCHANGED <<conversation, members, questions, replies, trail, sharingTask>>,
           remembered' \in BOOLEAN,
           x \in Guests => Entitles(held[x] \cup H!Facts(x)', place),
           sharingAt[x] # "idle" \/ place # "idle",
           place \in Changing => /\ place = "previous" /\ x \in Tabs /\ sharingTask[x] \in Tasks
                                 /\ sharingTask[x].guest \in Shareable,
           sharingAt[x] # "audit",
           Sole(x) => /\ place \in Spoken <=> sharingAt[x] \in Spoken
                      /\ place \in Spoken \cup {"admitQuestion", "question"} => H!Active
                      /\ place \in Spoken \cup {"question"} => H!CanSpeak(x)
    PROVE  SharingInv'
<1>1. SharingTypes /\ HeldTells /\ GrantsAreVetted /\ CalmSharing
  BY DEF SharingInv
<1>2. /\ sharingAt \in [H!Threads -> H!Places] /\ sharingAt' = [sharingAt EXCEPT ![x] = place]
      /\ Tabs \subseteq H!Threads
  BY <1>1 DEF SharingTypes, H!TypeOK, H!Go, H!Threads
<1>3. SharingTypes'
  <2>1. held' \in [Guests -> SUBSET (H!Access \cup {"active"})]
    BY <1>1, HeldTypes DEF SharingTypes, H!TypeOK, Observed
  <2>2. sharedCalmly' \in BOOLEAN
    BY <1>1, Zenon DEF SharingTypes, H!TypeOK, Observed
  <2>3. sharingAt' \in [H!Threads -> H!Places]
    BY <1>2
  <2>4. ASSUME NEW t \in Tabs, sharingAt'[t] \in Changing
        PROVE  sharingTask'[t] \in Tasks
    BY <1>1, <1>2, <2>4 DEF SharingTypes
  <2> QED BY <1>1, <2>1, <2>2, <2>3, <2>4 DEF SharingTypes, H!TypeOK
<1>4. HeldTells'
  BY <1>1, HeldAtNext DEF Observed
<1>5. GrantsAreVetted'
  <2>1. ASSUME NEW t \in Tabs, sharingAt'[t] \in {"previous", "change", "audit"}, sharingTask'[t].grant # "none"
        PROVE  sharingTask'[t].guest \in Shareable
    <3>1. CASE t = x
      BY <1>2, <2>1, <3>1 DEF Changing
    <3>2. CASE t # x
      BY <1>1, <1>2, <2>1, <3>2 DEF GrantsAreVetted
    <3> QED BY <3>1, <3>2
  <2> QED BY <1>1, <2>1 DEF GrantsAreVetted, H!MembersAreShareable
<1>6. ASSUME sharedCalmly'
      PROVE  InOrder'
  <2>1. /\ InOrder /\ sharingAt'[x] = place
        /\ \A y \in H!Threads \ {x} : sharingAt[y] = "idle" /\ sharingAt'[y] = "idle"
        /\ \A y, z \in H!Threads : sharingAt'[y] # "idle" /\ sharingAt'[z] # "idle" => y = z
    BY <1>1, <1>6, OthersRest DEF Observed
  <2>2. Sole(x)
    BY <2>1 DEF Sole
  <2>3. ASSUME NEW t \in Tabs
        PROVE  /\ sharingAt'[t] = "change" => sharingTask'[t].previous = members'[sharingTask'[t].guest]
               /\ sharingAt'[t] = "audit" => sharingTask'[t].grant = members'[sharingTask'[t].guest]
    BY <1>2, <2>1 DEF Changing
  <2>4. ASSUME NEW g \in Guests
        PROVE  trail'[g] = members'[g]
    BY <1>2, <2>1 DEF InOrder
  <2>5. ASSUME NEW y \in H!Threads
        PROVE  /\ sharingAt'[y] \in Spoken \cup {"admitQuestion", "question"} => H!Active'
               /\ sharingAt'[y] \in Spoken \cup {"question"} => H!CanSpeak(y)'
    BY <2>1, <2>2 DEF H!Active, H!CanSpeak, Spoken
  <2>6. \/ questions' = replies' /\ \A y \in H!Threads : sharingAt'[y] \notin Spoken
        \/ questions' = replies' + 1 /\ \E y \in H!Threads : sharingAt'[y] \in Spoken
    <3>1. CASE place \in Spoken
      BY <2>1, <2>2, <3>1 DEF InOrder, Spoken
    <3>2. CASE place \notin Spoken
      BY <2>1, <2>2, <3>2 DEF InOrder, Spoken
    <3> QED BY <3>1, <3>2
  <2> QED BY <2>1, <2>3, <2>4, <2>5, <2>6 DEF InOrder
<1> QED BY <1>3, <1>4, <1>5, <1>6 DEF SharingInv, CalmSharing

\* A move of the owner that changes what he is about to do with a membership.
Reassigns(t, place, duty) ==
    /\ place \in Changing \cup {"idle"} /\ H!Go(t, place)
    /\ duty \in Tasks \cup {NoTask} /\ sharingTask' = [sharingTask EXCEPT ![t] = duty]
    /\ place \in Changing => duty \in Tasks
    /\ place \in {"previous", "change", "audit"} /\ duty.grant # "none" => duty.guest \in Shareable
    /\ UNCHANGED <<conversation, remembered, questions, replies>>
    /\ members' \in [Guests -> H!Access] /\ trail' \in [Guests -> H!Access]
    /\ H!MembersAreShareable'
    /\ sharingAt[t] # "idle" \/ place # "idle"
    /\ sharingAt[t] \in Changing \cup {"idle"}
    /\ Sole(t) =>
          /\ place = "change" => duty.previous = members'[duty.guest]
          /\ place = "audit" => duty.grant = members'[duty.guest]
          /\ \A g \in Guests : trail'[g] = members'[g] \/ (place = "audit" /\ duty.guest = g)

LEMMA ShareMoves ==
    ASSUME SharingInv, Observed, NEW t \in Tabs, NEW place, NEW duty, Reassigns(t, place, duty)
    PROVE  SharingInv'
<1> USE DEF Reassigns
<1>1. SharingTypes /\ HeldTells /\ GrantsAreVetted /\ CalmSharing
  BY DEF SharingInv
<1>2. /\ sharingAt \in [H!Threads -> H!Places] /\ sharingAt' = [sharingAt EXCEPT ![t] = place]
      /\ Tabs \subseteq H!Threads /\ t \notin Guests /\ place \in H!Places
      /\ sharingTask \in [Tabs -> Tasks \cup {NoTask}]
  BY <1>1, SharingAssumption DEF SharingTypes, H!TypeOK, H!Go, H!Threads, H!Places, Changing, Tasks
<1>3. SharingTypes'
  <2>1. held' \in [Guests -> SUBSET (H!Access \cup {"active"})]
    BY <1>1, HeldTypes DEF SharingTypes, H!TypeOK, Observed
  <2>2. sharedCalmly' \in BOOLEAN
    BY <1>1, Zenon DEF SharingTypes, H!TypeOK, Observed
  <2>3. /\ sharingAt' \in [H!Threads -> H!Places]
        /\ sharingTask' \in [Tabs -> [guest : Guests, grant : H!Access, previous : H!Access] \cup {NoTask}]
    BY <1>2 DEF Tasks
  <2>4. ASSUME NEW u \in Tabs, sharingAt'[u] \in Changing
        PROVE  sharingTask'[u] \in Tasks
    BY <1>1, <1>2, <2>4 DEF SharingTypes
  <2> QED BY <1>1, <2>1, <2>2, <2>3, <2>4 DEF SharingTypes, H!TypeOK
<1>4. HeldTells'
  BY <1>1, <1>2, HeldAtNext DEF Observed
<1>5. GrantsAreVetted'
  <2>1. ASSUME NEW u \in Tabs, sharingAt'[u] \in {"previous", "change", "audit"}, sharingTask'[u].grant # "none"
        PROVE  sharingTask'[u].guest \in Shareable
    <3>1. CASE u = t
      BY <1>2, <2>1, <3>1
    <3>2. CASE u # t
      BY <1>1, <1>2, <2>1, <3>2 DEF GrantsAreVetted
    <3> QED BY <3>1, <3>2
  <2> QED BY <1>1, <2>1 DEF GrantsAreVetted
<1>6. ASSUME sharedCalmly'
      PROVE  InOrder'
  <2>1. /\ InOrder /\ sharingAt'[t] = place
        /\ \A y \in H!Threads \ {t} : sharingAt[y] = "idle" /\ sharingAt'[y] = "idle"
        /\ \A y, z \in H!Threads : sharingAt'[y] # "idle" /\ sharingAt'[z] # "idle" => y = z
    BY <1>1, <1>2, <1>6, OthersRest DEF Observed
  <2>2. Sole(t) /\ sharingTask'[t] = duty
    BY <1>2, <2>1 DEF Sole
  <2>3. ASSUME NEW u \in Tabs
        PROVE  /\ sharingAt'[u] = "change" => sharingTask'[u].previous = members'[sharingTask'[u].guest]
               /\ sharingAt'[u] = "audit" => sharingTask'[u].grant = members'[sharingTask'[u].guest]
    BY <1>2, <2>1, <2>2
  <2>4. ASSUME NEW g \in Guests
        PROVE  \/ trail'[g] = members'[g]
               \/ \E u \in Tabs : sharingAt'[u] = "audit" /\ sharingTask'[u].guest = g
    BY <2>1, <2>2
  <2>5. ASSUME NEW y \in H!Threads
        PROVE  sharingAt'[y] \notin Spoken \cup {"admitQuestion", "question"}
    BY <2>1 DEF Spoken, Changing
  <2>6. questions' = replies'
    BY <1>2, <2>1 DEF InOrder, Spoken, Changing
  <2> QED BY <2>1, <2>3, <2>4, <2>5, <2>6 DEF InOrder
<1> QED BY <1>3, <1>4, <1>5, <1>6 DEF SharingInv, CalmSharing

\* Nobody moves: the process died, or what a request or the owner did left it at
\* rest, or archived the conversation.
LEMMA RestKeeps ==
    ASSUME SharingInv, H!Remember, UNCHANGED <<members, questions, replies, trail>>,
           remembered' \in BOOLEAN,
           conversation' \in [status : {"active", "archived"}, deleted : BOOLEAN],
           sharedCalmly' \in BOOLEAN,
           \A x \in H!Threads : sharingAt'[x] = sharingAt[x] \/ sharingAt'[x] = "idle",
           sharingAt' \in [H!Threads -> H!Places],
           sharingTask' \in [Tabs -> Tasks \cup {NoTask}],
           \A t \in Tabs : sharingAt'[t] # "idle" => sharingTask'[t] = sharingTask[t],
           sharedCalmly' => /\ sharedCalmly /\ UNCHANGED <<sharingAt, sharingTask>>
                            /\ (\A x \in H!Threads : sharingAt[x] = "idle") \/ UNCHANGED conversation
    PROVE  SharingInv'
<1>1. SharingTypes /\ HeldTells /\ GrantsAreVetted /\ CalmSharing
  BY DEF SharingInv
<1>2. Tabs \subseteq H!Threads /\ Guests \subseteq H!Threads /\ "idle" \notin Changing
  BY DEF H!Threads, Changing
<1>3. SharingTypes'
  <2>1. held' \in [Guests -> SUBSET (H!Access \cup {"active"})]
    BY <1>1, HeldTypes DEF SharingTypes, H!TypeOK
  <2>2. ASSUME NEW t \in Tabs, sharingAt'[t] \in Changing
        PROVE  sharingTask'[t] \in Tasks
    BY <1>1, <1>2, <2>2 DEF SharingTypes
  <2> QED BY <1>1, <2>1, <2>2 DEF SharingTypes, H!TypeOK, Tasks
<1>4. HeldTells'
  <2>1. ASSUME NEW g \in Guests
        PROVE  Entitles(held'[g], sharingAt'[g])
    <3>1. held'[g] = IF sharingAt'[g] = "idle" THEN {} ELSE held[g] \cup H!Facts(g)'
      BY DEF H!Remember
    <3>2. CASE sharingAt'[g] = "idle"
      BY <3>2 DEF Entitles
    <3>3. CASE sharingAt'[g] # "idle"
      <4>1. sharingAt'[g] = sharingAt[g] /\ Entitles(held[g], sharingAt[g])
        BY <1>1, <1>2, <3>3 DEF HeldTells
      <4> QED BY <3>1, <3>3, <4>1, MoreIsHeld
    <3> QED BY <3>2, <3>3
  <2> QED BY <2>1 DEF HeldTells
<1>5. GrantsAreVetted'
  BY <1>1, <1>2 DEF GrantsAreVetted, H!MembersAreShareable
<1>6. ASSUME sharedCalmly'
      PROVE  InOrder'
  <2>1. InOrder /\ UNCHANGED <<sharingAt, sharingTask>>
    BY <1>1, <1>6 DEF CalmSharing
  <2>2. CASE \A x \in H!Threads : sharingAt[x] = "idle"
    BY <1>2, <2>1, <2>2 DEF InOrder, Spoken
  <2>3. CASE UNCHANGED conversation
    <3>1. H!Active' = H!Active /\ \A x \in H!Threads : H!CanSpeak(x)' = H!CanSpeak(x)
      BY <2>3 DEF H!Active, H!CanSpeak
    <3> QED BY <2>1, <3>1 DEF InOrder
  <2> QED BY <1>6, <2>2, <2>3
<1> QED BY <1>3, <1>4, <1>5, <1>6 DEF SharingInv, CalmSharing

\* A request that goes nowhere.
LEMMA NothingBegins ==
    ASSUME SharingInv, Observed, NEW x \in H!Threads, sharingAt[x] = "idle", H!Go(x, "idle"),
           UNCHANGED <<conversation, remembered, members, questions, replies, trail, sharingTask>>
    PROVE  SharingInv'
<1>1. SharingTypes
  BY DEF SharingInv
<1>2. UNCHANGED sharingAt /\ sharingAt \in [H!Threads -> H!Places]
  BY <1>1 DEF SharingTypes, H!TypeOK, H!Go
<1>3. sharedCalmly' \in BOOLEAN /\ (sharedCalmly' => sharedCalmly)
  BY <1>1, Zenon DEF SharingTypes, H!TypeOK, Observed
<1>4. sharingTask \in [Tabs -> Tasks \cup {NoTask}] /\ remembered \in BOOLEAN
      /\ conversation \in [status : {"active", "archived"}, deleted : BOOLEAN]
  BY <1>1 DEF SharingTypes, H!TypeOK, Tasks
<1> QED BY <1>2, <1>3, <1>4, RestKeeps DEF Observed

LEMMA ArchiveKeeps ==
    ASSUME SharingInv, NEW t \in Tabs, H!Archive(t), H!Remember,
           sharedCalmly' = (sharedCalmly /\ H!Busy = {})
    PROVE  SharingInv'
<1>1. SharingTypes
  BY DEF SharingInv
<1>2. /\ sharingTask \in [Tabs -> Tasks \cup {NoTask}] /\ remembered \in BOOLEAN
      /\ conversation \in [status : {"active", "archived"}, deleted : BOOLEAN]
      /\ sharingAt \in [H!Threads -> H!Places]
  BY <1>1 DEF SharingTypes, H!TypeOK, Tasks
<1>3. sharedCalmly' \in BOOLEAN /\ (sharedCalmly' => sharedCalmly /\ H!Busy = {})
  BY <1>1, Zenon DEF SharingTypes, H!TypeOK
<1>4. /\ conversation' \in [status : {"active", "archived"}, deleted : BOOLEAN]
      /\ UNCHANGED <<remembered, members, questions, replies, trail, sharingAt, sharingTask>>
  BY <1>2 DEF H!Archive, H!said
<1>5. H!Busy = {} => \A x \in H!Threads : sharingAt[x] = "idle"
  BY DEF H!Busy
<1> QED BY <1>2, <1>3, <1>4, <1>5, RestKeeps

LEMMA DieKeeps ==
    ASSUME SharingInv, NEW x \in H!Threads, H!Die(x), H!Remember
    PROVE  SharingInv'
<1>1. SharingTypes
  BY DEF SharingInv
<1>2. /\ sharingTask \in [Tabs -> Tasks \cup {NoTask}] /\ remembered \in BOOLEAN
      /\ conversation \in [status : {"active", "archived"}, deleted : BOOLEAN]
      /\ sharingAt \in [H!Threads -> H!Places]
  BY <1>1 DEF SharingTypes, H!TypeOK, Tasks
<1>3. /\ sharingAt' = [sharingAt EXCEPT ![x] = "idle"] /\ sharedCalmly' = FALSE
      /\ sharingTask' = [t \in Tabs |-> IF t = x THEN NoTask ELSE sharingTask[t]]
      /\ UNCHANGED <<conversation, remembered, members, questions, replies, trail>>
  BY DEF H!Die, H!Go, H!shared, H!said
<1>4. sharingAt' \in [H!Threads -> H!Places]
  BY <1>2, <1>3 DEF H!Places
<1>5. sharingTask' \in [Tabs -> Tasks \cup {NoTask}] /\ Tabs \subseteq H!Threads
  BY <1>2, <1>3 DEF H!Threads
<1>6. \A y \in H!Threads : sharingAt'[y] = sharingAt[y] \/ sharingAt'[y] = "idle"
  BY <1>2, <1>3
<1>7. \A t \in Tabs : sharingAt'[t] # "idle" => sharingTask'[t] = sharingTask[t]
  BY <1>2, <1>3, <1>5
<1> QED BY <1>2, <1>3, <1>4, <1>5, <1>6, <1>7, RestKeeps

-----------------------------------------------------------------------------
(*                    The owner shares, and takes back                     *)

\* What a step of the owner starts from.
LEMMA OwnerStarts ==
    ASSUME SharingInv
    PROVE  /\ members \in [Guests -> H!Access] /\ trail \in [Guests -> H!Access]
           /\ remembered \in BOOLEAN /\ H!MembersAreShareable
           /\ \A t \in Tabs : sharingAt[t] \in Changing => sharingTask[t] \in Tasks
           /\ \A t \in Tabs : sharingAt[t] \in {"previous", "change", "audit"} /\ sharingTask[t].grant # "none"
                                 => sharingTask[t].guest \in Shareable
           /\ Tabs \subseteq H!Threads
           /\ "vet" \in Changing /\ "previous" \in Changing /\ "change" \in Changing
           /\ "audit" \in Changing /\ "idle" \notin Changing
           /\ \A t \in Tabs : t \notin Guests
BY SharingAssumption DEF SharingInv, SharingTypes, H!TypeOK, GrantsAreVetted, H!Threads, Changing

LEMMA AddMemberKeeps ==
    ASSUME SharingInv, Observed, NEW t \in Tabs, NEW g \in Guests, NEW p \in H!Permissions, H!AddMember(t, g, p)
    PROVE  SharingInv'
<1> DEFINE duty == [guest |-> g, grant |-> p, previous |-> "none"]
<1>1. duty \in Tasks
  BY DEF Tasks, H!Access
<1>2. /\ sharingAt[t] = "idle" /\ sharingTask' = [sharingTask EXCEPT ![t] = duty] /\ H!Go(t, "vet")
      /\ UNCHANGED <<conversation, remembered, members, questions, replies, trail>>
  BY DEF H!AddMember, H!shared, H!said
<1>3. Sole(t) => \A h \in Guests : trail'[h] = members'[h]
  BY <1>2, OwnerStarts DEF Sole, InOrder
<1>4. H!MembersAreShareable'
  BY <1>2, OwnerStarts DEF H!MembersAreShareable
<1>5. "vet" \in Changing /\ members' \in [Guests -> H!Access] /\ trail' \in [Guests -> H!Access]
  BY <1>2, OwnerStarts
<1> HIDE DEF duty
<1>6. Reassigns(t, "vet", duty)
  BY <1>1, <1>2, <1>3, <1>4, <1>5 DEF Reassigns
<1> QED BY <1>6, ShareMoves

LEMMA RemoveMemberKeeps ==
    ASSUME SharingInv, Observed, NEW t \in Tabs, NEW g \in Guests, H!RemoveMember(t, g)
    PROVE  SharingInv'
<1> DEFINE duty == [guest |-> g, grant |-> "none", previous |-> "none"]
<1>1. duty \in Tasks /\ duty.grant = "none"
  BY DEF Tasks, H!Access
<1>2. /\ sharingAt[t] = "idle" /\ sharingTask' = [sharingTask EXCEPT ![t] = duty] /\ H!Go(t, "previous")
      /\ UNCHANGED <<conversation, remembered, members, questions, replies, trail>>
  BY DEF H!RemoveMember, H!shared, H!said
<1>3. Sole(t) => \A h \in Guests : trail'[h] = members'[h]
  BY <1>2, OwnerStarts DEF Sole, InOrder
<1>4. H!MembersAreShareable'
  BY <1>2, OwnerStarts DEF H!MembersAreShareable
<1>5. "previous" \in Changing /\ members' \in [Guests -> H!Access] /\ trail' \in [Guests -> H!Access]
  BY <1>2, OwnerStarts
<1> HIDE DEF duty
<1>6. Reassigns(t, "previous", duty)
  BY <1>1, <1>2, <1>3, <1>4, <1>5 DEF Reassigns
<1> QED BY <1>6, ShareMoves

LEMMA EnsureShareableKeeps ==
    ASSUME SharingInv, Observed, NEW t \in Tabs, H!EnsureShareable(t)
    PROVE  SharingInv'
<1>1. /\ sharingAt[t] = "vet" /\ sharingTask[t] \in Tasks
      /\ UNCHANGED <<conversation, remembered, members, questions, replies, trail>>
  BY OwnerStarts DEF H!EnsureShareable, H!shared, H!said
<1>2. Sole(t) => \A h \in Guests : trail'[h] = members'[h]
  BY <1>1, OwnerStarts DEF Sole, InOrder
<1>3. H!MembersAreShareable'
  BY <1>1, OwnerStarts DEF H!MembersAreShareable
<1>4. sharingTask \in [Tabs -> Tasks \cup {NoTask}]
  BY DEF SharingInv, SharingTypes, H!TypeOK, Tasks
<1>5. CASE sharingTask[t].guest \in Shareable
  <2>1. H!Go(t, "previous") /\ sharingTask' = [sharingTask EXCEPT ![t] = sharingTask[t]]
    BY <1>4, <1>5 DEF H!EnsureShareable
  <2>2. /\ "previous" \in Changing /\ "vet" \in Changing
        /\ members' \in [Guests -> H!Access] /\ trail' \in [Guests -> H!Access]
    BY <1>1, OwnerStarts
  <2>3. Reassigns(t, "previous", sharingTask[t])
    BY <1>1, <1>2, <1>3, <1>5, <2>1, <2>2 DEF Reassigns
  <2> QED BY <2>3, ShareMoves
<1>6. CASE sharingTask[t].guest \notin Shareable
  <2>1. H!Go(t, "idle") /\ sharingTask' = [sharingTask EXCEPT ![t] = NoTask]
    BY <1>6 DEF H!EnsureShareable, H!Leave
  <2>2. Reassigns(t, "idle", NoTask)
    BY <1>1, <1>2, <1>3, <2>1, OwnerStarts DEF Reassigns
  <2> QED BY <2>2, ShareMoves
<1> QED BY <1>5, <1>6

LEMMA PermissionForKeeps ==
    ASSUME SharingInv, Observed, NEW t \in Tabs, H!PermissionFor(t)
    PROVE  SharingInv'
<1>1. /\ sharingAt[t] = "previous" /\ sharingTask[t] \in Tasks /\ H!Go(t, "change")
      /\ UNCHANGED <<conversation, remembered, members, questions, replies, trail>>
  BY OwnerStarts DEF H!PermissionFor, H!shared, H!said
<1>2. Sole(t) => \A h \in Guests : trail'[h] = members'[h]
  BY <1>1, OwnerStarts DEF Sole, InOrder
<1>3. H!MembersAreShareable'
  BY <1>1, OwnerStarts DEF H!MembersAreShareable
<1>4. sharingTask \in [Tabs -> Tasks \cup {NoTask}]
  BY DEF SharingInv, SharingTypes, H!TypeOK, Tasks
<1> DEFINE duty == [sharingTask[t] EXCEPT !.previous = members[sharingTask[t].guest]]
<1>5. /\ duty \in Tasks /\ duty.grant = sharingTask[t].grant /\ duty.guest = sharingTask[t].guest
      /\ duty.previous = members[duty.guest]
  BY <1>1, OwnerStarts DEF Tasks
<1>6. sharingTask' = [sharingTask EXCEPT ![t] = duty]
  BY <1>4 DEF H!PermissionFor
<1>7. /\ "previous" \in Changing /\ "change" \in Changing
      /\ members' \in [Guests -> H!Access] /\ trail' \in [Guests -> H!Access]
      /\ duty.grant # "none" => duty.guest \in Shareable
  BY <1>1, <1>5, OwnerStarts
<1>8. Sole(t) => duty.previous = members'[duty.guest]
  BY <1>1, <1>5
<1> HIDE DEF duty
<1>9. Reassigns(t, "change", duty)
  BY <1>1, <1>2, <1>3, <1>5, <1>6, <1>7, <1>8 DEF Reassigns
<1> QED BY <1>9, ShareMoves

\* Upsert and Delete: the membership becomes what was to be granted.
LEMMA ChangeKeeps ==
    ASSUME SharingInv, Observed, NEW t \in Tabs, H!Upsert(t) \/ H!Delete(t)
    PROVE  SharingInv'
<1> DEFINE duty == sharingTask[t]
<1>1. /\ sharingAt[t] = "change" /\ duty \in Tasks
      /\ UNCHANGED <<conversation, remembered, questions, replies, trail>>
      /\ members' = [members EXCEPT ![duty.guest] = duty.grant]
  BY OwnerStarts DEF H!Upsert, H!Delete, H!said
<1>2. duty.guest \in Guests /\ duty.grant \in H!Access /\ members' \in [Guests -> H!Access]
  BY <1>1, OwnerStarts DEF Tasks
<1>3. H!MembersAreShareable'
  BY <1>1, <1>2, OwnerStarts DEF H!MembersAreShareable
<1>4. Sole(t) => /\ duty.previous = members[duty.guest]
                 /\ \A h \in Guests : trail[h] = members[h]
  BY <1>1, OwnerStarts DEF Sole, InOrder
<1>5. sharingTask \in [Tabs -> Tasks \cup {NoTask}]
  BY DEF SharingInv, SharingTypes, H!TypeOK, Tasks
<1>6. CASE H!Go(t, "audit") /\ UNCHANGED sharingTask
  <2>1. sharingTask' = [sharingTask EXCEPT ![t] = duty]
    BY <1>5, <1>6
  <2>2. Sole(t) => /\ duty.grant = members'[duty.guest]
                   /\ \A h \in Guests : trail'[h] = members'[h] \/ duty.guest = h
    BY <1>1, <1>2, <1>4, OwnerStarts
  <2> HIDE DEF duty
  <2>3. duty = sharingTask[t]
    BY DEF duty
  <2>4. /\ "change" \in Changing /\ "audit" \in Changing /\ trail' \in [Guests -> H!Access]
        /\ duty.grant # "none" => duty.guest \in Shareable
    BY <1>1, <2>3, OwnerStarts
  <2>5. H!Go(t, "audit")
    BY <1>6
  <2>6. Reassigns(t, "audit", duty)
    BY <1>1, <1>2, <1>3, <2>1, <2>2, <2>4, <2>5 DEF Reassigns
  <2> QED BY <2>6, ShareMoves
<1>7. CASE H!Leave(t) /\ members[duty.guest] = duty.grant
  <2>1. H!Go(t, "idle") /\ sharingTask' = [sharingTask EXCEPT ![t] = NoTask]
    BY <1>7 DEF H!Leave
  <2>2. Sole(t) => \A h \in Guests : trail'[h] = members'[h]
    BY <1>1, <1>2, <1>4, <1>7, OwnerStarts
  <2>3. Reassigns(t, "idle", NoTask)
    BY <1>1, <1>2, <1>3, <2>1, <2>2, OwnerStarts DEF Reassigns
  <2> QED BY <2>3, ShareMoves
<1>8. CASE H!Leave(t) /\ duty.previous = duty.grant
  <2>1. H!Go(t, "idle") /\ sharingTask' = [sharingTask EXCEPT ![t] = NoTask]
    BY <1>8 DEF H!Leave
  <2>2. Sole(t) => \A h \in Guests : trail'[h] = members'[h]
    BY <1>1, <1>2, <1>4, <1>8, OwnerStarts
  <2>3. Reassigns(t, "idle", NoTask)
    BY <1>1, <1>2, <1>3, <2>1, <2>2, OwnerStarts DEF Reassigns
  <2> QED BY <2>3, ShareMoves
<1> QED BY <1>6, <1>7, <1>8 DEF H!Upsert, H!Delete

LEMMA RecordKeeps ==
    ASSUME SharingInv, Observed, NEW t \in Tabs, H!Record(t)
    PROVE  SharingInv'
<1>1. /\ sharingAt[t] = "audit" /\ sharingTask[t] \in Tasks /\ H!Go(t, "idle")
      /\ sharingTask' = [sharingTask EXCEPT ![t] = NoTask]
      /\ trail' = [trail EXCEPT ![sharingTask[t].guest] = sharingTask[t].grant]
      /\ UNCHANGED <<conversation, remembered, members, questions, replies>>
  BY OwnerStarts DEF H!Record, H!Leave, H!shared, H!said
<1>2. /\ sharingTask[t].guest \in Guests /\ sharingTask[t].grant \in H!Access
      /\ trail' \in [Guests -> H!Access]
  BY <1>1, OwnerStarts DEF Tasks
<1>3. Sole(t) => \A h \in Guests : trail'[h] = members'[h]
  BY <1>1, <1>2, OwnerStarts DEF Sole, InOrder
<1>4. H!MembersAreShareable'
  BY <1>1, OwnerStarts DEF H!MembersAreShareable
<1>5. Reassigns(t, "idle", NoTask)
  BY <1>1, <1>2, <1>3, <1>4, OwnerStarts DEF Reassigns
<1> QED BY <1>5, ShareMoves

-----------------------------------------------------------------------------
(*                     Whoever speaks, and whoever looks                   *)

\* What is so of a guest or the owner who is about to move.
LEMMA Moving ==
    ASSUME SharingInv, NEW x \in H!Threads
    PROVE  /\ x \in Tabs \/ x \in Guests
           /\ x \in Guests => x \notin Tabs /\ Entitles(held[x], sharingAt[x])
           /\ members \in [Guests -> H!Access] /\ remembered \in BOOLEAN
           /\ Sole(x) => /\ sharingAt[x] \in Spoken \cup {"admitQuestion", "question"} => H!Active
                         /\ sharingAt[x] \in Spoken \cup {"question"} => H!CanSpeak(x)
BY SharingAssumption DEF SharingInv, SharingTypes, HeldTells, H!TypeOK, H!Threads, Sole, InOrder

LEMMA AppendReadsKeeps ==
    ASSUME SharingInv, Observed, NEW x \in H!Threads, NEW from \in {"idle", "reply"}, NEW to,
           to = (IF from = "idle" THEN "admitQuestion" ELSE "admitReply"), H!AppendReads(x, from, to)
    PROVE  SharingInv'
<1>1. /\ sharingAt[x] = from
      /\ UNCHANGED <<conversation, remembered, members, questions, replies, trail, sharingTask>>
  BY DEF H!AppendReads, H!shared, H!said
<1>2. CASE H!Active
  <2>1. H!Go(x, to)
    BY <1>2 DEF H!AppendReads
  <2>2. to \in H!Places \ (Changing \cup {"idle", "question"}) /\ (to \in Spoken <=> from \in Spoken)
    BY DEF H!Places, Changing, Spoken
  <2>3. x \in Guests => Entitles(held[x] \cup H!Facts(x)', to)
    <3>1. "active" \in H!Facts(x)'
      BY <1>1, <1>2 DEF H!Facts, H!Active
    <3> QED BY <3>1 DEF Entitles
  <2>4. Sole(x) => (to \in Spoken => H!CanSpeak(x))
    BY <1>1, <2>2, Moving
  <2> QED BY <1>1, <1>2, <2>1, <2>2, <2>3, <2>4, Moving, MoveKeeps
<1>3. CASE ~H!Active
  <2>1. H!Go(x, "idle")
    BY <1>3 DEF H!AppendReads
  <2>2. CASE from = "idle"
    BY <1>1, <2>1, <2>2, NothingBegins
  <2>3. CASE from = "reply"
    <3>1. ~Sole(x)
      BY <1>1, <1>3, <2>3, Moving DEF Spoken
    <3>2. Entitles(held[x] \cup H!Facts(x)', "idle")
      BY DEF Entitles
    <3> QED BY <1>1, <2>1, <2>3, <3>1, <3>2, Moving, MoveKeeps DEF H!Places, Changing
  <2> QED BY <2>2, <2>3
<1> QED BY <1>2, <1>3

LEMMA EnsureCanSpeakKeeps ==
    ASSUME SharingInv, Observed, NEW x \in H!Threads, NEW from \in {"admitQuestion", "admitReply"}, NEW to,
           to = (IF from = "admitQuestion" THEN "question" ELSE "answer"), H!EnsureCanSpeak(x, from, to)
    PROVE  SharingInv'
<1>1. /\ sharingAt[x] = from
      /\ UNCHANGED <<conversation, remembered, members, questions, replies, trail, sharingTask>>
  BY DEF H!EnsureCanSpeak, H!shared, H!said
<1>2. CASE H!CanSpeak(x)
  <2>1. H!Go(x, to)
    BY <1>2 DEF H!EnsureCanSpeak
  <2>2. to \in H!Places \ (Changing \cup {"idle", "admitQuestion"}) /\ (to \in Spoken <=> from \in Spoken)
    BY DEF H!Places, Changing, Spoken
  <2>3. x \in Guests => Entitles(held[x] \cup H!Facts(x)', to)
    <3>1. ASSUME x \in Guests
          PROVE  "write" \in H!Facts(x)' /\ "active" \in held[x]
      BY <1>1, <1>2, <3>1, Moving DEF H!Facts, H!CanSpeak, Entitles
    <3> QED BY <3>1, <2>2 DEF Entitles
  <2>4. Sole(x) => H!Active
    BY <1>1, Moving DEF Spoken
  <2>5. from # "idle" /\ from # "audit"
    OBVIOUS
  <2> QED BY <1>1, <1>2, <2>1, <2>2, <2>3, <2>4, <2>5, Moving, MoveKeeps
<1>3. CASE ~H!CanSpeak(x)
  <2>1. H!Go(x, "idle")
    BY <1>3 DEF H!EnsureCanSpeak
  <2>2. Sole(x) => from \notin Spoken
    BY <1>1, <1>3, Moving DEF Spoken
  <2>3. Entitles(held[x] \cup H!Facts(x)', "idle")
    BY DEF Entitles
  <2>4. "idle" \in H!Places \ (Changing \cup Spoken \cup {"admitQuestion", "question"}) /\ from # "idle" /\ from # "audit"
    BY DEF H!Places, Changing, Spoken
  <2> QED BY <1>1, <2>1, <2>2, <2>3, <2>4, Moving, MoveKeeps
<1> QED BY <1>2, <1>3

\* AppendQuestion and AppendReply: what is said, said by one who may.
LEMMA SpeakingKeeps ==
    ASSUME SharingInv, Observed, NEW x \in H!Threads, H!AppendQuestion(x) \/ H!AppendReply(x)
    PROVE  SharingInv'
<1> DEFINE place == IF sharingAt[x] = "question" THEN "reply" ELSE "idle"
<1>1. /\ \/ sharingAt[x] = "question" /\ questions' = questions + 1 /\ replies' = replies
         \/ sharingAt[x] = "answer" /\ replies' = replies + 1 /\ questions' = questions
      /\ H!Go(x, place)
      /\ UNCHANGED <<conversation, remembered, members, trail, sharingTask>>
  BY DEF H!AppendQuestion, H!AppendReply, H!shared
<1>2. SharingTypes /\ HeldTells /\ GrantsAreVetted /\ CalmSharing
  BY DEF SharingInv
<1>3. /\ sharingAt \in [H!Threads -> H!Places] /\ sharingAt' = [sharingAt EXCEPT ![x] = place]
      /\ place \in H!Places \ Changing /\ questions \in Nat /\ replies \in Nat /\ Tabs \subseteq H!Threads
  BY <1>1, <1>2 DEF SharingTypes, H!TypeOK, H!Go, H!Places, Changing, H!Threads
<1>4. SharingTypes'
  <2>1. held' \in [Guests -> SUBSET (H!Access \cup {"active"})]
    BY <1>1, <1>2, HeldTypes DEF SharingTypes, H!TypeOK, Observed
  <2>2. sharedCalmly' \in BOOLEAN
    BY <1>2, Zenon DEF SharingTypes, H!TypeOK, Observed
  <2>3. ASSUME NEW t \in Tabs, sharingAt'[t] \in Changing
        PROVE  sharingTask'[t] \in Tasks
    BY <1>1, <1>2, <1>3, <2>3 DEF SharingTypes
  <2> QED BY <1>1, <1>2, <1>3, <2>1, <2>2, <2>3 DEF SharingTypes, H!TypeOK
<1>5. HeldTells'
  <2>1. Entitles(held[x] \cup H!Facts(x)', place)
    BY DEF Entitles
  <2> QED BY <1>1, <1>2, <1>3, <2>1, HeldAtNext DEF Observed
<1>6. GrantsAreVetted'
  <2>1. ASSUME NEW t \in Tabs, sharingAt'[t] \in {"previous", "change", "audit"}, sharingTask'[t].grant # "none"
        PROVE  sharingTask'[t].guest \in Shareable
    BY <1>1, <1>2, <1>3, <2>1 DEF GrantsAreVetted
  <2> QED BY <1>1, <1>2, <2>1 DEF GrantsAreVetted, H!MembersAreShareable
<1>7. ASSUME sharedCalmly'
      PROVE  InOrder'
  <2>1. /\ InOrder /\ sharingAt'[x] = place
        /\ \A y \in H!Threads \ {x} : sharingAt[y] = "idle" /\ sharingAt'[y] = "idle"
        /\ \A y, z \in H!Threads : sharingAt'[y] # "idle" /\ sharingAt'[z] # "idle" => y = z
    BY <1>1, <1>2, <1>3, <1>7, OthersRest DEF Observed
  <2>2. ASSUME NEW t \in Tabs
        PROVE  sharingAt'[t] # "change" /\ sharingAt'[t] # "audit"
    BY <1>3, <2>1
  <2>3. ASSUME NEW g \in Guests
        PROVE  trail'[g] = members'[g]
    BY <1>1, <1>3, <2>1 DEF InOrder
  <2>4. ASSUME NEW y \in H!Threads, sharingAt'[y] \in Spoken \cup {"admitQuestion", "question"}
        PROVE  H!Active' /\ H!CanSpeak(y)'
    <3>1. y = x /\ sharingAt[x] = "question"
      BY <2>1, <2>4 DEF Spoken
    <3>2. H!Active /\ H!CanSpeak(x)
      BY <2>1, <3>1 DEF InOrder
    <3> QED BY <1>1, <3>1, <3>2 DEF H!Active, H!CanSpeak
  <2>5. \/ questions' = replies' /\ \A y \in H!Threads : sharingAt'[y] \notin Spoken
        \/ questions' = replies' + 1 /\ \E y \in H!Threads : sharingAt'[y] \in Spoken
    <3>1. CASE sharingAt[x] = "question"
      <4>1. questions = replies
        BY <2>1, <3>1 DEF InOrder, Spoken
      <4> QED BY <1>1, <1>3, <2>1, <3>1, <4>1 DEF Spoken
    <3>2. CASE sharingAt[x] = "answer"
      <4>1. questions = replies + 1
        BY <2>1, <3>2 DEF InOrder, Spoken
      <4> QED BY <1>1, <1>3, <2>1, <3>2, <4>1 DEF Spoken
    <3> QED BY <1>1, <3>1, <3>2
  <2> QED BY <2>1, <2>2, <2>3, <2>4, <2>5 DEF InOrder
<1> QED BY <1>4, <1>5, <1>6, <1>7 DEF SharingInv, CalmSharing

\* A guest who looks, and whoever is done with what he looked at.
LEMMA LookingKeeps ==
    ASSUME SharingInv, Observed, NEW g \in Guests, NEW place \in {"idle", "first", "again", "admit", "show"},
           H!Go(g, place), sharingAt[g] \in {"idle", "first", "again", "admit", "show"},
           place = "show" => members[g] # "none",
           UNCHANGED <<conversation, remembered, members, questions, replies, trail, sharingTask>>
    PROVE  SharingInv'
<1>1. g \in H!Threads
  BY DEF H!Threads
<1>2. CASE sharingAt[g] = "idle" /\ place = "idle"
  BY <1>1, <1>2, NothingBegins
<1>3. CASE sharingAt[g] # "idle" \/ place # "idle"
  <2>1. Entitles(held[g] \cup H!Facts(g)', place)
    <3>1. place = "show" => H!Facts(g)' \cap H!Permissions # {}
      BY <1>1, Moving DEF H!Facts, H!Access
    <3> QED BY <3>1 DEF Entitles
  <2>2. /\ place \in H!Places \ (Changing \cup Spoken \cup {"admitQuestion", "question"})
        /\ sharingAt[g] \notin Spoken /\ sharingAt[g] # "audit"
    BY DEF H!Places, Changing, Spoken
  <2> QED BY <1>1, <1>3, <2>1, <2>2, Moving, MoveKeeps
<1> QED BY <1>2, <1>3

LEMMA ContentKeeps ==
    ASSUME SharingInv, Observed, NEW t \in Tabs, H!DeleteKeys(t) \/ H!DeleteContent(t)
    PROVE  SharingInv'
<1>1. t \in H!Threads
  BY OwnerStarts
<1>2. CASE H!DeleteKeys(t)
  <2>1. /\ sharingAt[t] = "idle" /\ remembered' = FALSE /\ H!Go(t, "content")
        /\ UNCHANGED <<conversation, members, questions, replies, trail, sharingTask>>
    BY <1>2 DEF H!DeleteKeys, H!said
  <2>2. "content" \in H!Places \ (Changing \cup Spoken \cup {"admitQuestion", "question"}) /\ "idle" \notin Spoken
    BY DEF H!Places, Changing, Spoken
  <2>3. t \notin Guests /\ remembered' \in BOOLEAN
    BY <2>1, OwnerStarts
  <2> QED BY <1>1, <2>1, <2>2, <2>3, MoveKeeps
<1>3. CASE H!DeleteContent(t)
  <2>1. /\ sharingAt[t] = "content" /\ questions' = 0 /\ replies' = 0
        /\ conversation' = [conversation EXCEPT !.deleted = TRUE] /\ H!Go(t, "idle")
        /\ UNCHANGED <<remembered, members, trail, sharingTask>>
    BY <1>3 DEF H!DeleteContent
  <2>2. SharingTypes /\ HeldTells /\ GrantsAreVetted /\ CalmSharing
    BY DEF SharingInv
  <2>3. /\ sharingAt \in [H!Threads -> H!Places] /\ sharingAt' = [sharingAt EXCEPT ![t] = "idle"]
        /\ "idle" \in H!Places \ (Changing \cup Spoken \cup {"admitQuestion", "question"})
        /\ "content" \notin Changing \cup Spoken
    BY <2>1, <2>2 DEF SharingTypes, H!TypeOK, H!Go, H!Places, Changing, Spoken
  <2>4. SharingTypes'
    <3>1. held' \in [Guests -> SUBSET (H!Access \cup {"active"})]
      BY <2>1, <2>2, HeldTypes DEF SharingTypes, H!TypeOK, Observed
    <3>2. sharedCalmly' \in BOOLEAN
      BY <2>2, Zenon DEF SharingTypes, H!TypeOK, Observed
    <3>3. conversation' \in [status : {"active", "archived"}, deleted : BOOLEAN]
      BY <2>1, <2>2 DEF SharingTypes, H!TypeOK
    <3>4. ASSUME NEW u \in Tabs, sharingAt'[u] \in Changing
          PROVE  sharingTask'[u] \in Tasks
      BY <2>1, <2>2, <2>3, <3>4, OwnerStarts DEF SharingTypes
    <3> QED BY <2>1, <2>2, <2>3, <3>1, <3>2, <3>3, <3>4 DEF SharingTypes, H!TypeOK
  <2>5. HeldTells'
    BY <1>1, <2>1, <2>2, <2>3, OwnerStarts, HeldAtNext DEF Observed
  <2>6. GrantsAreVetted'
    <3>1. ASSUME NEW u \in Tabs, sharingAt'[u] \in {"previous", "change", "audit"}, sharingTask'[u].grant # "none"
          PROVE  sharingTask'[u].guest \in Shareable
      BY <2>1, <2>2, <2>3, <3>1, OwnerStarts DEF GrantsAreVetted
    <3> QED BY <2>1, <2>2, <3>1 DEF GrantsAreVetted, H!MembersAreShareable
  <2>7. ASSUME sharedCalmly'
        PROVE  InOrder'
    <3>1. /\ InOrder
          /\ \A y \in H!Threads : sharingAt'[y] = "idle" /\ sharingAt[y] \in {"idle", "content"}
      BY <1>1, <2>1, <2>2, <2>3, <2>7, OthersRest DEF Observed
    <3>2. \A u \in Tabs : sharingAt[u] # "audit" /\ sharingAt'[u] = "idle"
      BY <3>1, OwnerStarts
    <3>3. \A g \in Guests : trail'[g] = members'[g]
      BY <2>1, <3>1, <3>2 DEF InOrder
    <3>4. \A y \in H!Threads : sharingAt'[y] \notin Spoken \cup {"admitQuestion", "question"}
      BY <2>3, <3>1
    <3> QED BY <2>1, <3>1, <3>2, <3>3, <3>4 DEF InOrder
  <2> QED BY <2>4, <2>5, <2>6, <2>7 DEF SharingInv, CalmSharing
<1> QED BY <1>2, <1>3

LEMMA ShareKeeps ==
    ASSUME SharingInv, Observed, NEW t \in Tabs, H!Share(t)
    PROVE  SharingInv'
BY AddMemberKeeps, RemoveMemberKeeps, EnsureShareableKeeps, PermissionForKeeps, ChangeKeeps, RecordKeeps,
   ContentKeeps DEF H!Share

LEMMA SpeakKeeps ==
    ASSUME SharingInv, Observed, NEW x \in H!Threads, H!Speak(x)
    PROVE  SharingInv'
<1>1. CASE H!SendMessage(x)
  BY <1>1, AppendReadsKeeps DEF H!SendMessage
<1>2. CASE H!AppendReads(x, "reply", "admitReply")
  BY <1>2, AppendReadsKeeps
<1>3. CASE H!EnsureCanSpeak(x, "admitQuestion", "question")
  BY <1>3, EnsureCanSpeakKeeps
<1>4. CASE H!EnsureCanSpeak(x, "admitReply", "answer")
  BY <1>4, EnsureCanSpeakKeeps
<1>5. CASE H!AppendQuestion(x) \/ H!AppendReply(x)
  BY <1>5, SpeakingKeeps
<1> QED BY <1>1, <1>2, <1>3, <1>4, <1>5 DEF H!Speak

LEMMA LookKeeps ==
    ASSUME SharingInv, Observed, NEW g \in Guests, H!Look(g)
    PROVE  SharingInv'
<1> DEFINE Looks == {"idle", "first", "again", "admit", "show"}
<1>1. ASSUME NEW from \in Looks, NEW to \in {"first", "admit"}, H!GetConversation(g, from, to)
      PROVE  SharingInv'
  <2>1. /\ sharingAt[g] = from
        /\ UNCHANGED <<conversation, remembered, members, questions, replies, trail, sharingTask>>
        /\ H!Go(g, "idle") \/ H!Go(g, to)
    BY <1>1 DEF H!GetConversation, H!shared, H!said
  <2>2. CASE H!Go(g, "idle")
    BY <2>1, <2>2, LookingKeeps
  <2>3. CASE H!Go(g, to)
    BY <2>1, <2>3, LookingKeeps
  <2> QED BY <2>1, <2>2, <2>3
<1>2. ASSUME NEW from \in Looks, NEW to \in {"again", "show"}, H!EnsureCanView(g, from, to)
      PROVE  SharingInv'
  <2>1. /\ sharingAt[g] = from
        /\ UNCHANGED <<conversation, remembered, members, questions, replies, trail, sharingTask>>
        /\ H!Go(g, "idle") \/ (H!Go(g, to) /\ members[g] # "none")
    BY <1>2 DEF H!EnsureCanView, H!CanView, H!shared, H!said
  <2>2. CASE H!Go(g, "idle")
    BY <2>1, <2>2, LookingKeeps
  <2>3. CASE H!Go(g, to) /\ members[g] # "none"
    BY <2>1, <2>3, LookingKeeps
  <2> QED BY <2>1, <2>2, <2>3
<1>3. CASE H!ListConversations(g) \/ H!MemberCanReadRun(g) \/ H!Show(g)
  <2>1. /\ sharingAt[g] \in Looks
        /\ UNCHANGED <<conversation, remembered, members, questions, replies, trail, sharingTask>>
        /\ \/ H!Go(g, "show") /\ members[g] # "none"
           \/ H!Go(g, "admit")
           \/ H!Go(g, "idle")
    BY <1>3 DEF H!ListConversations, H!MemberCanReadRun, H!Show, H!shared, H!said
  <2>2. CASE H!Go(g, "show") /\ members[g] # "none"
    BY <2>1, <2>2, LookingKeeps
  <2>3. CASE H!Go(g, "admit")
    BY <2>1, <2>3, LookingKeeps
  <2>4. CASE H!Go(g, "idle")
    BY <2>1, <2>4, LookingKeeps
  <2> QED BY <2>1, <2>2, <2>3, <2>4
<1> QED BY <1>1, <1>2, <1>3 DEF H!Look

\* A step of another part leaves the conversation alone.
LEMMA SharingOfSystem ==
    ASSUME SharingInv, [Next]_vars
    PROVE  SharingInv'
<1>1. H!Next \/ UNCHANGED hVars
  BY DEF Next, vars
<1>2. CASE UNCHANGED hVars
  <2>1. H!Active' = H!Active /\ \A x \in H!Threads : H!CanSpeak(x)' = H!CanSpeak(x)
    BY <1>2 DEF hVars, H!Active, H!CanSpeak
  <2> QED BY <1>2, <2>1 DEF hVars, SharingInv, SharingTypes, H!TypeOK, HeldTells, GrantsAreVetted,
             H!MembersAreShareable, CalmSharing, InOrder
<1>3. CASE H!Step /\ Observed
  BY <1>3, ShareKeeps, SpeakKeeps, LookKeeps DEF H!Step
<1>4. CASE (\E t \in Tabs : H!Archive(t)) /\ sharedCalmly' = (sharedCalmly /\ H!Busy = {}) /\ H!Remember
  BY <1>4, ArchiveKeeps
<1>5. CASE (\E x \in H!Threads : H!Die(x)) /\ H!Remember
  BY <1>5, DieKeeps
<1> QED BY <1>1, <1>2, <1>3, <1>4, <1>5 DEF H!Next, Observed

LEMMA SharingInit ==
    ASSUME H!Init
    PROVE  SharingInv
<1>1. /\ conversation = [status |-> "active", deleted |-> FALSE] /\ remembered = TRUE
      /\ members = [g \in Guests |-> "none"] /\ trail = [g \in Guests |-> "none"]
      /\ questions = 0 /\ replies = 0 /\ sharingAt = [x \in H!Threads |-> "idle"]
      /\ sharingTask = [t \in Tabs |-> NoTask] /\ held = [g \in Guests |-> {}] /\ sharedCalmly = TRUE
      /\ Tabs \subseteq H!Threads /\ Guests \subseteq H!Threads
  BY DEF H!Init, H!Threads
<1>2. SharingTypes
  BY <1>1 DEF SharingTypes, H!TypeOK, H!Access, H!Places, Changing
<1>3. HeldTells /\ GrantsAreVetted
  BY <1>1 DEF HeldTells, Entitles, GrantsAreVetted, H!MembersAreShareable
<1>4. InOrder
  BY <1>1 DEF InOrder, Spoken
<1> QED BY <1>2, <1>3, <1>4 DEF SharingInv, CalmSharing

LEMMA SharingIsOwned ==
    ASSUME SharingInv
    PROVE  H!ServedWasAdmitted /\ H!MembersAreShareable /\ H!TrailTellsTheMembers
<1>1. SharingTypes /\ HeldTells /\ GrantsAreVetted /\ CalmSharing
  BY DEF SharingInv
<1>2. H!ServedWasAdmitted
  BY <1>1 DEF H!ServedWasAdmitted, HeldTells, Entitles
<1>3. H!TrailTellsTheMembers
  <2>1. ASSUME sharedCalmly, H!Busy = {}
        PROVE  trail = members /\ questions = replies
    <3>1. InOrder /\ \A x \in H!Threads : sharingAt[x] = "idle"
      BY <1>1, <2>1 DEF CalmSharing, H!Busy
    <3>2. /\ trail \in [Guests -> H!Access] /\ members \in [Guests -> H!Access]
          /\ Tabs \subseteq H!Threads
      BY <1>1 DEF SharingTypes, H!TypeOK, H!Threads
    <3>3. \A g \in Guests : trail[g] = members[g]
      BY <3>1, <3>2 DEF InOrder
    <3> QED BY <3>1, <3>2, <3>3 DEF InOrder, Spoken
  <2> QED BY <2>1 DEF H!TrailTellsTheMembers
<1> QED BY <1>1, <1>2, <1>3 DEF GrantsAreVetted

\* A set of numbers has a least one, as < is well-founded.
LEMMA Smallest ==
    ASSUME NEW S \in SUBSET Nat, S # {}
    PROVE  \E m \in S : \A n \in S : m <= n
<1> DEFINE less == {ss \in Nat \X Nat : ss[1] < ss[2]}
<1>1. IsWellFoundedOn(less, Nat)
  BY NatLessThanWellFounded DEF OpToRel
<1> HIDE DEF less
<1>2. PICK m \in S : \A n \in S : ~ (<<n, m>> \in less)
  BY <1>1, WFMin
<1>3. ASSUME NEW n \in S
      PROVE  m <= n
  <2>1. m \in Nat /\ n \in Nat /\ <<n, m>> \in Nat \X Nat
    OBVIOUS
  <2>2. ~(n < m)
    BY <1>2, <2>1 DEF less
  <2> QED BY <2>1, <2>2
<1> QED BY <1>3

LEMMA SameExportCardinality ==
    ASSUME NEW S
    PROVE  X!Cardinality(S) = Cardinality(S)
BY Zenon DEF X!Cardinality, Cardinality

-----------------------------------------------------------------------------
(*                          Exported conversations                         *)

\* The conversations of a list that are newer than one, and its place: how many.
After(L, c) == {d \in L : d > c}
Place(L, c) == Cardinality(After(L, c))

Reading == request.at \in {"count", "sum", "read"}
Reach == client.offset + (IF Reading THEN PageSize ELSE 0)

\* What the pages so far have left behind: by its place in the list, because it
\* is newer than something on the page, or because the list ends here.
Passed(c) ==
    \/ Place(liveConversations, c) < Reach
    \/ Reading /\ (request.page = {} \/ \E p \in request.page : p < c)
    \/ request.at \in {"sum", "read"} /\ request.conversations <= Reach

\* Of what was there at the start, what is neither fetched nor on the page.
Unfetched == {c \in X!Missing : c \notin request.page}
Hidden == {c \in Unfetched : Passed(c)}

Questions == [at : {"none", "select", "count", "sum", "read"}, page : SUBSET (1 .. createdConversations),
              conversations : 0 .. MaxConversations, messages : Nat]
Loops == [at : {"idle", "loop", "done"}, offset : Nat, fetched : Nat, pages : 0 .. MaxPages,
          truncated : BOOLEAN]

ExportTypes ==
    /\ X!TypeOK
    /\ Cardinality(liveConversations) + exportDeletions = createdConversations
    /\ request \in Questions /\ client \in Loops

\* The client asks for one page after the other.
PagesFollow ==
    /\ client.offset = PageSize * client.pages /\ client.fetched <= client.offset
    /\ Cardinality(request.page) <= PageSize
    /\ client.at = "loop" <=> request.at # "none"
    /\ client.at = "loop" => client.pages < MaxPages
    /\ ~Reading => request.page = {}
    /\ client.at = "idle" => client.pages = 0 /\ client.fetched = 0 /\ exportDeletions = 0

\* Messages are only added.
MessagesGrow ==
    /\ X!ExportHasMessages
    /\ \A c \in X!Ids : begun[c] # X!Unknown => c <= createdConversations
    /\ \A c \in liveConversations : begun[c] # X!Unknown => begun[c] <= messages[c]
    /\ client.at = "idle" => begun = X!Nothing /\ bundle = X!Nothing

\* A deletion shifts the others up, so that it may hide one.
FewAreHidden ==
    /\ client.at = "loop" => Cardinality(Hidden) <= exportDeletions
    /\ client.at = "done" /\ ~client.truncated => Cardinality(X!Missing) <= exportDeletions

ExportInv == ExportTypes /\ PagesFollow /\ MessagesGrow /\ FewAreHidden

-----------------------------------------------------------------------------
(*                         Places in a shrinking list                      *)

LEMMA AfterIsFinite ==
    ASSUME NEW L, IsFiniteSet(L), NEW c
    PROVE  IsFiniteSet(After(L, c)) /\ Place(L, c) \in Nat
<1>1. After(L, c) \subseteq L
  BY DEF After
<1> QED BY <1>1, FS_Subset, FS_CardinalityType DEF Place

\* The newer of two conversations comes earlier.
LEMMA PlacesDiffer ==
    ASSUME NEW L \in SUBSET Nat, IsFiniteSet(L), NEW c \in L, NEW d \in L, c < d
    PROVE  Place(L, d) + 1 <= Place(L, c)
<1>1. d \notin After(L, d) /\ After(L, d) \cup {d} \subseteq After(L, c)
  <2>1. c \in Nat /\ d \in Nat
    OBVIOUS
  <2>2. ASSUME NEW x \in L, x > d
        PROVE  x > c
    BY <2>1, <2>2
  <2>3. d \notin After(L, d) /\ d \in After(L, c)
    BY <2>1 DEF After
  <2>4. After(L, d) \subseteq After(L, c)
    BY <2>2 DEF After
  <2> QED BY <2>3, <2>4
<1>2. Cardinality(After(L, d) \cup {d}) = Place(L, d) + 1
  BY <1>1, AfterIsFinite, FS_AddElement DEF Place
<1> QED BY <1>1, <1>2, AfterIsFinite, FS_Subset DEF Place

LEMMA PlaceIsInList ==
    ASSUME NEW L \in SUBSET Nat, IsFiniteSet(L), NEW c \in L
    PROVE  Place(L, c) < Cardinality(L)
<1>1. c \notin After(L, c) /\ After(L, c) \cup {c} \subseteq L
  BY DEF After
<1>2. Cardinality(After(L, c) \cup {c}) = Place(L, c) + 1
  BY <1>1, AfterIsFinite, FS_AddElement DEF Place
<1> QED BY <1>1, <1>2, AfterIsFinite, FS_Subset, FS_CardinalityType

\* Conversations with different places are no more than the places there are.
LEMMA PlacesAreFew ==
    ASSUME NEW L \in SUBSET Nat, IsFiniteSet(L), NEW P \in SUBSET L, NEW low \in Nat, NEW n \in Nat,
           \A c \in P : low <= Place(L, c) /\ Place(L, c) < low + n
    PROVE  Cardinality(P) <= n
<1> DEFINE spots == low .. low + n - 1
           spot == [c \in P |-> Place(L, c)]
<1>1. IsFiniteSet(spots) /\ Cardinality(spots) = n
  <2>1. low \in Int /\ low + n - 1 \in Int
    OBVIOUS
  <2>2. /\ IsFiniteSet(spots)
        /\ Cardinality(spots) = IF low > low + n - 1 THEN 0 ELSE (low + n - 1) - low + 1
    BY <2>1, FS_Interval
  <2> QED BY <2>2
<1>2. spot \in [P -> spots]
  BY AfterIsFinite
<1>3. ASSUME NEW c \in P, NEW d \in P, spot[c] = spot[d]
      PROVE  c = d
  <2>1. Place(L, c) = Place(L, d) /\ c \in Nat /\ d \in Nat
    BY <1>3
  <2>2. ~(c < d) /\ ~(d < c)
    BY <2>1, PlacesDiffer, AfterIsFinite
  <2> QED BY <2>1, <2>2
<1>4. spot \in Injection(P, spots)
  BY <1>2, <1>3 DEF Injection, IsInjective
<1> HIDE DEF spots, spot
<1> QED BY <1>1, <1>4, FS_Injection

\* A page is empty only at the end of the list.
LEMMA EmptyPage ==
    ASSUME NEW b \in Nat, NEW L \in SUBSET (1 .. b), NEW o \in Nat, NEW n \in Nat \ {0},
           \A c \in L : ~(o <= Place(L, c) /\ Place(L, c) < o + n), NEW e \in L
    PROVE  Place(L, e) < o
<1>1. L \in SUBSET Nat /\ IsFiniteSet(L)
  <2>1. b \in Int /\ 1 \in Int
    OBVIOUS
  <2>2. IsFiniteSet(1 .. b)
    BY <2>1, FS_Interval
  <2>3. \A c \in 1 .. b : c \in Nat
    OBVIOUS
  <2> QED BY <2>2, <2>3, FS_Subset
<1> SUFFICES ASSUME Place(L, e) >= o
             PROVE  FALSE
  BY <1>1, AfterIsFinite
<1> DEFINE ages == {a \in Nat : \E c \in L : Place(L, c) >= o /\ a = b - c}
<1>2. b - e \in ages
  OBVIOUS
<1>3. PICK m \in ages : \A a \in ages : m <= a
  BY <1>2, Smallest
<1>4. PICK c \in L : Place(L, c) >= o /\ m = b - c
  BY <1>3
<1>5. ASSUME NEW d \in After(L, c)
      PROVE  0 <= Place(L, d) /\ Place(L, d) < 0 + o
  <2>1. d \in L /\ d > c /\ b - d \in Nat /\ b - d < m
    BY <1>4, <1>5 DEF After
  <2>2. b - d \notin ages
    BY <1>3, <2>1
  <2> QED BY <1>1, <2>1, <2>2, AfterIsFinite
<1>6. After(L, c) \subseteq L
  BY DEF After
<1>7. Place(L, c) <= o
  BY <1>1, <1>5, <1>6, PlacesAreFew DEF Place
<1> QED BY <1>1, <1>4, <1>7, AfterIsFinite

\* Without one of the list, the places fall by at most one.
LEMMA PlaceFalls ==
    ASSUME NEW L \in SUBSET Nat, IsFiniteSet(L), NEW g, NEW c
    PROVE  Place(L, c) <= Place(L \ {g}, c) + 1
<1>1. After(L, c) \subseteq After(L \ {g}, c) \cup {g}
  BY DEF After
<1>2. IsFiniteSet(L \ {g})
  BY FS_Subset
<1>3. IsFiniteSet(After(L \ {g}, c)) /\ IsFiniteSet(After(L \ {g}, c) \cup {g})
  BY <1>2, AfterIsFinite, FS_AddElement
<1>4. Cardinality(After(L \ {g}, c) \cup {g}) <= Place(L \ {g}, c) + 1
  <2>1. PICK S : S = After(L \ {g}, c)
    OBVIOUS
  <2>2. IsFiniteSet(S) /\ Cardinality(S) \in Nat /\ Place(L \ {g}, c) = Cardinality(S)
    BY <1>3, <2>1, FS_CardinalityType DEF Place
  <2>3. Cardinality(S \cup {g}) <= Cardinality(S) + 1
    BY <2>2, FS_AddElement
  <2> QED BY <2>1, <2>2, <2>3
<1>5. Place(L, c) <= Cardinality(After(L \ {g}, c) \cup {g})
  BY <1>1, <1>3, FS_Subset DEF Place
<1> QED BY <1>2, <1>3, <1>4, <1>5, AfterIsFinite, FS_CardinalityType

\* A set with at most one member beside those of another.
LEMMA OneMore ==
    ASSUME NEW few, NEW many, IsFiniteSet(few), IsFiniteSet(many), \A x, y \in many \ few : x = y
    PROVE  Cardinality(many) <= Cardinality(few) + 1
<1>1. CASE many \subseteq few
  BY <1>1, FS_Subset, FS_CardinalityType
<1>2. CASE ~(many \subseteq few)
  <2>1. PICK z \in many : z \notin few
    BY <1>2
  <2>2. many \subseteq few \cup {z}
    BY <2>1
  <2>3. IsFiniteSet(few \cup {z}) /\ Cardinality(few \cup {z}) = Cardinality(few) + 1
    BY <2>1, FS_AddElement
  <2> QED BY <2>2, <2>3, FS_Subset
<1> QED BY <1>1, <1>2

-----------------------------------------------------------------------------
(*                         The steps of an export                          *)

\* What a step of the export starts from.
LEMMA ListIs ==
    ASSUME ExportInv
    PROVE  /\ createdConversations \in 0 .. MaxConversations /\ liveConversations \subseteq 1 .. createdConversations
           /\ liveConversations \in SUBSET Nat /\ IsFiniteSet(liveConversations)
           /\ Cardinality(liveConversations) \in Nat /\ exportDeletions \in Nat
           /\ messages \in [X!Ids -> 0 .. MaxMessages]
           /\ bundle \in [X!Ids -> 0 .. X!Unknown] /\ begun \in [X!Ids -> 0 .. X!Unknown]
           /\ request \in Questions /\ client \in Loops
           /\ liveConversations \subseteq X!Ids /\ MaxConversations \in Nat /\ MaxMessages \in Nat
<1>1. X!TypeOK /\ request \in Questions /\ client \in Loops /\ MaxConversations \in Nat /\ MaxMessages \in Nat
  BY ExportAssumption DEF ExportInv, ExportTypes
<1>2. /\ createdConversations \in 0 .. MaxConversations /\ liveConversations \subseteq 1 .. createdConversations
      /\ createdConversations \in Nat /\ exportDeletions \in 0 .. MaxConversations
  BY <1>1 DEF X!TypeOK
<1>3. IsFiniteSet(liveConversations)
  <2>1. createdConversations \in Int /\ 1 \in Int
    BY <1>2
  <2>2. IsFiniteSet(1 .. createdConversations)
    BY <2>1, FS_Interval
  <2> QED BY <1>2, <2>2, FS_Subset
<1>4. liveConversations \in SUBSET Nat /\ liveConversations \subseteq X!Ids
  <2>1. \A c \in 1 .. createdConversations : c \in Nat /\ c \in 1 .. MaxConversations
    BY <1>1, <1>2
  <2> QED BY <1>2, <2>1 DEF X!Ids
<1> QED BY <1>1, <1>2, <1>3, <1>4, FS_CardinalityType DEF X!TypeOK

LEMMA HiddenIsFinite ==
    ASSUME ExportInv
    PROVE  /\ IsFiniteSet(Hidden) /\ Cardinality(Hidden) \in Nat
           /\ IsFiniteSet(X!Missing) /\ Cardinality(X!Missing) \in Nat
<1>1. Hidden \subseteq liveConversations /\ X!Missing \subseteq liveConversations
  BY DEF Hidden, Unfetched, X!Missing
<1> QED BY <1>1, ListIs, FS_Subset, FS_CardinalityType

\* Nobody is hidden that was not.
LEMMA NoMoreHidden ==
    ASSUME ExportInv, Hidden' \subseteq Hidden
    PROVE  Cardinality(Hidden') <= Cardinality(Hidden)
<1>1. PICK S : S = Hidden'
  OBVIOUS
<1> QED BY <1>1, HiddenIsFinite, FS_Subset

\* A step of the server that leaves the list and what was fetched.
LEMMA ServerReads ==
    ASSUME ExportInv, client.at = "loop",
           UNCHANGED <<liveConversations, createdConversations, messages, exportDeletions, client, bundle, begun>>,
           request' \in Questions, request'.at \in {"count", "sum", "read"},
           Cardinality(request'.page) <= PageSize, Hidden' \subseteq Hidden
    PROVE  ExportInv'
<1>1. ExportTypes /\ PagesFollow /\ MessagesGrow /\ FewAreHidden
  BY DEF ExportInv
<1>2. ExportTypes'
  <2>1. /\ request'.page \subseteq X!Ids /\ request'.conversations \in 0 .. MaxConversations
        /\ request'.at \in {"none", "select", "count", "sum", "read"}
    <3>1. 1 .. createdConversations \subseteq X!Ids
      BY ListIs DEF X!Ids
    <3> QED BY <3>1 DEF Questions
  <2>2. X!TypeOK'
    BY <1>1, <2>1 DEF ExportTypes, X!TypeOK
  <2> QED BY <1>1, <2>2 DEF ExportTypes, Questions, Loops
<1>3. PagesFollow'
  BY <1>1 DEF PagesFollow, Reading
<1>4. MessagesGrow'
  BY <1>1 DEF MessagesGrow, X!ExportHasMessages
<1>5. FewAreHidden'
  <2>1. PICK n : n = Cardinality(Hidden')
    OBVIOUS
  <2>2. n <= Cardinality(Hidden) /\ n \in Nat
    <3>1. PICK S : S = Hidden'
      OBVIOUS
    <3> QED BY <2>1, <3>1, HiddenIsFinite, FS_Subset, FS_CardinalityType
  <2> QED BY <1>1, <2>1, <2>2, HiddenIsFinite, ListIs DEF FewAreHidden
<1> QED BY <1>2, <1>3, <1>4, <1>5 DEF ExportInv

LEMMA PageSelected ==
    ASSUME ExportInv, X!SelectPage
    PROVE  ExportInv'
<1> DEFINE list == liveConversations
           shown == X!PageAt(client.offset)
<1>1. ExportTypes /\ PagesFollow /\ MessagesGrow /\ FewAreHidden
  BY DEF ExportInv
<1>2. /\ request.at = "select" /\ request' = [request EXCEPT !.at = "count", !.page = shown]
      /\ UNCHANGED <<liveConversations, createdConversations, messages, exportDeletions, client, bundle, begun>>
  BY DEF X!SelectPage, X!store
<1>3. client.at = "loop" /\ request.page = {} /\ client.offset \in Nat /\ PageSize \in Nat \ {0}
  BY <1>1, <1>2, ListIs, ExportAssumption DEF PagesFollow, Reading, Loops
<1>4. shown = {c \in list : client.offset <= Place(list, c) /\ Place(list, c) < client.offset + PageSize}
  BY SameExportCardinality DEF X!PageAt, Place, After
<1> HIDE DEF shown
<1>5. shown \subseteq list /\ shown \subseteq 1 .. createdConversations
  BY <1>4, ListIs
<1>6. Cardinality(shown) <= PageSize
  BY <1>3, <1>4, <1>5, ListIs, PlacesAreFew
<1>7. request' \in Questions /\ request'.at = "count" /\ request'.page = shown
  <2>1. PICK half : half = [request EXCEPT !.at = "count"]
    OBVIOUS
  <2>2. half \in Questions /\ half.at = "count"
    BY <2>1, ListIs DEF Questions
  <2>3. request' = [half EXCEPT !.page = shown]
    BY <1>2, <2>1, ListIs DEF Questions
  <2> QED BY <1>5, <2>2, <2>3 DEF Questions
<1>8. Hidden' \subseteq Hidden
  <2>1. SUFFICES ASSUME NEW c \in Hidden'
                 PROVE  c \in Hidden
    OBVIOUS
  <2>2. c \in X!Missing /\ c \notin shown /\ Passed(c)' /\ c \in list
    BY <1>2, <1>7 DEF Hidden, Unfetched, X!Missing
  <2>3. Place(list, c) \in Nat /\ c \in Nat /\ shown \subseteq Nat
    BY <1>5, <2>2, ListIs, AfterIsFinite
  <2>4. \/ Place(list, c) < client.offset + PageSize
        \/ shown = {} \/ \E p \in shown : p < c
    BY <1>2, <1>7, <2>2 DEF Passed, Reach, Reading
  <2>5. Place(list, c) < client.offset
    <3>1. CASE shown = {}
      <4>1. \A d \in list : ~(client.offset <= Place(list, d) /\ Place(list, d) < client.offset + PageSize)
        BY <1>4, <3>1
      <4>2. createdConversations \in Nat /\ list \in SUBSET (1 .. createdConversations)
        BY ListIs
      <4> QED BY <1>3, <2>2, <4>1, <4>2, EmptyPage
    <3>2. CASE \E p \in shown : p < c
      <4>1. PICK p \in shown : p < c
        BY <3>2
      <4>2. Place(list, c) + 1 <= Place(list, p) /\ Place(list, p) \in Nat
        BY <1>5, <2>2, <4>1, ListIs, PlacesDiffer, AfterIsFinite
      <4>3. Place(list, p) < client.offset + PageSize
        BY <1>4
      <4> QED BY <1>3, <1>4, <2>2, <2>3, <4>2, <4>3
    <3>3. CASE Place(list, c) < client.offset + PageSize
      BY <1>3, <1>4, <2>2, <2>3, <3>3
    <3> QED BY <2>4, <3>1, <3>2, <3>3
  <2>6. Reach = client.offset
    BY <1>2, <1>3 DEF Reach, Reading
  <2> QED BY <1>3, <2>2, <2>5, <2>6 DEF Hidden, Unfetched, Passed
<1> QED BY <1>2, <1>3, <1>6, <1>7, <1>8, ServerReads

LEMMA ConversationsCounted ==
    ASSUME ExportInv, X!CountConversations
    PROVE  ExportInv'
<1> DEFINE list == liveConversations
<1>1. ExportTypes /\ PagesFollow /\ MessagesGrow /\ FewAreHidden
  BY DEF ExportInv
<1>2. /\ request.at = "count"
      /\ request' = [request EXCEPT !.at = "sum", !.conversations = Cardinality(list)]
      /\ UNCHANGED <<liveConversations, createdConversations, messages, exportDeletions, client, bundle, begun>>
  BY SameExportCardinality DEF X!CountConversations, X!store
<1>3. Cardinality(list) \in 0 .. MaxConversations
  BY <1>1, ListIs DEF ExportTypes
<1>4. /\ request' \in Questions /\ request'.at = "sum" /\ request'.page = request.page
      /\ request'.conversations = Cardinality(list)
  <2>1. PICK half : half = [request EXCEPT !.at = "sum"]
    OBVIOUS
  <2>2. half \in Questions /\ half.at = "sum" /\ half.page = request.page
    BY <2>1, ListIs DEF Questions
  <2>3. request' = [half EXCEPT !.conversations = Cardinality(list)]
    BY <1>2, <2>1, ListIs DEF Questions
  <2> QED BY <1>3, <2>2, <2>3 DEF Questions
<1>5. Hidden' \subseteq Hidden
  <2>1. SUFFICES ASSUME NEW c \in Hidden'
                 PROVE  c \in Hidden
    OBVIOUS
  <2>2. c \in X!Missing /\ c \notin request.page /\ Passed(c)' /\ c \in list
    BY <1>2, <1>4 DEF Hidden, Unfetched, X!Missing
  <2>3. Reach' = Reach /\ Reading /\ Reading' /\ Reach \in Nat
    BY <1>2, <1>4, ListIs, ExportAssumption DEF Reach, Reading, Loops
  <2>4. Place(list, c) < Cardinality(list) /\ Place(list, c) \in Nat
    BY <2>2, ListIs, PlaceIsInList, AfterIsFinite
  <2>5. Passed(c)
    BY <1>2, <1>4, <2>2, <2>3, <2>4, ListIs DEF Passed
  <2> QED BY <2>2, <2>5 DEF Hidden, Unfetched
<1>6. client.at = "loop" /\ Cardinality(request.page) <= PageSize
  BY <1>1, <1>2 DEF PagesFollow
<1> QED BY <1>2, <1>4, <1>5, <1>6, ServerReads

LEMMA MessagesCounted ==
    ASSUME ExportInv, X!CountMessages
    PROVE  ExportInv'
<1> DEFINE list == liveConversations
           sum == Cardinality(X!Said(list))
<1>1. ExportTypes /\ PagesFollow /\ MessagesGrow /\ FewAreHidden
  BY DEF ExportInv
<1>2. /\ request.at = "sum" /\ request' = [request EXCEPT !.at = "read", !.messages = sum]
      /\ UNCHANGED <<liveConversations, createdConversations, messages, exportDeletions, client, bundle, begun>>
  BY SameExportCardinality DEF X!CountMessages, X!store
<1>3. sum \in Nat
  <2>1. 1 \in Int /\ MaxMessages \in Int
    BY ListIs
  <2>2. IsFiniteSet(1 .. MaxMessages)
    BY <2>1, FS_Interval
  <2>3. IsFiniteSet(list \X (1 .. MaxMessages))
    BY <2>2, ListIs, FS_Product
  <2>4. X!Said(list) \subseteq list \X (1 .. MaxMessages)
    BY DEF X!Said
  <2> QED BY <2>3, <2>4, FS_Subset, FS_CardinalityType
<1> HIDE DEF sum
<1>4. /\ request' \in Questions /\ request'.at = "read" /\ request'.page = request.page
      /\ request'.conversations = request.conversations
  <2>1. PICK half : half = [request EXCEPT !.at = "read"]
    OBVIOUS
  <2>2. /\ half \in Questions /\ half.at = "read" /\ half.page = request.page
        /\ half.conversations = request.conversations
    BY <2>1, ListIs DEF Questions
  <2>3. request' = [half EXCEPT !.messages = sum]
    BY <1>2, <2>1, ListIs DEF Questions
  <2> QED BY <1>3, <2>2, <2>3 DEF Questions
<1>5. Hidden' \subseteq Hidden
  <2>1. Reach' = Reach /\ Reading' = Reading
    BY <1>2, <1>4 DEF Reach, Reading
  <2> QED BY <1>2, <1>4, <2>1 DEF Hidden, Unfetched, X!Missing, Passed
<1>6. client.at = "loop" /\ Cardinality(request.page) <= PageSize
  BY <1>1, <1>2 DEF PagesFollow
<1> QED BY <1>2, <1>4, <1>5, <1>6, ServerReads

LEMMA PageAnswered ==
    ASSUME ExportInv, X!Answer
    PROVE  ExportInv'
<1> DEFINE list == liveConversations
           fetched == client.fetched + Cardinality(X!Packed)
           whole == fetched >= request.conversations \/ X!Packed = {}
           next == IF X!Truncated \/ whole \/ client.pages + 1 = MaxPages THEN "done" ELSE "loop"
<1>1. ExportTypes /\ PagesFollow /\ MessagesGrow /\ FewAreHidden
  BY DEF ExportInv
<1>2. /\ request.at = "read"
      /\ client' = [at |-> next, offset |-> client.offset + PageSize, fetched |-> fetched,
                    pages |-> client.pages + 1, truncated |-> X!Truncated]
      /\ request' = [X!NoRequest EXCEPT !.at = IF client'.at = "done" THEN "none" ELSE "select"]
      /\ bundle' = [c \in X!Ids |-> IF c \in X!Packed THEN messages[c] ELSE bundle[c]]
      /\ UNCHANGED <<liveConversations, createdConversations, messages, exportDeletions, begun>>
  BY SameExportCardinality DEF X!Answer, X!store
<1>3. /\ client.at = "loop" /\ client.pages < MaxPages /\ client.offset = PageSize * client.pages
      /\ client.fetched <= client.offset /\ Cardinality(request.page) <= PageSize
  BY <1>1, <1>2 DEF PagesFollow
<1>4. /\ client.pages \in Nat /\ MaxPages \in Nat /\ client.offset \in Nat /\ client.fetched \in Nat
      /\ PageSize \in Nat \ {0} /\ request.conversations \in Nat /\ request.messages \in Nat
      /\ Cap \in Nat /\ Cap <= PageSize * MaxPages
  BY ListIs, ExportAssumption DEF Loops, Questions
<1>5. /\ IsFiniteSet(request.page) /\ IsFiniteSet(X!Packed)
      /\ Cardinality(X!Packed) \in Nat /\ Cardinality(X!Packed) <= PageSize
  <2>1. createdConversations \in Int /\ 1 \in Int
    BY ListIs
  <2>2. IsFiniteSet(1 .. createdConversations)
    BY <2>1, FS_Interval
  <2>3. request.page \subseteq 1 .. createdConversations
    BY ListIs DEF Questions
  <2>4. IsFiniteSet(request.page) /\ Cardinality(request.page) \in Nat
    BY <2>2, <2>3, FS_Subset, FS_CardinalityType
  <2>5. X!Packed \subseteq request.page
    BY DEF X!Packed
  <2>6. IsFiniteSet(X!Packed) /\ Cardinality(X!Packed) <= Cardinality(request.page) /\ Cardinality(X!Packed) \in Nat
    BY <2>4, <2>5, FS_Subset, FS_CardinalityType
  <2> QED BY <1>3, <1>4, <2>4, <2>6
<1>6. client.offset + PageSize = PageSize * (client.pages + 1)
  <2>1. \A a, b \in Nat : a * b + a = a * (b + 1)
    OBVIOUS
  <2> QED BY <1>3, <1>4, <2>1
<1>7. fetched \in Nat /\ fetched <= client.offset + PageSize
  BY <1>3, <1>4, <1>5
<1>8. X!Truncated \in BOOLEAN /\ (~X!Truncated => X!Packed = request.page)
  BY DEF X!Truncated
<1> HIDE DEF fetched, whole
<1>9. client' \in Loops /\ client'.at = next /\ client'.pages = client.pages + 1
      /\ client'.offset = client.offset + PageSize /\ client'.fetched = fetched
      /\ client'.truncated = X!Truncated
  BY <1>2, <1>3, <1>4, <1>7, <1>8 DEF Loops
<1>10. /\ request' \in Questions /\ request'.page = {}
       /\ request'.at = IF client'.at = "done" THEN "none" ELSE "select"
  BY <1>2, <1>9, ListIs DEF X!NoRequest, Questions
<1>11. bundle' \in [X!Ids -> 0 .. X!Unknown]
  BY <1>2, ListIs DEF X!Unknown
<1>12. ExportTypes'
  <2>1. X!TypeOK'
    <3>1. /\ request'.page \subseteq X!Ids /\ request'.conversations \in 0 .. MaxConversations
          /\ request'.at \in {"none", "select", "count", "sum", "read"}
      BY <1>10 DEF Questions
    <3>2. client'.at \in {"idle", "loop", "done"} /\ client'.pages \in 0 .. MaxPages
      BY <1>9 DEF Loops
    <3> QED BY <1>1, <1>2, <1>11, <3>1, <3>2 DEF ExportTypes, X!TypeOK
  <2> QED BY <1>1, <1>2, <1>9, <1>10, <2>1 DEF ExportTypes, Questions, Loops
<1>13. PagesFollow'
  <2>1. Cardinality(request'.page) = 0
    BY <1>10, FS_EmptySet
  <2>2. ~Reading'
    BY <1>9, <1>10 DEF Reading
  <2>3. client'.at = "loop" => client'.pages < MaxPages
    BY <1>3, <1>4, <1>9
  <2> QED BY <1>4, <1>6, <1>7, <1>9, <1>10, <2>1, <2>2, <2>3 DEF PagesFollow
<1>14. MessagesGrow'
  <2>1. ASSUME NEW c \in list, begun[c] # X!Unknown, bundle'[c] # X!Unknown
        PROVE  bundle'[c] >= begun[c]
    BY <1>1, <1>2, <2>1, ListIs DEF MessagesGrow, X!ExportHasMessages, X!Unknown
  <2>2. client'.at # "idle"
    BY <1>9
  <2> QED BY <1>1, <1>2, <2>1, <2>2 DEF MessagesGrow, X!ExportHasMessages
<1>15. ASSUME ~X!Truncated
       PROVE  X!Missing' \subseteq Unfetched
  <2>1. SUFFICES ASSUME NEW c \in X!Missing'
                 PROVE  c \in Unfetched
    OBVIOUS
  <2>2. c \in list /\ begun[c] # X!Unknown /\ bundle'[c] = X!Unknown /\ c \in X!Ids
    BY <1>2, ListIs DEF X!Missing
  <2>3. messages[c] # X!Unknown
    BY <2>2, ListIs DEF X!Unknown
  <2>4. c \notin X!Packed /\ bundle[c] = X!Unknown
    BY <1>2, <2>2, <2>3
  <2> QED BY <1>8, <1>15, <2>2, <2>4 DEF Unfetched, X!Missing
<1>16. Reach = client.offset + PageSize /\ Reading
  BY <1>2 DEF Reach, Reading
<1>17. CASE client'.at = "loop"
  <2>1. ~X!Truncated
    BY <1>9, <1>17
  <2>2. Hidden' \subseteq Hidden
    <3>1. SUFFICES ASSUME NEW c \in Hidden'
                   PROVE  c \in Hidden
      OBVIOUS
    <3>2. c \in Unfetched /\ Passed(c)'
      BY <1>15, <2>1 DEF Hidden, Unfetched
    <3>3. request'.at = "select" /\ ~Reading'
      BY <1>10, <1>17 DEF Reading
    <3>4. Place(list, c) < client.offset + PageSize
      BY <1>2, <1>4, <1>9, <3>2, <3>3 DEF Passed, Reach
    <3> QED BY <1>16, <3>2, <3>4 DEF Hidden, Passed
  <2>3. PICK S : S = Hidden'
    OBVIOUS
  <2>4. Cardinality(S) <= Cardinality(Hidden) /\ Cardinality(S) \in Nat
    BY <2>2, <2>3, HiddenIsFinite, FS_Subset, FS_CardinalityType
  <2>5. Cardinality(Hidden) <= exportDeletions
    BY <1>1, <1>3 DEF FewAreHidden
  <2>6. FewAreHidden'
    BY <1>2, <1>17, <2>3, <2>4, <2>5, HiddenIsFinite, ListIs DEF FewAreHidden
  <2> QED BY <1>12, <1>13, <1>14, <2>6 DEF ExportInv
<1>18. CASE client'.at = "done"
  <2>1. ASSUME ~X!Truncated
        PROVE  X!Missing' \subseteq Hidden
    <3>1. request.conversations <= Reach \/ request.page = {}
      <4>1. CASE whole
        BY <1>4, <1>7, <1>8, <1>16, <2>1, <4>1 DEF whole
      <4>2. CASE client.pages + 1 = MaxPages
        <5>1. request.conversations + request.messages <= Cap
          BY <1>4, <2>1 DEF X!Truncated
        <5> QED BY <1>4, <1>6, <1>16, <4>2, <5>1
      <4> QED BY <1>9, <1>18, <2>1, <4>1, <4>2
    <3>2. ASSUME NEW c \in Unfetched
          PROVE  Passed(c)
      BY <1>2, <1>16, <3>1 DEF Passed
    <3> QED BY <1>15, <2>1, <3>2 DEF Hidden
  <2>2. PICK S : S = X!Missing'
    OBVIOUS
  <2>3. ~X!Truncated => Cardinality(S) <= Cardinality(Hidden) /\ Cardinality(S) \in Nat
    BY <2>1, <2>2, HiddenIsFinite, FS_Subset, FS_CardinalityType
  <2>4. Cardinality(Hidden) <= exportDeletions
    BY <1>1, <1>3 DEF FewAreHidden
  <2>5. FewAreHidden'
    BY <1>2, <1>9, <1>18, <2>2, <2>3, <2>4, HiddenIsFinite, ListIs DEF FewAreHidden
  <2> QED BY <1>12, <1>13, <1>14, <2>5 DEF ExportInv
<1> QED BY <1>9, <1>17, <1>18

LEMMA ConversationCreated ==
    ASSUME ExportInv, X!CreateConversation
    PROVE  ExportInv'
<1> DEFINE list == liveConversations
           new == createdConversations + 1
<1>1. ExportTypes /\ PagesFollow /\ MessagesGrow /\ FewAreHidden
  BY DEF ExportInv
<1>2. /\ client.at = "loop" /\ createdConversations < MaxConversations /\ createdConversations' = new
      /\ liveConversations' = list \cup {new}
      /\ UNCHANGED <<messages, request, client, bundle, begun, exportDeletions>>
  BY DEF X!CreateConversation
<1>3. /\ new \in X!Ids /\ new \in 1 .. MaxConversations /\ new \notin list /\ list \subseteq X!Ids
      /\ begun[new] = X!Unknown /\ createdConversations \in Nat
  <2>1. createdConversations \in Nat /\ MaxConversations \in Nat
    BY ListIs
  <2>2. new \in 1 .. MaxConversations /\ ~(new <= createdConversations)
    BY <1>2, <2>1
  <2>3. new \notin list
    BY <2>1, ListIs
  <2> QED BY <1>1, <2>1, <2>2, <2>3, ListIs DEF X!Ids, MessagesGrow
<1>4. Cardinality(list \cup {new}) = Cardinality(list) + 1 /\ IsFiniteSet(list \cup {new})
  BY <1>3, ListIs, FS_AddElement
<1>5. list \cup {new} \subseteq 1 .. new
  BY <1>3, ListIs
<1>6. ExportTypes'
  <2>1. X!TypeOK'
    BY <1>1, <1>2, <1>3, <1>5 DEF ExportTypes, X!TypeOK
  <2>2. Cardinality(liveConversations') + exportDeletions' = createdConversations'
    BY <1>1, <1>2, <1>3, <1>4, ListIs DEF ExportTypes
  <2>3. request' \in Questions'
    <3>1. 1 .. createdConversations \subseteq 1 .. new
      BY <1>3
    <3> QED BY <1>2, <3>1, ListIs DEF Questions
  <2> QED BY <1>1, <1>2, <2>1, <2>2, <2>3 DEF ExportTypes, Loops
<1>7. PagesFollow'
  BY <1>1, <1>2 DEF PagesFollow, Reading
<1>8. MessagesGrow'
  <2>1. \A c \in X!Ids : begun[c] # X!Unknown => c <= new
    BY <1>1, <1>3 DEF MessagesGrow, X!Ids
  <2> QED BY <1>1, <1>2, <1>3, <2>1 DEF MessagesGrow, X!ExportHasMessages
<1>9. Hidden' \subseteq Hidden
  <2>1. SUFFICES ASSUME NEW c \in Hidden'
                 PROVE  c \in Hidden
    OBVIOUS
  <2>2. /\ c \in list \cup {new} /\ begun[c] # X!Unknown /\ bundle[c] = X!Unknown
        /\ c \notin request.page /\ Passed(c)'
    BY <1>2 DEF Hidden, Unfetched, X!Missing
  <2>3. c \in list /\ c \in Unfetched
    BY <1>3, <2>2 DEF Unfetched, X!Missing
  <2>4. Place(list, c) <= Place(list \cup {new}, c)
    <3>1. After(list, c) \subseteq After(list \cup {new}, c)
      BY DEF After
    <3> QED BY <1>4, <3>1, AfterIsFinite, FS_Subset DEF Place
  <2>5. Place(list, c) \in Nat /\ Place(list \cup {new}, c) \in Nat /\ Reach \in Nat /\ Reach' = Reach
    BY <1>2, <1>4, ListIs, AfterIsFinite, ExportAssumption DEF Reach, Reading, Loops
  <2>6. Passed(c)
    BY <1>2, <2>2, <2>4, <2>5 DEF Passed, Reading
  <2> QED BY <2>3, <2>6 DEF Hidden
<1>10. FewAreHidden'
  <2>1. PICK S : S = Hidden'
    OBVIOUS
  <2>2. Cardinality(S) <= Cardinality(Hidden) /\ Cardinality(S) \in Nat
    BY <1>9, <2>1, HiddenIsFinite, FS_Subset, FS_CardinalityType
  <2>3. Cardinality(Hidden) <= exportDeletions
    BY <1>1, <1>2 DEF FewAreHidden
  <2> QED BY <1>2, <2>1, <2>2, <2>3, HiddenIsFinite, ListIs DEF FewAreHidden
<1> QED BY <1>6, <1>7, <1>8, <1>10 DEF ExportInv

LEMMA MessageAppended ==
    ASSUME ExportInv, X!AppendMessage
    PROVE  ExportInv'
<1>1. ExportTypes /\ PagesFollow /\ MessagesGrow /\ FewAreHidden
  BY DEF ExportInv
<1>2. PICK c \in liveConversations :
        messages[c] < MaxMessages /\ messages' = [messages EXCEPT ![c] = @ + 1]
  BY DEF X!AppendMessage
<1>3. /\ client.at = "loop"
      /\ UNCHANGED <<liveConversations, createdConversations, request, client, bundle, begun, exportDeletions>>
  BY DEF X!AppendMessage
<1>4. messages' \in [X!Ids -> 0 .. MaxMessages] /\ \A d \in X!Ids : messages[d] <= messages'[d]
  BY <1>2, ListIs
<1>5. ExportTypes'
  BY <1>1, <1>3, <1>4 DEF ExportTypes, X!TypeOK, Questions, Loops
<1>6. PagesFollow'
  BY <1>1, <1>3 DEF PagesFollow, Reading
<1>7. MessagesGrow'
  <2>1. ASSUME NEW d \in liveConversations, begun[d] # X!Unknown
        PROVE  begun[d] <= messages'[d]
    <3>1. d \in X!Ids /\ begun[d] <= messages[d]
      BY <1>1, <2>1, ListIs DEF MessagesGrow
    <3>2. begun[d] \in 0 .. X!Unknown /\ messages[d] \in 0 .. MaxMessages /\ messages'[d] \in 0 .. MaxMessages
      BY <1>4, <3>1, ListIs
    <3>3. X!Unknown \in Nat /\ MaxMessages \in Nat
      BY ListIs DEF X!Unknown
    <3> QED BY <1>4, <3>1, <3>2, <3>3
  <2> QED BY <1>1, <1>3, <2>1 DEF MessagesGrow, X!ExportHasMessages
<1>8. FewAreHidden'
  BY <1>1, <1>3 DEF FewAreHidden, Hidden, Unfetched, X!Missing, Passed, Reach, Reading
<1> QED BY <1>5, <1>6, <1>7, <1>8 DEF ExportInv

LEMMA ConversationDeleted ==
    ASSUME ExportInv, X!DeleteConversation
    PROVE  ExportInv'
<1> DEFINE list == liveConversations
<1>1. ExportTypes /\ PagesFollow /\ MessagesGrow /\ FewAreHidden
  BY DEF ExportInv
<1>2. PICK gone \in list :
        liveConversations' = list \ {gone} /\ messages' = [messages EXCEPT ![gone] = 0]
  BY DEF X!DeleteConversation
<1>3. /\ client.at = "loop" /\ exportDeletions' = exportDeletions + 1
      /\ UNCHANGED <<createdConversations, request, client, bundle, begun>>
  BY DEF X!DeleteConversation
<1>4. IsFiniteSet(list \ {gone}) /\ Cardinality(list \ {gone}) = Cardinality(list) - 1
      /\ Cardinality(list \ {gone}) \in Nat
  BY ListIs, FS_RemoveElement, FS_CardinalityType
<1>5. ExportTypes'
  <2>1. Cardinality(liveConversations') + exportDeletions' = createdConversations'
    BY <1>1, <1>2, <1>3, <1>4, ListIs DEF ExportTypes
  <2>2. exportDeletions' \in 0 .. MaxConversations
    <3>1. Cardinality(list \ {gone}) + exportDeletions' = createdConversations
      BY <1>2, <1>3, <2>1
    <3> QED BY <1>3, <1>4, <3>1, ListIs
  <2>3. messages' \in [X!Ids -> 0 .. MaxMessages]
    BY <1>2, ListIs
  <2>4. X!TypeOK'
    BY <1>1, <1>2, <1>3, <2>2, <2>3 DEF ExportTypes, X!TypeOK
  <2> QED BY <1>1, <1>3, <2>1, <2>4 DEF ExportTypes, Questions, Loops
<1>6. PagesFollow'
  BY <1>1, <1>3 DEF PagesFollow, Reading
<1>7. MessagesGrow'
  <2>1. \A d \in list \ {gone} : messages'[d] = messages[d]
    BY <1>2, ListIs
  <2> QED BY <1>1, <1>2, <1>3, <2>1 DEF MessagesGrow, X!ExportHasMessages
<1>8. ASSUME NEW c \in Hidden', c \notin Hidden
      PROVE  c \in list /\ Place(list, c) = Reach
  <2>1. c \in list \ {gone} /\ c \in Unfetched /\ Passed(c)'
    BY <1>2, <1>3, <1>8 DEF Hidden, Unfetched, X!Missing
  <2>2. ~Passed(c)
    BY <1>8, <2>1 DEF Hidden
  <2>3. Reach' = Reach /\ Reach \in Nat /\ Reading' = Reading
    BY <1>3, ListIs, ExportAssumption DEF Reach, Reading, Loops
  <2>4. Place(list \ {gone}, c) < Reach /\ ~(Place(list, c) < Reach)
    BY <1>2, <1>3, <2>1, <2>2, <2>3 DEF Passed
  <2>5. Place(list, c) \in Nat /\ Place(list \ {gone}, c) \in Nat
    BY <1>4, ListIs, AfterIsFinite
  <2>6. Place(list, c) <= Place(list \ {gone}, c) + 1
    BY ListIs, PlaceFalls
  <2> QED BY <2>1, <2>3, <2>4, <2>5, <2>6
<1>9. FewAreHidden'
  <2>1. PICK S : S = Hidden'
    OBVIOUS
  <2>2. IsFiniteSet(S) /\ Cardinality(S) \in Nat
    <3>1. S \subseteq list \ {gone}
      BY <1>2, <2>1 DEF Hidden, Unfetched, X!Missing
    <3> QED BY <1>4, <3>1, FS_Subset, FS_CardinalityType
  <2>3. ASSUME NEW x \in S \ Hidden, NEW y \in S \ Hidden
        PROVE  x = y
    <3>1. x \in list /\ y \in list /\ Place(list, x) = Place(list, y)
      BY <1>8, <2>1
    <3>2. x \in Nat /\ y \in Nat /\ Place(list, x) \in Nat
      BY <3>1, ListIs, AfterIsFinite
    <3>3. ~(x < y) /\ ~(y < x)
      BY <3>1, <3>2, ListIs, PlacesDiffer
    <3> QED BY <3>2, <3>3
  <2>4. Cardinality(S) <= Cardinality(Hidden) + 1
    BY <2>2, <2>3, HiddenIsFinite, OneMore
  <2>5. Cardinality(Hidden) <= exportDeletions
    BY <1>1, <1>3 DEF FewAreHidden
  <2> QED BY <1>3, <2>1, <2>2, <2>4, <2>5, HiddenIsFinite, ListIs DEF FewAreHidden
<1> QED BY <1>5, <1>6, <1>7, <1>9 DEF ExportInv

LEMMA ExportBegins ==
    ASSUME ExportInv, X!Export
    PROVE  ExportInv'
<1>1. ExportTypes /\ PagesFollow /\ MessagesGrow /\ FewAreHidden
  BY DEF ExportInv
<1>2. /\ client.at = "idle" /\ client' = [client EXCEPT !.at = "loop"]
      /\ request' = [request EXCEPT !.at = "select"]
      /\ begun' = [c \in X!Ids |-> IF c \in liveConversations THEN messages[c] ELSE X!Unknown]
      /\ UNCHANGED <<liveConversations, createdConversations, messages, exportDeletions, bundle>>
  BY DEF X!Export, X!store
<1>3. /\ client' \in Loops /\ client'.at = "loop" /\ client'.offset = client.offset
      /\ client'.fetched = client.fetched /\ client'.pages = client.pages
      /\ client'.truncated = client.truncated
  BY <1>2, ListIs DEF Loops
<1>4. request' \in Questions /\ request'.at = "select" /\ request'.page = request.page
  BY <1>2, ListIs DEF Questions
<1>5. /\ request.page = {} /\ client.pages = 0 /\ client.offset = 0 /\ exportDeletions = 0
      /\ bundle = X!Nothing
  <2>1. ~Reading
    BY <1>1, <1>2, ListIs DEF PagesFollow, Reading, Questions
  <2>2. PageSize * 0 = 0
    BY ExportAssumption
  <2> QED BY <1>1, <1>2, <2>1, <2>2 DEF PagesFollow, MessagesGrow
<1>6. begun' \in [X!Ids -> 0 .. X!Unknown]
  BY <1>2, ListIs DEF X!Unknown
<1>7. ExportTypes'
  <2>1. X!TypeOK'
    <3>1. /\ request'.page \subseteq X!Ids /\ request'.conversations \in 0 .. MaxConversations
          /\ request'.at \in {"none", "select", "count", "sum", "read"}
      BY <1>4, <1>5 DEF Questions
    <3>2. client'.at \in {"idle", "loop", "done"} /\ client'.pages \in 0 .. MaxPages
      BY <1>3 DEF Loops
    <3> QED BY <1>1, <1>2, <1>6, <3>1, <3>2 DEF ExportTypes, X!TypeOK
  <2> QED BY <1>1, <1>2, <1>3, <1>4, <2>1 DEF ExportTypes, Questions, Loops
<1>8. PagesFollow'
  <2>1. 0 < MaxPages
    BY ExportAssumption
  <2> QED BY <1>1, <1>3, <1>4, <1>5, <2>1 DEF PagesFollow, Reading
<1>9. MessagesGrow'
  <2>1. \A c \in X!Ids : bundle'[c] = X!Unknown
    BY <1>2, <1>5 DEF X!Nothing
  <2>2. \A c \in liveConversations : c \in X!Ids /\ c <= createdConversations /\ begun'[c] = messages[c]
    BY <1>2, ListIs
  <2>3. \A c \in X!Ids : begun'[c] # X!Unknown => c \in liveConversations
    BY <1>2
  <2>4. \A c \in liveConversations : messages[c] <= messages[c]
    BY ListIs
  <2> QED BY <1>2, <1>3, <2>1, <2>2, <2>3, <2>4 DEF MessagesGrow, X!ExportHasMessages
<1>10. FewAreHidden'
  <2>1. ASSUME NEW c \in Hidden'
        PROVE  FALSE
    <3>1. Place(liveConversations, c) < 0
      BY <1>2, <1>3, <1>4, <1>5, <2>1 DEF Hidden, Passed, Reach, Reading
    <3> QED BY <3>1, ListIs, AfterIsFinite
  <2>2. Cardinality(Hidden') = 0
    BY <2>1, FS_EmptySet
  <2> QED BY <1>2, <1>3, <1>5, <2>2 DEF FewAreHidden
<1> QED BY <1>7, <1>8, <1>9, <1>10 DEF ExportInv

\* A step of another part leaves the export alone.
LEMMA ExportOfSystem ==
    ASSUME ExportInv, [Next]_vars
    PROVE  ExportInv'
<1>1. X!Next \/ UNCHANGED xVars
  BY DEF Next, vars
<1>2. CASE UNCHANGED xVars
  BY <1>2 DEF xVars, ExportInv, ExportTypes, X!TypeOK, Questions, Loops, PagesFollow, Reading, MessagesGrow,
     X!ExportHasMessages, FewAreHidden, Hidden, Unfetched, X!Missing, Passed, Reach
<1> QED BY <1>1, <1>2, ConversationCreated, MessageAppended, ConversationDeleted, ExportBegins, PageSelected,
        ConversationsCounted, MessagesCounted, PageAnswered DEF X!Next

LEMMA ExportInit ==
    ASSUME X!Init
    PROVE  ExportInv
<1>1. /\ createdConversations \in 0 .. MaxConversations /\ liveConversations = 1 .. createdConversations
      /\ messages \in [X!Ids -> 0 .. MaxMessages] /\ exportDeletions = 0
      /\ request = X!NoRequest /\ bundle = X!Nothing /\ begun = X!Nothing
      /\ client = [at |-> "idle", offset |-> 0, fetched |-> 0, pages |-> 0, truncated |-> FALSE]
  BY DEF X!Init
<1>2. /\ MaxConversations \in Nat /\ MaxMessages \in Nat /\ MaxPages \in Nat /\ PageSize \in Nat
      /\ createdConversations \in Nat
  BY <1>1, ExportAssumption
<1>3. Cardinality(liveConversations) = createdConversations
  <2>1. 1 \in Int /\ createdConversations \in Int
    BY <1>2
  <2>2. Cardinality(1 .. createdConversations) = IF 1 > createdConversations THEN 0 ELSE createdConversations - 1 + 1
    BY <2>1, FS_Interval
  <2> QED BY <1>1, <1>2, <2>2
<1>4. X!Nothing \in [X!Ids -> 0 .. X!Unknown] /\ \A c \in X!Ids : X!Nothing[c] = X!Unknown
  BY <1>2 DEF X!Nothing, X!Unknown
<1>5. ExportTypes
  <2>1. X!TypeOK
    BY <1>1, <1>2, <1>4 DEF X!TypeOK, X!NoRequest
  <2> QED BY <1>1, <1>2, <1>3, <2>1 DEF ExportTypes, Questions, Loops, X!NoRequest
<1>6. PagesFollow
  <2>1. Cardinality({}) = 0 /\ PageSize * 0 = 0
    BY <1>2, FS_EmptySet
  <2> QED BY <1>1, <1>2, <2>1 DEF PagesFollow, Reading, X!NoRequest
<1>7. MessagesGrow
  <2>1. liveConversations \subseteq X!Ids
    BY <1>1, <1>2 DEF X!Ids
  <2> QED BY <1>1, <1>4, <2>1 DEF MessagesGrow, X!ExportHasMessages
<1>8. FewAreHidden
  BY <1>1 DEF FewAreHidden
<1> QED BY <1>5, <1>6, <1>7, <1>8 DEF ExportInv

LEMMA ExportIsOwned ==
    ASSUME ExportInv
    PROVE  X!ExportIsWhole /\ X!ExportHasMessages
<1>1. X!ExportIsWhole
  BY SameExportCardinality DEF ExportInv, FewAreHidden, X!ExportIsWhole
<1> QED BY <1>1 DEF ExportInv, MessagesGrow

-----------------------------------------------------------------------------
(*                    What the compositions promise                        *)

\* However the requests overlap, the store of tokens and the containers overrun their
\* limits by no more than those that passed the check together, the limiter by no more
\* than it has states to leave behind, and the meter shows no answer that nobody
\* gave; for one request at a time the limits hold and the meter is right.  A process
\* keeps the containers it tracks, and a tool is called once, past every gate, the
\* trail telling how it went.
THEOREM CallsContained == Spec => []CallsAreContained
<1> DEFINE CallsInvariant == GatewayInv /\ PoolInv /\ ToolsInv
<1>1. Init => CallsInvariant
  BY GatewayInit, PoolInit, ToolsInit DEF Init
<1>2. CallsInvariant /\ [Next]_vars => CallsInvariant'
  BY GatewayOfSystem, PoolOfSystem, ToolsOfSystem
<1>3. CallsInvariant => CallsAreContained
  BY GatewayIsContained, PoolIsContained, ToolsAreContained DEF CallsAreContained
<1> QED BY <1>1, <1>2, <1>3, PTL DEF Spec

\* Whoever is shown a conversation, or writes to it, was allowed to after his
\* request began, members are colleagues, the trail ends with what they may.  An
\* export that is not cut short lacks, of what was there from start to end, one
\* conversation at most for each deletion meanwhile, and of every conversation it
\* has, it has the messages that were there as it began.
THEOREM ConversationOwned == Spec => []ConversationIsOwned
<1>1. Init => SharingInv /\ ExportInv
  BY SharingInit, ExportInit DEF Init
<1>2. SharingInv /\ ExportInv /\ [Next]_vars => (SharingInv /\ ExportInv)'
  BY SharingOfSystem, ExportOfSystem
<1>3. SharingInv /\ ExportInv => ConversationIsOwned
  BY SharingIsOwned, ExportIsOwned DEF ConversationIsOwned
<1> QED BY <1>1, <1>2, <1>3, PTL DEF Spec
=============================================================================
