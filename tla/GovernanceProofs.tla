-------------------------- MODULE GovernanceProofs --------------------------
(***************************************************************************)
(* What MCGovernance states of tenants, usage, skills, knowledge, memory,  *)
(* evaluation, content and plans holds of every tenant, document, user,    *)
(* budget and number of threads.  Each part has an inductive invariant of  *)
(* its own: it speaks of that part's variables only, which the steps of    *)
(* the others leave alone, so that every step of the composition keeps it. *)
(*                                                                         *)
(* A sum over the ledger is a recursive function on numbers: that its      *)
(* values agree is proved by looking at the least number for which they    *)
(* would not.  The types of all parts are proved together at the end.      *)
(***************************************************************************)
EXTENDS MCGovernance, Integers, FiniteSetTheorems, WellFoundedInduction, TLAPS

-----------------------------------------------------------------------------
(*                A tenant's deletion: inductive invariant                 *)

\* Some package was made, and some cooling-off period is over.
Packed == packages > 0
Cooled == matured # {}

\* A job of a deletion, or a copy of one.
LifecycleRowOK(c) == c \in T!LifecycleJob /\ (c.exported => Packed)

DeletionsOK ==
    /\ deletions \in Seq(T!LifecycleJob) /\ packages \in Nat /\ crashes \in Nat
    /\ matured \subseteq 1 .. Len(deletions)
    /\ \A j \in 1 .. Len(deletions) : LifecycleRowOK(deletions[j])

\* What a thread holds: who saves has a copy, who purges has seen a package
\* and the end of the cooling-off period.
Copying == {"saving", "reviving", "reactivating", "linked", "transition", "sealing", "purging"}
Deleting == {"deleting", "judging", "transition", "sealing", "purging"}
Holding(place, c, list, due) ==
    /\ place \in {"closing", "linking", "linked"} => Packed
    /\ place \in {"transition", "sealing", "purging"} => Packed /\ Cooled
    /\ place \in Copying => LifecycleRowOK(c)
    /\ place \in Deleting => \A x \in list : LifecycleRowOK(x[2])
    /\ due \subseteq matured

ThreadsOK ==
    /\ DOMAIN at = T!Threads /\ DOMAIN job = T!Threads /\ DOMAIN copy = T!Threads
    /\ DOMAIN todo = T!Threads /\ DOMAIN now = T!Threads
    /\ \A t \in T!Threads : Holding(at[t], copy[t], todo[t], now[t])

LayersOK == layers # Layers => Packed /\ Cooled

TenantInv == DeletionsOK /\ ThreadsOK /\ LayersOK

-----------------------------------------------------------------------------
(*                         The last of several jobs                        *)

LEMMA LastExists ==
    ASSUME NEW n \in Nat, NEW set, set \subseteq 1 .. n, set # {}
    PROVE  T!LastOf(set) \in set
<1> DEFINE Above == {m \in Nat : \A k \in set : k <= m}
<1>1. n \in Above
  OBVIOUS
<1>2. PICK m \in Above : \A k \in Above : ~(<<k, m>> \in OpToRel(<, Nat))
  <2>1. Above \subseteq Nat
    OBVIOUS
  <2> HIDE DEF Above
  <2> QED BY <1>1, <2>1, WFMin, NatLessThanWellFounded
<1>3. m \in set
  <2> SUFFICES ASSUME m \notin set PROVE FALSE
    OBVIOUS
  <2>1. PICK k \in set : TRUE
    OBVIOUS
  <2>2. k <= m /\ k # m /\ k \in Nat /\ m \in Nat /\ k >= 1
    OBVIOUS
  <2>3. m - 1 \in Nat /\ m - 1 < m
    BY <2>2
  <2>4. \A l \in set : l <= m - 1
    OBVIOUS
  <2>5. m - 1 \in Above
    BY <2>3, <2>4
  <2>6. <<m - 1, m>> \in OpToRel(<, Nat)
    BY <2>2, <2>3 DEF OpToRel
  <2> QED BY <1>2, <2>5, <2>6
<1>4. \E j \in set : \A k \in set : k <= j
  BY <1>3
<1> QED BY <1>4 DEF T!LastOf

-----------------------------------------------------------------------------
(*                            What a step keeps                            *)

\* Packages stay made, and periods over.
LEMMA RowLasts ==
    ASSUME NEW c, LifecycleRowOK(c), packages' \in Nat, packages \in Nat, packages' >= packages
    PROVE  LifecycleRowOK(c)'
BY DEF LifecycleRowOK, Packed

Onward == packages' \in Nat /\ packages' >= packages /\ matured \subseteq matured'

LEMMA HoldingLasts ==
    ASSUME TenantInv, Onward, NEW place, NEW c, NEW list, NEW due, Holding(place, c, list, due)
    PROVE  Holding(place, c, list, due)'
<1>1. Packed => Packed'
  BY DEF TenantInv, DeletionsOK, Onward, Packed
<1>2. Cooled => Cooled'
  BY DEF Onward, Cooled
<1>3. \A x : LifecycleRowOK(x) => LifecycleRowOK(x)'
  BY <1>1 DEF LifecycleRowOK
<1> QED BY <1>1, <1>2, <1>3 DEF Holding, Onward

\* One thread goes on to a place, with a copy, a list and what is due.
Moves(t, place, c, list, due) ==
    /\ at'[t] = place /\ copy'[t] = c /\ todo'[t] = list /\ now'[t] = due
    /\ \A u \in T!Threads \ {t} : /\ at'[u] = at[u] /\ copy'[u] = copy[u]
                                  /\ todo'[u] = todo[u] /\ now'[u] = now[u]
    /\ DOMAIN at' = T!Threads /\ DOMAIN job' = T!Threads /\ DOMAIN copy' = T!Threads
    /\ DOMAIN todo' = T!Threads /\ DOMAIN now' = T!Threads

LEMMA MovesOn ==
    ASSUME TenantInv, NEW t \in T!Threads, NEW place, NEW c, NEW list, NEW due, Moves(t, place, c, list, due),
           Onward, DeletionsOK', LayersOK', Holding(place, c, list, due)'
    PROVE  TenantInv'
<1>1. ASSUME NEW u \in T!Threads
      PROVE  Holding(at[u], copy[u], todo[u], now[u])'
  <2>1. CASE u = t
    BY <2>1 DEF Moves
  <2>2. CASE u # t
    <3>1. PICK p, x, l, d : p = at[u] /\ x = copy[u] /\ l = todo[u] /\ d = now[u]
      OBVIOUS
    <3>2. p = at'[u] /\ x = copy'[u] /\ l = todo'[u] /\ d = now'[u]
      BY <2>2, <3>1 DEF Moves
    <3>3. Holding(p, x, l, d)
      BY <3>1 DEF TenantInv, ThreadsOK
    <3>4. Holding(p, x, l, d)'
      BY <3>3, HoldingLasts
    <3> QED BY <3>2, <3>4
  <2> QED BY <2>1, <2>2
<1> QED BY <1>1 DEF Moves, TenantInv, ThreadsOK

LEMMA LayersRest ==
    ASSUME TenantInv, Onward, UNCHANGED layers
    PROVE  LayersOK'
<1>1. Packed => Packed'
  BY DEF TenantInv, DeletionsOK, Onward, Packed
<1>2. Cooled => Cooled'
  BY DEF Onward, Cooled
<1> QED BY <1>1, <1>2 DEF TenantInv, LayersOK

\* A job is saved, or created.
LEMMA SavesJob ==
    ASSUME TenantInv, NEW j, NEW c, LifecycleRowOK(c), deletions' = [deletions EXCEPT ![j] = c],
           UNCHANGED <<packages, matured, crashes>>
    PROVE  DeletionsOK'
<1>1. deletions' = [deletions EXCEPT ![j] = c] /\ deletions \in Seq(T!LifecycleJob) /\ c \in T!LifecycleJob
  BY DEF TenantInv, DeletionsOK, LifecycleRowOK
<1>2. /\ deletions' \in Seq(T!LifecycleJob) /\ Len(deletions') = Len(deletions)
      /\ \A i \in 1 .. Len(deletions) : deletions'[i] = deletions[i] \/ deletions'[i] = c
  <2>1. CASE j \in 1 .. Len(deletions)
    BY <1>1, <2>1
  <2>2. CASE j \notin 1 .. Len(deletions)
    <3>1. deletions' = deletions
      BY <1>1, <2>2
    <3> QED BY <1>1, <3>1
  <2> QED BY <2>1, <2>2
<1> QED BY <1>2 DEF TenantInv, DeletionsOK, LifecycleRowOK, Packed

LEMMA JobsRest ==
    ASSUME TenantInv, UNCHANGED <<deletions, matured>>, packages' \in Nat, packages' >= packages, crashes' \in Nat
    PROVE  DeletionsOK'
<1>1. \A c : LifecycleRowOK(c) => LifecycleRowOK(c)'
  BY RowLasts DEF TenantInv, DeletionsOK
<1> QED BY <1>1 DEF TenantInv, DeletionsOK

-----------------------------------------------------------------------------
(*                                The steps                                *)

LEMMA Latests ==
    ASSUME TenantInv
    PROVE  /\ T!Latest \in Nat /\ (T!Latest > 0 => LifecycleRowOK(deletions[T!Latest]))
           /\ T!Cooling # {} => LifecycleRowOK(deletions[T!LastOf(T!Cooling)])
           /\ T!FinalExportTargets # {} => LifecycleRowOK(deletions[T!LastOf(T!FinalExportTargets)])
<1>1. /\ deletions \in Seq(T!LifecycleJob) /\ DOMAIN deletions = 1 .. Len(deletions) /\ Len(deletions) \in Nat
      /\ \A j \in 1 .. Len(deletions) : LifecycleRowOK(deletions[j])
  BY DEF TenantInv, DeletionsOK
<1>2. T!Cooling \subseteq 1 .. Len(deletions) /\ T!FinalExportTargets \subseteq 1 .. Len(deletions)
  BY <1>1 DEF T!Cooling, T!FinalExportTargets
<1>3. T!Cooling # {} => T!LastOf(T!Cooling) \in 1 .. Len(deletions)
  BY <1>1, <1>2, LastExists
<1>4. T!FinalExportTargets # {} => T!LastOf(T!FinalExportTargets) \in 1 .. Len(deletions)
  BY <1>1, <1>2, LastExists
<1> QED BY <1>1, <1>3, <1>4 DEF T!Latest

\* A thread goes on and no job is saved.
LEMMA Strolls ==
    ASSUME TenantInv, NEW t \in T!Threads, NEW place, NEW c, NEW list, NEW due, Moves(t, place, c, list, due),
           Holding(place, c, list, due), UNCHANGED <<deletions, packages, layers, matured, crashes>>
    PROVE  TenantInv'
<1>1. /\ Onward /\ packages' \in Nat /\ packages' >= packages
      /\ crashes' \in Nat
  BY DEF Onward, TenantInv, DeletionsOK
<1>2. DeletionsOK'
  BY <1>1, JobsRest
<1>3. Holding(place, c, list, due)'
  BY <1>1, HoldingLasts
<1>4. LayersOK'
  BY <1>1, LayersRest
<1> QED BY <1>1, <1>2, <1>3, <1>4, MovesOn

\* A thread saves its copy of a job.
LEMMA SavesAndMoves ==
    ASSUME TenantInv, NEW t \in T!Threads, NEW place, NEW c, NEW list, NEW due, Moves(t, place, c, list, due),
           Holding(place, c, list, due), UNCHANGED <<packages, layers, matured, crashes>>,
           NEW j, NEW row, LifecycleRowOK(row), deletions' = [deletions EXCEPT ![j] = row]
    PROVE  TenantInv'
<1>1. /\ Onward /\ crashes' \in Nat
  BY DEF Onward, TenantInv, DeletionsOK
<1>2. DeletionsOK'
  BY SavesJob
<1>3. Holding(place, c, list, due)'
  BY <1>1, HoldingLasts
<1>4. LayersOK'
  BY <1>1, LayersRest
<1> QED BY <1>1, <1>2, <1>3, <1>4, MovesOn

\* A job with another mark.
LEMMA MarkedJobIs ==
    ASSUME NEW c, LifecycleRowOK(c)
    PROVE  /\ LifecycleRowOK([c EXCEPT !.confirmed = TRUE])
           /\ LifecycleRowOK([c EXCEPT !.status = "cancelled"])
           /\ LifecycleRowOK([c EXCEPT !.status = "completed"])
           /\ Packed => LifecycleRowOK([c EXCEPT !.exported = TRUE])
<1>1. c \in T!LifecycleJob /\ (c.exported => Packed)
  BY DEF LifecycleRowOK
<1>2. LifecycleRowOK([c EXCEPT !.confirmed = TRUE])
  BY <1>1 DEF LifecycleRowOK, T!LifecycleJob
<1>3. LifecycleRowOK([c EXCEPT !.status = "cancelled"])
  BY <1>1 DEF LifecycleRowOK, T!LifecycleJob
<1>4. LifecycleRowOK([c EXCEPT !.status = "completed"])
  BY <1>1 DEF LifecycleRowOK, T!LifecycleJob
<1>5. Packed => LifecycleRowOK([c EXCEPT !.exported = TRUE])
  BY <1>1 DEF LifecycleRowOK, T!LifecycleJob
<1> QED BY <1>2, <1>3, <1>4, <1>5

LEMMA Manages ==
    ASSUME TenantInv, NEW a \in Managers, T!Manage(a)
    PROVE  TenantInv'
<1>1. a \in T!Threads /\ Holding(at[a], copy[a], todo[a], now[a])
  BY DEF T!Threads, TenantInv, ThreadsOK
<1> USE DEF T!Goto, T!Hold, T!store, T!world
<1>2. CASE T!RequestExport(a)
  <2>1. Moves(a, at[a], copy[a], todo[a], now[a])
    BY <1>2 DEF T!RequestExport, Moves, TenantInv, ThreadsOK
  <2> QED BY <1>1, <1>2, <2>1, Strolls DEF T!RequestExport
<1>3. CASE T!BeginDeletion(a) \/ T!MarkDeleting(a)
  <2>1. PICK place \in {"marking", "creating"} : Moves(a, place, copy[a], todo[a], now[a])
    BY <1>1, <1>3 DEF T!BeginDeletion, T!MarkDeleting, Moves, TenantInv, ThreadsOK
  <2>2. Holding(place, copy[a], todo[a], now[a])
    BY <1>1, <2>1 DEF Holding, Copying, Deleting
  <2> QED BY <1>1, <1>3, <2>1, <2>2, Strolls DEF T!BeginDeletion, T!MarkDeleting
<1>4. CASE T!CreateDeletion(a)
  <2>1. PICK row : row = [status |-> "cooling_down", exported |-> FALSE, confirmed |-> FALSE]
    OBVIOUS
  <2>2. /\ deletions' = Append(deletions, row) /\ UNCHANGED <<packages, layers, matured, crashes>>
        /\ Moves(a, "idle", copy[a], todo[a], now[a]) /\ at[a] = "creating"
    BY <1>1, <1>4, <2>1 DEF T!CreateDeletion, Moves, TenantInv, ThreadsOK
  <2>3. LifecycleRowOK(row)
    BY <2>1 DEF LifecycleRowOK, T!LifecycleJob
  <2>4. /\ deletions \in Seq(T!LifecycleJob) /\ matured \subseteq 1 .. Len(deletions) /\ row \in T!LifecycleJob
        /\ packages \in Nat /\ crashes \in Nat /\ \A j \in 1 .. Len(deletions) : LifecycleRowOK(deletions[j])
    BY <2>3 DEF TenantInv, DeletionsOK, LifecycleRowOK
  <2>5. /\ deletions' \in Seq(T!LifecycleJob) /\ matured' \subseteq 1 .. Len(deletions')
        /\ \A j \in 1 .. Len(deletions') : deletions'[j] = row \/ (j \in 1 .. Len(deletions) /\ deletions'[j] = deletions[j])
    BY <2>2, <2>4
  <2>6. DeletionsOK'
    BY <2>2, <2>3, <2>4, <2>5 DEF DeletionsOK, LifecycleRowOK, Packed
  <2>7. Onward /\ crashes' \in Nat
    BY <2>2, <2>4 DEF Onward
  <2>8. Holding("idle", copy[a], todo[a], now[a])
    BY <1>1 DEF Holding, Copying, Deleting
  <2>9. PICK c, list, due : c = copy[a] /\ list = todo[a] /\ due = now[a]
    OBVIOUS
  <2>10. Holding("idle", c, list, due)' /\ Moves(a, "idle", c, list, due)
    BY <2>2, <2>7, <2>8, <2>9, HoldingLasts
  <2>11. LayersOK'
    BY <2>2, <2>7, <2>10, LayersRest
  <2> QED BY <1>1, <2>6, <2>7, <2>10, <2>11, MovesOn
<1>5. CASE T!ConfirmDeletion(a) \/ T!CancelDeletion(a)
  <2>1. PICK row, place : /\ LifecycleRowOK(row) /\ place \in {"saving", "reviving"}
                          /\ Moves(a, place, row, todo[a], now[a])
    <3>1. CASE T!ConfirmDeletion(a)
      <4>1. PICK c : c = deletions[T!Latest]
        OBVIOUS
      <4>2. LifecycleRowOK(c)
        BY <3>1, <4>1, Latests DEF T!ConfirmDeletion
      <4>3. Moves(a, "saving", [c EXCEPT !.confirmed = TRUE], todo[a], now[a])
        BY <1>1, <3>1, <4>1 DEF T!ConfirmDeletion, Moves, TenantInv, ThreadsOK
      <4> QED BY <4>2, <4>3, MarkedJobIs
    <3>2. CASE T!CancelDeletion(a)
      <4>1. PICK c : c = deletions[T!LastOf(T!Cooling)]
        OBVIOUS
      <4>2. LifecycleRowOK(c)
        BY <3>2, <4>1, Latests DEF T!CancelDeletion
      <4>3. Moves(a, "reviving", [c EXCEPT !.status = "cancelled"], todo[a], now[a])
        BY <1>1, <3>2, <4>1 DEF T!CancelDeletion, Moves, TenantInv, ThreadsOK
      <4> QED BY <4>2, <4>3, MarkedJobIs
    <3> QED BY <1>5, <3>1, <3>2
  <2>2. Holding(place, row, todo[a], now[a])
    BY <1>1, <2>1 DEF Holding, Copying, Deleting
  <2>3. UNCHANGED <<deletions, packages, layers, matured, crashes>> /\ at[a] = "idle"
    BY <1>5 DEF T!ConfirmDeletion, T!CancelDeletion
  <2> QED BY <1>1, <2>1, <2>2, <2>3, Strolls
<1>6. CASE T!Revive(a) \/ T!Reactivate(a)
  <2>1. /\ UNCHANGED <<deletions, packages, layers, matured, crashes>>
        /\ at[a] \in {"reviving", "reactivating"}
    BY <1>6 DEF T!Revive, T!Reactivate
  <2>2. PICK place \in {"reactivating", "saving", "idle"} : Moves(a, place, copy[a], todo[a], now[a])
    BY <1>1, <1>6 DEF T!Revive, T!Reactivate, Moves, TenantInv, ThreadsOK
  <2>3. Holding(place, copy[a], todo[a], now[a])
    BY <1>1, <2>1, <2>2 DEF Holding, Copying, Deleting
  <2> QED BY <1>1, <2>1, <2>2, <2>3, Strolls
<1>7. CASE T!SaveCopy(a)
  <2>1. /\ UNCHANGED <<packages, layers, matured, crashes>> /\ at[a] = "saving"
        /\ deletions' = [deletions EXCEPT ![job[a]] = copy[a]]
        /\ Moves(a, "idle", NoJob, todo[a], now[a])
    BY <1>1, <1>7 DEF T!SaveCopy, T!Save, Moves, TenantInv, ThreadsOK
  <2>2. LifecycleRowOK(copy[a]) /\ Holding("idle", NoJob, todo[a], now[a])
    BY <1>1, <2>1 DEF Holding, Copying, Deleting
  <2> QED BY <1>1, <2>1, <2>2, SavesAndMoves
<1> QED BY <1>2, <1>3, <1>4, <1>5, <1>6, <1>7 DEF T!Manage

LEMMA Exports ==
    ASSUME TenantInv, NEW w \in Janitors, T!BeginRound(w) \/ T!Export(w) \/ T!ListDeletions(w) \/ T!EndRound(w)
    PROVE  TenantInv'
<1>1. w \in T!Threads /\ Holding(at[w], copy[w], todo[w], now[w])
  BY DEF T!Threads, TenantInv, ThreadsOK
<1> USE DEF T!Goto, T!Hold, T!store, T!world
<1>2. CASE T!BeginRound(w)
  <2>1. PICK list : Moves(w, "exporting", copy[w], list, matured)
    BY <1>1, <1>2 DEF T!BeginRound, Moves, TenantInv, ThreadsOK
  <2>2. Holding("exporting", copy[w], list, matured)
    BY DEF Holding, Copying, Deleting
  <2> QED BY <1>1, <1>2, <2>1, <2>2, Strolls DEF T!BeginRound
<1>3. CASE T!StorePackage(w)
  <2>1. UNCHANGED <<deletions, layers, matured, crashes>> /\ at[w] = "exporting"
    BY <1>3 DEF T!StorePackage
  <2>2. PICK x \in todo[w] :
            IF exports[x[1]] = "completed"
            THEN todo' = [todo EXCEPT ![w] = @ \ {x}] /\ UNCHANGED <<packages, job, at>>
            ELSE /\ packages' = packages + 1 /\ at' = [at EXCEPT ![w] = "closing"]
                 /\ job' = [job EXCEPT ![w] = x[1]] /\ UNCHANGED todo
    BY <1>3 DEF T!StorePackage
  <2>3. UNCHANGED <<copy, now>>
    BY <1>3 DEF T!StorePackage
  <2>4. PICK c, due : c = copy[w] /\ due = now[w]
    OBVIOUS
  <2>5. due \subseteq matured
    BY <1>1, <2>4 DEF Holding
  <2>6. PICK place, list : /\ Moves(w, place, c, list, due)
                           /\ \/ packages' = packages /\ place = "exporting"
                              \/ packages' = packages + 1 /\ place = "closing"
    BY <1>1, <2>1, <2>2, <2>3, <2>4 DEF Moves, TenantInv, ThreadsOK
  <2>7. packages \in Nat /\ crashes \in Nat
    BY DEF TenantInv, DeletionsOK
  <2>8. /\ Onward /\ packages' \in Nat /\ packages' >= packages /\ crashes' \in Nat
        /\ place = "closing" => Packed'
    BY <2>1, <2>6, <2>7 DEF Onward, Packed
  <2>9. Holding(place, c, list, due)'
    BY <2>1, <2>5, <2>6, <2>8 DEF Holding, Copying, Deleting
  <2>10. DeletionsOK'
    BY <2>1, <2>8, JobsRest
  <2>11. LayersOK'
    BY <2>1, <2>6, <2>8, LayersRest
  <2> QED BY <1>1, <2>6, <2>8, <2>9, <2>10, <2>11, MovesOn
<1>4. CASE T!CloseExport(w)
  <2>1. PICK list : Moves(w, "linking", copy[w], list, now[w])
    BY <1>1, <1>4 DEF T!CloseExport, Moves, TenantInv, ThreadsOK
  <2>2. UNCHANGED <<deletions, packages, layers, matured, crashes>> /\ at[w] = "closing"
    BY <1>4 DEF T!CloseExport
  <2>3. Holding("linking", copy[w], list, now[w])
    BY <1>1, <2>2 DEF Holding, Copying, Deleting
  <2> QED BY <1>1, <2>1, <2>2, <2>3, Strolls
<1>5. CASE T!LinkExport(w)
  <2>1. UNCHANGED <<deletions, packages, layers, matured, crashes>> /\ at[w] = "linking"
    BY <1>5 DEF T!LinkExport
  <2>2. CASE T!FinalExportTargets = {}
    <3>1. Moves(w, "exporting", NoJob, todo[w], now[w])
      BY <1>1, <1>5, <2>2 DEF T!LinkExport, Moves, TenantInv, ThreadsOK
    <3>2. Holding("exporting", NoJob, todo[w], now[w])
      BY <1>1 DEF Holding, Copying, Deleting
    <3> QED BY <1>1, <2>1, <3>1, <3>2, Strolls
  <2>3. CASE T!FinalExportTargets # {}
    <3>1. PICK c : c = deletions[T!LastOf(T!FinalExportTargets)]
      OBVIOUS
    <3>2. LifecycleRowOK(c) /\ Packed
      BY <1>1, <2>1, <2>3, <3>1, Latests DEF Holding
    <3>3. PICK row : row = [c EXCEPT !.exported = TRUE]
      OBVIOUS
    <3>4. LifecycleRowOK(row)
      BY <3>2, <3>3, MarkedJobIs
    <3>5. Moves(w, "linked", row, todo[w], now[w])
      BY <1>1, <1>5, <2>3, <3>1, <3>3 DEF T!LinkExport, Moves, TenantInv, ThreadsOK
    <3>6. Holding("linked", row, todo[w], now[w])
      BY <1>1, <3>2, <3>4 DEF Holding, Copying, Deleting
    <3> QED BY <1>1, <2>1, <3>5, <3>6, Strolls
  <2> QED BY <2>2, <2>3
<1>6. CASE T!MarkFinalExported(w)
  <2>1. /\ UNCHANGED <<packages, layers, matured, crashes>> /\ at[w] = "linked"
        /\ deletions' = [deletions EXCEPT ![job[w]] = copy[w]]
        /\ Moves(w, "exporting", NoJob, todo[w], now[w])
    BY <1>1, <1>6 DEF T!MarkFinalExported, T!Save, Moves, TenantInv, ThreadsOK
  <2>2. LifecycleRowOK(copy[w]) /\ Holding("exporting", NoJob, todo[w], now[w])
    BY <1>1, <2>1 DEF Holding, Copying, Deleting
  <2> QED BY <1>1, <2>1, <2>2, SavesAndMoves
<1>7. CASE T!ListDeletions(w)
  <2>1. PICK list : list = T!Listed(deletions, T!Cooling)
    OBVIOUS
  <2>2. Moves(w, "deleting", copy[w], list, now[w])
    BY <1>1, <1>7, <2>1 DEF T!ListDeletions, Moves, TenantInv, ThreadsOK
  <2>3. \A x \in list : LifecycleRowOK(x[2])
    <3>1. \A j \in T!Cooling : LifecycleRowOK(deletions[j])
      BY DEF T!Cooling, TenantInv, DeletionsOK
    <3> QED BY <2>1, <3>1 DEF T!Listed
  <2>4. Holding("deleting", copy[w], list, now[w])
    BY <1>1, <2>3 DEF Holding, Copying, Deleting
  <2> QED BY <1>1, <1>7, <2>2, <2>4, Strolls DEF T!ListDeletions
<1>8. CASE T!EndRound(w)
  <2>1. Moves(w, "idle", copy[w], todo[w], {})
    BY <1>1, <1>8 DEF T!EndRound, Moves, TenantInv, ThreadsOK
  <2>2. Holding("idle", copy[w], todo[w], {})
    BY DEF Holding, Copying, Deleting
  <2> QED BY <1>1, <1>8, <2>1, <2>2, Strolls DEF T!EndRound
<1> QED BY <1>2, <1>3, <1>4, <1>5, <1>6, <1>7, <1>8 DEF T!Export

LEMMA Aborts ==
    ASSUME TenantInv, NEW w \in Janitors, T!Abort(w)
    PROVE  Moves(w, "idle", NoJob, {}, {}) /\ Holding("idle", NoJob, {}, {})
<1>1. Moves(w, "idle", NoJob, {}, {})
  BY DEF T!Abort, T!Goto, T!Hold, T!Threads, Moves, TenantInv, ThreadsOK
<1> QED BY <1>1 DEF Holding, Copying, Deleting

LEMMA Deletes ==
    ASSUME TenantInv, NEW w \in Janitors, T!TakeDeletion(w) \/ T!ExecuteDeletion(w)
    PROVE  TenantInv'
<1>1. w \in T!Threads /\ Holding(at[w], copy[w], todo[w], now[w])
  BY DEF T!Threads, TenantInv, ThreadsOK
<1> USE DEF T!Goto, T!Hold, T!store, T!world
<1>2. CASE T!TakeDeletion(w)
  <2>1. PICK x \in todo[w] :
            /\ todo' = [todo EXCEPT ![w] = @ \ {x}]
            /\ \/ UNCHANGED <<deletions, at>>
               \/ /\ at' = [at EXCEPT ![w] = "judging"]
                  /\ \/ UNCHANGED deletions
                     \/ deletions' = [deletions EXCEPT ![x[1]] = [x[2] EXCEPT !.confirmed = TRUE]]
    BY <1>2 DEF T!TakeDeletion, T!Save
  <2>2. UNCHANGED <<packages, layers, job, copy, now, matured, crashes>> /\ at[w] = "deleting"
    BY <1>2 DEF T!TakeDeletion
  <2>3. PICK row : row = [x[2] EXCEPT !.confirmed = TRUE]
    OBVIOUS
  <2>4. LifecycleRowOK(row)
    BY <1>1, <2>2, <2>3, MarkedJobIs DEF Holding, Deleting
  <2>5. PICK list : list = todo[w] \ {x}
    OBVIOUS
  <2>6. PICK place \in {"deleting", "judging"} : Moves(w, place, copy[w], list, now[w])
    BY <1>1, <2>1, <2>2, <2>5 DEF Moves, TenantInv, ThreadsOK
  <2>7. Holding(place, copy[w], list, now[w])
    BY <1>1, <2>2, <2>5, <2>6 DEF Holding, Copying, Deleting
  <2>8. CASE UNCHANGED deletions
    BY <1>1, <2>2, <2>6, <2>7, <2>8, Strolls
  <2>9. CASE deletions' = [deletions EXCEPT ![x[1]] = row]
    BY <1>1, <2>2, <2>4, <2>6, <2>7, <2>9, SavesAndMoves
  <2> QED BY <2>1, <2>3, <2>8, <2>9
<1>3. CASE T!JudgeDeletion(w)
  <2>1. UNCHANGED <<deletions, packages, layers, matured, crashes>> /\ at[w] = "judging"
    BY <1>3 DEF T!JudgeDeletion
  <2>2. CASE T!Executable(w, T!Latest)
    <3>1. PICK c : c = deletions[T!Latest]
      OBVIOUS
    <3>2. Moves(w, "transition", c, todo[w], now[w])
      BY <1>1, <1>3, <2>2, <3>1 DEF T!JudgeDeletion, Moves, TenantInv, ThreadsOK
    <3>3. T!Latest \in now[w] /\ c.exported
      BY <2>2, <3>1 DEF T!Executable
    <3>4. T!Latest \in matured /\ T!Latest \in 1 .. Len(deletions)
      BY <1>1, <3>3 DEF Holding, TenantInv, DeletionsOK
    <3>5. LifecycleRowOK(c) /\ Cooled
      BY <3>1, <3>4 DEF TenantInv, DeletionsOK, Cooled
    <3>6. Holding("transition", c, todo[w], now[w])
      BY <1>1, <2>1, <3>3, <3>5 DEF Holding, Copying, Deleting, LifecycleRowOK
    <3> QED BY <1>1, <2>1, <3>2, <3>6, Strolls
  <2>3. CASE ~T!Executable(w, T!Latest)
    <3>1. T!Abort(w)
      BY <1>3, <2>3 DEF T!JudgeDeletion
    <3> QED BY <1>1, <2>1, <3>1, Aborts, Strolls
  <2> QED BY <2>2, <2>3
<1>4. CASE T!JudgeTransition(w)
  <2>1. UNCHANGED <<deletions, packages, layers, matured, crashes>> /\ at[w] = "transition"
    BY <1>4 DEF T!JudgeTransition
  <2>2. CASE "deleted" \in T!Transitions[tenant]
    <3>1. Moves(w, "sealing", copy[w], todo[w], now[w])
      BY <1>1, <1>4, <2>2 DEF T!JudgeTransition, Moves, TenantInv, ThreadsOK
    <3>2. Holding("sealing", copy[w], todo[w], now[w])
      BY <1>1, <2>1 DEF Holding, Copying, Deleting
    <3> QED BY <1>1, <2>1, <3>1, <3>2, Strolls
  <2>3. CASE ~("deleted" \in T!Transitions[tenant])
    <3>1. T!Abort(w)
      BY <1>4, <2>3 DEF T!JudgeTransition
    <3> QED BY <1>1, <2>1, <3>1, Aborts, Strolls
  <2> QED BY <2>2, <2>3
<1>5. CASE T!SealTenant(w)
  <2>1. /\ UNCHANGED <<deletions, packages, layers, matured, crashes>> /\ at[w] = "sealing"
        /\ Moves(w, "purging", copy[w], todo[w], now[w])
    BY <1>1, <1>5 DEF T!SealTenant, Moves, TenantInv, ThreadsOK
  <2>2. Holding("purging", copy[w], todo[w], now[w])
    BY <1>1, <2>1 DEF Holding, Copying, Deleting
  <2> QED BY <1>1, <2>1, <2>2, Strolls
<1>6. CASE T!PurgeLayer(w)
  <2>1. /\ UNCHANGED <<deletions, packages, matured, crashes>> /\ at[w] = "purging"
        /\ Moves(w, "purging", copy[w], todo[w], now[w])
    BY <1>1, <1>6 DEF T!PurgeLayer, Moves, TenantInv, ThreadsOK
  <2>2. /\ Onward /\ packages' \in Nat /\ packages' >= packages /\ crashes' \in Nat
    BY <2>1 DEF Onward, TenantInv, DeletionsOK
  <2>3. DeletionsOK'
    BY <2>1, <2>2, JobsRest
  <2>4. Packed' /\ Cooled'
    BY <1>1, <2>1 DEF Holding, Packed, Cooled
  <2>6. LayersOK'
    BY <2>4 DEF LayersOK
  <2>7. PICK c, list, due : c = copy[w] /\ list = todo[w] /\ due = now[w]
    OBVIOUS
  <2>8. Holding("purging", c, list, due)' /\ Moves(w, "purging", c, list, due)
    BY <1>1, <2>1, <2>2, <2>7, HoldingLasts
  <2> QED BY <1>1, <2>2, <2>3, <2>6, <2>8, MovesOn
<1>7. CASE T!CloseDeletion(w)
  <2>1. PICK c, row : c = copy[w] /\ row = [c EXCEPT !.status = "completed"]
    OBVIOUS
  <2>2. /\ UNCHANGED <<packages, layers, matured, crashes>> /\ at[w] = "purging" /\ layers = <<>>
        /\ deletions' = [deletions EXCEPT ![job[w]] = row]
        /\ Moves(w, "deleting", NoJob, todo[w], now[w])
    BY <1>1, <1>7, <2>1 DEF T!CloseDeletion, T!Save, Moves, TenantInv, ThreadsOK
  <2>3. LifecycleRowOK(row)
    BY <1>1, <2>1, <2>2, MarkedJobIs DEF Holding, Copying
  <2>4. Holding("deleting", NoJob, todo[w], now[w])
    BY <1>1, <2>2 DEF Holding, Copying, Deleting
  <2> QED BY <1>1, <2>2, <2>3, <2>4, SavesAndMoves
<1> QED BY <1>2, <1>3, <1>4, <1>5, <1>6, <1>7 DEF T!ExecuteDeletion

LEMMA CrashesAndMatures ==
    ASSUME TenantInv, T!Mature \/ \E w \in Janitors : T!Crash(w)
    PROVE  TenantInv'
<1>1. packages \in Nat /\ crashes \in Nat
  BY DEF TenantInv, DeletionsOK
<1>2. ASSUME NEW w \in Janitors, T!Crash(w)
      PROVE  TenantInv'
  <2>1. /\ UNCHANGED <<deletions, packages, layers, matured>> /\ crashes' = crashes + 1 /\ T!Abort(w)
    BY <1>2 DEF T!Crash, T!store
  <2>2. Moves(w, "idle", NoJob, {}, {}) /\ Holding("idle", NoJob, {}, {})
    BY <2>1, Aborts
  <2>3. Onward /\ crashes' \in Nat
    BY <1>1, <2>1 DEF Onward
  <2>4. DeletionsOK'
    BY <1>1, <2>1, <2>3, JobsRest
  <2>5. LayersOK'
    BY <2>1, <2>2, <2>3, LayersRest
  <2>6. Holding("idle", NoJob, {}, {})'
    BY <2>2, <2>3, HoldingLasts
  <2>7. w \in T!Threads
    BY DEF T!Threads
  <2> QED BY <2>2, <2>3, <2>4, <2>5, <2>6, <2>7, MovesOn
<1>3. CASE T!Mature
  <2>1. PICK j \in DOMAIN deletions \ matured : matured' = matured \cup {j}
    BY <1>3 DEF T!Mature
  <2>2. UNCHANGED <<deletions, packages, layers, crashes, at, job, copy, todo, now>>
    BY <1>3 DEF T!Mature, T!store
  <2>3. j \in 1 .. Len(deletions)
    BY <2>1 DEF TenantInv, DeletionsOK
  <2>9. Onward
    BY <1>1, <2>1, <2>2 DEF Onward
  <2>10. matured' \subseteq 1 .. Len(deletions)
    BY <2>1, <2>3 DEF TenantInv, DeletionsOK
  <2>11. \A i \in 1 .. Len(deletions) : LifecycleRowOK(deletions[i])'
    BY <2>2 DEF TenantInv, DeletionsOK, LifecycleRowOK, Packed
  <2>4. DeletionsOK' /\ Onward
    BY <1>1, <2>2, <2>9, <2>10, <2>11 DEF TenantInv, DeletionsOK
  <2>5. LayersOK'
    BY <2>1, <2>2, <2>4 DEF TenantInv, LayersOK, Packed, Cooled
  <2>6. ASSUME NEW t \in T!Threads
        PROVE  Holding(at[t], copy[t], todo[t], now[t])'
    <3>1. PICK p, c, l, d : p = at[t] /\ c = copy[t] /\ l = todo[t] /\ d = now[t]
      OBVIOUS
    <3>2. Holding(p, c, l, d)
      BY <3>1 DEF TenantInv, ThreadsOK
    <3>3. Holding(p, c, l, d)'
      BY <2>4, <3>2, HoldingLasts
    <3> QED BY <2>2, <3>1, <3>3
  <2> QED BY <2>2, <2>4, <2>5, <2>6 DEF TenantInv, ThreadsOK
<1> QED BY <1>2, <1>3

LEMMA TenantOfSystem ==
    ASSUME TenantInv, [Next]_vars
    PROVE  TenantInv'
<1>1. T!Next \/ UNCHANGED tVars
  BY DEF Next, vars
<1>2. ASSUME UNCHANGED tVars
      PROVE  TenantInv'
  BY <1>2 DEF tVars, TenantInv, DeletionsOK, ThreadsOK, LayersOK, Holding, LifecycleRowOK, Packed, Cooled
<1>3. ASSUME NEW w \in Janitors, T!RunPendingJobs(w)
      PROVE  TenantInv'
  BY <1>3, Exports, Deletes DEF T!RunPendingJobs
<1>4. ASSUME T!Next
      PROVE  TenantInv'
  BY <1>3, <1>4, Manages, CrashesAndMatures DEF T!Next
<1> QED BY <1>1, <1>2, <1>4

LEMMA TenantInit ==
    ASSUME T!Init
    PROVE  TenantInv
<1>1. DeletionsOK
  BY DEF T!Init, DeletionsOK
<1>2. ThreadsOK
  BY DEF T!Init, ThreadsOK, Holding, Copying, Deleting
<1>3. LayersOK
  BY DEF T!Init, LayersOK
<1> QED BY <1>1, <1>2, <1>3 DEF TenantInv

-----------------------------------------------------------------------------
(*                     A tenant that is sealed stays so                     *)

Purging == \E w \in Janitors : at[w] = "purging"
Writing == \E a \in Managers : at[a] \in {"marking", "reactivating"}

\* A request that is about to write the status has read the tenant before the
\* worker sealed it.
SealInv ==
    /\ DOMAIN at = T!Threads /\ stranded \in BOOLEAN /\ crossed \in BOOLEAN
    /\ tenant = "deleted" \/ layers # Layers => Purging \/ layers = <<>> \/ stranded
    /\ Purging \/ layers # Layers => tenant = "deleted" \/ crossed
    /\ tenant = "deleted" /\ Writing => crossed

\* A step that neither writes the status nor begins or ends a purge.
LEMMA SealRests ==
    ASSUME SealInv, NEW t \in T!Threads, NEW place, place \notin {"marking", "reactivating", "purging"},
           at' = at \/ (at[t] # "purging" /\ at' = [at EXCEPT ![t] = place]),
           UNCHANGED <<tenant, layers, stranded, crossed>>
    PROVE  SealInv'
<1>1. \A u \in T!Threads : at'[u] = at[u] \/ (at'[u] = place /\ at[u] # "purging")
  BY DEF SealInv
<1>2. Purging' <=> Purging
  BY <1>1 DEF Purging, T!Threads, SealInv
<1>3. Writing' => Writing
  BY <1>1 DEF Writing, T!Threads
<1> QED BY <1>2, <1>3 DEF SealInv

LEMMA SealManaged ==
    ASSUME SealInv, NEW a \in Managers, T!Manage(a)
    PROVE  SealInv'
<1>1. a \in T!Threads
  BY DEF T!Threads
<1> USE DEF T!Goto, T!store, T!world, T!history
<1>2. CASE T!RequestExport(a)
  BY <1>1, <1>2, SealRests DEF T!RequestExport
<1>3. CASE T!BeginDeletion(a) \/ T!Revive(a)
  <2>1. PICK place : /\ at' = [at EXCEPT ![a] = place] /\ UNCHANGED <<tenant, layers, stranded, crossed>>
                     /\ place # "purging" /\ at[a] # "purging"
                     /\ place = "idle" \/ tenant # "deleted"
    BY <1>3 DEF T!BeginDeletion, T!Revive, T!MayManage, T!Transitions
  <2>2. Purging' <=> Purging
    BY <1>1, <2>1 DEF Purging, T!Threads, SealInv
  <2>3. CASE place = "idle"
    BY <1>1, <2>1, <2>3, SealRests
  <2>4. CASE tenant # "deleted"
    BY <2>1, <2>2, <2>4 DEF SealInv
  <2> QED BY <2>1, <2>3, <2>4
<1>4. CASE T!MarkDeleting(a) \/ T!Reactivate(a)
  <2>1. PICK place : /\ at' = [at EXCEPT ![a] = place] /\ UNCHANGED <<layers, stranded, crossed>>
                     /\ place # "purging" /\ at[a] \in {"marking", "reactivating"} /\ tenant' # "deleted"
    BY <1>4 DEF T!MarkDeleting, T!Reactivate
  <2>2. Purging' <=> Purging
    BY <1>1, <2>1 DEF Purging, T!Threads, SealInv
  <2>3. Writing
    BY <2>1 DEF Writing
  <2> QED BY <2>1, <2>2, <2>3 DEF SealInv
<1>5. CASE T!CreateDeletion(a)
  BY <1>1, <1>5, SealRests DEF T!CreateDeletion
<1>6. CASE T!ConfirmDeletion(a) \/ T!CancelDeletion(a) \/ T!SaveCopy(a)
  <2>1. PICK place \in {"saving", "reviving", "idle"} :
            /\ at' = [at EXCEPT ![a] = place] /\ at[a] # "purging"
            /\ UNCHANGED <<tenant, layers, stranded, crossed>>
    BY <1>6 DEF T!ConfirmDeletion, T!CancelDeletion, T!SaveCopy
  <2> QED BY <1>1, <2>1, SealRests
<1> QED BY <1>2, <1>3, <1>4, <1>5, <1>6 DEF T!Manage

LEMMA SealRounds ==
    ASSUME SealInv, NEW w \in Janitors, T!RunPendingJobs(w) \/ T!Crash(w)
    PROVE  SealInv'
<1>1. w \in T!Threads
  BY DEF T!Threads
<1> USE DEF T!Goto, T!Abort, T!store, T!world, T!history
<1>2. CASE T!BeginRound(w) \/ T!Export(w) \/ T!ListDeletions(w) \/ T!TakeDeletion(w) \/ T!EndRound(w)
           \/ T!JudgeDeletion(w) \/ T!JudgeTransition(w)
  <2>1. PICK place : /\ place \notin {"marking", "reactivating", "purging"}
                     /\ at' = at \/ (at[w] # "purging" /\ at' = [at EXCEPT ![w] = place])
    <3>1. CASE T!BeginRound(w) \/ T!ListDeletions(w) \/ T!EndRound(w)
      BY <3>1 DEF T!BeginRound, T!ListDeletions, T!EndRound
    <3>2. CASE T!Export(w)
      BY <3>2 DEF T!Export, T!StorePackage, T!CloseExport, T!LinkExport, T!MarkFinalExported
    <3>3. CASE T!TakeDeletion(w)
      BY <3>3 DEF T!TakeDeletion
    <3>4. CASE T!JudgeDeletion(w) \/ T!JudgeTransition(w)
      BY <3>4 DEF T!JudgeDeletion, T!JudgeTransition
    <3> QED BY <1>2, <3>1, <3>2, <3>3, <3>4
  <2>2. UNCHANGED <<tenant, layers, stranded, crossed>>
    BY <1>2 DEF T!BeginRound, T!Export, T!StorePackage, T!CloseExport, T!LinkExport, T!MarkFinalExported,
           T!ListDeletions, T!TakeDeletion, T!EndRound, T!JudgeDeletion, T!JudgeTransition
  <2> QED BY <1>1, <2>1, <2>2, SealRests
<1>3. CASE T!SealTenant(w)
  <2>1. /\ at' = [at EXCEPT ![w] = "purging"] /\ tenant' = "deleted" /\ UNCHANGED <<layers, stranded>>
        /\ crossed' = (crossed \/ Writing)
    BY <1>3 DEF T!SealTenant, Writing
  <2>2. Purging'
    BY <1>1, <2>1 DEF Purging, SealInv
  <2>3. Writing' => Writing
    BY <1>1, <2>1 DEF Writing, T!Threads, SealInv
  <2>4. crossed' \in BOOLEAN /\ (Writing' => crossed')
    BY <2>1, <2>3 DEF SealInv
  <2> QED BY <2>1, <2>2, <2>4 DEF SealInv
<1>4. CASE T!PurgeLayer(w)
  <2>1. UNCHANGED <<at, tenant, stranded, crossed>> /\ at[w] = "purging"
    BY <1>4 DEF T!PurgeLayer
  <2>2. Purging /\ UNCHANGED <<Purging, Writing>>
    BY <2>1 DEF Purging, Writing
  <2> QED BY <2>1, <2>2 DEF SealInv
<1>5. CASE T!CloseDeletion(w)
  <2>1. /\ at' = [at EXCEPT ![w] = "deleting"] /\ UNCHANGED <<tenant, layers, stranded, crossed>>
        /\ layers = <<>> /\ at[w] = "purging"
    BY <1>5 DEF T!CloseDeletion
  <2>2. Purging /\ (Writing' => Writing)
    BY <1>1, <2>1 DEF Purging, Writing, T!Threads, SealInv
  <2> QED BY <2>1, <2>2 DEF SealInv
<1>6. CASE T!Crash(w)
  <2>1. /\ at' = [at EXCEPT ![w] = "idle"] /\ UNCHANGED <<tenant, layers, crossed>>
        /\ stranded' = (stranded \/ (at[w] = "purging" /\ layers # <<>>))
    BY <1>6 DEF T!Crash
  <2>2. (Writing' => Writing) /\ (Purging' => Purging)
    BY <1>1, <2>1 DEF Purging, Writing, T!Threads, SealInv
  <2>3. Purging => Purging' \/ at[w] = "purging"
    BY <1>1, <2>1 DEF Purging, T!Threads, SealInv
  <2> QED BY <2>1, <2>2, <2>3 DEF SealInv
<1> QED BY <1>2, <1>3, <1>4, <1>5, <1>6 DEF T!RunPendingJobs, T!ExecuteDeletion

LEMMA SealOfSystem ==
    ASSUME SealInv, [Next]_vars
    PROVE  SealInv'
<1>1. T!Next \/ UNCHANGED tVars
  BY DEF Next, vars
<1>2. CASE UNCHANGED tVars
  BY <1>2 DEF tVars, SealInv, Purging, Writing
<1>3. CASE T!Mature
  BY <1>3 DEF T!Mature, T!store, T!history, SealInv, Purging, Writing
<1>4. CASE T!Next
  BY <1>3, <1>4, SealManaged, SealRounds DEF T!Next
<1> QED BY <1>1, <1>2, <1>4

LEMMA SealInit ==
    ASSUME T!Init
    PROVE  SealInv
BY DEF T!Init, SealInv, Purging, Writing, T!Threads

-----------------------------------------------------------------------------
(*                          What hangs on runs                             *)

HangInv ==
    /\ runs \in [RunIds -> Int] /\ clock \in Nat
    /\ artifacts \subseteq RunIds /\ R!NothingHangs

LEMMA HangOfSystem ==
    ASSUME HangInv, [Next]_vars
    PROVE  HangInv'
<1>1. R!Next \/ UNCHANGED rVars
  BY DEF Next, vars
<1>2. CASE UNCHANGED rVars
  BY <1>2 DEF rVars, HangInv, R!NothingHangs, R!Expired
<1>3. CASE R!Tick
  BY <1>3 DEF R!Tick, R!runVars, HangInv, R!NothingHangs, R!Expired
<1>4. CASE R!StorePackage \/ R!PurgePackages
  BY <1>4 DEF R!StorePackage, R!PurgePackages, R!runVars, HangInv, R!NothingHangs, R!Expired
<1>5. ASSUME NEW r \in RunIds, R!Request(r)
      PROVE  HangInv'
  <2>1. CASE R!ReadTask(r)
    BY <2>1 DEF R!ReadTask, HangInv, R!NothingHangs, R!Expired
  <2>2. CASE R!StartRun(r)
    <3>1. \A q \in RunIds : runs'[q] = IF q = r THEN clock ELSE runs[q]
      BY <2>2 DEF R!StartRun, HangInv
    <3>2. UNCHANGED <<clock, task, artifacts>> /\ orphans \subseteq orphans' /\ (task = -1 => r \in orphans')
      BY <2>2 DEF R!StartRun
    <3>3. runs' \in [RunIds -> Int]
      BY <2>2 DEF R!StartRun, HangInv
    <3> QED BY <3>1, <3>2, <3>3 DEF HangInv, R!NothingHangs, R!Expired
  <2>3. CASE R!RegisterArtifact(r)
    BY <2>3 DEF R!RegisterArtifact, HangInv, R!NothingHangs, R!Expired
  <2> QED BY <1>5, <2>1, <2>2, <2>3 DEF R!Request
<1>6. ASSUME NEW p \in Purgers, R!PurgeRuns(p)
      PROVE  HangInv'
  <2>1. CASE R!SelectExpired(p)
    BY <2>1 DEF R!SelectExpired, HangInv, R!NothingHangs, R!Expired
  <2>2. CASE R!RollBackPurge(p)
    BY <2>2 DEF R!RollBackPurge, HangInv, R!NothingHangs, R!Expired
  <2>3. CASE R!PurgeExpired(p)
    <3>1. PICK kept : kept = [r \in RunIds |-> IF r \in purging[p] THEN -1 ELSE runs[r]]
      OBVIOUS
    <3>2. /\ runs' = kept /\ task' = (IF R!TaskIsFree(kept) THEN -1 ELSE task)
          /\ artifacts' = artifacts \ purging[p] /\ UNCHANGED <<clock, orphans>>
      BY <2>3, <3>1 DEF R!PurgeExpired
    <3>3. \A r \in RunIds : kept[r] = -1 \/ (kept[r] = runs[r] /\ r \notin purging[p])
      BY <3>1
    <3>4. kept \in [RunIds -> Int]
      BY <3>1 DEF HangInv
    <3>5. \A r \in artifacts' : kept[r] # -1
      BY <3>1, <3>2 DEF HangInv, R!NothingHangs
    <3>6. task' = -1 => \A r \in RunIds : kept[r] = -1 \/ R!Expired(kept[r]) \/ r \in orphans
      <4>1. CASE R!TaskIsFree(kept)
        BY <4>1 DEF R!TaskIsFree
      <4>2. CASE ~R!TaskIsFree(kept)
        BY <3>2, <3>3, <4>2 DEF HangInv, R!NothingHangs
      <4> QED BY <4>1, <4>2
    <3> QED BY <3>2, <3>4, <3>5, <3>6 DEF HangInv, R!NothingHangs, R!Expired
  <2> QED BY <1>6, <2>1, <2>2, <2>3 DEF R!PurgeRuns
<1>7. ASSUME R!Next
      PROVE  HangInv'
  BY <1>3, <1>4, <1>5, <1>6, <1>7 DEF R!Next
<1> QED BY <1>1, <1>2, <1>7

\* Nothing of a tenant is purged before a package was made of it and its
\* cooling-off period is over; what is deleted is purged to the end unless a
\* purge was cut off, and stays deleted unless a request crossed the worker.
\* No row hangs on a run that was purged, and a run without its task has
\* expired or was started by a request that had read the task.
THEOREM PurgesSafe == Spec => []PurgesAreSafe
<1>1. Init => TenantInv /\ SealInv /\ HangInv
  BY TenantInit, SealInit DEF Init, R!Init, HangInv, R!NothingHangs
<1>2. TenantInv /\ SealInv /\ HangInv /\ [Next]_vars => TenantInv' /\ SealInv' /\ HangInv'
  BY TenantOfSystem, SealOfSystem, HangOfSystem
<1>3. TenantInv /\ SealInv /\ HangInv => PurgesAreSafe
  BY DEF PurgesAreSafe, T!PurgedWasExported, TenantInv, LayersOK, Packed, Cooled, SealInv, Purging, HangInv
<1> QED BY <1>1, <1>2, <1>3, PTL DEF Spec

-----------------------------------------------------------------------------
(*                 Packages and bindings: inductive invariant              *)

SkillPlaces == SkillKeys \X S!Versions

\* A package that passed its review was reviewed by another than its owner.
PackageOK(row) ==
    /\ row \in S!Rows
    /\ row.status \in {"approved", "enabled", "disabled"} => row.reviewer \in Reviewers \ {row.owner}

PackagesOK ==
    /\ DOMAIN skills = SkillPlaces
    /\ \A s \in SkillPlaces : skills[s] # NoSkill => PackageOK(skills[s])

\* Some version of a package has been enabled.
Earned(k) == \E v \in S!Versions : S!StatusIn(<<k, v>>, {"enabled", "disabled"})

BindingsOK ==
    /\ DOMAIN bindings = S!Pairs
    /\ ~wiped => \A b \in S!Pairs : bindings[b] = "active" => Earned(b[2])

\* A request under review is about a package of another, one to bind about a
\* package that has been enabled.
MindOK(p, do) ==
    \/ /\ do.op = "insert" /\ do.key \in SkillKeys /\ do.version \in S!Versions /\ do.tools \in SUBSET Tools
    \/ /\ do.op = "review" /\ do.key \in SkillKeys /\ do.version \in S!Versions /\ p \in Reviewers
       /\ S!Has(<<do.key, do.version>>) => skills[<<do.key, do.version>>].owner # p
    \/ /\ do.op = "bind" /\ do.agent \in Agents /\ do.key \in SkillKeys
       /\ ~wiped => Earned(do.key)

MindsOK ==
    /\ DOMAIN mind = SkillPeople
    /\ \A p \in SkillPeople : mind[p] # Idle => MindOK(p, mind[p])

SkillInv == PackagesOK /\ BindingsOK /\ MindsOK

-----------------------------------------------------------------------------
(*                            What a step keeps                            *)

\* A package keeps its owner, or is new and another's; what was enabled once
\* is so until the tenant's data goes.
Lasts(p) ==
    /\ wiped => wiped'
    /\ \A s \in SkillPlaces : S!Has(s)' => skills'[s].owner = p \/ (S!Has(s) /\ skills'[s].owner = skills[s].owner)
    /\ ~wiped' => \A k \in SkillKeys : Earned(k) => Earned(k)'

LEMMA MindLasts ==
    ASSUME NEW p, Lasts(p), NEW q, q # p, NEW do, MindOK(q, do)
    PROVE  MindOK(q, do)'
<1>1. CASE do.op = "insert"
  BY <1>1 DEF MindOK
<1>2. CASE do.op = "review"
  <2>1. <<do.key, do.version>> \in SkillPlaces
    BY <1>2 DEF MindOK, SkillPlaces
  <2>2. S!Has(<<do.key, do.version>>)' => skills'[<<do.key, do.version>>].owner # q
    BY <1>2, <2>1 DEF MindOK, Lasts
  <2> QED BY <1>2, <2>2 DEF MindOK
<1>3. CASE do.op = "bind"
  BY <1>3 DEF MindOK, Lasts
<1> QED BY <1>1, <1>2, <1>3 DEF MindOK

\* The request of one person goes on.
LEMMA MindGoes ==
    ASSUME MindsOK, NEW p \in SkillPeople, Lasts(p), NEW do, mind' = [mind EXCEPT ![p] = do],
           do # Idle => MindOK(p, do)'
    PROVE  MindsOK'
<1>1. DOMAIN mind' = SkillPeople
  BY DEF MindsOK
<1>2. ASSUME NEW q \in SkillPeople, mind'[q] # Idle
      PROVE  MindOK(q, mind[q])'
  <2>1. CASE q = p
    BY <1>2, <2>1 DEF MindsOK
  <2>2. CASE q # p
    <3>1. PICK x : x = mind[q]
      OBVIOUS
    <3>2. MindOK(q, x) /\ mind'[q] = x
      BY <1>2, <2>2, <3>1 DEF MindsOK
    <3>3. MindOK(q, x)'
      BY <2>2, <3>2, MindLasts
    <3> QED BY <3>2, <3>3
  <2> QED BY <2>1, <2>2
<1> QED BY <1>1, <1>2 DEF MindsOK

\* Everybody's request rests; Idle stands for nobody.
LEMMA MindsRest ==
    ASSUME MindsOK, UNCHANGED mind, \A p \in SkillPeople : \A do : MindOK(p, do) => MindOK(p, do)'
    PROVE  MindsOK'
<1>1. ASSUME NEW q \in SkillPeople, mind'[q] # Idle
      PROVE  MindOK(q, mind[q])'
  <2>1. PICK x : x = mind[q]
    OBVIOUS
  <2>2. MindOK(q, x) /\ mind'[q] = x
    BY <1>1, <2>1 DEF MindsOK
  <2> QED BY <2>2
<1> QED BY <1>1 DEF MindsOK

LEMMA PackagesRest ==
    ASSUME UNCHANGED <<skills, wiped>>
    PROVE  /\ PackagesOK => PackagesOK'
           /\ \A p : Lasts(p)
           /\ \A p, do : MindOK(p, do) => MindOK(p, do)'
           /\ \A k : Earned(k) => Earned(k)'
<1>1. \A k : Earned(k) => Earned(k)'
  BY DEF Earned, S!StatusIn, S!Has
<1> QED BY <1>1 DEF PackagesOK, Lasts, MindOK, S!Has

\* A package is rewritten, its owner stays.
LEMMA PackageChanges ==
    ASSUME PackagesOK, NEW s \in SkillPlaces, NEW row, PackageOK(row), skills' = [skills EXCEPT ![s] = row], UNCHANGED wiped,
           S!Has(s) /\ row.owner = skills[s].owner,
           skills[s].status \in {"enabled", "disabled"} => row.status \in {"enabled", "disabled"},
           row # NoSkill
    PROVE  /\ PackagesOK'
           /\ \A p : Lasts(p)
           /\ \A p, do : MindOK(p, do) => MindOK(p, do)'
           /\ \A k \in SkillKeys : Earned(k) => Earned(k)'
<1>1. /\ DOMAIN skills' = SkillPlaces /\ skills'[s] = row
      /\ \A t \in SkillPlaces : t # s => skills'[t] = skills[t]
  BY DEF PackagesOK
<1>2. PackagesOK'
  BY <1>1 DEF PackagesOK
<1>3. \A t \in SkillPlaces : /\ S!Has(t)' => S!Has(t)
                             /\ S!Has(t) => skills'[t].owner = skills[t].owner
                             /\ S!StatusIn(t, {"enabled", "disabled"}) => S!StatusIn(t, {"enabled", "disabled"})'
  BY <1>1 DEF S!Has, S!StatusIn
<1>4. \A k \in SkillKeys : Earned(k) => Earned(k)'
  <2>1. ASSUME NEW k \in SkillKeys, NEW v \in S!Versions, S!StatusIn(<<k, v>>, {"enabled", "disabled"})
        PROVE  S!StatusIn(<<k, v>>, {"enabled", "disabled"})'
    <3>1. <<k, v>> \in SkillPlaces
      BY DEF SkillPlaces
    <3> QED BY <1>3, <2>1, <3>1
  <2> QED BY <2>1 DEF Earned
<1>5. \A p : Lasts(p)
  BY <1>3, <1>4 DEF Lasts
<1>6. ASSUME NEW p, NEW do, MindOK(p, do)
      PROVE  MindOK(p, do)'
  <2>1. \E q : q # p
    <3>1. "review" # "bind"
      OBVIOUS
    <3> QED BY <3>1
  <2> QED BY <1>5, <1>6, <2>1, MindLasts
<1> QED BY <1>2, <1>4, <1>5, <1>6

-----------------------------------------------------------------------------
(*                                The steps                                *)

LEMMA Declares ==
    ASSUME SkillInv, NEW p \in SkillPeople, S!Declare(p)
    PROVE  SkillInv'
<1>1. ASSUME NEW k \in SkillKeys, NEW v \in S!Versions, NEW tools \in SUBSET Tools, S!SubmitChecks(p, k, v, tools)
      PROVE  SkillInv'
  <2>1. PICK do : do = [op |-> "insert", key |-> k, version |-> v, tools |-> tools]
    OBVIOUS
  <2>2. mind' = [mind EXCEPT ![p] = do] /\ UNCHANGED <<skills, bindings, wiped>>
    BY <1>1, <2>1 DEF S!SubmitChecks, S!Begin
  <2>3. MindOK(p, do)'
    BY <2>1 DEF MindOK
  <2>4. PackagesOK' /\ Lasts(p) /\ BindingsOK'
    BY <2>2, PackagesRest DEF SkillInv, BindingsOK
  <2> QED BY <2>2, <2>3, <2>4, MindGoes DEF SkillInv
<1>2. CASE S!SubmitInserts(p)
  <2>1. PICK do : do = mind[p]
    OBVIOUS
  <2>2. /\ do # Idle /\ do.op = "insert" /\ mind' = [mind EXCEPT ![p] = Idle]
        /\ UNCHANGED <<bindings, wiped>>
    BY <1>2, <2>1 DEF S!SubmitInserts, S!End
  <2>3. do.key \in SkillKeys /\ do.version \in S!Versions /\ do.tools \in SUBSET Tools
    BY <2>1, <2>2 DEF SkillInv, MindsOK, MindOK
  <2>4. PICK s, row : /\ s = <<do.key, do.version>>
                      /\ row = [status |-> "submitted", owner |-> p, reviewer |-> NoSkill, tools |-> do.tools]
    OBVIOUS
  <2>5. s \in SkillPlaces
    BY <2>3, <2>4 DEF SkillPlaces
  <2>6. PackageOK(row) /\ row.owner = p
    BY <2>3, <2>4 DEF PackageOK, S!Rows
  <2>7. skills' = IF S!Has(s) THEN skills ELSE [skills EXCEPT ![s] = row]
    BY <1>2, <2>1, <2>4 DEF S!SubmitInserts
  <2>8. CASE S!Has(s)
    BY <2>2, <2>7, <2>8, PackagesRest, MindGoes DEF SkillInv, BindingsOK
  <2>9. CASE ~S!Has(s)
    <3>1. /\ DOMAIN skills' = SkillPlaces /\ skills'[s] = row
          /\ \A t \in SkillPlaces : t # s => skills'[t] = skills[t]
      BY <2>5, <2>7, <2>9 DEF SkillInv, PackagesOK
    <3>2. PackagesOK'
      BY <2>6, <3>1 DEF SkillInv, PackagesOK
    <3>3. \A t \in SkillPlaces : /\ t # s => (S!Has(t)' => S!Has(t)) /\ (S!Has(t) => skills'[t].owner = skills[t].owner)
                                 /\ S!StatusIn(t, {"enabled", "disabled"}) => S!StatusIn(t, {"enabled", "disabled"})'
      BY <2>9, <3>1 DEF S!Has, S!StatusIn
    <3>4. ASSUME NEW k \in SkillKeys, Earned(k)
          PROVE  Earned(k)'
      <4>1. PICK v \in S!Versions : S!StatusIn(<<k, v>>, {"enabled", "disabled"})
        BY <3>4 DEF Earned
      <4>2. <<k, v>> \in SkillPlaces
        BY DEF SkillPlaces
      <4>3. S!StatusIn(<<k, v>>, {"enabled", "disabled"})'
        BY <3>3, <4>1, <4>2
      <4> QED BY <4>3 DEF Earned
    <3>5. Lasts(p)
      BY <2>2, <2>6, <3>1, <3>3, <3>4 DEF Lasts
    <3>6. BindingsOK'
      BY <2>2, <3>4 DEF SkillInv, BindingsOK, S!Pairs
    <3> QED BY <2>2, <3>2, <3>5, <3>6, MindGoes DEF SkillInv
  <2> QED BY <2>8, <2>9
<1> QED BY <1>1, <1>2 DEF S!Declare

\* A row with a new status, and with the reviewer's name.
Switched(row, status) == [row EXCEPT !.status = status]
Judged(row, verdict, p) == [row EXCEPT !.status = verdict, !.reviewer = p]

LEMMA SwitchedIs ==
    ASSUME NEW row \in S!Rows, NEW status \in {"enabled", "disabled"}
    PROVE  /\ Switched(row, status) \in S!Rows /\ Switched(row, status).status = status
           /\ Switched(row, status).owner = row.owner /\ Switched(row, status).reviewer = row.reviewer
BY DEF Switched, S!Rows

LEMMA JudgedIs ==
    ASSUME NEW row \in S!Rows, NEW verdict \in {"approved", "rejected"}, NEW p \in SkillPeople
    PROVE  /\ Judged(row, verdict, p) \in S!Rows /\ Judged(row, verdict, p).status = verdict
           /\ Judged(row, verdict, p).owner = row.owner /\ Judged(row, verdict, p).reviewer = p
BY DEF Judged, S!Rows

LEMMA ReviewsPackage ==
    ASSUME SkillInv, NEW p \in SkillPeople, S!Review(p)
    PROVE  SkillInv'
<1>1. ASSUME NEW k \in SkillKeys, NEW v \in S!Versions, S!ReviewReads(p, k, v)
      PROVE  SkillInv'
  <2>1. PICK do : do = [op |-> "review", key |-> k, version |-> v]
    OBVIOUS
  <2>2. mind' = [mind EXCEPT ![p] = do] /\ UNCHANGED <<skills, bindings, wiped>>
    BY <1>1, <2>1 DEF S!ReviewReads, S!Begin
  <2>3. p \in Reviewers /\ skills[<<k, v>>].owner # p
    BY <1>1 DEF S!ReviewReads
  <2>4. do.op = "review" /\ do.key = k /\ do.version = v
    BY <2>1
  <2>5. MindOK(p, do)
    BY <2>3, <2>4 DEF MindOK
  <2>6. PackagesOK' /\ Lasts(p) /\ BindingsOK' /\ MindOK(p, do)'
    BY <2>2, <2>5, PackagesRest DEF SkillInv, BindingsOK
  <2> QED BY <2>2, <2>6, MindGoes DEF SkillInv
<1>2. ASSUME NEW verdict \in {"approved", "rejected"}, S!ReviewUpdates(p, verdict)
      PROVE  SkillInv'
  <2>1. PICK do, s : do = mind[p] /\ s = <<do.key, do.version>>
    OBVIOUS
  <2>2. /\ do # Idle /\ do.op = "review" /\ mind' = [mind EXCEPT ![p] = Idle]
        /\ UNCHANGED <<bindings, wiped>>
    BY <1>2, <2>1 DEF S!ReviewUpdates, S!End
  <2>3. /\ do.key \in SkillKeys /\ do.version \in S!Versions /\ p \in Reviewers
        /\ S!Has(s) => skills[s].owner # p
    BY <2>1, <2>2 DEF SkillInv, MindsOK, MindOK
  <2>4. s \in SkillPlaces
    BY <2>1, <2>3 DEF SkillPlaces
  <2>5. PICK row : row = Judged(skills[s], verdict, p)
    OBVIOUS
  <2>6. skills' = IF S!StatusIn(s, {"submitted"}) THEN [skills EXCEPT ![s] = row] ELSE skills
    <3>1. PICK new : new = [skills EXCEPT ![s].status = verdict, ![s].reviewer = p]
      OBVIOUS
    <3>2. new = [skills EXCEPT ![s] = row]
      <4>1. new = [skills EXCEPT ![s] = Judged(skills[s], verdict, p)]
        BY <3>1, Zenon DEF Judged
      <4> QED BY <2>5, <4>1
    <3>3. skills' = IF S!StatusIn(s, {"submitted"}) THEN new ELSE skills
      BY <1>2, <2>1, <3>1, Zenon DEF S!ReviewUpdates
    <3> QED BY <3>2, <3>3, Zenon
  <2>7. CASE S!StatusIn(s, {"submitted"})
    <3>1. S!Has(s) /\ skills[s].status = "submitted" /\ PackageOK(skills[s])
      BY <2>4, <2>7 DEF S!StatusIn, S!Has, SkillInv, PackagesOK
    <3>2. /\ row \in S!Rows /\ row.status = verdict /\ row.owner = skills[s].owner /\ row.reviewer = p
      BY <2>5, <3>1, JudgedIs DEF PackageOK
    <3>3. PackageOK(row) /\ row # NoSkill
      BY <2>3, <3>1, <3>2, SkillAssumption DEF PackageOK
    <3>4. skills' = [skills EXCEPT ![s] = row]
      BY <2>6, <2>7
    <3>5. PackagesOK' /\ Lasts(p) /\ \A k \in SkillKeys : Earned(k) => Earned(k)'
      BY <2>2, <2>4, <3>1, <3>2, <3>3, <3>4, PackageChanges DEF SkillInv
    <3>6. BindingsOK'
      BY <2>2, <3>5 DEF SkillInv, BindingsOK, S!Pairs
    <3> QED BY <2>2, <3>5, <3>6, MindGoes DEF SkillInv
  <2>8. CASE ~S!StatusIn(s, {"submitted"})
    BY <2>2, <2>6, <2>8, PackagesRest, MindGoes DEF SkillInv, BindingsOK
  <2> QED BY <2>7, <2>8
<1>3. ASSUME NEW s \in DOMAIN skills, NEW allowed, allowed \in SUBSET {"approved", "enabled", "disabled"},
             NEW status \in {"enabled", "disabled"}, S!UpdateStatus(s, allowed, status)
      PROVE  SkillInv'
  <2>1. PICK row : row = Switched(skills[s], status)
    OBVIOUS
  <2>2. /\ S!Has(s) /\ skills[s].status \in allowed /\ skills' = [skills EXCEPT ![s] = row]
        /\ UNCHANGED <<bindings, mind, wiped>>
    BY <1>3, <2>1 DEF S!UpdateStatus, S!StatusIn, Switched
  <2>3. s \in SkillPlaces /\ PackageOK(skills[s])
    BY <2>2 DEF S!Has, SkillInv, PackagesOK
  <2>4. /\ row \in S!Rows /\ row.status = status /\ row.owner = skills[s].owner /\ row.reviewer = skills[s].reviewer
    BY <2>1, <2>3, SwitchedIs DEF PackageOK
  <2>5. PackageOK(row) /\ row # NoSkill
    BY <1>3, <2>2, <2>3, <2>4, SkillAssumption DEF PackageOK
  <2>6. /\ PackagesOK' /\ \A p_1, do : MindOK(p_1, do) => MindOK(p_1, do)'
        /\ \A k \in SkillKeys : Earned(k) => Earned(k)'
    BY <2>2, <2>3, <2>4, <2>5, PackageChanges DEF SkillInv
  <2>7. BindingsOK'
    BY <2>2, <2>6 DEF SkillInv, BindingsOK, S!Pairs
  <2>8. MindsOK'
    BY <2>2, <2>6, MindsRest DEF SkillInv
  <2> QED BY <2>6, <2>7, <2>8 DEF SkillInv
<1>4. ASSUME NEW s \in DOMAIN skills, S!Enable(p, s) \/ S!Disable(p, s)
      PROVE  SkillInv'
  <2>1. S!UpdateStatus(s, {"approved", "disabled"}, "enabled") \/ S!UpdateStatus(s, {"enabled"}, "disabled")
    BY <1>4 DEF S!Enable, S!Disable
  <2> QED BY <1>3, <2>1
<1> QED BY <1>1, <1>2, <1>4 DEF S!Review

LEMMA Binds ==
    ASSUME SkillInv, NEW p \in SkillPeople, S!Bind(p)
    PROVE  SkillInv'
<1>1. ASSUME NEW a \in Agents, NEW k \in SkillKeys, S!BindChecks(p, a, k)
      PROVE  SkillInv'
  <2>1. PICK do : do = [op |-> "bind", agent |-> a, key |-> k]
    OBVIOUS
  <2>2. mind' = [mind EXCEPT ![p] = do] /\ UNCHANGED <<skills, bindings, wiped>>
    BY <1>1, <2>1 DEF S!BindChecks, S!Begin
  <2>3. Earned(k)
    BY <1>1 DEF S!BindChecks, S!Enabled, Earned, S!StatusIn
  <2>4. do.op = "bind" /\ do.agent = a /\ do.key = k
    BY <2>1
  <2>5. MindOK(p, do)
    BY <2>3, <2>4 DEF MindOK
  <2>6. PackagesOK' /\ Lasts(p) /\ BindingsOK' /\ MindOK(p, do)'
    BY <2>2, <2>5, PackagesRest DEF SkillInv, BindingsOK
  <2> QED BY <2>2, <2>6, MindGoes DEF SkillInv
<1>2. CASE S!BindWrites(p)
  <2>1. PICK do, b : do = mind[p] /\ b = <<do.agent, do.key>>
    OBVIOUS
  <2>2. /\ do # Idle /\ do.op = "bind" /\ mind' = [mind EXCEPT ![p] = Idle]
        /\ bindings' = [bindings EXCEPT ![b] = "active"] /\ UNCHANGED <<skills, wiped>>
    BY <1>2, <2>1 DEF S!BindWrites, S!End
  <2>3. ~wiped => Earned(do.key)
    BY <2>1, <2>2 DEF SkillInv, MindsOK, MindOK
  <2>4. b[2] = do.key
    BY <2>1
  <2>5. BindingsOK'
    <3>1. \A c \in S!Pairs : bindings'[c] = bindings[c] \/ c = b
      BY <2>2 DEF SkillInv, BindingsOK
    <3>2. DOMAIN bindings' = S!Pairs
      BY <2>2 DEF SkillInv, BindingsOK
    <3>3. \A c \in S!Pairs : ~wiped' /\ bindings'[c] = "active" => Earned(c[2])
      BY <2>2, <2>3, <2>4, <3>1 DEF SkillInv, BindingsOK
    <3>4. \A c \in S!Pairs : ~wiped' /\ bindings'[c] = "active" => Earned(c[2])'
      BY <2>2, <3>3 DEF Earned, S!StatusIn, S!Has
    <3> QED BY <3>2, <3>4 DEF BindingsOK
  <2> QED BY <2>2, <2>5, PackagesRest, MindGoes DEF SkillInv
<1>3. ASSUME NEW b \in S!Pairs, S!Unbind(p, b)
      PROVE  SkillInv'
  <2>1. bindings' = [bindings EXCEPT ![b] = "disabled"] /\ UNCHANGED <<skills, mind, wiped>>
    BY <1>3 DEF S!Unbind
  <2>2. DOMAIN bindings' = S!Pairs /\ \A c \in S!Pairs : bindings'[c] = "active" => bindings[c] = "active"
    BY <2>1 DEF SkillInv, BindingsOK
  <2>3. BindingsOK'
    BY <2>1, <2>2, PackagesRest DEF SkillInv, BindingsOK
  <2> QED BY <2>1, <2>3, PackagesRest, MindsRest DEF SkillInv
<1> QED BY <1>1, <1>2, <1>3 DEF S!Bind

LEMMA RepairsAndWipes ==
    ASSUME SkillInv, S!Repair \/ S!Wipe
    PROVE  SkillInv'
<1>1. CASE S!FindViolations
  <2>1. UNCHANGED <<skills, bindings, mind, wiped>>
    BY <1>1 DEF S!FindViolations
  <2> QED BY <2>1, PackagesRest, MindsRest DEF SkillInv, BindingsOK
<1>2. CASE S!DisableRows
  <2>1. UNCHANGED <<skills, mind, wiped>>
    BY <1>2 DEF S!DisableRows
  <2>2. DOMAIN bindings' = S!Pairs /\ \A c \in S!Pairs : bindings'[c] = "active" => bindings[c] = "active"
    BY <1>2 DEF S!DisableRows
  <2>3. BindingsOK'
    BY <2>1, <2>2, PackagesRest DEF SkillInv, BindingsOK
  <2> QED BY <2>1, <2>3, PackagesRest, MindsRest DEF SkillInv
<1>3. CASE S!Wipe
  <2>1. wiped' /\ UNCHANGED mind /\ DOMAIN skills' = SkillPlaces /\ \A s \in SkillPlaces : skills'[s] = NoSkill
    BY <1>3 DEF S!Wipe, SkillInv, PackagesOK
  <2>2. PackagesOK' /\ BindingsOK'
    BY <1>3, <2>1 DEF S!Wipe, PackagesOK, BindingsOK
  <2>3. ASSUME NEW p \in SkillPeople, NEW do, MindOK(p, do)
        PROVE  MindOK(p, do)'
    <3>1. CASE do.op = "review"
      <4>1. <<do.key, do.version>> \in SkillPlaces
        BY <2>3, <3>1 DEF MindOK, SkillPlaces
      <4> QED BY <2>1, <2>3, <3>1, <4>1 DEF MindOK, S!Has
    <3>2. CASE do.op # "review"
      BY <2>1, <2>3, <3>2 DEF MindOK
    <3> QED BY <3>1, <3>2
  <2> QED BY <2>1, <2>2, <2>3, MindsRest DEF SkillInv
<1> QED BY <1>1, <1>2, <1>3 DEF S!Repair

LEMMA SkillOfSystem ==
    ASSUME SkillInv, [Next]_vars
    PROVE  SkillInv'
<1>1. S!Next \/ UNCHANGED sVars
  BY DEF Next, vars
<1>2. ASSUME UNCHANGED sVars
      PROVE  SkillInv'
  <2>1. UNCHANGED <<skills, bindings, mind, wiped>>
    BY <1>2 DEF sVars
  <2> QED BY <2>1, PackagesRest, MindsRest DEF SkillInv, BindingsOK
<1>3. ASSUME S!Next
      PROVE  SkillInv'
  BY <1>3, Declares, ReviewsPackage, Binds, RepairsAndWipes DEF S!Next
<1> QED BY <1>1, <1>2, <1>3

LEMMA SkillInit ==
    ASSUME S!Init
    PROVE  SkillInv
BY DEF S!Init, SkillInv, PackagesOK, BindingsOK, MindsOK, SkillPlaces

LEMMA ToolsVetted ==
    ASSUME SkillInv
    PROVE  S!ToolsWereVetted /\ S!BindingsWereEarned
<1>1. ASSUME NEW a \in Agents, NEW tool \in S!ExpandedTools(a)
      PROVE  \E s \in S!EnabledFor(a) : tool \in skills[s].tools /\ skills[s].reviewer \in Reviewers \ {skills[s].owner}
  <2>1. PICK s \in S!EnabledFor(a) : tool \in skills[s].tools
    BY <1>1 DEF S!ExpandedTools
  <2>2. s \in SkillPlaces /\ skills[s] # NoSkill /\ skills[s].status = "enabled"
    BY DEF S!EnabledFor, S!StatusIn, S!Has, SkillInv, PackagesOK
  <2>3. skills[s].reviewer \in Reviewers \ {skills[s].owner}
    BY <2>2 DEF SkillInv, PackagesOK, PackageOK
  <2> QED BY <2>1, <2>3
<1>2. S!BindingsWereEarned
  BY DEF S!BindingsWereEarned, SkillInv, BindingsOK, Earned
<1> QED BY <1>1, <1>2 DEF S!ToolsWereVetted

-----------------------------------------------------------------------------
(*                     Documents, grants and searches                      *)

DocRows == [status : {"none", "draft", "published", "needs_review", "archived"},
            owner : Employees \cup {Nobody}, due : Nat \cup {-1}]

Reviewed(status) == status \in {"published", "needs_review"}
Shown(d) == d \in Documents /\ docs[d].status \in {"published", "needs_review", "archived"}
HasOwner(d) == docs[d].status # "none" /\ docs[d].owner # Nobody

DocsOK ==
    /\ docs \in [Documents -> DocRows] /\ today \in Nat
    /\ \A d \in Documents : Reviewed(docs[d].status) => docs[d].owner # Nobody /\ docs[d].due # -1

GrantsOK ==
    /\ DOMAIN grants = Employees /\ DOMAIN granted = Employees
    /\ \A r \in Employees : grants[r] \subseteq granted[r]

Entitled(p, bases) == p \in KnowledgeManagers \/ bases \subseteq granted[p]

\* What a request holds.
UpdateOK(do) ==
    /\ do.op = "update" /\ do.document \in Documents
    /\ do.status \in {"published", "archived"} /\ do.owner \in Employees \cup {Nobody}
    /\ do.due \in Nat \cup {-1}
    /\ do.status = "published" => do.due # -1 /\ (do.owner # Nobody \/ HasOwner(do.document))
BindOK(do) ==
    /\ do = [op |-> "bind", role |-> do.role, bases |-> do.bases, seen |-> do.seen] /\ do.role \in Employees
SearchOK(p, do) ==
    /\ do.op \in {"whitelist", "ask"} /\ Entitled(p, do.bases)
    /\ do.op = "ask" => \A d \in do.whitelist : Shown(d)
DeskOK(p, do) == UpdateOK(do) \/ BindOK(do) \/ SearchOK(p, do)

AnswersOK ==
    /\ DOMAIN answers = Employees
    /\ \A p \in Employees : \A d \in answers[p] : Shown(d) /\ Entitled(p, {HomeBase[d]})

KnowInv ==
    /\ DocsOK /\ GrantsOK /\ AnswersOK
    /\ DOMAIN desk = Employees
    /\ \A p \in Employees : desk[p] # Idle => DeskOK(p, desk[p])

-----------------------------------------------------------------------------
(*                            What a step keeps                            *)

\* What was shown stays out of draft, an owner stays, a grant stays granted.
Remembers ==
    /\ \A d : Shown(d) => Shown(d)'
    /\ \A d \in Documents : HasOwner(d) => HasOwner(d)'
    /\ \A p \in Employees : granted[p] \subseteq granted'[p]

LEMMA DeskRemembers ==
    ASSUME Remembers, NEW p \in Employees, NEW do, DeskOK(p, do)
    PROVE  DeskOK(p, do)'
<1>1. CASE UpdateOK(do)
  BY <1>1 DEF UpdateOK, DeskOK, Remembers
<1>2. CASE BindOK(do)
  BY <1>2 DEF BindOK, DeskOK
<1>3. CASE SearchOK(p, do)
  BY <1>3 DEF SearchOK, DeskOK, Remembers, Entitled
<1> QED BY <1>1, <1>2, <1>3 DEF DeskOK

LEMMA AnswersRemember ==
    ASSUME AnswersOK, Remembers, UNCHANGED answers
    PROVE  AnswersOK'
BY DEF AnswersOK, Remembers, Entitled

\* Documents and grants that rest.
LEMMA Rests ==
    ASSUME KnowInv, UNCHANGED <<docs, today, grants, granted>>
    PROVE  DocsOK' /\ GrantsOK' /\ Remembers
BY DEF KnowInv, DocsOK, GrantsOK, Remembers, Shown, HasOwner

\* One request goes on.
LEMMA DeskGoes ==
    ASSUME KnowInv, Remembers, DocsOK', GrantsOK', AnswersOK', NEW p \in Employees, NEW do,
           desk' = [desk EXCEPT ![p] = do], do # Idle => DeskOK(p, do)'
    PROVE  KnowInv'
<1>1. DOMAIN desk' = Employees
  BY DEF KnowInv
<1>2. ASSUME NEW q \in Employees, desk'[q] # Idle
      PROVE  DeskOK(q, desk[q])'
  <2>1. CASE q = p
    <3>1. desk'[q] = do
      BY <2>1 DEF KnowInv
    <3> QED BY <1>2, <2>1, <3>1
  <2>2. CASE q # p
    <3>1. PICK x : x = desk[q]
      OBVIOUS
    <3>2. desk'[q] = x /\ x # Idle
      BY <1>2, <2>2, <3>1 DEF KnowInv
    <3>3. DeskOK(q, x)
      BY <3>1, <3>2 DEF KnowInv
    <3>4. DeskOK(q, x)'
      BY <3>3, DeskRemembers
    <3> QED BY <3>2, <3>4
  <2> QED BY <2>1, <2>2
<1> QED BY <1>1, <1>2 DEF KnowInv

LEMMA DesksRest ==
    ASSUME KnowInv, Remembers, DocsOK', GrantsOK', AnswersOK', UNCHANGED desk
    PROVE  KnowInv'
<1>1. ASSUME NEW q \in Employees, desk'[q] # Idle
      PROVE  DeskOK(q, desk[q])'
  <2>1. PICK x : x = desk[q]
    OBVIOUS
  <2>2. DeskOK(q, x) /\ desk'[q] = x
    BY <1>1, <2>1 DEF KnowInv
  <2>3. DeskOK(q, x)'
    BY <2>2, DeskRemembers
  <2> QED BY <2>2, <2>3
<1> QED BY <1>1 DEF KnowInv

\* A document is rewritten.
LEMMA Rewrites ==
    ASSUME KnowInv, NEW d \in Documents, NEW row \in DocRows, docs' = [docs EXCEPT ![d] = row],
           UNCHANGED <<today, grants, granted, answers>>,
           Reviewed(row.status) => row.owner # Nobody /\ row.due # -1,
           row.status # "none",
           docs[d].status = "none" \/ row.status \in {"published", "needs_review", "archived"},
           docs[d].status # "none" /\ docs[d].owner # Nobody => row.owner # Nobody
    PROVE  DocsOK' /\ GrantsOK' /\ AnswersOK' /\ Remembers
<1>1. docs \in [Documents -> DocRows]
  BY DEF KnowInv, DocsOK
<1>2. /\ docs' \in [Documents -> DocRows] /\ docs'[d] = row
      /\ \A e \in Documents : e # d => docs'[e] = docs[e]
  BY <1>1
<1>3. DocsOK'
  BY <1>2 DEF KnowInv, DocsOK
<1>4. GrantsOK'
  BY DEF KnowInv, GrantsOK
<1>5. Remembers
  BY <1>2 DEF Remembers, Shown, HasOwner
<1> QED BY <1>3, <1>4, <1>5, AnswersRemember DEF KnowInv

-----------------------------------------------------------------------------
(*                                The steps                                *)

LEMMA Ticks ==
    ASSUME KnowInv, K!Tick
    PROVE  KnowInv'
<1>1. UNCHANGED <<docs, desk, grants, granted, answers>> /\ today' = today + 1
  BY DEF K!Tick
<1>2. DocsOK'
  BY <1>1 DEF KnowInv, DocsOK
<1>3. GrantsOK' /\ Remembers
  BY <1>1 DEF KnowInv, GrantsOK, Remembers, Shown, HasOwner
<1>4. AnswersOK'
  BY <1>1, <1>3, AnswersRemember DEF KnowInv
<1> QED BY <1>1, <1>2, <1>3, <1>4, DesksRest

Marked(row) == [row EXCEPT !.status = "needs_review"]

LEMMA MarkedIs ==
    ASSUME NEW row \in DocRows
    PROVE  /\ Marked(row) \in DocRows /\ Marked(row).status = "needs_review"
           /\ Marked(row).owner = row.owner /\ Marked(row).due = row.due
BY DEF Marked, DocRows

LEMMA Scans ==
    ASSUME KnowInv, K!ScanReviewDue
    PROVE  KnowInv'
<1>1. PICK d \in Documents : K!MarkReviewDue(d)
  BY DEF K!ScanReviewDue
<1>2. PICK row : row = Marked(docs[d])
  OBVIOUS
<1>3. /\ docs' = [docs EXCEPT ![d] = row] /\ docs[d].status = "published"
      /\ UNCHANGED <<today, desk, grants, granted, answers>>
  BY <1>1, <1>2 DEF K!MarkReviewDue, K!Due, Marked
<1>4. docs[d] \in DocRows /\ docs[d].owner # Nobody /\ docs[d].due # -1
  BY <1>3 DEF KnowInv, DocsOK, Reviewed
<1>5. row \in DocRows /\ row.status = "needs_review" /\ row.owner # Nobody /\ row.due # -1
  BY <1>2, <1>4, MarkedIs
<1>6. DocsOK' /\ GrantsOK' /\ AnswersOK' /\ Remembers
  BY <1>3, <1>5, Rewrites
<1> QED BY <1>3, <1>6, DesksRest

LEMMA Updates ==
    ASSUME KnowInv, NEW p \in Employees, K!UpdateStatus(p)
    PROVE  KnowInv'
<1>1. PICK do, d : do = desk[p] /\ d = do.document
  OBVIOUS
<1>2. UpdateOK(do) /\ desk' = [desk EXCEPT ![p] = Idle]
  BY <1>1 DEF K!UpdateStatus, K!End, KnowInv, DeskOK, BindOK, SearchOK, UpdateOK
<1>3. PICK row : row = [status |-> do.status,
                        owner |-> IF do.owner # Nobody THEN do.owner ELSE docs[d].owner,
                        due |-> IF do.due # -1 THEN do.due ELSE docs[d].due]
  OBVIOUS
<1>4. docs' = [docs EXCEPT ![d] = row] /\ UNCHANGED <<today, grants, granted, answers>>
  BY <1>1, <1>3 DEF K!UpdateStatus
<1>5. d \in Documents /\ docs[d] \in DocRows
  BY <1>1, <1>2 DEF UpdateOK, KnowInv, DocsOK
<1>6. row.status \in {"published", "archived"} /\ row \in DocRows
  BY <1>2, <1>3, <1>5 DEF UpdateOK, DocRows
<1>7. row.owner = (IF do.owner # Nobody THEN do.owner ELSE docs[d].owner) /\ row.due = (IF do.due # -1 THEN do.due ELSE docs[d].due)
      /\ row.status = do.status
  BY <1>3
<1>8. Reviewed(row.status) => row.owner # Nobody /\ row.due # -1
  BY <1>1, <1>2, <1>6, <1>7 DEF UpdateOK, Reviewed, HasOwner
<1>9. DocsOK' /\ GrantsOK' /\ AnswersOK' /\ Remembers
  BY <1>4, <1>5, <1>6, <1>7, <1>8, Rewrites
<1> QED BY <1>2, <1>9, DeskGoes

LEMMA Governs ==
    ASSUME KnowInv, NEW p \in Employees, NEW d \in Documents, K!Govern(p, d)
    PROVE  KnowInv'
<1>1. ASSUME NEW o \in Employees \cup {Nobody}, K!Register(p, d, o)
      PROVE  KnowInv'
  <2>1. PICK row : row = [status |-> "draft", owner |-> o, due |-> -1]
    OBVIOUS
  <2>2. row \in DocRows /\ row.status = "draft"
    BY <2>1 DEF DocRows
  <2>3. /\ docs[d].status = "none" /\ docs' = [docs EXCEPT ![d] = row]
        /\ UNCHANGED <<today, desk, grants, granted, answers>>
    BY <1>1, <2>1 DEF K!Register, K!Registered
  <2>4. DocsOK' /\ GrantsOK' /\ AnswersOK' /\ Remembers
    BY <2>2, <2>3, Rewrites DEF Reviewed
  <2> QED BY <2>3, <2>4, DesksRest
<1>2. ASSUME NEW status, NEW o, NEW due, K!Decide(p, d, status, o, due),
             status \in {"published", "archived"}, o \in Employees \cup {Nobody}, due \in Nat \cup {-1},
             status = "published" => due # -1 /\ (o # Nobody \/ HasOwner(d))
      PROVE  KnowInv'
  <2>1. PICK do : do = [op |-> "update", document |-> d, status |-> status, owner |-> o, due |-> due]
    OBVIOUS
  <2>2. desk' = [desk EXCEPT ![p] = do] /\ UNCHANGED <<docs, today, grants, granted, answers>>
    BY <1>2, <2>1 DEF K!Decide, K!Begin
  <2>3. DocsOK' /\ GrantsOK' /\ Remembers
    BY <2>2, Rests
  <2>4. AnswersOK'
    BY <2>2, <2>3, AnswersRemember DEF KnowInv
  <2>5. do.op = "update" /\ do.document = d /\ do.status = status /\ do.owner = o /\ do.due = due
    BY <2>1
  <2>6. UpdateOK(do)
    BY <1>2, <2>5 DEF UpdateOK
  <2>7. DeskOK(p, do)'
    BY <2>3, <2>6, DeskRemembers DEF DeskOK
  <2> QED BY <2>2, <2>3, <2>4, <2>7, DeskGoes
<1>3. today + GraceDays \in Nat /\ today + GraceDays # -1 /\ docs[d] \in DocRows
  BY ReviewAssumption DEF KnowInv, DocsOK
<1>4. ASSUME NEW o \in Employees \cup {Nobody}, K!PublishReads(p, d, o)
      PROVE  KnowInv'
  <2>1. PICK r : /\ r = (IF o # Nobody THEN o ELSE docs[d].owner) /\ r # Nobody
                 /\ K!Decide(p, d, "published", r, today + GraceDays)
    BY <1>4 DEF K!PublishReads
  <2>2. r \in Employees \cup {Nobody}
    BY <1>3, <2>1 DEF DocRows
  <2> QED BY <1>2, <1>3, <2>1, <2>2
<1>5. ASSUME K!Decide(p, d, "archived", Nobody, -1)
      PROVE  KnowInv'
  BY <1>2, <1>5
<1>6. ASSUME NEW approved \in BOOLEAN, K!ReviewReads(p, d, approved)
      PROVE  KnowInv'
  <2>1. \/ HasOwner(d) /\ K!Decide(p, d, "published", Nobody, today + GraceDays)
        \/ K!Decide(p, d, "archived", Nobody, -1)
    BY <1>6 DEF K!ReviewReads, HasOwner
  <2>2. CASE HasOwner(d) /\ K!Decide(p, d, "published", Nobody, today + GraceDays)
    BY <1>2, <1>3, <2>2
  <2> QED BY <1>5, <2>1, <2>2
<1> QED BY <1>1, <1>4, <1>5, <1>6 DEF K!Govern, K!Owners, K!ArchiveReads

LEMMA Grants ==
    ASSUME KnowInv, NEW p \in Employees, K!Grant(p)
    PROVE  KnowInv'
<1>1. ASSUME NEW r \in Employees, NEW bases, K!BindDeletes(p, r, bases)
      PROVE  KnowInv'
  <2>1. PICK do : do = [op |-> "bind", role |-> r, bases |-> bases, seen |-> TRUE]
    OBVIOUS
  <2>2. desk' = [desk EXCEPT ![p] = do] /\ UNCHANGED <<docs, today, grants, granted, answers>>
    BY <1>1, <2>1 DEF K!BindDeletes, K!Begin
  <2>3. DocsOK' /\ GrantsOK' /\ Remembers
    BY <2>2, Rests
  <2>4. AnswersOK'
    BY <2>2, <2>3, AnswersRemember DEF KnowInv
  <2>5. DeskOK(p, do)'
    BY <2>1 DEF DeskOK, BindOK
  <2> QED BY <2>2, <2>3, <2>4, <2>5, DeskGoes
<1>2. CASE K!BindInserts(p)
  <2>1. PICK do : do = desk[p]
    OBVIOUS
  <2>2. BindOK(do)
    BY <1>2, <2>1 DEF K!BindInserts, KnowInv, DeskOK, UpdateOK, SearchOK
  <2>3. /\ grants' = [grants EXCEPT ![do.role] = do.bases \cup (IF do.seen THEN {} ELSE @)]
        /\ granted' = [granted EXCEPT ![do.role] = @ \cup do.bases]
        /\ UNCHANGED <<docs, today, answers>>
        /\ desk' = [q \in Employees |->
              IF q = p THEN Idle
              ELSE IF desk[q] # Idle /\ desk[q].op = "bind" /\ desk[q].role = do.role
                   THEN [desk[q] EXCEPT !.seen = FALSE] ELSE desk[q]]
    BY <1>2, <2>1 DEF K!BindInserts
  <2>4. \A r \in Employees : /\ granted[r] \subseteq granted'[r]
                             /\ grants'[r] \subseteq granted'[r]
    BY <2>2, <2>3 DEF BindOK, KnowInv, GrantsOK
  <2>5. GrantsOK'
    BY <2>3, <2>4 DEF KnowInv, GrantsOK
  <2>6. DocsOK' /\ Remembers
    BY <2>3, <2>4 DEF KnowInv, DocsOK, Remembers, Shown, HasOwner
  <2>7. AnswersOK'
    BY <2>3, <2>6, AnswersRemember DEF KnowInv
  <2>8. ASSUME NEW q \in Employees, desk'[q] # Idle
        PROVE  DeskOK(q, desk[q])'
    <3>1. PICK x : x = desk[q]
      OBVIOUS
    <3>2. CASE desk'[q] = x /\ x # Idle
      <4>1. DeskOK(q, x)
        BY <3>1, <3>2 DEF KnowInv
      <4>2. DeskOK(q, x)'
        BY <2>6, <4>1, DeskRemembers
      <4> QED BY <3>2, <4>2
    <3>3. CASE x # Idle /\ x.op = "bind" /\ desk'[q] = [x EXCEPT !.seen = FALSE]
      <4>1. BindOK(x)
        BY <3>1, <3>3 DEF KnowInv, DeskOK, UpdateOK, SearchOK
      <4>2. PICK y : y = [x EXCEPT !.seen = FALSE]
        OBVIOUS
      <4>3. PICK r, b, s : r = x.role /\ b = x.bases /\ s = x.seen
        OBVIOUS
      <4>4. x = [op |-> "bind", role |-> r, bases |-> b, seen |-> s] /\ r \in Employees
        BY <4>1, <4>3 DEF BindOK
      <4>5. y = [op |-> "bind", role |-> r, bases |-> b, seen |-> FALSE]
        BY <4>2, <4>4
      <4>6. BindOK(y)
        BY <4>4, <4>5 DEF BindOK
      <4>7. DeskOK(q, y)'
        BY <4>6 DEF DeskOK, BindOK
      <4> QED BY <3>3, <4>2, <4>7
    <3> QED BY <2>3, <2>8, <3>1, <3>2, <3>3
  <2>9. DOMAIN desk' = Employees
    BY <2>3
  <2> QED BY <2>5, <2>6, <2>7, <2>8, <2>9 DEF KnowInv
<1> QED BY <1>1, <1>2 DEF K!Grant, K!Roles

LEMMA Searches ==
    ASSUME KnowInv, NEW p \in Employees, K!Search(p)
    PROVE  KnowInv'
<1>1. ASSUME NEW do, desk' = [desk EXCEPT ![p] = do], do # Idle => SearchOK(p, do),
             UNCHANGED <<docs, today, grants, granted, answers>>
      PROVE  KnowInv'
  <2>1. DocsOK' /\ GrantsOK' /\ Remembers
    BY <1>1, Rests
  <2>2. AnswersOK'
    BY <1>1, <2>1, AnswersRemember DEF KnowInv
  <2>3. do # Idle => DeskOK(p, do)'
    BY <1>1, <2>1, DeskRemembers DEF DeskOK
  <2> QED BY <1>1, <2>1, <2>2, <2>3, DeskGoes
<1>2. ASSUME NEW r \in Employees, K!SearchResolves(p, r)
      PROVE  KnowInv'
  <2>1. PICK do : do = [op |-> "whitelist", bases |-> grants[r]]
    OBVIOUS
  <2>2. desk' = [desk EXCEPT ![p] = do] /\ UNCHANGED <<docs, today, grants, granted, answers>>
    BY <1>2, <2>1 DEF K!SearchResolves, K!Begin
  <2>3. SearchOK(p, do)
    BY <1>2, <2>1 DEF K!SearchResolves, K!SearchScope, SearchOK, Entitled, KnowInv, GrantsOK
  <2> QED BY <1>1, <2>2, <2>3
<1>3. CASE K!SearchLists(p)
  <2>1. PICK x : x = desk[p]
    OBVIOUS
  <2>2. SearchOK(p, x) /\ x.op = "whitelist"
    BY <1>3, <2>1 DEF K!SearchLists, KnowInv, DeskOK, UpdateOK, BindOK
  <2>3. PICK do : do = (IF K!Eligible = {} THEN Idle
                        ELSE [op |-> "ask", bases |-> x.bases, whitelist |-> K!Eligible])
    OBVIOUS
  <2>4. desk' = [desk EXCEPT ![p] = do] /\ UNCHANGED <<docs, today, grants, granted, answers>>
    BY <1>3, <2>1, <2>3 DEF K!SearchLists
  <2>5. \A d \in K!Eligible : Shown(d)
    BY DEF K!Eligible, Shown
  <2>6. do # Idle => SearchOK(p, do)
    BY <2>2, <2>3, <2>5 DEF SearchOK
  <2> QED BY <1>1, <2>4, <2>6
<1>4. CASE K!SearchAnswers(p)
  <2>1. PICK x : x = desk[p]
    OBVIOUS
  <2>2. SearchOK(p, x) /\ x.op = "ask"
    BY <1>4, <2>1 DEF K!SearchAnswers, KnowInv, DeskOK, UpdateOK, BindOK
  <2>3. PICK hits : /\ hits \subseteq {d \in Documents : HomeBase[d] \in x.bases}
                    /\ answers' = [answers EXCEPT ![p] = hits \cap x.whitelist]
    BY <1>4, <2>1 DEF K!SearchAnswers
  <2>4. desk' = [desk EXCEPT ![p] = Idle] /\ UNCHANGED <<docs, today, grants, granted>>
    BY <1>4 DEF K!SearchAnswers, K!End
  <2>5. DocsOK' /\ GrantsOK' /\ Remembers
    BY <2>4, Rests
  <2>6. AnswersOK'
    <3>1. \A d \in hits \cap x.whitelist : Shown(d) /\ Entitled(p, {HomeBase[d]})
      BY <2>2, <2>3 DEF SearchOK, Entitled
    <3>2. \A q \in Employees : answers'[q] = answers[q] \/ (q = p /\ answers'[q] = hits \cap x.whitelist)
      BY <2>3 DEF KnowInv, AnswersOK
    <3>3. \A q \in Employees : \A d \in answers'[q] : Shown(d) /\ Entitled(q, {HomeBase[d]})
      BY <3>1, <3>2 DEF KnowInv, AnswersOK
    <3>4. DOMAIN answers' = Employees
      BY <2>3 DEF KnowInv, AnswersOK
    <3> QED BY <2>4, <3>3, <3>4 DEF AnswersOK, Shown, Entitled
  <2> QED BY <2>4, <2>5, <2>6, DeskGoes
<1> QED BY <1>2, <1>3, <1>4 DEF K!Search, K!Roles

LEMMA KnowOfSystem ==
    ASSUME KnowInv, [Next]_vars
    PROVE  KnowInv'
<1>1. K!Next \/ UNCHANGED kVars
  BY DEF Next, vars
<1>2. ASSUME UNCHANGED kVars
      PROVE  KnowInv'
  <2>1. UNCHANGED <<docs, today, desk, grants, granted, answers>>
    BY <1>2 DEF kVars
  <2>2. DocsOK' /\ GrantsOK' /\ Remembers
    BY <2>1, Rests
  <2>3. AnswersOK'
    BY <2>1, <2>2, AnswersRemember DEF KnowInv
  <2> QED BY <2>1, <2>2, <2>3, DesksRest
<1>3. ASSUME K!Next
      PROVE  KnowInv'
  BY <1>3, Ticks, Scans, Updates, Governs, Grants, Searches DEF K!Next
<1> QED BY <1>1, <1>2, <1>3

LEMMA KnowInit ==
    ASSUME K!Init
    PROVE  KnowInv
<1>1. PICK row : row = [status |-> "none", owner |-> Nobody, due |-> -1]
  OBVIOUS
<1>2. row \in DocRows /\ row.status = "none"
  BY <1>1 DEF DocRows
<1>3. docs = [d \in Documents |-> row]
  BY <1>1 DEF K!Init, K!NoDocument
<1>4. DocsOK
  BY <1>2, <1>3 DEF K!Init, DocsOK, Reviewed
<1> QED BY <1>4 DEF K!Init, K!Roles, KnowInv, GrantsOK, AnswersOK

\* A search shows documents that were published, of bases granted to the
\* searcher's role, and what is published or waits for its review has an owner
\* and a date.
THEOREM KnowledgeEntitled == Spec => []KnowledgeIsEntitled
<1>1. Init => KnowInv
  BY KnowInit DEF Init
<1>2. KnowInv /\ [Next]_vars => KnowInv'
  BY KnowOfSystem
<1>3. KnowInv => KnowledgeIsEntitled
  BY DEF KnowInv, DocsOK, AnswersOK, Shown, Entitled, Reviewed, KnowledgeIsEntitled, K!AnswersAreEntitled, K!PublishedIsOwned
<1> QED BY <1>1, <1>2, <1>3, PTL DEF Spec

-----------------------------------------------------------------------------
(*                Memories and their budget: inductive invariant           *)

LEMMA SameCount ==
    ASSUME NEW set
    PROVE  M!Cardinality(set) = Cardinality(set)
BY Zenon DEF M!Cardinality, Cardinality

Thoughts ==
    [op : {"embed", "insert"}, owner : Users, key : FactKeys]
    \cup [op : {"rule"}, seen : Nat, version : Nat]

\* The requests that passed the budget and are not charged yet.
Spending == {u \in Users : thought[u] # Resting /\ thought[u].op \in {"embed", "insert"}}

Versioned(i) ==
    /\ rules[i].version = i
    /\ IF i = Len(rules) THEN rules[i].status = "active"
       ELSE rules[i].status = "superseded" /\ rules[i].by = i + 1

\* A version follows the one it was made of.
FollowsSeen(u) ==
    M!At(u, "rule") =>
        /\ thought[u].seen \in 0 .. Len(rules)
        /\ thought[u].version = thought[u].seen + 1

RuleRows == [version : Nat, by : Nat, status : {"active", "superseded"}]

MemoryInv ==
    /\ rules \in Seq(RuleRows) /\ accrued \in Nat /\ erased \in BOOLEAN
    /\ thought \in [Users -> Thoughts \cup {Resting}]
    /\ accrued + Cardinality(Spending) < Budget + Cardinality(Users)
    /\ \A i, j \in M!ActiveRules : i = j
    /\ ~erased => /\ \A i \in 1 .. Len(rules) : Versioned(i)
                  /\ \A u \in Users : FollowsSeen(u)

LEMMA SpendingCounts ==
    /\ Cardinality(Users) \in Nat \ {0}
    /\ \A set \in SUBSET Users : Cardinality(set) \in Nat /\ Cardinality(set) <= Cardinality(Users)
    /\ \A set \in SUBSET Users : \A u \in set : Cardinality(set \ {u}) = Cardinality(set) - 1
<1>1. \A set \in SUBSET Users : IsFiniteSet(set) /\ Cardinality(set) <= Cardinality(Users)
  BY MemoryAssumption, FS_Subset
<1>2. \A set \in SUBSET Users : Cardinality(set) \in Nat
  BY <1>1, FS_CardinalityType
<1>3. \A set \in SUBSET Users : \A u \in set : Cardinality(set \ {u}) = Cardinality(set) - 1
  BY <1>1, FS_RemoveElement
<1>4. Cardinality(Users) \in Nat \ {0}
  BY <1>2, MemoryAssumption, FS_EmptySet
<1> QED BY <1>1, <1>2, <1>3, <1>4

LEMMA MemoryInit ==
    ASSUME M!Init
    PROVE  MemoryInv
<1>1. Spending = {} /\ M!ActiveRules = {} /\ rules = <<>> /\ erased = FALSE /\ accrued = 0
  BY DEF M!Init, Spending, M!ActiveRules
<1>2. thought \in [Users -> Thoughts \cup {Resting}] /\ \A u \in Users : ~M!At(u, "rule")
  BY DEF M!Init, M!At
<1>3. accrued + Cardinality(Spending) < Budget + Cardinality(Users)
  BY <1>1, SpendingCounts, FS_EmptySet, MemoryAssumption
<1>4. rules \in Seq(RuleRows) /\ accrued \in Nat /\ erased \in BOOLEAN /\ 1 .. Len(rules) = {}
  <2>1. rules \in Seq(RuleRows) /\ Len(rules) = 0
    BY <1>1
  <2>2. accrued \in Nat
    BY <1>1
  <2>3. erased \in BOOLEAN
    BY <1>1
  <2> QED BY <2>1, <2>2, <2>3
<1>5. (\A i, j \in M!ActiveRules : i = j) /\ (\A i \in 1 .. Len(rules) : Versioned(i)) /\ \A u \in Users : FollowsSeen(u)
  BY <1>1, <1>2, <1>4 DEF FollowsSeen
<1> QED BY <1>2, <1>3, <1>4, <1>5 DEF MemoryInv

\* What a step may do to the budget.
BudgetKept(u) ==
    \/ accrued' = accrued /\ Spending' \subseteq Spending
    \/ accrued' = accrued + 1 /\ u \in Spending /\ Spending' = Spending \ {u}
    \/ accrued' = accrued /\ accrued < Budget

LEMMA BudgetStep ==
    ASSUME MemoryInv, NEW u, BudgetKept(u)
    PROVE  accrued' \in Nat /\ accrued' + Cardinality(Spending') < Budget + Cardinality(Users)
<1>1. Spending \subseteq Users /\ Spending' \subseteq Users
  BY DEF Spending
<1>2. /\ Cardinality(Spending) \in Nat /\ Cardinality(Spending') \in Nat /\ Cardinality(Users) \in Nat
      /\ Cardinality(Spending') <= Cardinality(Users) /\ accrued \in Nat /\ Budget \in Nat
      /\ accrued + Cardinality(Spending) < Budget + Cardinality(Users)
  BY <1>1, SpendingCounts, MemoryAssumption DEF MemoryInv
<1>3. CASE accrued' = accrued /\ Spending' \subseteq Spending
  <2>1. IsFiniteSet(Spending)
    BY <1>1, MemoryAssumption, FS_Subset
  <2>2. Cardinality(Spending') <= Cardinality(Spending)
    BY <1>3, <2>1, FS_Subset
  <2> QED BY <1>2, <1>3, <2>2
<1>4. CASE accrued' = accrued + 1 /\ u \in Spending /\ Spending' = Spending \ {u}
  <2>1. Cardinality(Spending') = Cardinality(Spending) - 1
    BY <1>1, <1>4, SpendingCounts
  <2> QED BY <1>2, <1>4, <2>1
<1>5. CASE accrued' = accrued /\ accrued < Budget
  BY <1>2, <1>5
<1> QED BY <1>3, <1>4, <1>5 DEF BudgetKept

\* A request that goes on, or ends, and leaves the rules alone.
LEMMA Goes ==
    ASSUME MemoryInv, NEW u \in Users, NEW step \in Thoughts \cup {Resting}, M!Think(u, step),
           UNCHANGED <<rules, erased>>, BudgetKept(u),
           step # Resting /\ step.op = "rule" /\ ~erased =>
               step.seen \in 0 .. Len(rules) /\ step.version = step.seen + 1
    PROVE  MemoryInv'
<1>1. /\ thought' \in [Users -> Thoughts \cup {Resting}] /\ thought'[u] = step
      /\ \A v \in Users \ {u} : thought'[v] = thought[v]
  BY DEF MemoryInv, M!Think
<1>2. M!ActiveRules' = M!ActiveRules
  BY DEF M!ActiveRules
<1>3. ASSUME ~erased PROVE \A v \in Users : FollowsSeen(v)'
  BY <1>1, <1>3 DEF MemoryInv, FollowsSeen, M!At
<1>4. ASSUME ~erased PROVE \A i \in 1 .. Len(rules) : Versioned(i)'
  BY <1>4 DEF MemoryInv, Versioned
<1> QED BY <1>1, <1>2, <1>3, <1>4, BudgetStep DEF MemoryInv

LEMMA FactSteps ==
    ASSUME MemoryInv, NEW u \in Users, M!CreateFact(u)
    PROVE  MemoryInv'
<1>1. thought \in [Users -> Thoughts \cup {Resting}]
  BY DEF MemoryInv
<1>2. ASSUME NEW owner \in Users, NEW key \in FactKeys, M!AskFact(u, owner, key)
      PROVE  MemoryInv'
  <2>1. [op |-> "embed", owner |-> owner, key |-> key] \in Thoughts
    BY DEF Thoughts
  <2>2. BudgetKept(u)
    BY <1>2 DEF M!AskFact, BudgetKept
  <2> QED BY <1>2, <2>1, <2>2, Goes DEF M!AskFact
<1>3. ASSUME u \in Spending, M!Think(u, Resting)
      PROVE  Spending' = Spending \ {u}
  BY <1>1, <1>3 DEF Spending, M!Think
<1>4. ASSUME M!At(u, "embed") \/ M!At(u, "insert")
      PROVE  u \in Spending
  BY <1>4 DEF M!At, Spending
<1>5. CASE M!EmbeddingFails(u)
  <2>1. BudgetKept(u)
    BY <1>3, <1>4, <1>5 DEF M!EmbeddingFails, BudgetKept
  <2> QED BY <1>5, <2>1, Goes DEF M!EmbeddingFails
<1>6. CASE M!ReturnFact(u)
  <2>1. BudgetKept(u)
    BY <1>3, <1>4, <1>6 DEF M!ReturnFact, BudgetKept
  <2> QED BY <1>6, <2>1, Goes DEF M!ReturnFact
<1>7. CASE M!InsertFact(u)
  <2>1. BudgetKept(u)
    BY <1>3, <1>4, <1>7 DEF M!InsertFact, BudgetKept
  <2> QED BY <1>7, <2>1, Goes DEF M!InsertFact
<1>8. CASE M!LookUpFact(u)
  <2> DEFINE step == [thought[u] EXCEPT !.op = "insert"]
  <2>1. thought[u] \in [op : {"embed", "insert"}, owner : Users, key : FactKeys]
    BY <1>1, <1>8 DEF M!LookUpFact, M!At, Thoughts
  <2>2. step \in [op : {"embed", "insert"}, owner : Users, key : FactKeys] /\ step.op = "insert"
    BY <2>1
  <2> HIDE DEF step
  <2>3. M!Think(u, step)
    BY <1>8 DEF M!LookUpFact, step
  <2>4. u \in Spending
    BY <1>4, <1>8 DEF M!LookUpFact
  <2>5. Spending' \subseteq Spending
    BY <1>1, <2>3, <2>4 DEF Spending, M!Think
  <2>6. BudgetKept(u)
    BY <1>8, <2>5 DEF M!LookUpFact, BudgetKept
  <2> QED BY <1>8, <2>2, <2>3, <2>6, Goes DEF M!LookUpFact, Thoughts
<1> QED BY <1>2, <1>5, <1>6, <1>7, <1>8 DEF M!CreateFact

-----------------------------------------------------------------------------
(*                           The versions of a rule                        *)

\* The version that was read is the last one, or there is none.
LEMMA ReadSteps ==
    ASSUME MemoryInv, NEW u \in Users, M!ReadRule(u)
    PROVE  MemoryInv'
<1>1. PICK n \in Nat : n = IF M!ActiveRules = {} THEN 0 ELSE CHOOSE i \in M!ActiveRules : TRUE
  BY DEF MemoryInv, M!ActiveRules
<1>2. n \in 0 .. Len(rules) /\ (n # 0 => n \in DOMAIN rules)
  BY <1>1 DEF MemoryInv, M!ActiveRules
<1>3. PICK v \in Nat : v = IF n = 0 THEN 1 ELSE rules[n].version + 1
  <2>1. CASE n = 0
    BY <2>1
  <2>2. CASE n # 0
    <3>1. rules[n] \in RuleRows
      BY <1>2, <2>2 DEF MemoryInv
    <3>2. rules[n].version + 1 \in Nat
      BY <3>1 DEF RuleRows
    <3> QED BY <2>2, <3>2
  <2> QED BY <2>1, <2>2
<1>4. ~erased => v = n + 1
  BY <1>2, <1>3 DEF MemoryInv, Versioned
<1> DEFINE step == [op |-> "rule", seen |-> n, version |-> v]
<1>5. M!Think(u, step)
  BY <1>1, <1>3 DEF M!ReadRule
<1>6. step \in Thoughts /\ step.op = "rule" /\ step.seen = n /\ step.version = v
  BY DEF Thoughts
<1> HIDE DEF step
<1>7. Spending' \subseteq Spending
  BY <1>5, <1>6 DEF MemoryInv, Spending, M!Think
<1>8. BudgetKept(u)
  BY <1>7 DEF M!ReadRule, BudgetKept
<1> QED BY <1>2, <1>4, <1>5, <1>6, <1>8, Goes DEF M!ReadRule

\* The row of a version that the n-th replaces.
Replaced(row, n) == [row EXCEPT !.status = "superseded", !.by = n]

LEMMA ReplacedIs ==
    ASSUME NEW r \in RuleRows, NEW n \in Nat
    PROVE  /\ Replaced(r, n) \in RuleRows /\ Replaced(r, n).version = r.version
           /\ Replaced(r, n).status = "superseded" /\ Replaced(r, n).by = n
BY DEF Replaced, RuleRows

\* The only active version is the one that was read, so the new one is the
\* only one afterwards.
LEMMA WriteSteps ==
    ASSUME MemoryInv, NEW u \in Users, M!WriteRule(u)
    PROVE  MemoryInv'
<1>1. /\ M!At(u, "rule") /\ M!ActiveRules \ {thought[u].seen} = {} /\ thought' = [thought EXCEPT ![u] = Resting]
      /\ UNCHANGED <<facts, profile, accrued, restarts, erased>>
  BY DEF M!WriteRule, M!Think
<1>2. thought[u] \in [op : {"rule"}, seen : Nat, version : Nat]
  BY <1>1 DEF MemoryInv, M!At, Thoughts
<1>3. rules \in Seq(RuleRows) /\ Len(rules) \in Nat /\ DOMAIN rules = 1 .. Len(rules)
  BY DEF MemoryInv
<1> DEFINE old == M!Superseded(u)
           row == [version |-> thought[u].version, status |-> "active", by |-> 0]
<1>4. /\ old \in [1 .. Len(rules) -> RuleRows]
      /\ \A i \in 1 .. Len(rules) :
            IF i = thought[u].seen THEN old[i] = Replaced(rules[i], Len(rules) + 1)
            ELSE old[i] = rules[i]
  <2>1. \A i \in 1 .. Len(rules) : rules[i] \in RuleRows
    BY <1>3
  <2>2. \A i \in 1 .. Len(rules) : Replaced(rules[i], Len(rules) + 1) \in RuleRows
    BY <1>3, <2>1, ReplacedIs
  <2>3. old = [i \in DOMAIN rules |-> IF i = thought[u].seen THEN Replaced(rules[i], Len(rules) + 1)
                                      ELSE rules[i]]
    BY DEF M!Superseded, Replaced
  <2> HIDE DEF old
  <2> QED BY <1>3, <2>1, <2>2, <2>3
<1> HIDE DEF old
<1>a. row \in RuleRows /\ row.status = "active" /\ row.version = thought[u].version
  BY <1>2 DEF RuleRows
<1> HIDE DEF row
<1>5. old \in Seq(RuleRows) /\ Len(old) = Len(rules)
  BY <1>3, <1>4
<1>6. rules' = Append(old, row)
  BY DEF M!WriteRule, old, row
<1>7. /\ rules' \in Seq(RuleRows) /\ Len(rules') = Len(rules) + 1 /\ rules'[Len(rules) + 1] = row
      /\ \A i \in 1 .. Len(rules) : rules'[i] = old[i]
  BY <1>a, <1>5, <1>6
<1>8. \A i \in 1 .. Len(rules) : rules'[i].status # "active"
  <2>1. ASSUME NEW i \in 1 .. Len(rules) PROVE rules'[i].status # "active"
    <3>1. CASE i = thought[u].seen
      <4>1. rules'[i] = Replaced(rules[i], Len(rules) + 1) /\ rules[i] \in RuleRows
        BY <1>3, <1>4, <1>7, <3>1
      <4>2. Replaced(rules[i], Len(rules) + 1).status = "superseded"
        <5>1. Len(rules) + 1 \in Nat
          BY <1>3
        <5> QED BY <4>1, <5>1, ReplacedIs, Zenon
      <4> QED BY <4>1, <4>2
    <3>2. CASE i # thought[u].seen
      <4>1. i \notin M!ActiveRules
        BY <1>1, <3>2
      <4> QED BY <1>3, <1>4, <1>7, <3>2, <4>1 DEF M!ActiveRules
    <3> QED BY <3>1, <3>2
  <2> QED BY <2>1
<1>9. M!ActiveRules' \subseteq {Len(rules) + 1}
  BY <1>7, <1>8 DEF M!ActiveRules
<1>10. /\ thought' \in [Users -> Thoughts \cup {Resting}] /\ thought'[u] = Resting
       /\ \A v \in Users \ {u} : thought'[v] = thought[v]
  BY <1>1 DEF MemoryInv
<1>11. Spending' \subseteq Spending
  BY <1>10 DEF Spending
<1>12. BudgetKept(u)
  BY <1>1, <1>11 DEF BudgetKept
<1>13. ASSUME ~erased PROVE /\ \A i \in 1 .. Len(rules') : Versioned(i)'
                            /\ \A v \in Users : FollowsSeen(v)'
  <2>1. /\ \A i \in 1 .. Len(rules) : Versioned(i)
        /\ \A v \in Users : FollowsSeen(v)
    BY <1>13 DEF MemoryInv
  <2>2. thought[u].seen = Len(rules) /\ thought[u].version = Len(rules) + 1
    <3>1. thought[u].seen \in 0 .. Len(rules) /\ thought[u].version = thought[u].seen + 1
      BY <1>1, <2>1 DEF FollowsSeen
    <3>2. ASSUME Len(rules) # 0 PROVE Len(rules) \in M!ActiveRules
      <4>1. Len(rules) \in DOMAIN rules /\ Versioned(Len(rules))
        BY <1>3, <2>1, <3>2
      <4> QED BY <4>1 DEF Versioned, M!ActiveRules
    <3> QED BY <1>1, <1>3, <3>1, <3>2
  <2>3. ASSUME NEW i, i = Len(rules) + 1 PROVE Versioned(i)'
    BY <1>a, <1>7, <2>2, <2>3 DEF Versioned
  <2>4. ASSUME NEW i \in 1 .. Len(rules) PROVE Versioned(i)'
    <3>1. CASE i = Len(rules)
      <4>a. i \in Nat /\ rules[i] \in RuleRows
        BY <1>3, <3>1
      <4>b. old[i] = Replaced(rules[i], i + 1) /\ rules'[i] = old[i]
        BY <1>4, <1>7, <2>2, <3>1
      <4>1. rules'[i] = Replaced(rules[i], i + 1) /\ rules[i] \in RuleRows /\ i \in Nat /\ i # Len(rules')
        <5>1. i # Len(rules')
          BY <1>3, <1>7
        <5> QED BY <4>a, <4>b, <5>1, Zenon
      <4>2. rules[i].version = i
        BY <2>1 DEF Versioned
      <4> QED BY <4>1, <4>2, ReplacedIs DEF Versioned
    <3>2. CASE i # Len(rules)
      <4>1. rules'[i] = rules[i] /\ i # Len(rules')
        <5>1. old[i] = rules[i] /\ rules'[i] = old[i]
          BY <1>4, <1>7, <2>2, <3>2
        <5>2. i # Len(rules')
          BY <1>3, <1>7
        <5> QED BY <5>1, <5>2
      <4>2. Versioned(i)
        BY <2>1
      <4> QED BY <3>2, <4>1, <4>2 DEF Versioned
    <3> QED BY <3>1, <3>2
  <2>5. ASSUME NEW i \in 1 .. Len(rules') PROVE Versioned(i)'
    <3>1. i = Len(rules) + 1 \/ i \in 1 .. Len(rules)
      BY <1>3, <1>7
    <3> QED BY <2>3, <2>4, <3>1
  <2>6. ASSUME NEW v \in Users PROVE FollowsSeen(v)'
    BY <1>3, <1>7, <1>10, <2>1 DEF FollowsSeen, M!At
  <2> QED BY <2>5, <2>6
<1> QED BY <1>1, <1>7, <1>9, <1>10, <1>12, <1>13, BudgetStep DEF MemoryInv

\* The deletion forgets what was read of the rules, not who passed the budget.
LEMMA EraseSteps ==
    ASSUME MemoryInv, M!Erase
    PROVE  MemoryInv'
<1>1. /\ rules' = <<>> /\ erased' = TRUE /\ accrued' = accrued
      /\ thought' = [u \in Users |-> IF M!At(u, "rule") THEN [thought[u] EXCEPT !.seen = 0] ELSE thought[u]]
  BY DEF M!Erase
<1>2. ASSUME NEW u \in Users
      PROVE  /\ thought'[u] \in Thoughts \cup {Resting}
             /\ thought'[u] # Resting /\ thought'[u].op \in {"embed", "insert"} =>
                    thought[u] # Resting /\ thought[u].op \in {"embed", "insert"}
  <2>1. CASE M!At(u, "rule")
    <3>1. thought[u] \in [op : {"rule"}, seen : Nat, version : Nat]
      BY <2>1 DEF MemoryInv, M!At, Thoughts
    <3>2. thought'[u] = [thought[u] EXCEPT !.seen = 0]
      BY <1>1, <2>1
    <3>3. thought'[u] \in [op : {"rule"}, seen : Nat, version : Nat]
      BY <3>1, <3>2
    <3> QED BY <3>3 DEF Thoughts
  <2>2. CASE ~M!At(u, "rule")
    BY <1>1, <2>2 DEF MemoryInv
  <2> QED BY <2>1, <2>2
<1>3. thought' \in [Users -> Thoughts \cup {Resting}] /\ Spending' \subseteq Spending
  BY <1>1, <1>2 DEF Spending
<1>4. accrued' \in Nat /\ accrued' + Cardinality(Spending') < Budget + Cardinality(Users)
  <2>1. BudgetKept(CHOOSE u \in Users : TRUE)
    BY <1>1, <1>3 DEF BudgetKept
  <2> QED BY <2>1, BudgetStep
<1>5. M!ActiveRules' = {}
  BY <1>1 DEF M!ActiveRules
<1> QED BY <1>1, <1>3, <1>4, <1>5 DEF MemoryInv

LEMMA RestartSteps ==
    ASSUME MemoryInv, M!Restart
    PROVE  MemoryInv'
<1>1. accrued' = 0 /\ thought' = [u \in Users |-> Resting] /\ UNCHANGED <<rules, erased>>
  BY DEF M!Restart
<1>2. Spending' = {} /\ \A u \in Users : ~M!At(u, "rule")'
  BY <1>1 DEF Spending, M!At
<1>3. accrued' + Cardinality(Spending') < Budget + Cardinality(Users)
  BY <1>1, <1>2, SpendingCounts, FS_EmptySet, MemoryAssumption
<1>4. M!ActiveRules' = M!ActiveRules /\ Len(rules') = Len(rules) /\ \A i : Versioned(i)' <=> Versioned(i)
  BY <1>1 DEF M!ActiveRules, Versioned
<1> QED BY <1>1, <1>2, <1>3, <1>4 DEF MemoryInv, FollowsSeen

LEMMA MemoryStep ==
    ASSUME MemoryInv, M!Next
    PROVE  MemoryInv'
<1>1. ASSUME UNCHANGED <<rules, accrued, thought, erased>>
      PROVE  MemoryInv'
  BY <1>1 DEF MemoryInv, M!ActiveRules, Versioned, FollowsSeen, M!At, Spending
<1>2. ASSUME NEW u \in Users, M!RefuseRule(u)
      PROVE  MemoryInv'
  <2>1. Spending' \subseteq Spending
    BY <1>2 DEF M!RefuseRule, M!Think, MemoryInv, Spending
  <2>2. BudgetKept(u)
    BY <1>2, <2>1 DEF M!RefuseRule, BudgetKept
  <2> QED BY <1>2, <2>2, Goes DEF M!RefuseRule
<1>3. ASSUME NEW u \in Users, \/ \E owner \in Users : M!SetProfileKey(u, owner)
                              \/ \E i \in DOMAIN facts : M!SupersedeFact(u, i)
      PROVE  MemoryInv'
  BY <1>1, <1>3 DEF M!SetProfileKey, M!SupersedeFact
<1> QED BY <1>2, <1>3, FactSteps, ReadSteps, WriteSteps, EraseSteps, RestartSteps DEF M!Next, M!CreateRule

LEMMA MemoryOfSystem ==
    ASSUME MemoryInv, [Next]_vars
    PROVE  MemoryInv'
<1>1. ASSUME UNCHANGED mVars
      PROVE  MemoryInv'
  BY <1>1 DEF mVars, MemoryInv, M!ActiveRules, Versioned, FollowsSeen, M!At, Spending
<1>2. M!Next \/ UNCHANGED mVars
  BY DEF Next, vars
<1> QED BY <1>1, <1>2, MemoryStep

\* A rule has one active version at a time and its versions form a chain; the
\* budget is overrun by no more than the requests that passed it together.
THEOREM MemoryBounded == Spec => []MemoryIsBounded
<1>1. Init => MemoryInv
  BY MemoryInit DEF Init
<1>2. MemoryInv /\ [Next]_vars => MemoryInv'
  BY MemoryOfSystem
<1>3. MemoryInv => MemoryIsBounded
  <2>1. SUFFICES ASSUME MemoryInv PROVE MemoryIsBounded
    OBVIOUS
  <2>2. M!Cardinality(M!ActiveRules) <= 1
    <3>1. M!ActiveRules = {} \/ \E i : M!ActiveRules = {i}
      BY <2>1 DEF MemoryInv
    <3> QED BY <3>1, SameCount, FS_EmptySet, FS_Singleton
  <2>3. M!RuleChainIsLinear
    BY <2>1, <2>2 DEF M!RuleChainIsLinear, MemoryInv, Versioned
  <2>4. M!BudgetHolds
    <3>1. Cardinality(Spending) \in Nat
      BY SpendingCounts DEF Spending
    <3> QED BY <2>1, <3>1, SameCount, SpendingCounts, MemoryAssumption DEF M!BudgetHolds, MemoryInv
  <2> QED BY <2>3, <2>4 DEF MemoryIsBounded
<1> QED BY <1>1, <1>2, <1>3, PTL DEF Spec

-----------------------------------------------------------------------------
(*                Cases and their judgement: inductive invariant           *)

CaseRows == [status : {"draft", "published", "archived"}, digest : Snapshots,
             expectation : E!Expectations, heir : Nat]
Counts == {0} \cup {E!Cardinality(set) : set \in SUBSET Nat}
JudgementRows == [status : {"aborted", "completed"}, paper : UNION {[set -> CaseRows] : set \in SUBSET Nat},
                  count : Counts, passed : SUBSET Nat, results : SUBSET Nat]

\* A case that was published once: its expectation is settled.
Settles(i, expectation) ==
    /\ i \in 1 .. Len(cases) /\ cases[i].status # "draft"
    /\ cases[i].expectation = expectation /\ expectation # "none"

PaperOK(paper) == \A i \in DOMAIN paper : Settles(i, paper[i].expectation)

\* Who replaces a case is younger.
HeirOK(i) ==
    cases[i].heir # 0 => cases[i].status = "archived" /\ cases[i].heir \in i + 1 .. Len(cases)

CasesOK ==
    /\ cases \in Seq(CaseRows)
    /\ \A i \in 1 .. Len(cases) : /\ HeirOK(i)
                                  /\ cases[i].status = "published" => cases[i].expectation # "none"

JudgementsOK ==
    /\ evalRuns \in Seq(JudgementRows)
    /\ \A r \in 1 .. Len(evalRuns) : PaperOK(evalRuns[r].paper)

HandOK(do) ==
    \/ /\ do.op = "publish" /\ do.case \in 1 .. Len(cases) /\ cases[do.case].expectation # "none"
    \/ /\ do.op = "supersede" /\ do.case \in 1 .. Len(cases) /\ do.heir \in do.case + 1 .. Len(cases)
    \/ /\ do.op = "import" /\ do.digest \in Snapshots /\ do.expectation \in E!Expectations
    \/ /\ do.op = "judge" /\ PaperOK(do.paper)
       /\ do.paper \in UNION {[set -> CaseRows] : set \in SUBSET Nat}
    \/ /\ do.op = "results" /\ do.run \in 1 .. Len(evalRuns)

HandsOK ==
    /\ DOMAIN hand = Admins
    /\ \A a \in Admins : hand[a] # AtRest => HandOK(hand[a])

EvolInv == CasesOK /\ JudgementsOK /\ HandsOK

-----------------------------------------------------------------------------
(*                            What a step keeps                            *)

\* Cases and runs are only added, and what is settled stays.
Adds ==
    /\ 1 .. Len(cases) \subseteq 1 .. Len(cases')
    /\ 1 .. Len(evalRuns) \subseteq 1 .. Len(evalRuns')
    /\ \A i \in 1 .. Len(cases) : cases[i].expectation # "none" => cases'[i].expectation # "none"
    /\ \A i, e : Settles(i, e) => Settles(i, e)'

LEMMA PaperLasts ==
    ASSUME Adds, NEW paper, PaperOK(paper)
    PROVE  PaperOK(paper)'
BY DEF Adds, PaperOK

LEMMA HandLasts ==
    ASSUME Adds, NEW do, HandOK(do), Len(cases) \in Nat, Len(cases') \in Nat
    PROVE  HandOK(do)'
<1>1. CASE do.op = "publish"
  BY <1>1 DEF HandOK, Adds
<1>2. CASE do.op = "supersede"
  <2>1. do.case \in 1 .. Len(cases') /\ do.heir \in 1 .. Len(cases')
    BY <1>2 DEF HandOK, Adds
  <2>2. do.heir \in do.case + 1 .. Len(cases')
    BY <1>2, <2>1 DEF HandOK
  <2> QED BY <1>2, <2>1, <2>2 DEF HandOK
<1>3. CASE do.op = "import"
  BY <1>3 DEF HandOK
<1>4. CASE do.op = "judge"
  BY <1>4, PaperLasts DEF HandOK
<1>5. CASE do.op = "results"
  BY <1>5 DEF HandOK, Adds
<1> QED BY <1>1, <1>2, <1>3, <1>4, <1>5 DEF HandOK

\* The request of one administrator goes on.
LEMMA HandGoes ==
    ASSUME EvolInv, Adds, CasesOK', JudgementsOK', NEW a \in Admins, NEW do,
           E!Hold(a, do), do # AtRest => HandOK(do)'
    PROVE  EvolInv'
<1>1. hand' = [hand EXCEPT ![a] = do] /\ DOMAIN hand' = Admins
  BY DEF E!Hold, EvolInv, HandsOK
<1>2. Len(cases) \in Nat /\ Len(cases') \in Nat
  BY DEF EvolInv, CasesOK
<1>3. ASSUME NEW b \in Admins, hand'[b] # AtRest
      PROVE  HandOK(hand[b])'
  <2>1. CASE b = a
    BY <1>1, <1>3, <2>1
  <2>2. CASE b # a
    <3>1. PICK x : x = hand[b]
      OBVIOUS
    <3>2. HandOK(x) /\ hand'[b] = x
      BY <1>1, <1>3, <2>2, <3>1 DEF EvolInv, HandsOK
    <3>3. HandOK(x)'
      BY <1>2, <3>2, HandLasts
    <3> QED BY <3>2, <3>3
  <2> QED BY <2>1, <2>2
<1> QED BY <1>1, <1>3 DEF EvolInv, HandsOK

LEMMA HandsRest ==
    ASSUME EvolInv, Adds, CasesOK', JudgementsOK', UNCHANGED hand
    PROVE  EvolInv'
<1>1. Len(cases) \in Nat /\ Len(cases') \in Nat
  BY DEF EvolInv, CasesOK
<1>2. ASSUME NEW b \in Admins, hand'[b] # AtRest
      PROVE  HandOK(hand[b])'
  <2>1. PICK x : x = hand[b]
    OBVIOUS
  <2>2. HandOK(x) /\ hand'[b] = x
    BY <1>2, <2>1 DEF EvolInv, HandsOK
  <2>3. HandOK(x)'
    BY <1>1, <2>2, HandLasts
  <2> QED BY <2>2, <2>3
<1> QED BY <1>2 DEF EvolInv, HandsOK

LEMMA JudgementsLast ==
    ASSUME JudgementsOK, Adds, UNCHANGED evalRuns
    PROVE  JudgementsOK'
BY DEF JudgementsOK, Adds, PaperOK

LEMMA AllRest ==
    ASSUME EvolInv, UNCHANGED <<cases, evalRuns>>
    PROVE  Adds /\ CasesOK' /\ JudgementsOK'
<1>1. Adds
  BY DEF Adds, Settles
<1>2. CasesOK'
  BY DEF EvolInv, CasesOK, HeirOK
<1> QED BY <1>1, <1>2, JudgementsLast DEF EvolInv

\* A case is added.
LEMMA CaseAdded ==
    ASSUME EvolInv, NEW s \in Snapshots, NEW e \in E!Expectations, E!Insert(s, e), UNCHANGED evalRuns
    PROVE  /\ Adds /\ CasesOK' /\ JudgementsOK'
           /\ Len(cases') = Len(cases) + 1 /\ Len(cases) \in Nat
           /\ cases'[Len(cases) + 1].expectation = e
<1>1. PICK row : row = [status |-> "draft", digest |-> s, expectation |-> e, heir |-> 0]
  OBVIOUS
<1>2. row \in CaseRows /\ row.status = "draft" /\ row.expectation = e /\ row.heir = 0
  BY <1>1 DEF CaseRows
<1>3. cases \in Seq(CaseRows) /\ cases' = Append(cases, row)
  BY <1>1 DEF E!Insert, EvolInv, CasesOK
<1>4. /\ cases' \in Seq(CaseRows) /\ Len(cases') = Len(cases) + 1 /\ Len(cases) \in Nat
      /\ \A i \in 1 .. Len(cases) : cases'[i] = cases[i] /\ i \in 1 .. Len(cases')
      /\ cases'[Len(cases) + 1] = row
      /\ \A i \in 1 .. Len(cases') : i \in 1 .. Len(cases) \/ i = Len(cases) + 1
  BY <1>2, <1>3
<1>5. Adds
  BY <1>4 DEF Adds, Settles
<1>6. ASSUME NEW i \in 1 .. Len(cases')
      PROVE  HeirOK(i)' /\ (cases'[i].status = "published" => cases'[i].expectation # "none")
  <2>1. CASE i \in 1 .. Len(cases)
    <3>1. cases'[i] = cases[i]
      BY <1>4, <2>1
    <3>2. HeirOK(i) /\ (cases[i].status = "published" => cases[i].expectation # "none")
      BY <2>1 DEF EvolInv, CasesOK
    <3>3. HeirOK(i)'
      BY <1>4, <2>1, <3>1, <3>2 DEF HeirOK
    <3> QED BY <3>1, <3>2, <3>3
  <2>2. CASE i = Len(cases) + 1
    BY <1>2, <1>4, <2>2 DEF HeirOK
  <2> QED BY <1>4, <1>6, <2>1, <2>2
<1>7. CasesOK'
  BY <1>4, <1>6 DEF CasesOK
<1> QED BY <1>2, <1>4, <1>5, <1>7, JudgementsLast DEF EvolInv

\* A case gives way to another row.
LEMMA CaseChanges ==
    ASSUME EvolInv, NEW i \in 1 .. Len(cases), NEW row \in CaseRows, cases' = [cases EXCEPT ![i] = row],
           UNCHANGED evalRuns,
           cases[i].expectation # "none" => row.expectation # "none",
           cases[i].status # "draft" => row.status # "draft" /\ row.expectation = cases[i].expectation,
           row.status = "published" => row.expectation # "none",
           row.heir # 0 => row.status = "archived" /\ row.heir \in i + 1 .. Len(cases)
    PROVE  Adds /\ CasesOK' /\ JudgementsOK'
<1>1. cases \in Seq(CaseRows)
  BY DEF EvolInv, CasesOK
<1>2. /\ cases' \in Seq(CaseRows) /\ Len(cases') = Len(cases) /\ cases'[i] = row
      /\ \A j \in 1 .. Len(cases) : j # i => cases'[j] = cases[j]
  BY <1>1
<1>3. Adds
  BY <1>2 DEF Adds, Settles
<1>4. ASSUME NEW j \in 1 .. Len(cases)
      PROVE  HeirOK(j)' /\ (cases'[j].status = "published" => cases'[j].expectation # "none")
  <2>1. CASE j = i
    BY <1>2, <2>1 DEF HeirOK
  <2>2. CASE j # i
    <3>1. cases'[j] = cases[j] /\ HeirOK(j) /\ (cases[j].status = "published" => cases[j].expectation # "none")
      BY <1>2, <2>2 DEF EvolInv, CasesOK
    <3> QED BY <1>2, <3>1 DEF HeirOK
  <2> QED BY <2>1, <2>2
<1>5. CasesOK'
  BY <1>2, <1>4 DEF CasesOK
<1> QED BY <1>3, <1>5, JudgementsLast DEF EvolInv

-----------------------------------------------------------------------------
(*                                The steps                                *)

WithStatus(row, status) == [row EXCEPT !.status = status]
Expecting(row, verdict) == [row EXCEPT !.expectation = verdict]
Superseded(row, n) == [row EXCEPT !.status = "archived", !.heir = n]

LEMMA RowIs ==
    ASSUME NEW row \in CaseRows, NEW status \in {"published", "archived"}, NEW verdict \in E!Verdicts
    PROVE  /\ WithStatus(row, status) \in CaseRows /\ WithStatus(row, status).status = status
           /\ WithStatus(row, status).expectation = row.expectation /\ WithStatus(row, status).heir = row.heir
           /\ Expecting(row, verdict) \in CaseRows /\ Expecting(row, verdict).status = row.status
           /\ Expecting(row, verdict).expectation = verdict /\ Expecting(row, verdict).heir = row.heir
BY DEF WithStatus, Expecting, CaseRows, E!Expectations

LEMMA SupersededIs ==
    ASSUME NEW row \in CaseRows, NEW n \in Nat
    PROVE  /\ Superseded(row, n) \in CaseRows /\ Superseded(row, n).status = "archived"
           /\ Superseded(row, n).expectation = row.expectation /\ Superseded(row, n).heir = n
BY DEF Superseded, CaseRows

LEMMA Switches ==
    ASSUME EvolInv, NEW i \in 1 .. Len(cases), NEW status \in {"published", "archived"},
           cases' = [cases EXCEPT ![i] = WithStatus(cases[i], status)], UNCHANGED evalRuns,
           E!IsOpen(i), status = "published" => cases[i].expectation # "none"
    PROVE  Adds /\ CasesOK' /\ JudgementsOK'
<1>1. PICK row : row = WithStatus(cases[i], status)
  OBVIOUS
<1>2. cases[i] \in CaseRows /\ HeirOK(i) /\ "pass" \in E!Verdicts /\ 0 \in Nat
  BY DEF EvolInv, CasesOK, E!Verdicts
<1>3. /\ row \in CaseRows /\ row.status = status /\ row.expectation = cases[i].expectation
      /\ row.heir = cases[i].heir
  BY <1>1, <1>2, RowIs
<1>4. row.heir = 0
  BY <1>2, <1>3 DEF HeirOK, E!IsOpen
<1>5. cases' = [cases EXCEPT ![i] = row]
  BY <1>1
<1> QED BY <1>3, <1>4, <1>5, CaseChanges

LEMMA Curates ==
    ASSUME EvolInv, NEW a \in Admins, E!Curate(a)
    PROVE  EvolInv'
<1>1. DOMAIN cases = 1 .. Len(cases)
  BY DEF EvolInv, CasesOK
<1>2. ASSUME NEW s \in Snapshots, NEW e \in E!Expectations, E!CreateCase(a, s, e)
      PROVE  EvolInv'
  BY <1>2, CaseAdded, HandsRest DEF E!CreateCase
<1>3. ASSUME NEW i \in 1 .. Len(cases), NEW v \in E!Verdicts, E!SetExpectation(a, i, v)
      PROVE  EvolInv'
  <2>1. PICK row : row = Expecting(cases[i], v)
    OBVIOUS
  <2>2. /\ cases[i].status = "draft" /\ cases' = [cases EXCEPT ![i] = row] /\ UNCHANGED <<evalRuns, hand>>
    BY <1>3, <2>1 DEF E!SetExpectation, Expecting
  <2>3. cases[i] \in CaseRows /\ HeirOK(i) /\ v # "none" /\ 0 \in Nat
    BY DEF EvolInv, CasesOK, E!Verdicts
  <2>4. row \in CaseRows /\ row.status = "draft" /\ row.expectation = v /\ row.heir = cases[i].heir
    BY <2>1, <2>2, <2>3, RowIs
  <2>5. row.heir = 0
    BY <2>2, <2>3, <2>4 DEF HeirOK
  <2>6. Adds /\ CasesOK' /\ JudgementsOK'
    BY <2>2, <2>3, <2>4, <2>5, CaseChanges
  <2> QED BY <2>2, <2>6, HandsRest
<1>4. ASSUME NEW i \in 1 .. Len(cases), NEW v \in E!Verdicts, E!SupersedeCreates(a, i, v)
      PROVE  EvolInv'
  <2>1. PICK do : do = [op |-> "supersede", case |-> i, heir |-> Len(cases) + 1]
    OBVIOUS
  <2>2. E!Insert(cases[i].digest, v) /\ E!Hold(a, do) /\ UNCHANGED evalRuns
    BY <1>4, <2>1 DEF E!SupersedeCreates
  <2>3. cases[i].digest \in Snapshots /\ v \in E!Expectations
    <3>1. cases[i] \in CaseRows
      BY DEF EvolInv, CasesOK
    <3> QED BY <3>1 DEF CaseRows, E!Expectations
  <2>4. /\ Adds /\ CasesOK' /\ JudgementsOK' /\ Len(cases') = Len(cases) + 1 /\ Len(cases) \in Nat
    BY <2>2, <2>3, CaseAdded
  <2>5. do.op = "supersede" /\ do.case = i /\ do.heir = Len(cases) + 1
    BY <2>1
  <2>6. do.case \in 1 .. Len(cases') /\ do.heir \in do.case + 1 .. Len(cases')
    BY <2>4, <2>5
  <2>7. HandOK(do)'
    BY <2>5, <2>6 DEF HandOK
  <2> QED BY <2>2, <2>4, <2>7, HandGoes
<1>5. ASSUME NEW i \in 1 .. Len(cases), E!PublishReads(a, i)
      PROVE  EvolInv'
  <2>1. PICK do : do = [op |-> "publish", case |-> i]
    OBVIOUS
  <2>2. cases[i].expectation # "none" /\ E!Hold(a, do) /\ UNCHANGED <<cases, evalRuns>>
    BY <1>5, <2>1 DEF E!PublishReads
  <2>3. HandOK(do)'
    BY <2>1, <2>2 DEF HandOK
  <2> QED BY <2>2, <2>3, AllRest, HandGoes
<1>6. ASSUME NEW i \in 1 .. Len(cases), E!ArchiveCase(a, i)
      PROVE  EvolInv'
  <2>1. /\ E!IsOpen(i) /\ UNCHANGED <<evalRuns, hand>>
        /\ cases' = [cases EXCEPT ![i] = WithStatus(cases[i], "archived")]
    BY <1>6 DEF E!ArchiveCase, WithStatus
  <2>2. Adds /\ CasesOK' /\ JudgementsOK'
    BY <2>1, Switches
  <2> QED BY <2>1, <2>2, HandsRest
<1>7. CASE E!PublishWrites(a)
  <2>1. PICK do, i : do = hand[a] /\ i = do.case
    OBVIOUS
  <2>2. do # AtRest /\ do.op = "publish" /\ E!Hold(a, AtRest) /\ UNCHANGED evalRuns
    BY <1>7, <2>1 DEF E!PublishWrites, E!Doing
  <2>3. i \in 1 .. Len(cases) /\ cases[i].expectation # "none"
    BY <2>1, <2>2 DEF EvolInv, HandsOK, HandOK
  <2>4. \/ cases' = cases
        \/ cases[i].status = "draft" /\ cases' = [cases EXCEPT ![i] = WithStatus(cases[i], "published")]
    BY <1>7, <2>1 DEF E!PublishWrites, WithStatus
  <2>5. CASE cases' = cases
    BY <2>2, <2>5, AllRest, HandGoes
  <2>6. CASE cases[i].status = "draft" /\ cases' = [cases EXCEPT ![i] = WithStatus(cases[i], "published")]
    <3>1. E!IsOpen(i)
      BY <2>6 DEF E!IsOpen
    <3>2. Adds /\ CasesOK' /\ JudgementsOK'
      BY <2>2, <2>3, <2>6, <3>1, Switches
    <3> QED BY <2>2, <3>2, HandGoes
  <2> QED BY <2>4, <2>5, <2>6
<1>8. CASE E!SupersedeArchives(a)
  <2>1. PICK do, i, n : do = hand[a] /\ i = do.case /\ n = do.heir
    OBVIOUS
  <2>2. do # AtRest /\ do.op = "supersede" /\ E!Hold(a, AtRest) /\ UNCHANGED evalRuns
    BY <1>8, <2>1 DEF E!SupersedeArchives, E!Doing
  <2>3. i \in 1 .. Len(cases) /\ n \in i + 1 .. Len(cases)
    BY <2>1, <2>2 DEF EvolInv, HandsOK, HandOK
  <2>4. PICK row, new : /\ row = Superseded(cases[i], n)
                        /\ new = [cases EXCEPT ![i].status = "archived", ![i].heir = n]
    OBVIOUS
  <2>5. cases' = IF E!IsOpen(i) THEN new ELSE cases
    BY <1>8, <2>1, <2>4, Zenon DEF E!SupersedeArchives
  <2>6. new = [cases EXCEPT ![i] = row]
    <3>1. new = [cases EXCEPT ![i] = Superseded(cases[i], n)]
      BY <2>4, Zenon DEF Superseded
    <3> QED BY <2>4, <3>1
  <2>7. CASE cases' = cases
    BY <2>2, <2>7, AllRest, HandGoes
  <2>8. CASE E!IsOpen(i) /\ cases' = new
    <3>1. cases[i] \in CaseRows /\ n \in Nat /\ "pass" \in E!Verdicts
      BY <2>3 DEF EvolInv, CasesOK, E!Verdicts
    <3>2. row \in CaseRows /\ row.status = "archived" /\ row.expectation = cases[i].expectation /\ row.heir = n
      BY <2>4, <3>1, SupersededIs
    <3>3. Adds /\ CasesOK' /\ JudgementsOK'
      BY <2>2, <2>3, <2>6, <2>8, <3>2, CaseChanges
    <3> QED BY <2>2, <3>3, HandGoes
  <2> QED BY <2>5, <2>7, <2>8
<1> QED BY <1>1, <1>2, <1>3, <1>4, <1>5, <1>6, <1>7, <1>8 DEF E!Curate

LEMMA Imports ==
    ASSUME EvolInv, NEW a \in Admins, E!Import(a)
    PROVE  EvolInv'
<1>1. ASSUME NEW s \in Snapshots, NEW e \in E!Expectations, E!ImportReads(a, s, e)
      PROVE  EvolInv'
  <2>1. PICK do : do = [op |-> "import", digest |-> s, expectation |-> e]
    OBVIOUS
  <2>2. E!Hold(a, do) /\ UNCHANGED <<cases, evalRuns>>
    BY <1>1, <2>1 DEF E!ImportReads
  <2>3. HandOK(do)'
    BY <2>1 DEF HandOK
  <2> QED BY <2>2, <2>3, AllRest, HandGoes
<1>2. CASE E!ImportCreates(a)
  <2>1. PICK do, s, e : do = hand[a] /\ s = do.digest /\ e = do.expectation
    OBVIOUS
  <2>2. do # AtRest /\ do.op = "import" /\ E!Insert(s, e) /\ UNCHANGED evalRuns
    BY <1>2, <2>1 DEF E!ImportCreates, E!Doing
  <2>3. s \in Snapshots /\ e \in E!Expectations
    BY <2>1, <2>2 DEF EvolInv, HandsOK, HandOK
  <2>4. /\ Adds /\ CasesOK' /\ JudgementsOK' /\ Len(cases') = Len(cases) + 1 /\ Len(cases) \in Nat
        /\ cases'[Len(cases) + 1].expectation = e
    BY <2>2, <2>3, CaseAdded
  <2>5. PICK new : new = (IF e = "none" THEN AtRest ELSE [op |-> "publish", case |-> Len(cases) + 1])
    OBVIOUS
  <2>6. E!Hold(a, new)
    BY <1>2, <2>1, <2>5 DEF E!ImportCreates
  <2>7. new # AtRest => HandOK(new)'
    <3>1. ASSUME new # AtRest
          PROVE  new.op = "publish" /\ new.case = Len(cases) + 1 /\ e # "none"
      BY <2>5, <3>1
    <3>2. Len(cases) + 1 \in 1 .. Len(cases')
      BY <2>4
    <3> QED BY <2>4, <3>1, <3>2 DEF HandOK
  <2> QED BY <2>4, <2>6, <2>7, HandGoes
<1> QED BY <1>1, <1>2 DEF E!Import

\* A run is added.
LEMMA RunAdded ==
    ASSUME EvolInv, NEW run \in JudgementRows, PaperOK(run.paper), UNCHANGED cases,
           evalRuns' = Append(evalRuns, run)
    PROVE  Adds /\ CasesOK' /\ JudgementsOK' /\ Len(evalRuns) + 1 \in 1 .. Len(evalRuns')
<1>1. evalRuns \in Seq(JudgementRows)
  BY DEF EvolInv, JudgementsOK
<1>2. /\ evalRuns' \in Seq(JudgementRows) /\ Len(evalRuns') = Len(evalRuns) + 1 /\ Len(evalRuns) \in Nat
      /\ \A r \in 1 .. Len(evalRuns) : evalRuns'[r] = evalRuns[r] /\ r \in 1 .. Len(evalRuns')
      /\ evalRuns'[Len(evalRuns) + 1] = run /\ Len(evalRuns) + 1 \in 1 .. Len(evalRuns')
      /\ \A r \in 1 .. Len(evalRuns') : r \in 1 .. Len(evalRuns) \/ r = Len(evalRuns) + 1
  BY <1>1
<1>3. Adds /\ CasesOK'
  BY <1>2 DEF EvolInv, Adds, Settles, CasesOK, HeirOK
<1>4. ASSUME NEW paper, PaperOK(paper) PROVE PaperOK(paper)'
  BY <1>3, <1>4, PaperLasts
<1>5. ASSUME NEW r \in 1 .. Len(evalRuns')
      PROVE  PaperOK(evalRuns[r].paper)'
  <2>1. PICK paper : paper = evalRuns'[r].paper
    OBVIOUS
  <2>2. PaperOK(paper)
    BY <1>2, <1>5, <2>1 DEF EvolInv, JudgementsOK
  <2>3. PaperOK(paper)'
    BY <1>4, <2>2
  <2> QED BY <2>1, <2>3
<1> QED BY <1>2, <1>3, <1>5 DEF JudgementsOK

WithResult(run, i) == [run EXCEPT !.results = @ \cup {i}]

LEMMA WithResultIs ==
    ASSUME NEW run \in JudgementRows, NEW i \in Nat
    PROVE  WithResult(run, i) \in JudgementRows /\ WithResult(run, i).paper = run.paper
BY DEF WithResult, JudgementRows

LEMMA Judges ==
    ASSUME EvolInv, NEW a \in Admins, E!RunEval(a)
    PROVE  EvolInv'
<1> DEFINE Papers == UNION {[set -> CaseRows] : set \in SUBSET Nat}
<1>1. CASE E!RunReads(a)
  <2>1. PICK paper, do : paper = [i \in E!Published |-> cases[i]] /\ do = [op |-> "judge", paper |-> paper]
    OBVIOUS
  <2>2. E!Hold(a, do) /\ UNCHANGED <<cases, evalRuns>>
    BY <1>1, <2>1 DEF E!RunReads
  <2>3. \A i \in E!Published : /\ i \in 1 .. Len(cases) /\ i \in Nat /\ cases[i] \in CaseRows
                               /\ cases[i].status = "published" /\ cases[i].expectation # "none"
    BY DEF E!Published, EvolInv, CasesOK
  <2>4. paper \in Papers
    <3>1. E!Published \in SUBSET Nat /\ paper \in [E!Published -> CaseRows]
      BY <2>1, <2>3
    <3> QED BY <3>1
  <2>5. PaperOK(paper)
    BY <2>1, <2>3 DEF PaperOK, Settles
  <2>6. Adds /\ CasesOK' /\ JudgementsOK'
    BY <2>2, AllRest
  <2>7. PaperOK(paper)'
    BY <2>5, <2>6, PaperLasts
  <2>8. HandOK(do)'
    BY <2>1, <2>4, <2>7 DEF HandOK
  <2> QED BY <2>2, <2>6, <2>8, HandGoes
<1>2. ASSUME NEW paper, paper = hand[a].paper, E!Doing(a, "judge")
      PROVE  /\ PaperOK(paper) /\ paper \in Papers /\ DOMAIN paper \subseteq Nat
             /\ E!Cardinality(DOMAIN paper) \in Counts /\ 0 \in Counts
  <2>1. PaperOK(paper) /\ paper \in Papers
    BY <1>2 DEF E!Doing, EvolInv, HandsOK, HandOK
  <2>2. DOMAIN paper \in SUBSET Nat
    BY <2>1
  <2>3. E!Cardinality(DOMAIN paper) \in Counts /\ 0 \in Counts
    BY <2>2 DEF Counts
  <2> HIDE DEF Papers
  <2> QED BY <2>1, <2>2, <2>3
<1>3. CASE E!RunAborts(a)
  <2>1. PICK paper, run : /\ paper = hand[a].paper
                          /\ run = [status |-> "aborted", paper |-> paper, count |-> 0,
                                    passed |-> {}, results |-> {}]
    OBVIOUS
  <2>2. /\ E!Doing(a, "judge") /\ evalRuns' = Append(evalRuns, run) /\ E!Hold(a, AtRest) /\ UNCHANGED cases
    BY <1>3, <2>1 DEF E!RunAborts
  <2>3. run \in JudgementRows /\ PaperOK(run.paper)
    BY <1>2, <2>1, <2>2 DEF JudgementRows
  <2> QED BY <2>2, <2>3, RunAdded, HandGoes
<1>4. CASE E!RunCreates(a)
  <2>1. PICK paper : paper = hand[a].paper
    OBVIOUS
  <2>2. PICK passed \in SUBSET DOMAIN paper :
            evalRuns' = Append(evalRuns, [status |-> "completed", paper |-> paper,
                                          count |-> E!Cardinality(DOMAIN paper),
                                          passed |-> passed, results |-> {}])
    BY <1>4, <2>1 DEF E!RunCreates
  <2>3. PICK run, do : /\ run = [status |-> "completed", paper |-> paper, count |-> E!Cardinality(DOMAIN paper),
                                 passed |-> passed, results |-> {}]
                       /\ do = [op |-> "results", run |-> Len(evalRuns) + 1]
    OBVIOUS
  <2>4. E!Doing(a, "judge") /\ E!Hold(a, do) /\ UNCHANGED cases
    BY <1>4, <2>3 DEF E!RunCreates
  <2>5. PaperOK(paper) /\ paper \in Papers /\ passed \in SUBSET Nat /\ E!Cardinality(DOMAIN paper) \in Counts
    BY <1>2, <2>1, <2>4
  <2>6. run \in JudgementRows /\ PaperOK(run.paper)
    BY <2>3, <2>5 DEF JudgementRows
  <2>7. Adds /\ CasesOK' /\ JudgementsOK' /\ Len(evalRuns) + 1 \in 1 .. Len(evalRuns')
    BY <2>2, <2>3, <2>4, <2>6, RunAdded
  <2>8. HandOK(do)'
    BY <2>3, <2>7 DEF HandOK
  <2> QED BY <2>4, <2>7, <2>8, HandGoes
<1>5. CASE E!RecordResult(a)
  <2>1. PICK do, r : do = hand[a] /\ r = do.run
    OBVIOUS
  <2>2. do # AtRest /\ do.op = "results" /\ UNCHANGED cases
    BY <1>5, <2>1 DEF E!RecordResult, E!Doing
  <2>3. r \in 1 .. Len(evalRuns)
    BY <2>1, <2>2 DEF EvolInv, HandsOK, HandOK
  <2>4. PICK i \in DOMAIN evalRuns[r].paper : /\ evalRuns' = [evalRuns EXCEPT ![r] = WithResult(evalRuns[r], i)]
                                              /\ E!Hold(a, AtRest) \/ E!Hold(a, do)
    BY <1>5, <2>1 DEF E!RecordResult, WithResult
  <2>5. PICK run : run = WithResult(evalRuns[r], i)
    OBVIOUS
  <2>6. evalRuns \in Seq(JudgementRows) /\ evalRuns[r] \in JudgementRows /\ PaperOK(evalRuns[r].paper)
    BY <2>3 DEF EvolInv, JudgementsOK
  <2>7. i \in Nat
    BY <2>6 DEF JudgementRows
  <2>8. run \in JudgementRows /\ run.paper = evalRuns[r].paper
    BY <2>5, <2>6, <2>7, WithResultIs
  <2>9. /\ evalRuns' \in Seq(JudgementRows) /\ Len(evalRuns') = Len(evalRuns)
        /\ \A q \in 1 .. Len(evalRuns) : evalRuns'[q] = evalRuns[q] \/ (q = r /\ evalRuns'[q] = run)
    BY <2>3, <2>4, <2>5, <2>6, <2>8
  <2>10. Adds /\ CasesOK'
    BY <2>2, <2>9 DEF EvolInv, Adds, Settles, CasesOK, HeirOK
  <2>11. ASSUME NEW q \in 1 .. Len(evalRuns')
         PROVE  PaperOK(evalRuns[q].paper)'
    <3>1. PICK paper : paper = evalRuns'[q].paper
      OBVIOUS
    <3>2. PaperOK(paper)
      BY <2>6, <2>8, <2>9, <2>11, <3>1 DEF EvolInv, JudgementsOK
    <3>3. PaperOK(paper)'
      BY <2>10, <3>2, PaperLasts
    <3> QED BY <3>1, <3>3
  <2>12. JudgementsOK'
    BY <2>9, <2>11 DEF JudgementsOK
  <2>13. HandOK(do)'
    BY <2>1, <2>2, <2>3, <2>9 DEF HandOK
  <2> QED BY <2>4, <2>10, <2>12, <2>13, HandGoes
<1> QED BY <1>1, <1>3, <1>4, <1>5 DEF E!RunEval

LEMMA EvolOfSystem ==
    ASSUME EvolInv, [Next]_vars
    PROVE  EvolInv'
<1>1. E!Next \/ UNCHANGED eVars
  BY DEF Next, vars
<1>2. ASSUME UNCHANGED eVars
      PROVE  EvolInv'
  <2>1. UNCHANGED <<cases, evalRuns, hand>>
    BY <1>2 DEF eVars
  <2> QED BY <2>1, AllRest, HandsRest
<1>3. ASSUME NEW a \in Admins, E!Die(a)
      PROVE  EvolInv'
  BY <1>3, AllRest, HandGoes DEF E!Die
<1> QED BY <1>1, <1>2, <1>3, Curates, Imports, Judges DEF E!Next

LEMMA EvolInit ==
    ASSUME E!Init
    PROVE  EvolInv
BY DEF E!Init, EvolInv, CasesOK, JudgementsOK, HandsOK

LEMMA JudgedStays ==
    ASSUME EvolInv
    PROVE  E!JudgedStaysFixed /\ E!HeirsAreYounger
<1>1. DOMAIN cases = 1 .. Len(cases) /\ DOMAIN evalRuns = 1 .. Len(evalRuns)
  BY DEF EvolInv, CasesOK, JudgementsOK
<1> QED BY <1>1 DEF EvolInv, CasesOK, JudgementsOK, PaperOK, Settles, HeirOK, E!JudgedStaysFixed, E!HeirsAreYounger

\* A package that agents may use was reviewed by another than its owner and is
\* bound only once it was enabled, and what a run was judged by stays.
THEOREM AgentsVetted == Spec => []AgentsAreVetted
<1>1. Init => SkillInv /\ EvolInv
  BY SkillInit, EvolInit DEF Init
<1>2. SkillInv /\ EvolInv /\ [Next]_vars => SkillInv' /\ EvolInv'
  BY SkillOfSystem, EvolOfSystem
<1>3. SkillInv /\ EvolInv => AgentsAreVetted
  BY ToolsVetted, JudgedStays DEF AgentsAreVetted
<1> QED BY <1>1, <1>2, <1>3, PTL DEF Spec

-----------------------------------------------------------------------------
(*                A text and its publications: inductive invariant         *)

DraftRows == [revision : Nat \ {0}, status : {"reviewing", "confirmed", "failed"}, body : Bodies \cup {Blank}]
RecordRows == [drafts : SUBSET DraftRows, regenerations : SUBSET RegenerationKeys]
PublicationRows == [status : {"pending", "succeeded", "manual_takeover"} \cup Receipts, receipt : BOOLEAN]

\* A record, or a copy of one: a last draft, and confirmed drafts that a
\* confirmation saved.
RecordOK(r, once) ==
    /\ r \in RecordRows
    /\ \E d \in r.drafts : \A e \in r.drafts : e.revision <= d.revision
    /\ \A d \in r.drafts : d.status = "confirmed" => <<d.revision, d.body>> \in once

Publishing == {"publish", "call", "succeeded", "manual_takeover"}

\* A row, with a receipt only after a call.
RowOK(r) ==
    /\ publications[r] \in PublicationRows
    /\ publications[r].receipt => \E c \in calls : c.revision = r

\* What a request may hold.
PenOK(step) ==
    \/ step.op = "create"
    \/ step.op = "verify" /\ (step.revision \in C!Revisions => RowOK(step.revision))
    \/ /\ RecordOK(step.copy, confirmedOnce) /\ step = [op |-> step.op, copy |-> step.copy, key |-> step.key]
       /\ \/ step.op = "regenerate" /\ step.key \in RegenerationKeys
          \/ step.op \in {"edit", "confirm"} /\ C!Draft(step.copy).status = "reviewing"
          \/ step.op \in {"revoke", "export"}
          \/ /\ step.op \in Publishing /\ C!Draft(step.copy).status = "confirmed"
             /\ step.op = "succeeded" => \E c \in calls : c.revision = C!Draft(step.copy).revision

CallsOK == \A c \in calls : <<c.revision, c.body>> \in confirmedOnce

PublicationsOK ==
    /\ DOMAIN publications = C!Revisions
    /\ \A r \in C!Revisions : publications[r] # Blank => RowOK(r)

ContentInv ==
    /\ article # Blank => RecordOK(article, confirmedOnce)
    /\ DOMAIN pen = C!People /\ \A p \in C!People : pen[p] # Blank => PenOK(pen[p])
    /\ CallsOK /\ PublicationsOK

-----------------------------------------------------------------------------
(*                           Records and their drafts                      *)

LEMMA DraftIs ==
    ASSUME NEW r, NEW once, RecordOK(r, once)
    PROVE  /\ C!Draft(r) \in r.drafts /\ C!Draft(r) \in DraftRows
           /\ \A e \in r.drafts : e.revision <= C!Draft(r).revision
BY DEF RecordOK, RecordRows, C!Draft

\* The last draft replaced by one that is not older.
LEMMA WithDraftIs ==
    ASSUME NEW r, NEW once, RecordOK(r, once), NEW more, once \subseteq more, NEW d \in DraftRows,
           C!Draft(r).revision <= d.revision, d.status = "confirmed" => <<d.revision, d.body>> \in more
    PROVE  RecordOK(C!WithDraft(r, d), more)
<1>1. PICK set : set = (r.drafts \ {C!Draft(r)}) \cup {d}
  OBVIOUS
<1>2. r \in RecordRows /\ r.drafts \subseteq DraftRows
  BY DEF RecordOK, RecordRows
<1>3. C!WithDraft(r, d) = [r EXCEPT !.drafts = set]
  BY <1>1 DEF C!WithDraft
<1>4. C!WithDraft(r, d) \in RecordRows /\ C!WithDraft(r, d).drafts = set
  BY <1>1, <1>2, <1>3 DEF RecordRows
<1>5. \A e \in set : e.revision <= d.revision
  <2>1. ASSUME NEW e \in set, e # d PROVE e.revision <= d.revision
    <3>1. e \in r.drafts /\ e.revision <= C!Draft(r).revision
      BY <1>1, <2>1, DraftIs
    <3>2. e.revision \in Nat /\ C!Draft(r).revision \in Nat /\ d.revision \in Nat
      BY <1>2, <3>1, DraftIs DEF DraftRows
    <3> QED BY <3>1, <3>2
  <2>2. d.revision <= d.revision
    BY DEF DraftRows
  <2> QED BY <2>1, <2>2
<1>6. \A e \in set : e.status = "confirmed" => <<e.revision, e.body>> \in more
  BY <1>1 DEF RecordOK
<1> QED BY <1>1, <1>4, <1>5, <1>6 DEF RecordOK

\* A first draft added to a copy.
LEMMA WithFirstIs ==
    ASSUME NEW r, NEW once, RecordOK(r, once), NEW d \in C!Generated, NEW k \in RegenerationKeys
    PROVE  RecordOK([drafts |-> r.drafts \cup {d}, regenerations |-> r.regenerations \cup {k}], once)
<1>1. PICK new : new = [drafts |-> r.drafts \cup {d}, regenerations |-> r.regenerations \cup {k}]
  OBVIOUS
<1>2. d \in DraftRows /\ d.revision = 1 /\ d.status # "confirmed"
  BY DEF C!Generated, DraftRows
<1>3. r \in RecordRows
  BY DEF RecordOK
<1>4. new \in RecordRows /\ new.drafts = r.drafts \cup {d}
  BY <1>1, <1>2, <1>3 DEF RecordRows
<1>5. C!Draft(r) \in r.drafts /\ C!Draft(r).revision \in Nat \ {0}
  BY DraftIs DEF DraftRows
<1>6. \A e \in r.drafts \cup {d} : e.revision <= C!Draft(r).revision
  BY <1>2, <1>5, DraftIs
<1>7. \A e \in r.drafts \cup {d} : e.status = "confirmed" => <<e.revision, e.body>> \in once
  BY <1>2 DEF RecordOK
<1>8. RecordOK(new, once)
  BY <1>4, <1>5, <1>6, <1>7 DEF RecordOK
<1> QED BY <1>1, <1>8

LEMMA OnlyFirst ==
    ASSUME NEW d \in C!Generated, NEW once
    PROVE  RecordOK([drafts |-> {d}, regenerations |-> {}], once)
<1>1. PICK new : new = [drafts |-> {d}, regenerations |-> {}]
  OBVIOUS
<1>2. d \in DraftRows /\ d.revision = 1 /\ d.status # "confirmed"
  BY DEF C!Generated, DraftRows
<1>3. new \in RecordRows /\ new.drafts = {d}
  BY <1>1, <1>2 DEF RecordRows
<1>4. RecordOK(new, once)
  BY <1>2, <1>3 DEF RecordOK
<1> QED BY <1>1, <1>4

-----------------------------------------------------------------------------
(*                            What a step keeps                            *)

\* Calls and confirmations are never taken back, nor publications.
Grows ==
    /\ confirmedOnce \subseteq confirmedOnce' /\ calls \subseteq calls'
    /\ \A r \in C!Revisions : RowOK(r) => RowOK(r)'

LEMMA RecordGrows ==
    ASSUME Grows, NEW r, RecordOK(r, confirmedOnce)
    PROVE  RecordOK(r, confirmedOnce')
BY DEF Grows, RecordOK

LEMMA PenGrows ==
    ASSUME Grows, NEW step, PenOK(step)
    PROVE  PenOK(step)'
<1>1. CASE step.op = "create"
  BY <1>1 DEF PenOK
<1>2. CASE step.op = "verify" /\ (step.revision \in C!Revisions => RowOK(step.revision))
  BY <1>2 DEF PenOK, Grows
<1>3. CASE /\ RecordOK(step.copy, confirmedOnce) /\ step.op \notin {"create", "verify"}
           /\ step = [op |-> step.op, copy |-> step.copy, key |-> step.key]
  <2>1. RecordOK(step.copy, confirmedOnce')
    BY <1>3, RecordGrows
  <2>2. \A r : (\E c \in calls : c.revision = r) => \E c \in calls' : c.revision = r
    BY DEF Grows
  <2> QED BY <1>3, <2>1, <2>2 DEF PenOK
<1> QED BY <1>1, <1>2, <1>3 DEF PenOK, Publishing

\* One request goes on.
LEMMA PenGoes ==
    ASSUME ContentInv, Grows, NEW p \in C!People, NEW step, C!Hold(p, step), step = Blank \/ PenOK(step)',
           article' # Blank => article' = article \/ RecordOK(article', confirmedOnce'),
           CallsOK', PublicationsOK'
    PROVE  ContentInv'
<1>1. /\ DOMAIN pen' = C!People /\ pen'[p] = step
      /\ \A q \in C!People \ {p} : pen'[q] = pen[q]
  BY DEF ContentInv, C!Hold
<1>2. ASSUME NEW q \in C!People, pen'[q] # Blank
      PROVE  PenOK(pen[q])'
  <2>1. CASE q = p
    BY <1>1, <1>2, <2>1
  <2>2. CASE q # p
    <3>1. PICK s : s = pen[q]
      OBVIOUS
    <3>2. PenOK(s) /\ pen'[q] = s
      BY <1>1, <1>2, <2>2, <3>1 DEF ContentInv
    <3>3. PenOK(s)'
      BY <3>2, PenGrows
    <3> QED BY <3>2, <3>3
  <2> QED BY <2>1, <2>2
<1>3. article' # Blank => RecordOK(article', confirmedOnce')
  <2>1. ASSUME article' # Blank, article' = article PROVE RecordOK(article', confirmedOnce')
    BY <2>1, RecordGrows DEF ContentInv
  <2> QED BY <2>1
<1> QED BY <1>1, <1>2, <1>3 DEF ContentInv

\* Requests that leave calls, confirmations and publications alone.
LEMMA Quietly ==
    ASSUME ContentInv, UNCHANGED <<publications, calls, confirmedOnce>>
    PROVE  Grows /\ CallsOK' /\ PublicationsOK'
BY DEF ContentInv, Grows, CallsOK, PublicationsOK, RowOK

\* What a request holds once it has read the record.
LEMMA ReadsIs ==
    ASSUME ContentInv, NEW p, NEW op, NEW key, C!Reads(p, op, key), UNCHANGED <<publications, calls, confirmedOnce>>
    PROVE  \E s : /\ C!Hold(p, s) /\ s.op = op /\ s.key = key /\ s.copy = article
                  /\ RecordOK(s.copy, confirmedOnce') /\ s = [op |-> s.op, copy |-> s.copy, key |-> s.key]
<1>1. PICK s : s = [op |-> op, copy |-> article, key |-> key]
  OBVIOUS
<1>2. C!Hold(p, s) /\ article # Blank
  BY <1>1 DEF C!Reads
<1>3. RecordOK(article, confirmedOnce')
  BY <1>2 DEF ContentInv
<1> QED BY <1>1, <1>2, <1>3

LEMMA OpensKeeps ==
    ASSUME ContentInv, NEW p \in C!People, NEW op, NEW status, C!Opens(p, op, status),
           \/ op \in {"edit", "confirm"} /\ status = "reviewing"
           \/ op \in {"revoke", "export"}
           \/ op = "publish" /\ status = "confirmed"
    PROVE  ContentInv'
<1>1. /\ C!Reads(p, op, Blank) /\ C!Draft(article).status = status
      /\ UNCHANGED <<article, publications, calls, contentRuns, confirmedOnce>>
  BY DEF C!Opens
<1>2. PICK s : /\ C!Hold(p, s) /\ s.op = op /\ s.copy = article /\ RecordOK(s.copy, confirmedOnce')
               /\ s = [op |-> s.op, copy |-> s.copy, key |-> s.key]
  BY <1>1, ReadsIs
<1>3. PenOK(s)'
  BY <1>1, <1>2 DEF PenOK, Publishing
<1> QED BY <1>1, <1>2, <1>3, Quietly, PenGoes

LEMMA Creates ==
    ASSUME ContentInv, C!CreateStarts \/ C!CreateAdds
    PROVE  ContentInv'
<1>1. Author \in C!People
  BY DEF C!People
<1>2. CASE C!CreateStarts
  <2>1. PICK s : s = [op |-> "create"]
    OBVIOUS
  <2>2. PenOK(s)'
    BY <2>1 DEF PenOK
  <2> QED BY <1>1, <1>2, <2>1, <2>2, Quietly, PenGoes DEF C!CreateStarts
<1>3. CASE C!CreateAdds
  <2>1. RecordOK(article', confirmedOnce')
    BY <1>3, OnlyFirst DEF C!CreateAdds
  <2> QED BY <1>1, <1>3, <2>1, Quietly, PenGoes DEF C!CreateAdds
<1> QED BY <1>2, <1>3

LEMMA Regenerates ==
    ASSUME ContentInv, NEW p \in C!People, C!Regenerate(p)
    PROVE  ContentInv'
<1>1. ASSUME NEW key \in RegenerationKeys, C!RegenerateStarts(p, key)
      PROVE  ContentInv'
  <2>1. PICK s : /\ C!Hold(p, s) /\ s.op = "regenerate" /\ s.key = key /\ RecordOK(s.copy, confirmedOnce')
                 /\ s = [op |-> s.op, copy |-> s.copy, key |-> s.key]
    BY <1>1, ReadsIs DEF C!RegenerateStarts
  <2>2. PenOK(s)'
    BY <2>1 DEF PenOK
  <2> QED BY <1>1, <2>1, <2>2, Quietly, PenGoes DEF C!RegenerateStarts
<1>2. ASSUME C!RegenerateSaves(p)
      PROVE  ContentInv'
  <2>1. RecordOK(pen[p].copy, confirmedOnce) /\ pen[p].key \in RegenerationKeys
    BY <1>2 DEF C!RegenerateSaves, C!Holds, ContentInv, PenOK, Publishing
  <2>2. article' = article \/ RecordOK(article', confirmedOnce')
    <3>1. PICK d \in C!Generated :
              article' = IF C!OneDraftPerRevision(pen[p].copy.drafts \cup {d}) /\ d \notin pen[p].copy.drafts
                         THEN [drafts |-> pen[p].copy.drafts \cup {d},
                               regenerations |-> pen[p].copy.regenerations \cup {pen[p].key}]
                         ELSE article
      BY <1>2 DEF C!RegenerateSaves
    <3>2. RecordOK([drafts |-> pen[p].copy.drafts \cup {d},
                    regenerations |-> pen[p].copy.regenerations \cup {pen[p].key}], confirmedOnce)
      BY <2>1, WithFirstIs
    <3>3. confirmedOnce' = confirmedOnce
      BY <1>2 DEF C!RegenerateSaves
    <3> QED BY <3>1, <3>2, <3>3
  <2> QED BY <1>2, <2>2, Quietly, PenGoes DEF C!RegenerateSaves
<1> QED BY <1>1, <1>2 DEF C!Regenerate

\* A copy saved with a draft in place of its last one.
LEMMA Saves ==
    ASSUME ContentInv, NEW p \in C!People, NEW op, NEW d \in DraftRows, C!SaveDraft(p, op, d),
           RecordOK(pen[p].copy, confirmedOnce), C!Draft(pen[p].copy).revision <= d.revision,
           confirmedOnce \subseteq confirmedOnce',
           d.status = "confirmed" => <<d.revision, d.body>> \in confirmedOnce'
    PROVE  ContentInv'
<1>1. /\ article' = C!WithDraft(pen[p].copy, d) /\ C!Hold(p, Blank)
      /\ UNCHANGED <<publications, calls, contentRuns>>
  BY DEF C!SaveDraft
<1>2. RecordOK(article', confirmedOnce')
  <2>1. PICK more : more = confirmedOnce'
    OBVIOUS
  <2>2. PICK r : r = pen[p].copy
    OBVIOUS
  <2>3. RecordOK(C!WithDraft(r, d), more)
    BY <2>1, <2>2, WithDraftIs
  <2> QED BY <1>1, <2>1, <2>2, <2>3
<1>3. Grows /\ CallsOK' /\ PublicationsOK'
  BY <1>1 DEF ContentInv, Grows, CallsOK, PublicationsOK, RowOK
<1> QED BY <1>1, <1>2, <1>3, PenGoes

\* The next revision of a draft: with another text, or open again.
Rewritten(d, n, body) == [d EXCEPT !.revision = n, !.body = body]
Reopened(d, n) == [d EXCEPT !.revision = n, !.status = "reviewing"]
Confirmed(d) == [d EXCEPT !.status = "confirmed"]

LEMMA RewrittenIs ==
    ASSUME NEW d \in DraftRows, NEW n \in Nat \ {0}, NEW body \in Bodies
    PROVE  /\ Rewritten(d, n, body) \in DraftRows /\ Rewritten(d, n, body).status = d.status
           /\ Rewritten(d, n, body).revision = n
BY DEF Rewritten, DraftRows

LEMMA ReopenedIs ==
    ASSUME NEW d \in DraftRows, NEW n \in Nat \ {0}
    PROVE  /\ Reopened(d, n) \in DraftRows /\ Reopened(d, n).status = "reviewing"
           /\ Reopened(d, n).revision = n
BY DEF Reopened, DraftRows

LEMMA ConfirmedIs ==
    ASSUME NEW d \in DraftRows
    PROVE  /\ Confirmed(d) \in DraftRows /\ Confirmed(d).revision = d.revision /\ Confirmed(d).body = d.body
           /\ d.revision <= d.revision /\ d.revision <= d.revision + 1 /\ d.revision + 1 \in Nat \ {0}
BY DEF Confirmed, DraftRows

LEMMA SaveSteps ==
    ASSUME ContentInv, NEW p \in C!People,
           \/ \E body \in Bodies : C!UpdateSaves(p, body)
           \/ C!ConfirmSaves(p) \/ C!RevokeSaves(p) \/ C!ExportSaves(p)
    PROVE  ContentInv'
<1>1. PICK d : d = C!Draft(pen[p].copy)
  OBVIOUS
<1>2. ASSUME NEW op \in {"edit", "confirm", "revoke", "export"}, NEW new, C!SaveDraft(p, op, new)
      PROVE  /\ RecordOK(pen[p].copy, confirmedOnce) /\ d \in DraftRows /\ d \in pen[p].copy.drafts
             /\ op = "edit" => d.status = "reviewing"
  <2>1. /\ RecordOK(pen[p].copy, confirmedOnce)
        /\ op = "edit" => C!Draft(pen[p].copy).status = "reviewing"
    BY <1>2 DEF C!SaveDraft, C!Holds, ContentInv, PenOK, Publishing
  <2> QED BY <1>1, <2>1, DraftIs
<1>3. ASSUME NEW body \in Bodies, C!UpdateSaves(p, body)
      PROVE  ContentInv'
  <2>1. PICK n, e : n = d.revision + 1 /\ e = Rewritten(d, n, body)
    OBVIOUS
  <2>2. C!SaveDraft(p, "edit", e) /\ UNCHANGED confirmedOnce
    BY <1>1, <1>3, <2>1 DEF C!UpdateSaves, Rewritten
  <2>3. RecordOK(pen[p].copy, confirmedOnce) /\ d \in DraftRows /\ d.status = "reviewing"
    BY <1>2, <2>2
  <2>4. n \in Nat \ {0} /\ d.revision <= n
    BY <2>1, <2>3, ConfirmedIs
  <2>5. e \in DraftRows /\ e.status = "reviewing" /\ d.revision <= e.revision
    BY <2>1, <2>3, <2>4, RewrittenIs
  <2> QED BY <1>1, <2>2, <2>3, <2>5, Saves
<1>4. ASSUME C!RevokeSaves(p)
      PROVE  ContentInv'
  <2>1. PICK n, e : n = d.revision + 1 /\ e = Reopened(d, n)
    OBVIOUS
  <2>2. C!SaveDraft(p, "revoke", e) /\ UNCHANGED confirmedOnce
    BY <1>1, <1>4, <2>1 DEF C!RevokeSaves, Reopened
  <2>3. RecordOK(pen[p].copy, confirmedOnce) /\ d \in DraftRows
    BY <1>2, <2>2
  <2>4. n \in Nat \ {0} /\ d.revision <= n
    BY <2>1, <2>3, ConfirmedIs
  <2>5. e \in DraftRows /\ e.status = "reviewing" /\ d.revision <= e.revision
    BY <2>1, <2>3, <2>4, ReopenedIs
  <2> QED BY <1>1, <2>2, <2>3, <2>5, Saves
<1>5. ASSUME C!ConfirmSaves(p)
      PROVE  ContentInv'
  <2>1. PICK e : e = Confirmed(d)
    OBVIOUS
  <2>2. C!SaveDraft(p, "confirm", e) /\ confirmedOnce' = confirmedOnce \cup {<<d.revision, d.body>>}
    BY <1>1, <1>5, <2>1 DEF C!ConfirmSaves, Confirmed
  <2>3. RecordOK(pen[p].copy, confirmedOnce) /\ d \in DraftRows
    BY <1>2, <2>2
  <2>4. e \in DraftRows /\ d.revision <= e.revision /\ <<e.revision, e.body>> \in confirmedOnce'
    BY <2>1, <2>2, <2>3, ConfirmedIs
  <2> QED BY <1>1, <2>2, <2>3, <2>4, Saves
<1>6. ASSUME C!ExportSaves(p)
      PROVE  ContentInv'
  <2>1. C!SaveDraft(p, "export", d) /\ UNCHANGED confirmedOnce
    BY <1>1, <1>6 DEF C!ExportSaves
  <2>2. RecordOK(pen[p].copy, confirmedOnce) /\ d \in DraftRows /\ d \in pen[p].copy.drafts /\ d.revision <= d.revision
    BY <1>2, <2>1, ConfirmedIs
  <2>3. d.status = "confirmed" => <<d.revision, d.body>> \in confirmedOnce'
    BY <2>1, <2>2 DEF RecordOK
  <2> QED BY <1>1, <2>1, <2>2, <2>3, Saves
<1> QED BY <1>3, <1>4, <1>5, <1>6

\* A request that goes on to its next step.
Going(step, op) == [step EXCEPT !.op = op]

LEMMA GoingIs ==
    ASSUME NEW step, step = [op |-> step.op, copy |-> step.copy, key |-> step.key], NEW op
    PROVE  /\ Going(step, op).op = op /\ Going(step, op).copy = step.copy
           /\ Going(step, op) = [op |-> Going(step, op).op, copy |-> Going(step, op).copy, key |-> Going(step, op).key]
<1>1. PICK c, k : c = step.copy /\ k = step.key
  OBVIOUS
<1>2. step = [op |-> step.op, copy |-> c, key |-> k]
  BY <1>1
<1>3. Going(step, op) = [op |-> op, copy |-> c, key |-> k]
  BY <1>2 DEF Going
<1> QED BY <1>1, <1>3

LEMMA PublishingIs ==
    ASSUME ContentInv, NEW p \in C!People, NEW op \in Publishing, C!Holds(p, op)
    PROVE  /\ RecordOK(pen[p].copy, confirmedOnce) /\ C!Draft(pen[p].copy).status = "confirmed"
           /\ pen[p] = [op |-> pen[p].op, copy |-> pen[p].copy, key |-> pen[p].key]
           /\ <<C!Revision(p), C!Draft(pen[p].copy).body>> \in confirmedOnce
           /\ op = "succeeded" => \E c \in calls : c.revision = C!Revision(p)
<1>1. /\ RecordOK(pen[p].copy, confirmedOnce) /\ C!Draft(pen[p].copy).status = "confirmed"
      /\ pen[p] = [op |-> pen[p].op, copy |-> pen[p].copy, key |-> pen[p].key]
      /\ op = "succeeded" => \E c \in calls : c.revision = C!Draft(pen[p].copy).revision
  BY DEF C!Holds, ContentInv, PenOK, Publishing
<1>2. C!Draft(pen[p].copy) \in pen[p].copy.drafts
  BY <1>1, DraftIs
<1>3. <<C!Draft(pen[p].copy).revision, C!Draft(pen[p].copy).body>> \in confirmedOnce
  BY <1>1, <1>2 DEF RecordOK
<1> QED BY <1>1, <1>3 DEF C!Revision

LEMMA PublishSteps ==
    ASSUME ContentInv, NEW p \in C!People, C!Publish(p)
    PROVE  ContentInv'
<1>1. CASE C!PublishReads(p)
  BY <1>1, OpensKeeps DEF C!PublishReads
<1>2. CASE C!PublishAdds(p)
  <2>1. PICK r, s : r = C!Revision(p) /\ s = Going(pen[p], "call")
    OBVIOUS
  <2>2. "publish" \in Publishing /\ C!Holds(p, "publish")
    BY <1>2 DEF C!PublishAdds, Publishing
  <2>3. /\ RecordOK(pen[p].copy, confirmedOnce) /\ C!Draft(pen[p].copy).status = "confirmed"
        /\ pen[p] = [op |-> pen[p].op, copy |-> pen[p].copy, key |-> pen[p].key]
    BY <2>2, PublishingIs
  <2>4. s.op = "call" /\ s.copy = pen[p].copy /\ s = [op |-> s.op, copy |-> s.copy, key |-> s.key]
    BY <2>1, <2>3, GoingIs
  <2>5. calls' = calls /\ confirmedOnce' = confirmedOnce /\ article' = article
    BY <1>2 DEF C!PublishAdds
  <2>6. PenOK(s)'
    BY <2>3, <2>4, <2>5 DEF PenOK, Publishing
  <2>7. C!Hold(p, s) \/ C!Hold(p, Blank)
    BY <1>2, <2>1 DEF C!PublishAdds, Going
  <2>8. \/ publications' = publications
        \/ publications' = [publications EXCEPT ![r] = [status |-> "pending", receipt |-> FALSE]]
    BY <1>2, <2>1 DEF C!PublishAdds
  <2>9. Grows /\ CallsOK' /\ PublicationsOK'
    <3>1. PICK row : row = [status |-> "pending", receipt |-> FALSE]
      OBVIOUS
    <3>2. row \in PublicationRows /\ ~row.receipt
      BY <3>1 DEF PublicationRows
    <3>3. DOMAIN publications = C!Revisions
      BY DEF ContentInv, PublicationsOK
    <3>4. \A q \in C!Revisions : publications'[q] = publications[q] \/ publications'[q] = row
      BY <2>8, <3>1, <3>3
    <3>5. DOMAIN publications' = C!Revisions
      BY <2>8, <3>3
    <3> QED BY <2>5, <3>2, <3>4, <3>5 DEF ContentInv, Grows, CallsOK, PublicationsOK, RowOK
  <2> QED BY <2>5, <2>6, <2>7, <2>9, PenGoes
<1>3. ASSUME NEW accepted \in BOOLEAN, C!CallPlatform(p, accepted)
      PROVE  ContentInv'
  <2>1. PICK op, s : op = (IF accepted THEN "succeeded" ELSE "manual_takeover") /\ s = Going(pen[p], op)
    OBVIOUS
  <2>2. PICK c : c = [revision |-> C!Revision(p), body |-> C!Draft(pen[p].copy).body, by |-> p]
    OBVIOUS
  <2>3. "call" \in Publishing /\ C!Holds(p, "call") /\ op \in {"succeeded", "manual_takeover"}
    BY <1>3, <2>1 DEF C!CallPlatform, Publishing
  <2>4. /\ RecordOK(pen[p].copy, confirmedOnce) /\ C!Draft(pen[p].copy).status = "confirmed"
        /\ pen[p] = [op |-> pen[p].op, copy |-> pen[p].copy, key |-> pen[p].key]
        /\ <<C!Revision(p), C!Draft(pen[p].copy).body>> \in confirmedOnce
    BY <2>3, PublishingIs
  <2>5. s.op = op /\ s.copy = pen[p].copy /\ s = [op |-> s.op, copy |-> s.copy, key |-> s.key]
    BY <2>1, <2>4, GoingIs
  <2>6. /\ calls' = calls \cup {c} /\ C!Hold(p, s)
        /\ UNCHANGED <<article, publications, confirmedOnce>>
    BY <1>3, <2>1, <2>2 DEF C!CallPlatform, Going
  <2>7. \E e \in calls' : e.revision = C!Draft(pen[p].copy).revision
    BY <2>2, <2>6 DEF C!Revision
  <2>8. PenOK(s)'
    <3>1. RecordOK(s.copy, confirmedOnce') /\ C!Draft(s.copy).status = "confirmed"
          /\ \E e \in calls' : e.revision = C!Draft(s.copy).revision
      BY <2>4, <2>5, <2>6, <2>7
    <3> QED BY <2>3, <2>5, <3>1 DEF PenOK, Publishing
  <2>9. Grows /\ CallsOK' /\ PublicationsOK'
    <3>1. <<c.revision, c.body>> \in confirmedOnce
      BY <2>2, <2>4
    <3> QED BY <2>6, <3>1 DEF ContentInv, Grows, CallsOK, PublicationsOK, RowOK
  <2> QED BY <2>6, <2>8, <2>9, PenGoes
<1>4. ASSUME NEW answered \in {"succeeded", "manual_takeover"}, C!MarkResult(p, answered)
      PROVE  ContentInv'
  <2>1. PICK r, row : r = C!Revision(p) /\ row = [status |-> answered, receipt |-> (answered = "succeeded")]
    OBVIOUS
  <2>2. answered \in Publishing /\ C!Holds(p, answered)
    BY <1>4 DEF C!MarkResult, Publishing
  <2>3. answered = "succeeded" => \E c \in calls : c.revision = r
    BY <2>1, <2>2, PublishingIs
  <2>4. /\ publications' = [publications EXCEPT ![r] = row] /\ C!Hold(p, Blank)
        /\ UNCHANGED <<article, calls, confirmedOnce>>
    BY <1>4, <2>1 DEF C!MarkResult
  <2>5. row \in PublicationRows /\ (row.receipt => answered = "succeeded")
    BY <2>1 DEF PublicationRows
  <2>6. Grows /\ CallsOK' /\ PublicationsOK'
    <3>1. DOMAIN publications = C!Revisions
      BY DEF ContentInv, PublicationsOK
    <3>2. \A q \in C!Revisions : publications'[q] = publications[q] \/ (q = r /\ publications'[q] = row)
      BY <2>4, <3>1
    <3>3. DOMAIN publications' = C!Revisions
      BY <2>4, <3>1
    <3> QED BY <2>3, <2>4, <2>5, <3>2, <3>3 DEF ContentInv, Grows, CallsOK, PublicationsOK, RowOK
  <2> QED BY <2>4, <2>6, PenGoes
<1> QED BY <1>1, <1>2, <1>3, <1>4 DEF C!Publish

\* The status of a publication that the platform told.
Told(row, verdict) == [row EXCEPT !.status = verdict]

LEMMA ToldIs ==
    ASSUME NEW row \in PublicationRows, NEW verdict \in Receipts
    PROVE  Told(row, verdict) \in PublicationRows /\ Told(row, verdict).receipt = row.receipt
BY DEF Told, PublicationRows

LEMMA VerifySteps ==
    ASSUME ContentInv, NEW p \in C!People, C!Verify(p)
    PROVE  ContentInv'
<1>1. ASSUME NEW r \in C!Revisions, C!VerifyReads(p, r)
      PROVE  ContentInv'
  <2>1. PICK s : s = [op |-> "verify", revision |-> r]
    OBVIOUS
  <2>2. C!Hold(p, s) /\ UNCHANGED <<article, publications, calls, confirmedOnce>> /\ publications[r] # Blank
    BY <1>1, <2>1 DEF C!VerifyReads
  <2>3. RowOK(r)
    BY <2>2 DEF ContentInv, PublicationsOK, RowOK
  <2>4. s.op = "verify" /\ s.revision = r
    BY <2>1
  <2>5. PenOK(s)'
    BY <2>2, <2>3, <2>4 DEF PenOK, RowOK
  <2> QED BY <2>2, <2>5, Quietly, PenGoes
<1>2. ASSUME NEW verdict \in Receipts, C!MarkVerified(p, verdict)
      PROVE  ContentInv'
  <2>1. PICK r : r = pen[p].revision
    OBVIOUS
  <2>2. /\ publications' = [publications EXCEPT ![r] = Told(publications[r], verdict)]
        /\ C!Hold(p, Blank) /\ C!Holds(p, "verify") /\ UNCHANGED <<article, calls, confirmedOnce>>
    BY <1>2, <2>1 DEF C!MarkVerified, Told
  <2>3. r \in C!Revisions => RowOK(r)
    BY <2>1, <2>2 DEF C!Holds, ContentInv, PenOK, Publishing
  <2>4. Grows /\ CallsOK' /\ PublicationsOK'
    <3>1. DOMAIN publications = C!Revisions
      BY DEF ContentInv, PublicationsOK
    <3>2. PICK row : row = Told(publications[r], verdict)
      OBVIOUS
    <3>3. r \in C!Revisions => row \in PublicationRows /\ (row.receipt => \E c \in calls : c.revision = r)
      BY <2>3, <3>2, ToldIs DEF RowOK
    <3>4. /\ \A q \in C!Revisions : publications'[q] = publications[q] \/ (q = r /\ publications'[q] = row)
          /\ DOMAIN publications' = C!Revisions
      BY <2>2, <3>1, <3>2
    <3>5. ASSUME NEW q \in C!Revisions, publications'[q] # Blank, publications[q] # Blank \/ q = r
          PROVE  RowOK(q)'
      <4>1. CASE publications'[q] = publications[q]
        BY <2>2, <2>3, <3>5, <4>1 DEF ContentInv, PublicationsOK, RowOK
      <4>2. CASE q = r /\ publications'[q] = row
        BY <2>2, <3>3, <4>2 DEF RowOK
      <4> QED BY <3>4, <4>1, <4>2
    <3>6. PublicationsOK'
      BY <3>4, <3>5 DEF PublicationsOK
    <3>7. ASSUME NEW q \in C!Revisions, RowOK(q) PROVE RowOK(q)'
      <4>1. CASE publications'[q] = publications[q]
        BY <2>2, <3>7, <4>1 DEF RowOK
      <4>2. CASE q = r /\ publications'[q] = row
        BY <2>2, <3>3, <4>2 DEF RowOK
      <4> QED BY <3>4, <4>1, <4>2
    <3> QED BY <2>2, <3>6, <3>7 DEF ContentInv, Grows, CallsOK
  <2> QED BY <2>2, <2>4, PenGoes
<1> QED BY <1>1, <1>2 DEF C!Verify

-----------------------------------------------------------------------------
(*                                Together                                 *)

LEMMA ContentStep ==
    ASSUME ContentInv, C!Next
    PROVE  ContentInv'
<1>1. CASE C!CreateStarts \/ C!CreateAdds
  BY <1>1, Creates
<1>2. ASSUME NEW p \in C!People,
             \/ C!Regenerate(p) \/ C!Update(p) \/ C!Confirm(p) \/ C!Revoke(p) \/ C!Export(p)
             \/ C!Publish(p) \/ C!Verify(p) \/ C!Conflict(p) \/ C!Dies(p)
      PROVE  ContentInv'
  <2>1. CASE C!UpdateReads(p) \/ C!ConfirmReads(p) \/ C!RevokeReads(p) \/ C!ExportReads(p)
    BY <2>1, OpensKeeps DEF C!UpdateReads, C!ConfirmReads, C!RevokeReads, C!ExportReads
  <2>2. CASE \/ \E body \in Bodies : C!UpdateSaves(p, body)
             \/ C!ConfirmSaves(p) \/ C!RevokeSaves(p) \/ C!ExportSaves(p)
    BY <2>2, SaveSteps
  <2>3. CASE C!Conflict(p) \/ C!Dies(p)
    <3>1. C!Hold(p, Blank) /\ UNCHANGED <<article, publications, calls, contentRuns, confirmedOnce>>
      BY <2>3 DEF C!Conflict, C!Dies
    <3> QED BY <3>1, Quietly, PenGoes
  <2> QED BY <1>2, <2>1, <2>2, <2>3, Regenerates, PublishSteps, VerifySteps
          DEF C!Update, C!Confirm, C!Revoke, C!Export
<1> QED BY <1>1, <1>2 DEF C!Next

LEMMA ContentInit == Init => ContentInv
BY DEF Init, C!Init, ContentInv, CallsOK, PublicationsOK

LEMMA ContentNext == ContentInv /\ [Next]_vars => ContentInv'
<1> SUFFICES ASSUME ContentInv, [Next]_vars PROVE ContentInv'
  OBVIOUS
<1>1. CASE C!Next
  BY <1>1, ContentStep
<1>2. CASE UNCHANGED cVars
  BY <1>2 DEF cVars, ContentInv, CallsOK, PublicationsOK, RowOK, PenOK
<1>3. C!Next \/ UNCHANGED cVars
  BY DEF Next, vars, cVars, tVars, uVars, sVars, rVars, kVars, mVars, eVars, pVars, dVars, C!vars
<1> QED BY <1>1, <1>2, <1>3

THEOREM ContentConfirmed == Spec => []SentWasConfirmed
<1>1. ContentInv => SentWasConfirmed
  BY DEF ContentInv, CallsOK, PublicationsOK, RowOK, SentWasConfirmed, C!SentWasConfirmed
<1> QED BY <1>1, ContentInit, ContentNext, PTL DEF Spec

-----------------------------------------------------------------------------
(*            Plans and suggestions: inductive invariant                   *)

\* A decided row was decided by an approver other than its author.
Settled(row) == row.status \in P!Verdicts => row.reviewer \in Approvers \ {row.author}

PlansOK ==
    /\ plans \in [PlanKeys -> P!Plans \cup {NoPlan}]
    /\ \A k \in PlanKeys : plans[k] # NoPlan =>
          /\ Settled(plans[k]) /\ plans[k].steps \subseteq ToolList
          /\ plans[k].run > 0 => plans[k].run \in DOMAIN planRuns /\ planRuns[plans[k].run].plan = k

\* A run carries out the steps of an approved plan.
RunOf(r) ==
    /\ r.plan \in PlanKeys /\ plans[r.plan] # NoPlan
    /\ plans[r.plan].status = "approved" /\ r.steps = plans[r.plan].steps

PlanRows == [plan : PlanKeys, steps : SUBSET ToolNames]

RunsOK ==
    /\ planRuns \in Seq(PlanRows) /\ Len(planRuns) <= MaxPlanRuns
    /\ \A i \in DOMAIN planRuns : RunOf(planRuns[i])

SuggestionsOK ==
    /\ suggestions \in Seq(P!Suggestions)
    /\ \A i \in DOMAIN suggestions : Settled(suggestions[i])

\* The verdict about a row that its author hears.
Decides(row, to, verdict) == verdict \in P!Verdicts /\ verdict = row.status /\ to = row.author

Tells(what, to, verdict) ==
    \/ \E k \in PlanKeys : what = <<"plan", k>> /\ plans[k] # NoPlan /\ Decides(plans[k], to, verdict)
    \/ \E i \in DOMAIN suggestions : what = <<"suggestion", i>> /\ Decides(suggestions[i], to, verdict)

\* What a request may hold.
HoldsOK(p, step) ==
    \/ step.op = "add" /\ step.key \in PlanKeys /\ step.steps \subseteq ToolNames \cap ToolList
    \/ step.op = "tell" /\ Tells(step.what, step.to, step.verdict)
    \/ /\ step.op = "link" /\ step.key \in PlanKeys
       /\ step.run \in DOMAIN planRuns /\ planRuns[step.run].plan = step.key
    \/ step.op = "suggest" /\ step.to \in Runtimes /\ p \in Approvers

QuillsOK ==
    /\ DOMAIN quill = P!People
    /\ \A p \in P!People : quill[p] # NoPlan => HoldsOK(p, quill[p])

NoticesOK == \A n \in notices : Tells(n.what, n.to, n.verdict)

PlanInv == PlansOK /\ RunsOK /\ SuggestionsOK /\ QuillsOK /\ NoticesOK

-----------------------------------------------------------------------------
(*                            What a step keeps                            *)

\* A decided row stays as it was decided, and nobody changes what it is of.
SameRow(row, new) ==
    /\ new.author = row.author
    /\ row.status \in P!Verdicts => new.status = row.status /\ new.reviewer = row.reviewer

Kept ==
    /\ \A k \in PlanKeys : plans[k] # NoPlan =>
          plans'[k] # NoPlan /\ SameRow(plans[k], plans'[k]) /\ plans'[k].steps = plans[k].steps
    /\ \A i \in DOMAIN suggestions : i \in DOMAIN suggestions' /\ SameRow(suggestions[i], suggestions'[i])
    /\ \A i \in DOMAIN planRuns : i \in DOMAIN planRuns' /\ planRuns'[i] = planRuns[i]

LEMMA TellsKept ==
    ASSUME Kept, NEW what, NEW to, NEW verdict, Tells(what, to, verdict)
    PROVE  Tells(what, to, verdict)'
BY DEF Kept, Tells, Decides, SameRow

LEMMA HoldsKept ==
    ASSUME Kept, NEW p, NEW step, HoldsOK(p, step)
    PROVE  HoldsOK(p, step)'
<1>1. CASE step.op = "tell" /\ Tells(step.what, step.to, step.verdict)
  <2>1. Tells(step.what, step.to, step.verdict)'
    BY <1>1, TellsKept
  <2> QED BY <1>1, <2>1 DEF HoldsOK
<1>2. CASE /\ step.op = "link" /\ step.key \in PlanKeys
           /\ step.run \in DOMAIN planRuns /\ planRuns[step.run].plan = step.key
  <2>1. step.run \in DOMAIN planRuns' /\ planRuns'[step.run].plan = step.key
    BY <1>2 DEF Kept
  <2> QED BY <1>2, <2>1 DEF HoldsOK
<1>3. CASE step.op = "add" /\ step.key \in PlanKeys /\ step.steps \subseteq ToolNames \cap ToolList
  BY <1>3 DEF HoldsOK
<1>4. CASE step.op = "suggest" /\ step.to \in Runtimes /\ p \in Approvers
  BY <1>4 DEF HoldsOK
<1> QED BY <1>1, <1>2, <1>3, <1>4 DEF HoldsOK

\* One request goes on, and at most what it tells is new in the inboxes.
LEMMA PlanGoes ==
    ASSUME PlanInv, Kept, NEW p \in P!People, NEW step, P!Turns(p, step),
           step = NoPlan \/ HoldsOK(p, step)',
           PlansOK', RunsOK', SuggestionsOK',
           \A n \in notices' : n \in notices \/ Tells(n.what, n.to, n.verdict)
    PROVE  PlanInv'
<1>1. /\ DOMAIN quill = P!People /\ DOMAIN quill' = P!People /\ quill'[p] = step
      /\ \A q \in P!People \ {p} : quill'[q] = quill[q]
  BY DEF PlanInv, QuillsOK, P!Turns
<1>2. ASSUME NEW q \in P!People, quill'[q] # NoPlan
      PROVE  HoldsOK(q, quill[q])' 
  <2>1. CASE q = p
    <3>1. PICK s : s = step
      OBVIOUS
    <3> QED BY <1>1, <1>2, <2>1
  <2>2. CASE q # p
    <3>1. PICK s : s = quill[q]
      OBVIOUS
    <3>2. HoldsOK(q, s) /\ quill'[q] = s
      BY <1>1, <1>2, <2>2, <3>1 DEF PlanInv, QuillsOK
    <3>3. HoldsOK(q, s)'
      BY <3>2, HoldsKept
    <3> QED BY <3>2, <3>3
  <2> QED BY <2>1, <2>2
<1>3. QuillsOK'
  BY <1>1, <1>2 DEF QuillsOK
<1>4. ASSUME NEW n \in notices'
      PROVE  Tells(n.what, n.to, n.verdict)'
  <2>1. PICK m : m = n
    OBVIOUS
  <2>2. Tells(m.what, m.to, m.verdict)
    BY <2>1 DEF PlanInv, NoticesOK
  <2>3. Tells(m.what, m.to, m.verdict)'
    BY <2>2, TellsKept
  <2> QED BY <2>1, <2>3
<1> QED BY <1>3, <1>4 DEF PlanInv, NoticesOK

\* Requests that leave all rows alone.
LEMMA PlanReads ==
    ASSUME PlanInv, UNCHANGED <<plans, planRuns, suggestions>>
    PROVE  Kept /\ PlansOK' /\ RunsOK' /\ SuggestionsOK'
<1>1. Kept
  BY DEF Kept, SameRow
<1>2. PlansOK' /\ RunsOK' /\ SuggestionsOK'
  BY DEF PlanInv, PlansOK, RunsOK, RunOf, SuggestionsOK
<1> QED BY <1>1, <1>2

LEMMA Proposes ==
    ASSUME PlanInv, NEW p \in P!People, P!Propose(p)
    PROVE  PlanInv'
<1>1. ASSUME NEW k \in PlanKeys, NEW raw \in SUBSET ToolNames, P!Generate(p, k, raw)
      PROVE  PlanInv'
  <2>1. PICK s : s = [op |-> "add", key |-> k, steps |-> raw]
    OBVIOUS
  <2>2. HoldsOK(p, s)'
    BY <1>1, <2>1 DEF P!Generate, P!NormalizedSteps, HoldsOK
  <2> QED BY <1>1, <2>1, <2>2, PlanReads, PlanGoes DEF P!Generate
<1>2. ASSUME P!AddPlan(p)
      PROVE  PlanInv'
  <2>1. PICK k, steps : k = quill[p].key /\ steps = quill[p].steps
    OBVIOUS
  <2>2. /\ k \in PlanKeys /\ steps \subseteq ToolNames \cap ToolList
        /\ UNCHANGED <<planRuns, suggestions, notices>> /\ P!Turns(p, NoPlan)
    BY <1>2, <2>1 DEF P!AddPlan, P!Doing, PlanInv, QuillsOK, HoldsOK
  <2>3. CASE plans[k] # NoPlan
    <3>1. plans' = plans
      BY <1>2, <2>1, <2>3 DEF P!AddPlan
    <3> QED BY <2>2, <3>1, PlanReads, PlanGoes
  <2>4. CASE plans[k] = NoPlan
    <3>1. PICK row : row = [author |-> p, steps |-> steps, status |-> "pending_review", reviewer |-> NoPlan, run |-> 0]
      OBVIOUS
    <3>2. row \in P!Plans /\ row.status = "pending_review" /\ row.steps = steps /\ row.run = 0
      BY <2>2, <3>1, PlanAssumption DEF P!Plans
    <3>3. plans' = [plans EXCEPT ![k] = row]
      BY <1>2, <2>1, <2>4, <3>1 DEF P!AddPlan
    <3>4. plans' \in [PlanKeys -> P!Plans \cup {NoPlan}] /\ plans'[k] = row /\ \A j \in PlanKeys \ {k} : plans'[j] = plans[j]
      BY <2>2, <3>2, <3>3 DEF PlanInv, PlansOK
    <3>5. Kept
      BY <2>2, <2>4, <3>4 DEF Kept, SameRow
    <3>6. PlansOK'
      BY <2>2, <3>2, <3>4 DEF PlanInv, PlansOK, Settled, P!Verdicts
    <3>7. RunsOK' /\ SuggestionsOK'
      BY <2>2, <2>4, <3>4 DEF PlanInv, RunsOK, RunOf, SuggestionsOK
    <3> QED BY <2>2, <3>5, <3>6, <3>7, PlanGoes
  <2> QED BY <2>3, <2>4
<1> QED BY <1>1, <1>2 DEF P!Propose

LEMMA DecidedIs ==
    ASSUME NEW row \in P!Plans \cup P!Suggestions, NEW p, P!MayDecide(p, row), NEW verdict \in P!Verdicts
    PROVE  /\ P!Decided(row, p, verdict).status = verdict /\ P!Decided(row, p, verdict).author = row.author
           /\ P!Decided(row, p, verdict).reviewer = p /\ Settled(P!Decided(row, p, verdict))
           /\ row \in P!Suggestions => P!Decided(row, p, verdict) \in P!Suggestions
           /\ row \in P!Plans => /\ P!Decided(row, p, verdict) \in P!Plans
                                 /\ P!Decided(row, p, verdict).steps = row.steps
                                 /\ P!Decided(row, p, verdict).run = row.run
<1> DEFINE new == P!Decided(row, p, verdict)
<1>1. row \in P!Plans => /\ new \in P!Plans /\ new.steps = row.steps /\ new.run = row.run
                         /\ new.status = verdict /\ new.author = row.author /\ new.reviewer = p
  BY DEF P!Plans, P!Decided, P!MayDecide, P!Verdicts, P!People
<1>2. row \in P!Suggestions => /\ new \in P!Suggestions
                               /\ new.status = verdict /\ new.author = row.author /\ new.reviewer = p
  BY DEF P!Suggestions, P!Decided, P!MayDecide, P!Verdicts
<1>3. p \in Approvers /\ p # row.author
  BY DEF P!MayDecide
<1> HIDE DEF new
<1>4. Settled(new)
  BY <1>1, <1>2, <1>3 DEF Settled
<1> QED BY <1>1, <1>2, <1>4 DEF new

LEMMA Reviews ==
    ASSUME PlanInv, NEW p \in P!People, P!Review(p)
    PROVE  PlanInv'
<1>1. ASSUME NEW k \in PlanKeys, NEW v \in P!Verdicts, P!ReviewPlan(p, k, v)
      PROVE  PlanInv'
  <2>1. PICK row, new, s : /\ row = plans[k] /\ new = P!Decided(row, p, v)
                           /\ s = [op |-> "tell", what |-> <<"plan", k>>, to |-> row.author, verdict |-> v]
    OBVIOUS
  <2>2. /\ row # NoPlan /\ row \in P!Plans /\ P!MayDecide(p, row) /\ row.status = "pending_review"
        /\ plans' = [plans EXCEPT ![k] = new] /\ P!Turns(p, s)
        /\ UNCHANGED <<planRuns, suggestions, notices>>
    BY <1>1, <2>1 DEF P!ReviewPlan, PlanInv, PlansOK
  <2>3. /\ new \in P!Plans /\ new.status = v /\ new.author = row.author /\ new.steps = row.steps /\ new.run = row.run
        /\ Settled(new) /\ new # NoPlan
    BY <2>1, <2>2, DecidedIs, PlanAssumption
  <2>4. plans' \in [PlanKeys -> P!Plans \cup {NoPlan}] /\ plans'[k] = new /\ \A j \in PlanKeys \ {k} : plans'[j] = plans[j]
    BY <2>2, <2>3 DEF PlanInv, PlansOK
  <2>5. Kept
    BY <2>1, <2>2, <2>3, <2>4 DEF Kept, SameRow, P!Verdicts
  <2>6. PlansOK'
    BY <2>1, <2>2, <2>3, <2>4 DEF PlanInv, PlansOK
  <2>7. RunsOK' /\ SuggestionsOK'
    BY <2>1, <2>2, <2>4 DEF PlanInv, RunsOK, RunOf, SuggestionsOK
  <2>8. HoldsOK(p, s)'
    BY <2>1, <2>3, <2>4 DEF HoldsOK, Tells, Decides
  <2> QED BY <2>2, <2>5, <2>6, <2>7, <2>8, PlanGoes
<1>2. ASSUME NEW i \in DOMAIN suggestions, NEW v \in P!Verdicts, P!ReviewSuggestion(p, i, v)
      PROVE  PlanInv'
  <2>1. PICK row, new, s : /\ row = suggestions[i] /\ new = P!Decided(row, p, v)
                           /\ s = [op |-> "tell", what |-> <<"suggestion", i>>, to |-> row.author, verdict |-> v]
    OBVIOUS
  <2>2. /\ row \in P!Suggestions /\ P!MayDecide(p, row) /\ row.status = "pending_review"
        /\ suggestions' = [suggestions EXCEPT ![i] = new] /\ P!Turns(p, s)
        /\ UNCHANGED <<plans, planRuns, notices>>
    BY <1>2, <2>1 DEF P!ReviewSuggestion, PlanInv, SuggestionsOK
  <2>3. new \in P!Suggestions /\ new.status = v /\ new.author = row.author /\ Settled(new)
    BY <2>1, <2>2, DecidedIs
  <2>4. /\ suggestions' \in Seq(P!Suggestions) /\ DOMAIN suggestions' = DOMAIN suggestions
        /\ suggestions'[i] = new /\ \A j \in DOMAIN suggestions \ {i} : suggestions'[j] = suggestions[j]
    BY <2>2, <2>3 DEF PlanInv, SuggestionsOK
  <2>5. Kept
    BY <2>1, <2>2, <2>3, <2>4 DEF Kept, SameRow, P!Verdicts
  <2>6. PlansOK' /\ RunsOK'
    BY <2>2 DEF PlanInv, PlansOK, RunsOK, RunOf
  <2>7. SuggestionsOK'
    BY <2>3, <2>4 DEF PlanInv, SuggestionsOK
  <2>8. HoldsOK(p, s)'
    BY <2>1, <2>3, <2>4 DEF HoldsOK, Tells, Decides
  <2> QED BY <2>2, <2>5, <2>6, <2>7, <2>8, PlanGoes
<1> QED BY <1>1, <1>2 DEF P!Review

LEMMA Starts ==
    ASSUME PlanInv, NEW p \in P!People, P!StartRun(p)
    PROVE  PlanInv'
<1>1. ASSUME NEW k \in PlanKeys, P!StartPlanRun(p, k)
      PROVE  PlanInv'
  <2>1. PICK r, n, s : /\ r = [plan |-> k, steps |-> plans[k].steps] /\ n = Len(planRuns) + 1
                       /\ s = [op |-> "link", key |-> k, run |-> n]
    OBVIOUS
  <2>2. /\ plans[k] \in P!Plans /\ plans[k] # NoPlan /\ plans[k].status = "approved" /\ Len(planRuns) < MaxPlanRuns
        /\ planRuns' = Append(planRuns, r) /\ P!Turns(p, s) /\ UNCHANGED <<plans, suggestions, notices>>
    BY <1>1, <2>1 DEF P!StartPlanRun, PlanInv, PlansOK
  <2>3. r \in PlanRows /\ r.plan = k /\ r.steps = plans[k].steps
    BY <2>1, <2>2 DEF PlanRows, P!Plans
  <2>4. /\ planRuns \in Seq(PlanRows) /\ Len(planRuns) \in Nat
        /\ planRuns' \in Seq(PlanRows) /\ Len(planRuns') = n /\ planRuns'[n] = r
        /\ DOMAIN planRuns' = DOMAIN planRuns \cup {n}
        /\ \A i \in DOMAIN planRuns : planRuns'[i] = planRuns[i]
    BY <2>1, <2>2, <2>3 DEF PlanInv, RunsOK
  <2>5. Kept
    BY <2>2, <2>4 DEF Kept, SameRow
  <2>6. PlansOK'
    BY <2>2, <2>4 DEF PlanInv, PlansOK
  <2>7. Len(planRuns') <= MaxPlanRuns
    BY <2>1, <2>2, <2>4, PlanAssumption
  <2>8. ASSUME NEW i \in DOMAIN planRuns' PROVE RunOf(planRuns[i])'
    <3>1. CASE i = n
      BY <2>2, <2>3, <2>4, <3>1 DEF RunOf
    <3>2. CASE i # n
      <4>1. i \in DOMAIN planRuns /\ planRuns'[i] = planRuns[i] /\ RunOf(planRuns[i])
        BY <2>4, <3>2 DEF PlanInv, RunsOK
      <4> QED BY <2>2, <4>1 DEF RunOf
    <3> QED BY <3>1, <3>2
  <2>9. RunsOK' /\ SuggestionsOK'
    BY <2>2, <2>4, <2>7, <2>8 DEF PlanInv, RunsOK, SuggestionsOK
  <2>10. HoldsOK(p, s)'
    BY <2>1, <2>3, <2>4 DEF HoldsOK
  <2> QED BY <2>2, <2>5, <2>6, <2>9, <2>10, PlanGoes
<1>2. ASSUME P!MarkRunStarted(p)
      PROVE  PlanInv'
  <2>1. PICK k, n, row : k = quill[p].key /\ n = quill[p].run /\ row = [plans[k] EXCEPT !.run = n]
    OBVIOUS
  <2>2. /\ k \in PlanKeys /\ n \in DOMAIN planRuns /\ planRuns[n].plan = k
        /\ UNCHANGED <<planRuns, suggestions, notices>> /\ P!Turns(p, NoPlan)
    BY <1>2, <2>1 DEF P!MarkRunStarted, P!Doing, PlanInv, QuillsOK, HoldsOK
  <2>3. plans[k] # NoPlan /\ plans[k] \in P!Plans /\ n \in 0 .. MaxPlanRuns
    BY <2>2, PlanAssumption DEF PlanInv, PlansOK, RunsOK, RunOf
  <2>4. /\ row \in P!Plans /\ row.author = plans[k].author /\ row.steps = plans[k].steps /\ row.run = n
        /\ row.status = plans[k].status /\ row.reviewer = plans[k].reviewer
    BY <2>1, <2>3 DEF P!Plans
  <2>5. plans' = [plans EXCEPT ![k] = row]
    BY <1>2, <2>1 DEF P!MarkRunStarted
  <2>6. plans' \in [PlanKeys -> P!Plans \cup {NoPlan}] /\ plans'[k] = row /\ \A j \in PlanKeys \ {k} : plans'[j] = plans[j]
    BY <2>2, <2>4, <2>5 DEF PlanInv, PlansOK
  <2>7. row # NoPlan /\ Settled(row)
    BY <2>2, <2>3, <2>4, PlanAssumption DEF PlanInv, PlansOK, Settled
  <2>8. Kept
    BY <2>2, <2>4, <2>6, <2>7 DEF Kept, SameRow
  <2>9. PlansOK'
    BY <2>2, <2>3, <2>4, <2>6, <2>7 DEF PlanInv, PlansOK
  <2>10. RunsOK' /\ SuggestionsOK'
    BY <2>2, <2>3, <2>4, <2>6, <2>7 DEF PlanInv, RunsOK, RunOf, SuggestionsOK
  <2> QED BY <2>2, <2>8, <2>9, <2>10, PlanGoes
<1> QED BY <1>1, <1>2 DEF P!StartRun

LEMMA Orchestrates ==
    ASSUME PlanInv, NEW p \in Approvers, P!Orchestrate(p)
    PROVE  PlanInv'
<1>1. p \in P!People
  BY DEF P!People
<1>2. ASSUME NEW best \in P!Suggestible, P!Suggest(p, best)
      PROVE  PlanInv'
  <2>1. PICK s : s = [op |-> "suggest", to |-> best]
    OBVIOUS
  <2>2. HoldsOK(p, s)'
    BY <2>1 DEF HoldsOK, P!Suggestible
  <2> QED BY <1>1, <1>2, <2>1, <2>2, PlanReads, PlanGoes DEF P!Suggest
<1>3. ASSUME P!AddSuggestion(p)
      PROVE  PlanInv'
  <2>1. PICK row : row = [author |-> p, to |-> quill[p].to, status |-> "pending_review", reviewer |-> NoPlan]
    OBVIOUS
  <2>2. quill[p].to \in Runtimes /\ P!Turns(p, NoPlan) /\ UNCHANGED <<plans, planRuns, notices>>
        /\ suggestions' = Append(suggestions, row)
    BY <1>1, <1>3, <2>1 DEF P!AddSuggestion, P!Doing, PlanInv, QuillsOK, HoldsOK
  <2>3. row \in P!Suggestions /\ row.status = "pending_review"
    BY <2>1, <2>2 DEF P!Suggestions
  <2>4. Settled(row)
    BY <2>3 DEF Settled, P!Verdicts
  <2>5. PICK n : n = Len(suggestions) + 1
    OBVIOUS
  <2>6. /\ suggestions' \in Seq(P!Suggestions) /\ suggestions'[n] = row
        /\ DOMAIN suggestions' = DOMAIN suggestions \cup {n}
        /\ \A i \in DOMAIN suggestions : suggestions'[i] = suggestions[i]
    BY <2>2, <2>3, <2>5 DEF PlanInv, SuggestionsOK
  <2>7. Kept
    BY <2>2, <2>6 DEF Kept, SameRow
  <2>8. PlansOK' /\ RunsOK'
    BY <2>2 DEF PlanInv, PlansOK, RunsOK, RunOf
  <2>9. SuggestionsOK'
    BY <2>4, <2>6 DEF PlanInv, SuggestionsOK
  <2> QED BY <1>1, <2>2, <2>7, <2>8, <2>9, PlanGoes
<1> QED BY <1>2, <1>3 DEF P!Orchestrate

LEMMA PlanStep ==
    ASSUME PlanInv, P!Next
    PROVE  PlanInv'
<1>1. ASSUME NEW p \in P!People, P!Tell(p)
      PROVE  PlanInv'
  <2>1. Tells(quill[p].what, quill[p].to, quill[p].verdict)
    BY <1>1 DEF P!Tell, P!Doing, PlanInv, QuillsOK, HoldsOK
  <2>2. \A n \in notices' : n \in notices \/ Tells(n.what, n.to, n.verdict)
    BY <1>1, <2>1 DEF P!Tell
  <2> QED BY <1>1, <2>2, PlanReads, PlanGoes DEF P!Tell
<1>2. ASSUME NEW p \in P!People, P!Drop(p)
      PROVE  PlanInv'
  BY <1>2, PlanReads, PlanGoes DEF P!Drop
<1> QED BY <1>1, <1>2, Proposes, Reviews, Starts, Orchestrates DEF P!Next

LEMMA PlanOfSystem ==
    ASSUME PlanInv, [Next]_vars
    PROVE  PlanInv'
<1>1. P!Next \/ UNCHANGED pVars
  BY DEF Next, vars
<1>2. ASSUME UNCHANGED pVars
      PROVE  PlanInv'
  BY <1>2 DEF pVars, PlanInv, PlansOK, RunsOK, RunOf, SuggestionsOK, QuillsOK, HoldsOK, NoticesOK, Tells
<1> QED BY <1>1, <1>2, PlanStep

LEMMA PlanInit ==
    ASSUME P!Init
    PROVE  PlanInv
<1>1. PlansOK /\ QuillsOK /\ NoticesOK
  BY DEF P!Init, PlansOK, QuillsOK, NoticesOK
<1>2. RunsOK
  BY PlanAssumption DEF P!Init, RunsOK
<1>3. SuggestionsOK
  BY DEF P!Init, SuggestionsOK
<1> QED BY <1>1, <1>2, <1>3 DEF PlanInv

\* A run carries out steps that another than their author approved, and what an
\* author is told of a decision is the decision.
THEOREM PlansWereApproved == Spec => []PlansAreApproved
<1>1. Init => PlanInv
  BY PlanInit DEF Init
<1>2. PlanInv /\ [Next]_vars => PlanInv'
  BY PlanOfSystem
<1>3. PlanInv => PlansAreApproved
  <2>1. SUFFICES ASSUME PlanInv PROVE PlansAreApproved
    OBVIOUS
  <2>2. ASSUME NEW i \in DOMAIN planRuns
        PROVE  LET plan == plans[planRuns[i].plan]
               IN  /\ plan # NoPlan /\ plan.status = "approved" /\ plan.reviewer \in Approvers \ {plan.author}
                   /\ planRuns[i].steps = plan.steps /\ plan.steps \subseteq ToolList
    BY <2>1 DEF PlanInv, RunsOK, RunOf, PlansOK, Settled, P!Verdicts
  <2>3. P!RunsWereApproved
    BY <2>1, <2>2 DEF PlanInv, PlansOK, P!RunsWereApproved
  <2>4. ASSUME NEW n \in notices
        PROVE  LET row == IF n.what[1] = "plan" THEN plans[n.what[2]] ELSE suggestions[n.what[2]]
               IN  n.verdict = row.status /\ n.to = row.author /\ row.reviewer # row.author
    <3>1. Tells(n.what, n.to, n.verdict)
      BY <2>1 DEF PlanInv, NoticesOK
    <3>2. CASE \E k \in PlanKeys : n.what = <<"plan", k>> /\ plans[k] # NoPlan /\ Decides(plans[k], n.to, n.verdict)
      BY <2>1, <3>2 DEF Decides, PlanInv, PlansOK, Settled
    <3>3. CASE \E j \in DOMAIN suggestions : n.what = <<"suggestion", j>> /\ Decides(suggestions[j], n.to, n.verdict)
      BY <2>1, <3>3 DEF Decides, PlanInv, SuggestionsOK, Settled
    <3> QED BY <3>1, <3>2, <3>3 DEF Tells
  <2>5. P!NoticesTellTheVerdict
    BY <2>4 DEF P!NoticesTellTheVerdict
  <2> QED BY <2>3, <2>5 DEF PlansAreApproved
<1> QED BY <1>1, <1>2, <1>3, PTL DEF Spec

-----------------------------------------------------------------------------
(*                              Natural numbers                             *)

\* A set of numbers that is not empty has a least one.
LEMMA LeastOf ==
    ASSUME NEW A \in SUBSET Nat, A # {}
    PROVE  \E m \in A : \A n \in A : m <= n
<1> DEFINE less == {ss \in Nat \X Nat : ss[1] < ss[2]}
<1>1. IsWellFoundedOn(less, Nat)
  BY NatLessThanWellFounded DEF OpToRel
<1> HIDE DEF less
<1>2. PICK m \in A : \A n \in A : ~ (<<n, m>> \in less)
  BY <1>1, WFMin
<1>3. ASSUME NEW n \in A
      PROVE  m <= n
  <2>1. m \in Nat /\ n \in Nat /\ <<n, m>> \in Nat \X Nat
    OBVIOUS
  <2>2. ~(n < m)
    BY <1>2, <2>1 DEF less
  <2> QED BY <2>1, <2>2
<1> QED BY <1>3

-----------------------------------------------------------------------------
(*                        The sum of a set of entries                      *)

First(some) == CHOOSE e \in some : TRUE
Summable(A) == IsFiniteSet(A) /\ \A e \in A : e.units \in Int

LEMMA OneLess ==
    ASSUME NEW some, IsFiniteSet(some), NEW e \in some
    PROVE  /\ IsFiniteSet(some \ {e})
           /\ Cardinality(some) \in Nat /\ Cardinality(some \ {e}) \in Nat
           /\ Cardinality(some \ {e}) < Cardinality(some)
<1>1. IsFiniteSet(some \ {e}) /\ Cardinality(some \ {e}) = Cardinality(some) - 1
  BY FS_RemoveElement
<1>2. Cardinality(some) \in Nat /\ Cardinality(some \ {e}) \in Nat
  BY <1>1, FS_CardinalityType
<1> QED BY <1>1, <1>2

\* What holds of no entry, and of a set if it does without any one of its members,
\* holds of every subset of a finite set.
LEMMA OneByOne ==
    ASSUME NEW A, IsFiniteSet(A), NEW good,
           \A some \in SUBSET A : (\A e \in some : some \ {e} \in good) => some \in good
    PROVE  \A some \in SUBSET A : some \in good
<1> DEFINE Bad == {n \in Nat : \E some \in SUBSET A : Cardinality(some) = n /\ some \notin good}
<1>1. \A some \in SUBSET A : IsFiniteSet(some) /\ Cardinality(some) \in Nat
  BY FS_Subset, FS_CardinalityType
<1>2. ASSUME Bad # {}
      PROVE  FALSE
  <2>1. PICK n \in Bad : \A o \in Bad : n <= o
    BY <1>2, LeastOf
  <2>2. PICK some \in SUBSET A : Cardinality(some) = n /\ some \notin good
    BY <2>1
  <2>3. ASSUME NEW e \in some
        PROVE  some \ {e} \in good
    <3>1. Cardinality(some \ {e}) \in Nat /\ Cardinality(some \ {e}) < n /\ n \in Nat
      BY <1>1, <2>2, OneLess
    <3>2. PICK o : o = Cardinality(some \ {e})
      OBVIOUS
    <3>3. o \in Nat /\ ~ n <= o
      BY ONLY <3>1, <3>2
    <3>4. ~ \E that \in SUBSET A : Cardinality(that) = o /\ that \notin good
      BY <2>1, <3>3
    <3> QED BY <3>2, <3>4
  <2> QED BY <2>2, <2>3
<1> QED BY <1>1, <1>2

\* What the recursion of Total says of its function, for the sets of a family.
SumsOf(family, sum) ==
    sum = [some \in family |-> IF some = {} THEN 0 ELSE First(some).units + sum[some \ {First(some)}]]

UpTo(A, n) == {some \in SUBSET A : Cardinality(some) <= n}

\* The recursion has a value for every finite set.
LEMMA SumExists ==
    ASSUME NEW A, IsFiniteSet(A)
    PROVE  \E sum : SumsOf(SUBSET A, sum)
<1> DEFINE Bad == {n \in Nat : ~ \E sum : SumsOf(UpTo(A, n), sum)}
<1>1. \A some \in SUBSET A : IsFiniteSet(some) /\ Cardinality(some) \in Nat /\ Cardinality(some) <= Cardinality(A)
  BY FS_Subset, FS_CardinalityType
<1>2. ASSUME Bad # {}
      PROVE  FALSE
  <2>1. PICK n \in Bad : \A o \in Bad : n <= o
    BY <1>2, LeastOf
  <2>2. CASE n = 0
    <3> DEFINE sum == [some \in UpTo(A, n) |-> 0]
    <3>1. \A some \in UpTo(A, n) : some = {}
      BY <1>1, <2>2, FS_EmptySet DEF UpTo
    <3>2. SumsOf(UpTo(A, n), sum)
      BY <3>1 DEF SumsOf
    <3> QED BY <2>1, <3>2
  <2>3. CASE n # 0
    <3>1. n \in Nat /\ n - 1 \in Nat /\ ~ n <= n - 1
      BY <2>3
    <3>2. PICK m : m = n - 1
      OBVIOUS
    <3>3. PICK less : SumsOf(UpTo(A, m), less)
      BY <2>1, <3>1, <3>2
    <3> DEFINE sum == [some \in UpTo(A, n) |-> IF some = {} THEN 0 ELSE First(some).units + less[some \ {First(some)}]]
    <3>4. ASSUME NEW some \in UpTo(A, n), some # {}
          PROVE  some \ {First(some)} \in UpTo(A, m)
      <4>1. PICK f : f = First(some)
        OBVIOUS
      <4>2. f \in some /\ IsFiniteSet(some) /\ Cardinality(some) <= n
        BY <1>1, <3>4, <4>1 DEF First, UpTo
      <4>3. /\ Cardinality(some) \in Nat /\ Cardinality(some \ {f}) \in Nat
            /\ Cardinality(some \ {f}) < Cardinality(some)
        BY <4>2, OneLess
      <4>4. Cardinality(some \ {f}) <= m
        BY ONLY <3>1, <3>2, <4>2, <4>3
      <4> QED BY <4>1, <4>4 DEF UpTo
    <3>5. \A some \in UpTo(A, m) : some \in UpTo(A, n)
      BY <1>1, <3>1, <3>2 DEF UpTo
    <3>6. \A some \in UpTo(A, m) : sum[some] = less[some]
      BY <3>3, <3>5 DEF SumsOf
    <3>7. \A some \in UpTo(A, n) : some # {} => less[some \ {First(some)}] = sum[some \ {First(some)}]
      BY <3>4, <3>6
    <3>8. sum = [some \in UpTo(A, n) |-> IF some = {} THEN 0 ELSE First(some).units + sum[some \ {First(some)}]]
      <4> HIDE DEF First
      <4> QED BY <3>7
    <3> QED BY <2>1, <3>8 DEF SumsOf
  <2> QED BY <2>2, <2>3
<1>3. Cardinality(A) \in Nat
  BY FS_CardinalityType
<1>4. UpTo(A, Cardinality(A)) = SUBSET A
  BY <1>1 DEF UpTo
<1>5. PICK sum : SumsOf(UpTo(A, Cardinality(A)), sum)
  BY <1>2, <1>3
<1>6. SumsOf(SUBSET A, sum)
  BY <1>4, <1>5
<1> QED BY <1>6

\* What a function of the recursion is at a set.
LEMMA SumsAt ==
    ASSUME NEW A, NEW sum, SumsOf(SUBSET A, sum), NEW some \in SUBSET A, NEW f, f = First(some)
    PROVE  /\ some = {} => sum[some] = 0
           /\ some # {} => f \in some /\ sum[some] = f.units + sum[some \ {f}]
<1>1. sum[some] = IF some = {} THEN 0 ELSE First(some).units + sum[some \ {First(some)}]
  BY DEF SumsOf
<1>2. some # {} => f \in some
  BY DEF First
<1> QED BY <1>1, <1>2

\* Whichever member is taken away first, the sum is that of it and of the others.
LEMMA AnyFirst ==
    ASSUME NEW A, Summable(A), NEW sum, SumsOf(SUBSET A, sum)
    PROVE  \A some \in SUBSET A : sum[some] \in Int /\ \A e \in some : sum[some] = e.units + sum[some \ {e}]
<1> DEFINE Sums(some) == sum[some] \in Int /\ \A e \in some : sum[some] = e.units + sum[some \ {e}]
           good == {some \in SUBSET A : Sums(some) /\ \A e \in some : Sums(some \ {e})}
<1>1. ASSUME NEW some \in SUBSET A, \A e \in some : some \ {e} \in good
      PROVE  some \in good
  <2>1. \A e \in some : Sums(some \ {e}) /\ \A o \in some \ {e} : Sums((some \ {e}) \ {o})
    BY <1>1
  <2>2. \A e \in some : e.units \in Int
    BY DEF Summable
  <2>3. CASE some = {}
    <3>1. sum[some] = 0
      BY <2>3, SumsAt
    <3> QED BY <2>3, <3>1
  <2>4. CASE some # {}
    <3>1. PICK f : f = First(some)
      OBVIOUS
    <3>2. f \in some /\ sum[some] = f.units + sum[some \ {f}]
      BY <2>4, <3>1, SumsAt
    <3>3. sum[some] \in Int
      <4>1. Sums(some \ {f})
        BY <2>1, <3>2
      <4>2. sum[some \ {f}] \in Int /\ f.units \in Int
        BY <2>2, <3>2, <4>1
      <4> QED BY ONLY <3>2, <4>2
    <3>4. ASSUME NEW e \in some, e # f
          PROVE  sum[some] = e.units + sum[some \ {e}]
      <4>1. e \in some \ {f} /\ f \in some \ {e} /\ (some \ {f}) \ {e} = (some \ {e}) \ {f}
        BY <3>2, <3>4
      <4>2. PICK rest : rest = sum[(some \ {e}) \ {f}]
        OBVIOUS
      <4>3. sum[some \ {f}] = e.units + rest
        BY <2>1, <3>2, <4>1, <4>2
      <4>4. sum[some \ {e}] = f.units + rest /\ rest \in Int
        BY <2>1, <4>1, <4>2
      <4>5. e.units \in Int /\ f.units \in Int
        BY <2>2, <3>2
      <4> QED BY ONLY <3>2, <4>3, <4>4, <4>5
    <3>5. Sums(some)
      BY <3>2, <3>3, <3>4
    <3> QED BY <2>1, <3>5
  <2> QED BY <2>3, <2>4
<1>2. IsFiniteSet(A)
  BY DEF Summable
<1> HIDE DEF good
<1>3. \A some \in SUBSET A : some \in good
  BY <1>1, <1>2, OneByOne
<1> QED BY <1>3 DEF good

\* The sum of a set does not depend on the set whose subsets the recursion is over.
LEMMA SumsAgree ==
    ASSUME NEW A, IsFiniteSet(A), NEW more, A \subseteq more,
           NEW sum, SumsOf(SUBSET A, sum), NEW more_sum, SumsOf(SUBSET more, more_sum)
    PROVE  sum[A] = more_sum[A]
<1> DEFINE good == {some \in SUBSET A : sum[some] = more_sum[some]}
<1>1. ASSUME NEW some \in SUBSET A, \A e \in some : some \ {e} \in good
      PROVE  some \in good
  <2>1. PICK f : f = First(some)
    OBVIOUS
  <2>2. some = {} => sum[some] = 0 /\ more_sum[some] = 0
    BY <2>1, SumsAt
  <2>3. some # {} => f \in some /\ sum[some] = f.units + sum[some \ {f}] /\ more_sum[some] = f.units + more_sum[some \ {f}]
    <3>1. some \in SUBSET more
      OBVIOUS
    <3>2. some # {} => more_sum[some] = f.units + more_sum[some \ {f}]
      BY <2>1, <3>1, SumsAt
    <3> QED BY <2>1, <3>2, SumsAt
  <2> QED BY <1>1, <2>2, <2>3
<1> HIDE DEF good
<1>2. A \in good
  BY <1>1, OneByOne
<1> QED BY <1>2 DEF good

\* Total is such a sum.
LEMMA TotalIs ==
    ASSUME NEW A, IsFiniteSet(A)
    PROVE  \E sum : SumsOf(SUBSET A, sum) /\ U!Total(A) = sum[A]
<1> DEFINE that == CHOOSE sum : SumsOf(SUBSET A, sum)
<1>1. SumsOf(SUBSET A, that)
  BY SumExists
<1>2. U!Total(A) = that[A]
  BY DEF U!Total, SumsOf, First
<1> QED BY <1>1, <1>2

LEMMA TotalOfNone == U!Total({}) = 0
<1>1. PICK sum : SumsOf(SUBSET {}, sum) /\ U!Total({}) = sum[{}]
  BY TotalIs, FS_EmptySet
<1>2. {} \in SUBSET {}
  OBVIOUS
<1> QED BY <1>1, <1>2, SumsAt

\* One entry more.
LEMMA TotalAdds ==
    ASSUME NEW A, NEW e, e \notin A, NEW more, more = A \cup {e}, Summable(more)
    PROVE  U!Total(A) \in Int /\ U!Total(more) = e.units + U!Total(A)
<1>1. IsFiniteSet(A) /\ IsFiniteSet(more) /\ Summable(A)
  BY FS_Subset DEF Summable
<1>2. PICK sum : SumsOf(SUBSET A, sum) /\ U!Total(A) = sum[A]
  BY <1>1, TotalIs
<1>3. PICK more_sum : SumsOf(SUBSET more, more_sum) /\ U!Total(more) = more_sum[more]
  BY <1>1, TotalIs
<1>4. sum[A] = more_sum[A]
  BY <1>1, <1>2, <1>3, SumsAgree
<1>5. A \in SUBSET A /\ more \in SUBSET more /\ e \in more /\ more \ {e} = A
  OBVIOUS
<1>6. sum[A] \in Int
  BY <1>1, <1>2, <1>5, AnyFirst
<1>7. more_sum[more] = e.units + more_sum[more \ {e}]
  <2>1. SumsOf(SUBSET more, more_sum) /\ more \in SUBSET more /\ Summable(more) /\ e \in more
    BY <1>3, <1>5
  <2> QED BY ONLY <2>1, AnyFirst
<1> QED BY <1>2, <1>3, <1>4, <1>5, <1>6, <1>7

\* Sets that are apart.
LEMMA TotalOfBoth ==
    ASSUME NEW A, NEW B, A \cap B = {}, NEW both, both = A \cup B, Summable(both)
    PROVE  U!Total(A) \in Int /\ U!Total(B) \in Int /\ U!Total(both) = U!Total(A) + U!Total(B)
<1> DEFINE Splits(some) == U!Total(some) \in Int /\ U!Total(A \cup some) = U!Total(A) + U!Total(some)
           good == {some \in SUBSET B : Splits(some)}
<1>1. \A some \in SUBSET B : Summable(some) /\ Summable(A) /\ Summable(A \cup some)
  BY FS_Subset DEF Summable
<1>2. U!Total(A) \in Int
  <2>1. PICK sum : SumsOf(SUBSET A, sum) /\ U!Total(A) = sum[A]
    BY <1>1, TotalIs DEF Summable
  <2>2. A \in SUBSET A /\ Summable(A)
    BY <1>1
  <2> QED BY <2>1, <2>2, AnyFirst
<1>3. ASSUME NEW some \in SUBSET B, \A e \in some : some \ {e} \in good
      PROVE  some \in good
  <2>1. CASE some = {}
    <3>1. A \cup some = A
      BY <2>1
    <3> QED BY <1>2, <2>1, <3>1, TotalOfNone
  <2>2. CASE some # {}
    <3>1. PICK e \in some : TRUE
      BY <2>2
    <3>2. PICK rest : rest = some \ {e}
      OBVIOUS
    <3>3. Splits(rest)
      BY <1>3, <3>2
    <3>4. some = rest \cup {e} /\ A \cup some = (A \cup rest) \cup {e} /\ e \notin rest /\ e \notin A \cup rest
      BY <3>2
    <3>5. U!Total(some) = e.units + U!Total(rest)
      BY <1>1, <3>4, TotalAdds
    <3>6. U!Total(A \cup some) = e.units + U!Total(A \cup rest)
      BY <1>1, <3>4, TotalAdds
    <3>7. e.units \in Int
      BY <1>1 DEF Summable
    <3>8. Splits(some)
      BY <1>2, <3>3, <3>5, <3>6, <3>7
    <3> QED BY <3>8
  <2> QED BY <2>1, <2>2
<1>4. IsFiniteSet(B)
  BY <1>1 DEF Summable
<1> HIDE DEF good
<1>5. \A some \in SUBSET B : some \in good
  BY <1>3, <1>4, OneByOne
<1> QED BY <1>2, <1>5 DEF good

-----------------------------------------------------------------------------
(*                                The ledger                               *)

Selections == [cutoff : U!Days, rows : SUBSET U!UsageEntry]

LedgerTypes ==
    /\ usageDay \in U!Days /\ ledger \subseteq U!UsageEntry /\ IsFiniteSet(ledger)
    /\ balance \in Int /\ entries \in Nat
    /\ carrying \in [Carriers -> {NoRows} \cup Selections]

\* An entry is known by its key, and one carried over is of the day in its key.
KeysAreApart ==
    /\ \A e, o \in ledger : e.key = o.key => e = o
    /\ \A e \in ledger : e.key[1] = "carryover" => e.date = e.key[2]

\* The rows a worker has locked are there and older than its cutoff, so nobody
\* else, whose overdue rows would be among them, has locked any.
RowsAreLocked ==
    \A p \in Carriers : carrying[p] # NoRows =>
        /\ carrying[p].rows \subseteq ledger /\ carrying[p].rows # {}
        /\ carrying[p].cutoff <= U!Cutoff
        /\ \A e \in carrying[p].rows : e.date < carrying[p].cutoff
        /\ \A q \in Carriers \ {p} : carrying[q] = NoRows

LedgerInv == LedgerTypes /\ KeysAreApart /\ RowsAreLocked /\ U!LedgerIsExact

LEMMA EntriesAre ==
    ASSUME NEW e \in U!UsageEntry
    PROVE  e.id \in Nat /\ e.units \in Int /\ e.date \in U!Days /\ e.date \in Nat /\ e.reversal \in BOOLEAN
BY LedgerAssumption DEF U!UsageEntry, U!Days

LEMMA LedgerIsSummable ==
    ASSUME LedgerInv
    PROVE  \A some \in SUBSET ledger : Summable(some) /\ IsFiniteSet(some)
BY FS_Subset, EntriesAre DEF LedgerInv, LedgerTypes, Summable

\* An entry that is inserted under a new key is added to the balance.
LEMMA InsertKeeps ==
    ASSUME LedgerInv, NEW e \in U!UsageEntry, ~U!HasKey(e.key), e.key[1] # "carryover",
           ledger' = ledger \cup {e}, balance' = balance + e.units, entries' = entries + 1,
           UNCHANGED <<usageDay, carrying>>
    PROVE  LedgerInv'
<1>1. IsFiniteSet(ledger') /\ ledger' \subseteq U!UsageEntry
  BY FS_AddElement DEF LedgerInv, LedgerTypes
<1>2. e \notin ledger /\ \A o \in ledger : o.key # e.key
  BY DEF U!HasKey
<1>3. Summable(ledger')
  BY <1>1, EntriesAre DEF Summable
<1>4. U!Total(ledger') = e.units + U!Total(ledger) /\ e.units \in Int
  BY <1>2, <1>3, TotalAdds, EntriesAre
<1>5. U!LedgerIsExact'
  BY <1>4 DEF LedgerInv, LedgerTypes, U!LedgerIsExact
<1>6. LedgerTypes'
  BY <1>1, <1>4 DEF LedgerInv, LedgerTypes
<1>7. KeysAreApart'
  BY <1>2 DEF LedgerInv, KeysAreApart
<1>8. RowsAreLocked'
  BY DEF LedgerInv, RowsAreLocked, U!Cutoff
<1> QED BY <1>5, <1>6, <1>7, <1>8 DEF LedgerInv

LEMMA AppendUsageKeeps ==
    ASSUME LedgerInv, NEW k \in UsageKeys, U!AppendUsage(k)
    PROVE  LedgerInv'
<1>1. PICK e : e = U!Entry(<<"usage", k>>, 1, usageDay, FALSE)
  OBVIOUS
<1>2. e = [id |-> entries + 1, key |-> <<"usage", k>>, units |-> 1, date |-> usageDay, reversal |-> FALSE]
  BY <1>1 DEF U!Entry
<1>3. e \in U!UsageEntry
  BY <1>2 DEF LedgerInv, LedgerTypes, U!UsageEntry
<1>4. e.key = <<"usage", k>> /\ e.key[1] # "carryover" /\ e.units = 1
  BY <1>2
<1>5. /\ ~U!HasKey(<<"usage", k>>) /\ ledger' = ledger \cup {e} /\ balance' = balance + 1 /\ entries' = entries + 1
      /\ UNCHANGED <<usageDay, carrying>>
  BY <1>1 DEF U!AppendUsage, U!Insert
<1> QED BY <1>3, <1>4, <1>5, InsertKeeps

LEMMA ReverseKeeps ==
    ASSUME LedgerInv, NEW old \in ledger, U!Reverse(old)
    PROVE  LedgerInv'
<1>1. PICK e : e = U!Entry(<<"reversal", old.id>>, -old.units, usageDay, TRUE)
  OBVIOUS
<1>2. e = [id |-> entries + 1, key |-> <<"reversal", old.id>>, units |-> -old.units, date |-> usageDay, reversal |-> TRUE]
  BY <1>1 DEF U!Entry
<1>3. old.id \in Nat /\ old.units \in Int
  BY EntriesAre DEF LedgerInv, LedgerTypes
<1>4. e \in U!UsageEntry
  BY <1>2, <1>3 DEF LedgerInv, LedgerTypes, U!UsageEntry
<1>5. e.key = <<"reversal", old.id>> /\ e.key[1] # "carryover" /\ e.units = -old.units
  BY <1>2
<1>6. /\ ~U!HasKey(<<"reversal", old.id>>) /\ ledger' = ledger \cup {e} /\ balance' = balance - old.units
      /\ entries' = entries + 1 /\ UNCHANGED <<usageDay, carrying>>
  BY <1>1 DEF U!Reverse, U!Insert
<1>7. balance' = balance + e.units
  BY <1>3, <1>5, <1>6 DEF LedgerInv, LedgerTypes
<1> QED BY <1>4, <1>5, <1>6, <1>7, InsertKeeps

LEMMA SelectOverdueKeeps ==
    ASSUME LedgerInv, NEW p \in Carriers, U!SelectOverdue(p)
    PROVE  LedgerInv'
<1>1. /\ U!Overdue # {} /\ U!Overdue \cap U!Locked = {}
      /\ carrying' = [carrying EXCEPT ![p] = [cutoff |-> U!Cutoff, rows |-> U!Overdue]]
      /\ UNCHANGED <<usageDay, ledger, balance, entries>>
  BY DEF U!SelectOverdue
<1>2. ASSUME NEW q \in Carriers, carrying[q] # NoRows
      PROVE  FALSE
  <2>1. PICK e \in carrying[q].rows : TRUE
    BY <1>2 DEF LedgerInv, RowsAreLocked
  <2>2. e \in ledger /\ e.date < carrying[q].cutoff /\ carrying[q].cutoff <= U!Cutoff
    BY <1>2, <2>1 DEF LedgerInv, RowsAreLocked
  <2>3. e.date \in Nat /\ U!Cutoff \in Int /\ carrying[q].cutoff \in Int
    BY <1>2, <2>2, EntriesAre, LedgerAssumption DEF LedgerInv, LedgerTypes, Selections, U!Cutoff, U!Days
  <2>4. e \in U!Overdue
    BY <2>2, <2>3 DEF U!Overdue
  <2>5. e \in U!Locked
    BY <1>2, <2>1 DEF U!Locked
  <2> QED BY <1>1, <2>4, <2>5
<1>3. PICK e \in ledger : e.date < U!Cutoff
  BY <1>1 DEF U!Overdue
<1>4. e.date \in Nat /\ usageDay \in Nat /\ usageDay <= LastUsageDay
  BY LedgerAssumption, EntriesAre DEF LedgerInv, LedgerTypes, U!Days
<1>5. U!Cutoff \in U!Days /\ U!Overdue \subseteq ledger
  BY <1>3, <1>4, LedgerAssumption DEF U!Cutoff, U!Days, U!Overdue
<1>6. PICK selection : selection = [cutoff |-> U!Cutoff, rows |-> U!Overdue]
  OBVIOUS
<1>7. /\ selection \in Selections /\ selection.cutoff = U!Cutoff /\ selection.rows = U!Overdue
      /\ U!Cutoff' = U!Cutoff /\ U!Cutoff \in Int
  BY <1>1, <1>5, <1>6, LedgerAssumption DEF Selections, LedgerInv, LedgerTypes, U!Cutoff, U!Days
<1>8. /\ carrying' \in [Carriers -> {NoRows} \cup Selections] /\ carrying'[p] = selection
      /\ \A q \in Carriers \ {p} : carrying'[q] = NoRows
  BY <1>1, <1>2, <1>6, <1>7 DEF LedgerInv, LedgerTypes
<1>9. LedgerTypes' /\ KeysAreApart' /\ U!LedgerIsExact'
  BY <1>1, <1>8 DEF LedgerInv, LedgerTypes, KeysAreApart, U!LedgerIsExact
<1>10. RowsAreLocked'
  BY <1>1, <1>5, <1>7, <1>8 DEF RowsAreLocked, U!Overdue
<1> QED BY <1>9, <1>10 DEF LedgerInv

\* The rows go, and one entry takes their sum up: a new one, or that of the key.
LEMMA CarryOverKeeps ==
    ASSUME LedgerInv, NEW p \in Carriers, U!CarryOver(p)
    PROVE  LedgerInv'
<1> DEFINE rows == carrying[p].rows
           cutoff == carrying[p].cutoff
           key == <<"carryover", cutoff>>
           kept == {e \in ledger : e.key = key}
           base == ledger \ (rows \cup kept)
           new == IF kept = {} THEN U!Entry(key, U!Total(rows), cutoff, FALSE)
                  ELSE [(CHOOSE e \in kept : TRUE) EXCEPT !.units = @ + U!Total(rows)]
<1>1. /\ carrying[p] # NoRows /\ ledger' = base \cup {new} /\ entries' = entries + 1
      /\ carrying' = [carrying EXCEPT ![p] = NoRows] /\ UNCHANGED <<usageDay, balance>>
  BY DEF U!CarryOver
<1>2. /\ rows \subseteq ledger /\ \A e \in rows : e.date < cutoff
      /\ \A q \in Carriers \ {p} : carrying[q] = NoRows
      /\ cutoff \in U!Days /\ cutoff \in Nat
  BY <1>1, LedgerAssumption DEF LedgerInv, LedgerTypes, RowsAreLocked, Selections, U!Days
<1>3. key[1] = "carryover" /\ key[2] = cutoff
  OBVIOUS
<1>4. \A e \in kept : e.date = cutoff /\ e \notin rows
  <2>1. \A e \in kept : e.date = cutoff
    BY <1>3 DEF LedgerInv, KeysAreApart
  <2> QED BY <1>2, <2>1
<1>5. \A e, o \in kept : e = o
  BY DEF LedgerInv, KeysAreApart
<1>6. /\ Summable(rows) /\ Summable(kept) /\ Summable(base) /\ Summable(base \cup kept) /\ Summable(ledger)
      /\ IsFiniteSet(base)
  BY <1>2, LedgerIsSummable
<1>7. /\ U!Total(rows) \in Int /\ U!Total(base) \in Int /\ U!Total(kept) \in Int
      /\ U!Total(ledger) = U!Total(base) + U!Total(kept) + U!Total(rows)
  <2>1. PICK both : both = base \cup kept
    OBVIOUS
  <2>2. base \cap kept = {} /\ both \cap rows = {} /\ ledger = both \cup rows
    BY <1>2, <1>4, <2>1
  <2>3. U!Total(base) \in Int /\ U!Total(kept) \in Int /\ U!Total(both) = U!Total(base) + U!Total(kept)
    <3> HIDE DEF base, kept
    <3> QED BY <1>6, <2>1, <2>2, TotalOfBoth
  <2>4. U!Total(rows) \in Int /\ U!Total(ledger) = U!Total(both) + U!Total(rows)
    <3> HIDE DEF rows
    <3> QED BY <1>6, <2>2, TotalOfBoth
  <2> QED BY ONLY <2>3, <2>4
<1> HIDE DEF base, key
<1>8. /\ new \in U!UsageEntry /\ new.key = key /\ new.date = cutoff
      /\ new.units = U!Total(kept) + U!Total(rows)
  <2>1. CASE kept = {}
    <3>1. new = [id |-> entries + 1, key |-> key, units |-> U!Total(rows), date |-> cutoff, reversal |-> FALSE]
      BY <2>1 DEF U!Entry
    <3>2. U!Total(kept) = 0
      BY <2>1, TotalOfNone
    <3>3. key \in {"carryover"} \X U!Days
      BY <1>2 DEF key
    <3> HIDE DEF new, rows, cutoff, kept
    <3>4. new \in U!UsageEntry
      BY <1>2, <1>7, <3>1, <3>3 DEF LedgerInv, LedgerTypes, U!UsageEntry
    <3> QED BY <1>7, <3>1, <3>2, <3>4
  <2>2. CASE kept # {}
    <3>1. PICK old : old = CHOOSE e \in kept : TRUE
      OBVIOUS
    <3>2. old \in kept /\ new = [old EXCEPT !.units = @ + U!Total(rows)]
      BY <2>2, <3>1
    <3>3. kept = {old}
      BY <1>5, <3>2
    <3>4. old \in U!UsageEntry /\ old.key = key /\ old.date = cutoff
      BY <1>4, <3>2 DEF LedgerInv, LedgerTypes
    <3>5. U!Total(kept) = old.units
      <4>1. {old} = {} \cup {old} /\ old \notin {}
        OBVIOUS
      <4>2. U!Total({old}) = old.units + U!Total({})
        BY <1>6, <3>3, <4>1, TotalAdds
      <4>3. old.units \in Int
        BY <3>4, EntriesAre
      <4>4. U!Total(kept) = U!Total({old})
        <5> HIDE DEF kept
        <5> QED BY <3>3
      <4>5. U!Total({old}) = old.units
        BY <4>2, <4>3, TotalOfNone
      <4> HIDE DEF kept
      <4> QED BY <4>4, <4>5
    <3> HIDE DEF new, rows, cutoff, kept
    <3>6. old.units \in Int
      BY <3>4, EntriesAre
    <3>7. new \in U!UsageEntry /\ new.key = old.key /\ new.date = old.date /\ new.units = old.units + U!Total(rows)
      BY <1>7, <3>2, <3>4, <3>6 DEF U!UsageEntry
    <3> QED BY <3>4, <3>5, <3>7
  <2> QED BY <2>1, <2>2
<1> HIDE DEF new
<1>9. \A e \in base : e \in ledger /\ e.key # key
  BY DEF base
<1>10. new \notin base /\ IsFiniteSet(ledger') /\ ledger' \subseteq U!UsageEntry
  BY <1>1, <1>6, <1>8, <1>9, FS_AddElement DEF LedgerInv, LedgerTypes
<1>11. Summable(ledger')
  BY <1>10, EntriesAre DEF Summable
<1>12. U!Total(ledger') = new.units + U!Total(base)
  BY <1>1, <1>10, <1>11, TotalAdds
<1>13. U!LedgerIsExact'
  <2> HIDE DEF rows, cutoff, kept
  <2> QED BY <1>1, <1>7, <1>8, <1>12 DEF LedgerInv, U!LedgerIsExact
<1>14. carrying' \in [Carriers -> {NoRows} \cup Selections] /\ \A q \in Carriers : carrying'[q] = NoRows
  BY <1>1, <1>2 DEF LedgerInv, LedgerTypes
<1>15. LedgerTypes' /\ RowsAreLocked'
  BY <1>1, <1>10, <1>14 DEF LedgerInv, LedgerTypes, RowsAreLocked
<1>16. KeysAreApart'
  <2>1. key[1] = "carryover" /\ key[2] = cutoff
    BY DEF key
  <2> QED BY <1>1, <1>8, <1>9, <2>1 DEF LedgerInv, KeysAreApart
<1> QED BY <1>13, <1>15, <1>16 DEF LedgerInv

LEMMA TickKeeps ==
    ASSUME LedgerInv, U!Tick
    PROVE  LedgerInv'
<1>1. usageDay < LastUsageDay /\ usageDay' = usageDay + 1 /\ UNCHANGED <<ledger, balance, carrying, entries>>
  BY DEF U!Tick
<1>2. usageDay \in Nat /\ usageDay' \in U!Days
  BY <1>1, LedgerAssumption DEF LedgerInv, LedgerTypes, U!Days
<1>3. LedgerTypes' /\ KeysAreApart' /\ U!LedgerIsExact'
  BY <1>1, <1>2 DEF LedgerInv, LedgerTypes, KeysAreApart, U!LedgerIsExact
<1>4. \A p \in Carriers : carrying[p] # NoRows => carrying[p].cutoff <= U!Cutoff /\ carrying[p].cutoff \in Nat
  BY LedgerAssumption DEF LedgerInv, LedgerTypes, RowsAreLocked, Selections, U!Days
<1>5. \A p \in Carriers : carrying[p] # NoRows => carrying[p].cutoff <= U!Cutoff'
  BY <1>1, <1>2, <1>4 DEF U!Cutoff
<1>6. RowsAreLocked'
  BY <1>1, <1>5 DEF LedgerInv, RowsAreLocked
<1> QED BY <1>3, <1>6 DEF LedgerInv

\* A step of another part leaves the ledger alone.
LEMMA LedgerOfSystem ==
    ASSUME LedgerInv, [Next]_vars
    PROVE  LedgerInv'
<1>1. U!Next \/ UNCHANGED uVars
  BY DEF Next, vars
<1>2. CASE UNCHANGED uVars
  BY <1>2 DEF uVars, LedgerInv, LedgerTypes, KeysAreApart, RowsAreLocked, U!LedgerIsExact, U!Cutoff
<1>3. CASE U!Next
  BY <1>3, TickKeeps, AppendUsageKeeps, ReverseKeeps, SelectOverdueKeeps, CarryOverKeeps DEF U!Next, U!Carry
<1> QED BY <1>1, <1>2, <1>3

LEMMA LedgerInit ==
    ASSUME U!Init
    PROVE  LedgerInv
<1>1. /\ usageDay = 0 /\ ledger = {} /\ balance = 0 /\ entries = 0 /\ carrying = [p \in Carriers |-> NoRows]
  BY DEF U!Init
<1>2. LedgerTypes
  BY <1>1, LedgerAssumption, FS_EmptySet DEF LedgerTypes, U!Days
<1>3. KeysAreApart /\ RowsAreLocked
  BY <1>1 DEF KeysAreApart, RowsAreLocked
<1> QED BY <1>1, <1>2, <1>3, TotalOfNone DEF LedgerInv, U!LedgerIsExact

\* Carrying expired usage over keeps the balance of the ledger, whatever the
\* carriers, the entries and the days are: only the worker that holds the
\* overdue rows writes their rest back, and takes exactly those rows away.
THEOREM LedgerExact == Spec => []LedgerIsExact
<1>1. Init => LedgerInv
  BY LedgerInit DEF Init
<1>2. LedgerInv /\ [Next]_vars => LedgerInv'
  BY LedgerOfSystem
<1>3. LedgerInv => LedgerIsExact
  BY DEF LedgerInv, LedgerIsExact
<1> QED BY <1>1, <1>2, <1>3, PTL DEF Spec
-----------------------------------------------------------------------------
(*                 Types: what a tenant's threads hold                     *)

\* The layers go from the first on.
LayersLeft ==
    /\ layers \in Seq(STRING) /\ Len(layers) <= Len(Layers)
    /\ \A i \in 1 .. Len(layers) : layers[i] = Layers[Len(Layers) - Len(layers) + i]

ThreadTyped(j, c, list) ==
    j \in Nat \cup {NoJob} /\ c \in T!Copies /\ \A x \in list : x[1] \in Nat

TenantTyped ==
    /\ tenant \in T!TenantStatus /\ exports \in Seq({"queued", "completed"}) /\ LayersLeft
    /\ \A t \in T!Threads : ThreadTyped(job[t], copy[t], todo[t])

LEMMA LayersAreSuffix ==
    ASSUME LayersLeft
    PROVE  T!IsSuffix(layers, Layers)
<1>1. PICK few, all, n, m : few = layers /\ all = Layers /\ n = Len(few) /\ m = Len(all)
  OBVIOUS
<1>2. /\ few \in Seq(STRING) /\ all \in Seq(STRING) /\ n \in Nat /\ m \in Nat /\ n <= m
      /\ n = Len(few) /\ m = Len(all)
      /\ \A i \in 1 .. n : few[i] = all[m - n + i]
  BY <1>1, BoundsAssumption DEF LayersLeft
<1>3. PICK back, whole : back = T!Reverse(few) /\ whole = T!Reverse(all)
  OBVIOUS
<1>4. back = [i \in 1 .. n |-> few[n - i + 1]] /\ whole = [i \in 1 .. m |-> all[m - i + 1]]
  BY <1>2, <1>3 DEF T!Reverse
<1>5. back \in Seq(STRING) /\ Len(back) = n /\ whole \in Seq(STRING) /\ Len(whole) = m
  <2>1. \A i \in 1 .. n : few[n - i + 1] \in STRING
    BY <1>2
  <2>2. \A i \in 1 .. m : all[m - i + 1] \in STRING
    BY <1>2
  <2> QED BY <1>2, <1>4, <2>1, <2>2
<1>6. \A i \in 1 .. n : back[i] = whole[i]
  <2>1. SUFFICES ASSUME NEW i \in 1 .. n PROVE back[i] = whole[i]
    OBVIOUS
  <2>2. n - i + 1 \in 1 .. n /\ m - n + (n - i + 1) = m - i + 1 /\ i \in 1 .. m
    BY <1>2
  <2>a. PICK k \in 1 .. n : k = n - i + 1 /\ m - n + k = m - i + 1
    BY ONLY <2>2
  <2>3. back[i] = few[k] /\ whole[i] = all[m - n + k]
    BY <1>4, <2>2, <2>a
  <2> QED BY <1>2, <2>3, <2>a
<1>7. SubSeq(back, 1, n) = SubSeq(whole, 1, n)
  <2>1. /\ SubSeq(back, 1, n) \in Seq(STRING) /\ SubSeq(whole, 1, n) \in Seq(STRING)
        /\ Len(SubSeq(back, 1, n)) = n /\ Len(SubSeq(whole, 1, n)) = n
    BY <1>2, <1>5
  <2>2. \A i \in 1 .. n : SubSeq(back, 1, n)[i] = back[i] /\ SubSeq(whole, 1, n)[i] = whole[i]
    BY <1>2, <1>5
  <2> QED BY <1>6, <2>1, <2>2
<1> QED BY <1>1, <1>2, <1>3, <1>5, <1>7 DEF T!IsSuffix, T!IsPrefix

\* One thread goes on with a job, a copy and a list.
LEMMA ThreadsTyped ==
    ASSUME TenantTyped, NEW t \in T!Threads, NEW j, NEW c, NEW list, ThreadTyped(j, c, list),
           job'[t] = j, copy'[t] = c, todo'[t] = list,
           \A u \in T!Threads \ {t} : job'[u] = job[u] /\ copy'[u] = copy[u] /\ todo'[u] = todo[u]
    PROVE  \A u \in T!Threads : ThreadTyped(job'[u], copy'[u], todo'[u])
BY DEF TenantTyped

LEMMA ManagersTyped ==
    ASSUME TenantInv, TenantTyped, NEW a \in Managers, T!Manage(a)
    PROVE  TenantTyped'
<1>1. a \in T!Threads /\ ThreadTyped(job[a], copy[a], todo[a])
  BY DEF T!Threads, TenantTyped
<1>2. DOMAIN job = T!Threads /\ DOMAIN copy = T!Threads /\ DOMAIN todo = T!Threads
  BY DEF TenantInv, ThreadsOK
<1>3. LayersLeft' /\ UNCHANGED todo
  BY DEF T!Manage, T!RequestExport, T!BeginDeletion, T!MarkDeleting, T!CreateDeletion, T!ConfirmDeletion,
         T!CancelDeletion, T!Revive, T!Reactivate, T!SaveCopy, T!store, TenantTyped, LayersLeft
<1>4. tenant' \in T!TenantStatus
  BY DEF T!Manage, T!RequestExport, T!BeginDeletion, T!MarkDeleting, T!CreateDeletion, T!ConfirmDeletion,
         T!CancelDeletion, T!Revive, T!Reactivate, T!SaveCopy, T!store, TenantTyped, T!TenantStatus
<1>5. exports' \in Seq({"queued", "completed"})
  <2>1. exports' = exports \/ exports' = Append(exports, "queued")
    BY DEF T!Manage, T!RequestExport, T!BeginDeletion, T!MarkDeleting, T!CreateDeletion, T!ConfirmDeletion,
           T!CancelDeletion, T!Revive, T!Reactivate, T!SaveCopy, T!store
  <2>2. PICK Kinds : Kinds = {"queued", "completed"}
    OBVIOUS
  <2>3. exports \in Seq(Kinds) /\ "queued" \in Kinds
    BY <2>2 DEF TenantTyped
  <2>4. exports' \in Seq(Kinds)
    BY <2>1, <2>3
  <2> QED BY <2>2, <2>4
<1>6. \A u \in T!Threads : ThreadTyped(job'[u], copy'[u], todo'[u])
  <2>1. CASE T!ConfirmDeletion(a) \/ T!CancelDeletion(a)
    <3>1. PICK n \in Nat, row \in T!LifecycleJob : T!Hold(a, n, row)
      <4>1. CASE T!ConfirmDeletion(a)
        <5>1. PICK n, c : n \in Nat /\ n = T!Latest /\ c = deletions[n] /\ n \in 1 .. Len(deletions)
          BY <4>1 DEF T!ConfirmDeletion, T!Latest, TenantInv, DeletionsOK
        <5>2. c \in T!LifecycleJob
          BY <5>1 DEF TenantInv, DeletionsOK
        <5>3. [c EXCEPT !.confirmed = TRUE] \in T!LifecycleJob
          BY <5>2 DEF T!LifecycleJob
        <5>4. T!Hold(a, n, [c EXCEPT !.confirmed = TRUE])
          BY <4>1, <5>1 DEF T!ConfirmDeletion
        <5> QED BY <5>1, <5>3, <5>4
      <4>2. CASE T!CancelDeletion(a)
        <5>1. T!Cooling # {} /\ T!Cooling \subseteq 1 .. Len(deletions) /\ Len(deletions) \in Nat
          BY <4>2 DEF T!CancelDeletion, T!Cooling, TenantInv, DeletionsOK
        <5>6. T!LastOf(T!Cooling) \in 1 .. Len(deletions)
          BY <5>1, LastExists
        <5>2. PICK n, c : n \in Nat /\ n = T!LastOf(T!Cooling) /\ c = deletions[n] /\ n \in 1 .. Len(deletions)
          BY <5>1, <5>6
        <5>3. c \in T!LifecycleJob
          BY <5>2 DEF TenantInv, DeletionsOK
        <5>4. [c EXCEPT !.status = "cancelled"] \in T!LifecycleJob
          BY <5>3 DEF T!LifecycleJob
        <5>5. T!Hold(a, n, [c EXCEPT !.status = "cancelled"])
          BY <4>2, <5>2 DEF T!CancelDeletion
        <5> QED BY <5>2, <5>4, <5>5
      <4> QED BY <2>1, <4>1, <4>2
    <3>4. ThreadTyped(n, row, todo[a])
      BY <1>1 DEF ThreadTyped, T!Copies
    <3>5. /\ job'[a] = n /\ copy'[a] = row
          /\ \A u \in T!Threads \ {a} : job'[u] = job[u] /\ copy'[u] = copy[u]
      BY <1>1, <1>2, <3>1 DEF T!Hold
    <3> QED BY <1>1, <1>3, <3>4, <3>5, ThreadsTyped
  <2>2. CASE T!SaveCopy(a)
    <3>1. ThreadTyped(NoJob, NoJob, todo[a])
      BY <1>1 DEF ThreadTyped, T!Copies
    <3>2. /\ job'[a] = NoJob /\ copy'[a] = NoJob
          /\ \A u \in T!Threads \ {a} : job'[u] = job[u] /\ copy'[u] = copy[u]
      BY <1>1, <1>2, <2>2 DEF T!SaveCopy, T!Hold
    <3> QED BY <1>1, <1>3, <3>1, <3>2, ThreadsTyped
  <2>3. CASE ~(T!ConfirmDeletion(a) \/ T!CancelDeletion(a) \/ T!SaveCopy(a))
    <3>1. UNCHANGED <<job, copy>>
      BY <2>3 DEF T!Manage, T!RequestExport, T!BeginDeletion, T!MarkDeleting, T!CreateDeletion, T!Revive, T!Reactivate
    <3> QED BY <1>3, <3>1 DEF TenantTyped
  <2> QED BY <2>1, <2>2, <2>3
<1> QED BY <1>3, <1>4, <1>5, <1>6 DEF TenantTyped

LEMMA RoundsTyped ==
    ASSUME TenantInv, TenantTyped, NEW w \in Janitors, T!RunPendingJobs(w) \/ T!Crash(w)
    PROVE  TenantTyped'
<1>1. w \in T!Threads /\ ThreadTyped(job[w], copy[w], todo[w])
  BY DEF T!Threads, TenantTyped
<1>2. DOMAIN job = T!Threads /\ DOMAIN copy = T!Threads /\ DOMAIN todo = T!Threads
  BY DEF TenantInv, ThreadsOK
<1> USE DEF T!RunPendingJobs, T!Export, T!ExecuteDeletion
<1>3. tenant' \in T!TenantStatus
  BY DEF T!Crash, T!BeginRound, T!StorePackage, T!CloseExport, T!LinkExport, T!MarkFinalExported,
         T!ListDeletions, T!TakeDeletion, T!EndRound, T!JudgeDeletion, T!JudgeTransition, T!SealTenant,
         T!PurgeLayer, T!CloseDeletion, T!store, T!world, TenantTyped, T!TenantStatus
<1>4. exports' \in Seq({"queued", "completed"})
  <2>1. exports' = exports \/ exports' = [exports EXCEPT ![job[w]] = "completed"]
    BY DEF T!Crash, T!BeginRound, T!StorePackage, T!CloseExport, T!LinkExport, T!MarkFinalExported,
           T!ListDeletions, T!TakeDeletion, T!EndRound, T!JudgeDeletion, T!JudgeTransition, T!SealTenant,
           T!PurgeLayer, T!CloseDeletion, T!store, T!world
  <2>2. PICK Kinds, i : Kinds = {"queued", "completed"} /\ i = job[w]
    OBVIOUS
  <2>3. exports \in Seq(Kinds) /\ "completed" \in Kinds
    BY <2>2 DEF TenantTyped
  <2>4. exports' = exports \/ exports' = [exports EXCEPT ![i] = "completed"]
    BY <2>1, <2>2
  <2>5. exports' \in Seq(Kinds)
    BY <2>3, <2>4
  <2> QED BY <2>2, <2>5
<1>5. LayersLeft'
  <2>1. layers' = layers \/ (layers # <<>> /\ layers' = Tail(layers))
    BY DEF T!Crash, T!BeginRound, T!StorePackage, T!CloseExport, T!LinkExport, T!MarkFinalExported,
           T!ListDeletions, T!TakeDeletion, T!EndRound, T!JudgeDeletion, T!JudgeTransition, T!SealTenant,
           T!PurgeLayer, T!CloseDeletion, T!store, T!world
  <2>2. CASE layers # <<>> /\ layers' = Tail(layers)
    <3>1. PICK few, all, n, m : few = layers /\ all = Layers /\ n = Len(layers) /\ m = Len(Layers)
      OBVIOUS
    <3>2. /\ few \in Seq(STRING) /\ all \in Seq(STRING) /\ n \in Nat /\ m \in Nat /\ n <= m /\ n > 0
          /\ n = Len(few) /\ m = Len(all)
          /\ \A i \in 1 .. n : few[i] = all[m - n + i]
      BY <2>2, <3>1, BoundsAssumption DEF TenantTyped, LayersLeft
    <3>3. Tail(few) \in Seq(STRING) /\ Len(Tail(few)) = n - 1
      BY <3>2
    <3>4. \A i \in 1 .. n - 1 : Tail(few)[i] = all[m - (n - 1) + i]
      <4>1. SUFFICES ASSUME NEW i \in 1 .. n - 1 PROVE Tail(few)[i] = all[m - (n - 1) + i]
        OBVIOUS
      <4>2. PICK k \in 1 .. n : k = i + 1 /\ m - n + k = m - (n - 1) + i
        BY <3>2
      <4>3. Tail(few)[i] = few[k]
        BY <3>2, <4>2
      <4> QED BY <3>2, <4>2, <4>3
    <3>5. n - 1 <= m
      BY <3>2
    <3> QED BY <2>2, <3>1, <3>3, <3>4, <3>5 DEF LayersLeft
  <2>3. CASE layers' = layers
    BY <2>3 DEF TenantTyped, LayersLeft
  <2> QED BY <2>1, <2>2, <2>3
<1>6. \A u \in T!Threads : ThreadTyped(job'[u], copy'[u], todo'[u])
  <2>1. CASE T!BeginRound(w) \/ T!ListDeletions(w)
    <3>1. PICK list : /\ todo' = [todo EXCEPT ![w] = list] /\ UNCHANGED <<job, copy>>
                      /\ \A x \in list : x[1] \in Nat
      <4>1. CASE T!BeginRound(w)
        <5>1. DOMAIN exports \subseteq Nat
          BY DEF TenantTyped
        <5>2. PICK list : list = T!Listed(exports, {i \in DOMAIN exports : exports[i] = "queued"})
          OBVIOUS
        <5>3. \A x \in list : x[1] \in Nat
          BY <5>1, <5>2 DEF T!Listed
        <5>4. todo' = [todo EXCEPT ![w] = list] /\ UNCHANGED <<job, copy>>
          BY <4>1, <5>2 DEF T!BeginRound
        <5> QED BY <5>3, <5>4
      <4>2. CASE T!ListDeletions(w)
        <5>1. DOMAIN deletions \subseteq Nat
          BY DEF TenantInv, DeletionsOK
        <5>2. PICK list : list = T!Listed(deletions, T!Cooling)
          OBVIOUS
        <5>3. \A x \in list : x[1] \in Nat
          BY <5>1, <5>2 DEF T!Listed, T!Cooling
        <5>4. todo' = [todo EXCEPT ![w] = list] /\ UNCHANGED <<job, copy>>
          BY <4>2, <5>2 DEF T!ListDeletions
        <5> QED BY <5>3, <5>4
      <4> QED BY <2>1, <4>1, <4>2
    <3>2. ThreadTyped(job[w], copy[w], list)
      BY <1>1, <3>1 DEF ThreadTyped
    <3> QED BY <1>1, <1>2, <3>1, <3>2, ThreadsTyped
  <2>2. CASE T!StorePackage(w) \/ T!CloseExport(w) \/ T!TakeDeletion(w)
    <3>1. /\ UNCHANGED copy /\ todo'[w] \subseteq todo[w] /\ \A u \in T!Threads \ {w} : todo'[u] = todo[u]
          /\ job'[w] = job[w] \/ \E x \in todo[w] : job'[w] = x[1]
          /\ \A u \in T!Threads \ {w} : job'[u] = job[u]
      <4>1. CASE T!StorePackage(w)
        BY <1>1, <1>2, <4>1 DEF T!StorePackage
      <4>2. CASE T!CloseExport(w) \/ T!TakeDeletion(w)
        BY <1>1, <1>2, <4>2 DEF T!CloseExport, T!TakeDeletion
      <4> QED BY <2>2, <4>1, <4>2
    <3>2. ThreadTyped(job'[w], copy'[w], todo'[w])
      BY <1>1, <3>1 DEF ThreadTyped
    <3> QED BY <3>1, <3>2 DEF TenantTyped
  <2>3. CASE T!LinkExport(w) \/ T!JudgeDeletion(w)
    <3>1. CASE /\ \E n \in 1 .. Len(deletions) : \E c \in T!LifecycleJob : T!Hold(w, n, c)
               /\ UNCHANGED todo
      <4>1. PICK n \in 1 .. Len(deletions), c \in T!LifecycleJob : T!Hold(w, n, c)
        BY <3>1
      <4>2. ThreadTyped(n, c, todo[w])
        BY <1>1, <4>1 DEF ThreadTyped, T!Copies
      <4> QED BY <1>1, <1>2, <3>1, <4>1, <4>2, ThreadsTyped DEF T!Hold
    <3>2. CASE T!Hold(w, NoJob, NoJob) /\ (UNCHANGED todo \/ todo' = [todo EXCEPT ![w] = {}])
      <4>1. ThreadTyped(NoJob, NoJob, todo'[w])
        BY <1>1, <1>2, <3>2 DEF ThreadTyped, T!Copies
      <4>2. \A u \in T!Threads \ {w} : todo'[u] = todo[u]
        BY <1>2, <3>2
      <4> QED BY <1>1, <1>2, <3>2, <4>1, <4>2, ThreadsTyped DEF T!Hold
    <3>3. CASE T!LinkExport(w) /\ T!FinalExportTargets # {}
      <4>1. T!FinalExportTargets \subseteq 1 .. Len(deletions) /\ Len(deletions) \in Nat
        BY DEF T!FinalExportTargets, T!Cooling, TenantInv, DeletionsOK
      <4>2. PICK n \in 1 .. Len(deletions) : n = T!LastOf(T!FinalExportTargets)
        BY <3>3, <4>1, LastExists
      <4>3. PICK c \in T!LifecycleJob : c = deletions[n]
        BY <4>2 DEF TenantInv, DeletionsOK
      <4>4. [c EXCEPT !.exported = TRUE] \in T!LifecycleJob
        BY <4>3 DEF T!LifecycleJob
      <4>5. T!Hold(w, n, [c EXCEPT !.exported = TRUE]) /\ UNCHANGED todo
        BY <3>3, <4>2, <4>3 DEF T!LinkExport
      <4> QED BY <3>1, <4>4, <4>5
    <3>4. CASE T!LinkExport(w) /\ T!FinalExportTargets = {}
      BY <3>2, <3>4 DEF T!LinkExport
    <3>5. CASE T!JudgeDeletion(w) /\ T!Executable(w, T!Latest)
      <4>1. now[w] \subseteq 1 .. Len(deletions)
        BY <1>1 DEF TenantInv, ThreadsOK, Holding, DeletionsOK
      <4>2. PICK n \in 1 .. Len(deletions) : n = T!Latest
        BY <3>5, <4>1 DEF T!Executable
      <4>3. deletions[n] \in T!LifecycleJob
        BY <4>2 DEF TenantInv, DeletionsOK
      <4>4. T!Hold(w, n, deletions[n]) /\ UNCHANGED todo
        BY <3>5, <4>2 DEF T!JudgeDeletion
      <4> QED BY <3>1, <4>3, <4>4
    <3>6. CASE T!JudgeDeletion(w) /\ ~T!Executable(w, T!Latest)
      BY <3>2, <3>6 DEF T!JudgeDeletion, T!Abort
    <3> QED BY <2>3, <3>3, <3>4, <3>5, <3>6
  <2>4. CASE T!MarkFinalExported(w) \/ T!CloseDeletion(w) \/ T!Crash(w) \/ T!JudgeTransition(w)
    <3>1. CASE UNCHANGED <<job, copy, todo>>
      BY <3>1 DEF TenantTyped
    <3>2. CASE T!Hold(w, NoJob, NoJob) /\ (UNCHANGED todo \/ todo' = [todo EXCEPT ![w] = {}])
      <4>1. ThreadTyped(NoJob, NoJob, todo'[w])
        BY <1>1, <1>2, <3>2 DEF ThreadTyped, T!Copies
      <4>2. \A u \in T!Threads \ {w} : todo'[u] = todo[u]
        BY <1>2, <3>2
      <4> QED BY <1>1, <1>2, <3>2, <4>1, <4>2, ThreadsTyped DEF T!Hold
    <3> QED BY <2>4, <3>1, <3>2 DEF T!MarkFinalExported, T!CloseDeletion, T!Crash, T!JudgeTransition, T!Abort
  <2>5. CASE T!EndRound(w) \/ T!SealTenant(w) \/ T!PurgeLayer(w)
    BY <2>5 DEF T!EndRound, T!SealTenant, T!PurgeLayer, TenantTyped
  <2> QED BY <2>1, <2>2, <2>3, <2>4, <2>5
<1> QED BY <1>3, <1>4, <1>5, <1>6 DEF TenantTyped

LEMMA TenantStaysTyped ==
    ASSUME TenantInv, TenantTyped, [Next]_vars
    PROVE  TenantTyped'
<1>1. T!Next \/ UNCHANGED tVars
  BY DEF Next, vars
<1>2. CASE UNCHANGED tVars
  BY <1>2 DEF tVars, TenantTyped, LayersLeft
<1>3. CASE T!Mature
  BY <1>3 DEF T!Mature, T!store, TenantTyped, LayersLeft
<1> QED BY <1>1, <1>2, <1>3, ManagersTyped, RoundsTyped DEF T!Next

LEMMA TenantTypedInit ==
    ASSUME T!Init
    PROVE  TenantTyped
<1>1. layers = Layers /\ LayersLeft
  <2>1. layers = Layers /\ Layers \in Seq(STRING)
    BY BoundsAssumption DEF T!Init
  <2>2. Len(Layers) \in Nat /\ \A i \in 1 .. Len(Layers) : Len(Layers) - Len(Layers) + i = i
    BY <2>1
  <2> QED BY <2>1, <2>2 DEF LayersLeft
<1>2. \A t \in T!Threads : job[t] = NoJob /\ copy[t] = NoJob /\ todo[t] = {}
  BY DEF T!Init
<1>3. tenant = "active" /\ exports = <<>>
  BY DEF T!Init
<1>4. exports \in Seq({"queued", "completed"})
  BY <1>3
<1> QED BY <1>1, <1>2, <1>3, <1>4 DEF TenantTyped, ThreadTyped, T!Copies, T!TenantStatus

LEMMA TenantTypesHold ==
    ASSUME TenantInv, TenantTyped, SealInv
    PROVE  T!TypeOK
<1>1. matured \subseteq 1 .. Len(deletions) /\ DOMAIN deletions = 1 .. Len(deletions)
  BY DEF TenantInv, DeletionsOK
<1>2. \A t \in T!Threads : now[t] \subseteq matured
  BY DEF TenantInv, ThreadsOK, Holding
<1>3. T!IsSuffix(layers, Layers)
  BY LayersAreSuffix DEF TenantTyped
<1>4. /\ tenant \in T!TenantStatus /\ exports \in Seq({"queued", "completed"})
      /\ \A t \in T!Threads : job[t] \in Nat \cup {NoJob} /\ copy[t] \in T!Copies
  BY DEF TenantTyped, ThreadTyped
<1>5. deletions \in Seq(T!LifecycleJob) /\ packages \in Nat /\ crashes \in Nat
  BY DEF TenantInv, DeletionsOK
<1> QED BY <1>1, <1>2, <1>3, <1>4, <1>5 DEF T!TypeOK, SealInv

-----------------------------------------------------------------------------
(*                   Types: runs, skills and documents                     *)

KeptTyped == R!TypeOK /\ DOMAIN purging = Purgers

LEMMA KeptStaysTyped ==
    ASSUME KeptTyped, [Next]_vars
    PROVE  KeptTyped'
<1>1. R!Next \/ UNCHANGED rVars
  BY DEF Next, vars
<1>2. CASE UNCHANGED rVars
  BY <1>2 DEF rVars, KeptTyped, R!TypeOK
<1>3. CASE R!Tick \/ R!StorePackage \/ R!PurgePackages
  <2>1. UNCHANGED <<task, runs, artifacts, starting, late, purging, orphans>>
    BY <1>3 DEF R!Tick, R!StorePackage, R!PurgePackages, R!runVars
  <2>2. clock' \in R!Dates /\ stored' \subseteq R!Dates
    <3>1. MaxTime \in Nat /\ clock \in 0 .. MaxTime /\ stored \subseteq 0 .. MaxTime
      BY BoundsAssumption DEF R!Dates, KeptTyped, R!TypeOK
    <3>2. CASE R!Tick
      BY <3>1, <3>2 DEF R!Tick, R!Dates
    <3>3. CASE R!StorePackage
      BY <3>1, <3>3 DEF R!StorePackage, R!Dates
    <3>4. CASE R!PurgePackages
      BY <3>1, <3>4 DEF R!PurgePackages, R!Dates
    <3> QED BY <1>3, <3>2, <3>3, <3>4
  <2> QED BY <2>1, <2>2 DEF KeptTyped, R!TypeOK
<1>4. ASSUME NEW r \in RunIds, R!Request(r)
      PROVE  KeptTyped'
  <2>1. runs' \in [RunIds -> R!Dates \cup {-1}]
    BY <1>4 DEF R!Request, R!ReadTask, R!StartRun, R!RegisterArtifact, KeptTyped, R!TypeOK
  <2>2. /\ artifacts' \cup starting' \cup late' \cup orphans' \subseteq RunIds
        /\ UNCHANGED <<clock, task, purging, stored>>
    BY <1>4 DEF R!Request, R!ReadTask, R!StartRun, R!RegisterArtifact, KeptTyped, R!TypeOK
  <2> QED BY <2>1, <2>2 DEF KeptTyped, R!TypeOK
<1>5. ASSUME NEW p \in Purgers, R!PurgeRuns(p)
      PROVE  KeptTyped'
  <2>1. CASE R!SelectExpired(p)
    <3>1. UNCHANGED <<clock, task, runs, artifacts, starting, late, stored, orphans>>
      BY <2>1 DEF R!SelectExpired
    <3>2. PICK some \in SUBSET RunIds : purging' = [purging EXCEPT ![p] = some]
      BY <2>1 DEF R!SelectExpired, R!ExpiredRuns
    <3> QED BY <3>1, <3>2 DEF KeptTyped, R!TypeOK
  <2>2. CASE R!RollBackPurge(p) \/ R!PurgeExpired(p)
    <3>1. UNCHANGED <<clock, starting, stored, orphans>>
      BY <2>2 DEF R!RollBackPurge, R!PurgeExpired
    <3>2. purging' = [purging EXCEPT ![p] = NoRows] /\ artifacts' \subseteq artifacts /\ late' \subseteq late
      BY <2>2 DEF R!RollBackPurge, R!PurgeExpired, R!EndPurge
    <3>3. task' = task \/ task' = -1
      BY <2>2 DEF R!RollBackPurge, R!PurgeExpired
    <3>4. runs' \in [RunIds -> R!Dates \cup {-1}]
      BY <2>2 DEF R!RollBackPurge, R!PurgeExpired, KeptTyped, R!TypeOK
    <3> QED BY <3>1, <3>2, <3>3, <3>4 DEF KeptTyped, R!TypeOK
  <2> QED BY <1>5, <2>1, <2>2 DEF R!PurgeRuns
<1>6. ASSUME R!Next
      PROVE  KeptTyped'
  BY <1>3, <1>4, <1>5, <1>6 DEF R!Next
<1> QED BY <1>1, <1>2, <1>6

LEMMA KeptTypedInit ==
    ASSUME R!Init
    PROVE  KeptTyped
<1>1. 0 \in R!Dates
  BY BoundsAssumption DEF R!Dates
<1> QED BY <1>1 DEF R!Init, KeptTyped, R!TypeOK

SkillTyped ==
    /\ bindings \in [S!Pairs -> {"none", "active", "disabled"}]
    /\ mind \in [SkillPeople -> S!Requests \cup {Idle}]
    /\ repairing \in (SUBSET S!Pairs) \cup {Idle}

LEMMA SkillStaysTyped ==
    ASSUME SkillTyped, [Next]_vars
    PROVE  SkillTyped'
<1>1. S!Next \/ UNCHANGED sVars
  BY DEF Next, vars
<1>2. CASE UNCHANGED sVars
  BY <1>2 DEF sVars, SkillTyped
<1>3. ASSUME NEW p \in SkillPeople, S!Declare(p) \/ S!Review(p)
      PROVE  SkillTyped'
  <2>1. UNCHANGED <<bindings, repairing>>
    BY <1>3 DEF S!Declare, S!Review, S!SubmitChecks, S!SubmitInserts, S!ReviewReads, S!ReviewUpdates,
                S!Enable, S!Disable, S!UpdateStatus
  <2>2. mind' = mind \/ \E do \in S!Requests \cup {Idle} : mind' = [mind EXCEPT ![p] = do]
    <3>1. ASSUME NEW k \in SkillKeys, NEW v \in S!Versions, NEW tools \in SUBSET Tools, S!SubmitChecks(p, k, v, tools)
          PROVE  \E do \in S!Requests : mind' = [mind EXCEPT ![p] = do]
      BY <3>1 DEF S!SubmitChecks, S!Begin, S!Requests
    <3>2. ASSUME NEW k \in SkillKeys, NEW v \in S!Versions, S!ReviewReads(p, k, v)
          PROVE  \E do \in S!Requests : mind' = [mind EXCEPT ![p] = do]
      BY <3>2 DEF S!ReviewReads, S!Begin, S!Requests
    <3>3. CASE S!SubmitInserts(p) \/ \E verdict \in {"approved", "rejected"} : S!ReviewUpdates(p, verdict)
      BY <3>3 DEF S!SubmitInserts, S!ReviewUpdates, S!End
    <3>4. CASE \E s \in DOMAIN skills : S!Enable(p, s) \/ S!Disable(p, s)
      BY <3>4 DEF S!Enable, S!Disable, S!UpdateStatus
    <3> QED BY <1>3, <3>1, <3>2, <3>3, <3>4 DEF S!Declare, S!Review
  <2> QED BY <2>1, <2>2 DEF SkillTyped
<1>4. ASSUME NEW p \in SkillPeople, S!Bind(p)
      PROVE  SkillTyped'
  <2>1. ASSUME NEW a \in Agents, NEW k \in SkillKeys, S!BindChecks(p, a, k)
        PROVE  SkillTyped'
    <3>1. PICK do : do = [op |-> "bind", agent |-> a, key |-> k]
      OBVIOUS
    <3>2. do \in S!Requests
      BY <3>1 DEF S!Requests
    <3>3. mind' = [mind EXCEPT ![p] = do] /\ UNCHANGED <<bindings, repairing>>
      BY <2>1, <3>1 DEF S!BindChecks, S!Begin
    <3> QED BY <3>2, <3>3 DEF SkillTyped
  <2>2. CASE S!BindWrites(p)
    BY <2>2 DEF S!BindWrites, S!End, SkillTyped
  <2>3. CASE \E b \in S!Pairs : S!Unbind(p, b)
    BY <2>3 DEF S!Unbind, SkillTyped
  <2> QED BY <1>4, <2>1, <2>2, <2>3 DEF S!Bind
<1>5. CASE S!Repair \/ S!Wipe
  <2>1. bindings' \in [S!Pairs -> {"none", "active", "disabled"}] /\ UNCHANGED mind
    BY <1>5 DEF S!Repair, S!Wipe, S!FindViolations, S!DisableRows, SkillTyped
  <2>2. repairing' \in (SUBSET S!Pairs) \cup {Idle}
    BY <1>5 DEF S!Repair, S!Wipe, S!FindViolations, S!DisableRows, S!Dangling, SkillTyped
  <2> QED BY <2>1, <2>2 DEF SkillTyped
<1> QED BY <1>1, <1>2, <1>3, <1>4, <1>5 DEF S!Next

LEMMA SkillTypesHold ==
    ASSUME SkillInv, SkillTyped
    PROVE  S!TypeOK
BY DEF SkillInv, PackagesOK, PackageOK, SkillTyped, S!TypeOK

\* Days end, and what is granted is a base.
RequestKept(do) ==
    /\ do.op = "update" => do.due <= LastDay + GraceDays
    /\ do.op = "bind" => do.bases \subseteq Bases

KnowTyped ==
    /\ today \in 0 .. LastDay
    /\ \A d \in Documents : docs[d].due <= LastDay + GraceDays
    /\ \A p \in Employees : desk[p] # Idle => RequestKept(desk[p])
    /\ \A r \in Employees : granted[r] \subseteq Bases

\* One request goes on.
LEMMA DeskTyped ==
    ASSUME KnowInv, KnowTyped, NEW p \in Employees, NEW do, desk' = [desk EXCEPT ![p] = do],
           do # Idle => RequestKept(do)
    PROVE  \A q \in Employees : desk'[q] # Idle => RequestKept(desk'[q])
BY DEF KnowInv, KnowTyped

LEMMA KnowStaysTyped ==
    ASSUME KnowInv, KnowTyped, [Next]_vars
    PROVE  KnowTyped'
<1>1. K!Next \/ UNCHANGED kVars
  BY DEF Next, vars
<1>2. CASE UNCHANGED kVars
  BY <1>2 DEF kVars, KnowTyped, RequestKept
<1>3. today \in Nat /\ LastDay \in Nat /\ GraceDays \in Nat /\ docs \in [Documents -> DocRows] /\ DOMAIN desk = Employees
  BY BoundsAssumption, ReviewAssumption DEF KnowInv, DocsOK
<1>4. CASE K!Tick
  <2>1. today' = today + 1 /\ today < LastDay /\ UNCHANGED <<docs, desk, grants, granted, answers>>
    BY <1>4 DEF K!Tick
  <2> QED BY <1>3, <2>1 DEF KnowTyped, RequestKept
<1>5. ASSUME NEW d \in Documents, K!MarkReviewDue(d)
      PROVE  KnowTyped'
  <2>1. docs' = [docs EXCEPT ![d] = Marked(docs[d])] /\ UNCHANGED <<today, desk, granted>>
    BY <1>5 DEF K!MarkReviewDue, Marked
  <2>2. Marked(docs[d]).due = docs[d].due
    BY <1>3, MarkedIs
  <2>3. \A e \in Documents : docs'[e].due = docs[e].due
    BY <1>3, <2>1, <2>2
  <2> QED BY <2>1, <2>3 DEF KnowTyped, RequestKept
<1>6. ASSUME NEW p \in Employees, K!UpdateStatus(p)
      PROVE  KnowTyped'
  <2>1. PICK do, d : do = desk[p] /\ d = do.document
    OBVIOUS
  <2>2. do # Idle /\ do.op = "update" /\ desk' = [desk EXCEPT ![p] = Idle] /\ UNCHANGED <<today, granted>>
    BY <1>6, <2>1 DEF K!UpdateStatus, K!End
  <2>3. do.due <= LastDay + GraceDays
    BY <2>1, <2>2 DEF KnowTyped, RequestKept
  <2>4. PICK row : row = [status |-> do.status,
                          owner |-> IF do.owner # Nobody THEN do.owner ELSE docs[d].owner,
                          due |-> IF do.due # -1 THEN do.due ELSE docs[d].due]
    OBVIOUS
  <2>5. docs' = [docs EXCEPT ![d] = row]
    BY <1>6, <2>1, <2>4 DEF K!UpdateStatus
  <2>6. row.due = do.due \/ row.due = docs[d].due
    BY <2>4
  <2>7. \A e \in Documents : docs'[e].due <= LastDay + GraceDays
    BY <1>3, <2>3, <2>5, <2>6 DEF KnowTyped
  <2>8. \A q \in Employees : desk'[q] # Idle => RequestKept(desk'[q])
    BY <2>2, DeskTyped
  <2> QED BY <2>2, <2>7, <2>8 DEF KnowTyped, RequestKept
<1>7. ASSUME NEW p \in Employees, NEW d \in Documents, K!Govern(p, d)
      PROVE  KnowTyped'
  <2>1. ASSUME NEW o \in Employees \cup {Nobody}, K!Register(p, d, o)
        PROVE  KnowTyped'
    <3>1. PICK row : row = [status |-> "draft", owner |-> o, due |-> -1]
      OBVIOUS
    <3>2. docs' = [docs EXCEPT ![d] = row] /\ UNCHANGED <<today, desk, granted>>
      BY <2>1, <3>1 DEF K!Register
    <3>3. row.due = -1 /\ -1 <= LastDay + GraceDays
      BY <1>3, <3>1
    <3>4. \A e \in Documents : docs'[e].due <= LastDay + GraceDays
      BY <1>3, <3>2, <3>3 DEF KnowTyped
    <3> QED BY <3>2, <3>4 DEF KnowTyped, RequestKept
  <2>2. ASSUME NEW status, NEW o, NEW due, K!Decide(p, d, status, o, due), due <= LastDay + GraceDays
        PROVE  KnowTyped'
    <3>1. PICK do : do = [op |-> "update", document |-> d, status |-> status, owner |-> o, due |-> due]
      OBVIOUS
    <3>2. desk' = [desk EXCEPT ![p] = do] /\ UNCHANGED <<docs, today, granted>>
      BY <2>2, <3>1 DEF K!Decide, K!Begin
    <3>3. RequestKept(do)
      BY <2>2, <3>1 DEF RequestKept
    <3>4. \A q \in Employees : desk'[q] # Idle => RequestKept(desk'[q])
      BY <3>2, <3>3, DeskTyped
    <3> QED BY <3>2, <3>4 DEF KnowTyped, RequestKept
  <2>3. today + GraceDays <= LastDay + GraceDays /\ -1 <= LastDay + GraceDays
    BY <1>3 DEF KnowTyped
  <2>4. CASE \/ \E o \in Employees \cup {Nobody} : K!PublishReads(p, d, o)
             \/ K!ArchiveReads(p, d)
             \/ \E approved \in BOOLEAN : K!ReviewReads(p, d, approved)
    <3>1. \E status, o : K!Decide(p, d, status, o, today + GraceDays) \/ K!Decide(p, d, status, o, -1)
      BY <2>4 DEF K!PublishReads, K!ArchiveReads, K!ReviewReads
    <3> QED BY <2>2, <2>3, <3>1
  <2> QED BY <1>7, <2>1, <2>4 DEF K!Govern, K!Owners
<1>8. ASSUME NEW p \in Employees, NEW r \in Employees, NEW bases \in SUBSET Bases, K!BindDeletes(p, r, bases)
      PROVE  KnowTyped'
  <2>1. PICK do : do = [op |-> "bind", role |-> r, bases |-> bases, seen |-> TRUE]
    OBVIOUS
  <2>2. desk' = [desk EXCEPT ![p] = do] /\ UNCHANGED <<docs, today, granted>>
    BY <1>8, <2>1 DEF K!BindDeletes, K!Begin
  <2>3. RequestKept(do)
    BY <2>1 DEF RequestKept
  <2>4. \A q \in Employees : desk'[q] # Idle => RequestKept(desk'[q])
    BY <2>2, <2>3, DeskTyped
  <2> QED BY <2>2, <2>4 DEF KnowTyped, RequestKept
<1>9. ASSUME NEW p \in Employees, K!BindInserts(p)
      PROVE  KnowTyped'
  <2>1. PICK do : do = desk[p]
    OBVIOUS
  <2>2. /\ do # Idle /\ do.op = "bind" /\ UNCHANGED <<docs, today>>
        /\ granted' = [granted EXCEPT ![do.role] = @ \cup do.bases]
        /\ desk' = [q \in Employees |->
              IF q = p THEN Idle
              ELSE IF desk[q] # Idle /\ desk[q].op = "bind" /\ desk[q].role = do.role
                   THEN [desk[q] EXCEPT !.seen = FALSE] ELSE desk[q]]
    BY <1>9, <2>1 DEF K!BindInserts
  <2>3. do.bases \subseteq Bases
    BY <2>1, <2>2 DEF KnowTyped, RequestKept
  <2>4. \A r \in Employees : granted'[r] \subseteq Bases
    BY <2>2, <2>3 DEF KnowTyped, KnowInv, GrantsOK
  <2>5. ASSUME NEW q \in Employees, desk'[q] # Idle
        PROVE  RequestKept(desk'[q])
    <3>1. PICK x : x = desk[q]
      OBVIOUS
    <3>2. CASE desk'[q] = x /\ x # Idle
      BY <3>1, <3>2 DEF KnowTyped
    <3>3. CASE x # Idle /\ x.op = "bind" /\ desk'[q] = [x EXCEPT !.seen = FALSE]
      <4>1. BindOK(x) /\ RequestKept(x)
        BY <3>1, <3>3 DEF KnowInv, KnowTyped, DeskOK, UpdateOK, SearchOK
      <4>2. PICK y : y = [x EXCEPT !.seen = FALSE]
        OBVIOUS
      <4>3. PICK r, b, s : r = x.role /\ b = x.bases /\ s = x.seen
        OBVIOUS
      <4>4. x = [op |-> "bind", role |-> r, bases |-> b, seen |-> s] /\ b \subseteq Bases
        BY <3>3, <4>1, <4>3 DEF BindOK, RequestKept
      <4>5. y = [op |-> "bind", role |-> r, bases |-> b, seen |-> FALSE]
        BY <4>2, <4>4
      <4>6. RequestKept(y)
        BY <4>4, <4>5 DEF RequestKept
      <4> QED BY <3>3, <4>2, <4>6
    <3> QED BY <2>2, <2>5, <3>1, <3>2, <3>3
  <2> QED BY <2>2, <2>4, <2>5 DEF KnowTyped, RequestKept
<1>10. ASSUME NEW p \in Employees, K!Search(p)
       PROVE  KnowTyped'
  <2>1. \E do : desk' = [desk EXCEPT ![p] = do] /\ (do # Idle => do.op \in {"whitelist", "ask"})
    <3>1. ASSUME NEW r \in Employees, K!SearchResolves(p, r)
          PROVE  \E do : desk' = [desk EXCEPT ![p] = do] /\ (do # Idle => do.op \in {"whitelist", "ask"})
      <4>1. PICK do : do = [op |-> "whitelist", bases |-> grants[r]]
        OBVIOUS
      <4>2. desk' = [desk EXCEPT ![p] = do] /\ do.op = "whitelist"
        BY <3>1, <4>1 DEF K!SearchResolves, K!Begin
      <4> QED BY <4>2
    <3>2. CASE K!SearchLists(p)
      <4>1. PICK do : do = (IF K!Eligible = {} THEN Idle
                            ELSE [op |-> "ask", bases |-> desk[p].bases, whitelist |-> K!Eligible])
        OBVIOUS
      <4>2. desk' = [desk EXCEPT ![p] = do] /\ (do # Idle => do.op = "ask")
        BY <3>2, <4>1 DEF K!SearchLists
      <4> QED BY <4>2
    <3>3. CASE K!SearchAnswers(p)
      BY <3>3 DEF K!SearchAnswers, K!End
    <3> QED BY <1>10, <3>1, <3>2, <3>3 DEF K!Search, K!Roles
  <2>2. UNCHANGED <<docs, today, granted>>
    BY <1>10 DEF K!Search, K!SearchResolves, K!SearchLists, K!SearchAnswers
  <2>3. \A q \in Employees : desk'[q] # Idle => RequestKept(desk'[q])
    BY <2>1, DeskTyped DEF RequestKept
  <2> QED BY <2>2, <2>3 DEF KnowTyped, RequestKept
<1>11. ASSUME K!Next
       PROVE  KnowTyped'
  BY <1>4, <1>5, <1>6, <1>7, <1>8, <1>9, <1>10, <1>11 DEF K!Next, K!ScanReviewDue, K!Grant, K!Roles
<1> QED BY <1>1, <1>2, <1>11

LEMMA KnowTypedInit ==
    ASSUME K!Init
    PROVE  KnowTyped
<1>1. PICK row : row = [status |-> "none", owner |-> Nobody, due |-> -1]
  OBVIOUS
<1>2. docs = [d \in Documents |-> row] /\ row.due = -1
  BY <1>1 DEF K!Init, K!NoDocument
<1>3. today = 0 /\ 0 \in 0 .. LastDay /\ -1 <= LastDay + GraceDays
  BY BoundsAssumption, ReviewAssumption DEF K!Init
<1> QED BY <1>2, <1>3 DEF K!Init, K!Roles, KnowTyped

LEMMA KnowTypesHold ==
    ASSUME KnowInv, KnowTyped
    PROVE  K!TypeOK
<1>1. DOMAIN K!Transitions = {"draft", "published", "under_review", "needs_review", "archived"}
  BY DEF K!Transitions
<1>a. LastDay + GraceDays \in Nat
  BY BoundsAssumption, ReviewAssumption
<1>2. PICK Stati, Last : Stati = DOMAIN K!Transitions \cup {"none"} /\ Last = LastDay + GraceDays /\ Last \in Nat
  BY <1>a
<1>3. ASSUME NEW d \in Documents
      PROVE  docs[d] \in [status : Stati, owner : Employees \cup {Nobody}, due : -1 .. Last]
  <2>1. docs[d] \in DocRows /\ docs[d].due <= Last
    BY <1>2 DEF KnowInv, DocsOK, KnowTyped
  <2>2. docs[d].due \in -1 .. Last
    BY <1>2, <2>1 DEF DocRows
  <2> QED BY <1>1, <1>2, <2>1, <2>2 DEF DocRows
<1>4. docs \in [Documents -> [status : Stati, owner : Employees \cup {Nobody}, due : -1 .. Last]]
  BY <1>3 DEF KnowInv, DocsOK
<1>5. \A p \in Employees : answers[p] \subseteq Documents
  BY DEF KnowInv, AnswersOK, Shown
<1> QED BY <1>2, <1>4, <1>5 DEF KnowInv, GrantsOK, KnowTyped, K!TypeOK, K!Roles, K!Owners

-----------------------------------------------------------------------------
(*                       Types: facts and versions                         *)

FactRows == [owner : Users, key : FactKeys, by : Users, status : {"active", "superseded"}]

\* A request made its version of the one it saw.
SeenOK(step, n) ==
    /\ step.seen <= n /\ step.seen < MaxRules
    /\ step.version >= 1 /\ step.version <= MaxRules + step.seen + 1

VersionsTyped ==
    /\ Len(rules) <= MaxRules
    /\ Len(rules) # 0 => rules[Len(rules)].status = "active"
    /\ \A i \in 1 .. Len(rules) : /\ rules[i].version >= 1 /\ rules[i].version <= MaxRules + i
                                  /\ rules[i].by <= MaxRules + 1

MemoryTyped ==
    /\ facts \in Seq(FactRows) /\ profile \in [Users -> Users \cup {Resting}] /\ VersionsTyped
    /\ \A u \in Users : M!At(u, "rule") => SeenOK(thought[u], Len(rules))

\* A request that goes on leaves the versions alone.
LEMMA GoesTyped ==
    ASSUME MemoryInv, MemoryTyped, NEW u \in Users, NEW step, M!Think(u, step), UNCHANGED rules,
           step # Resting /\ step.op = "rule" => SeenOK(step, Len(rules))
    PROVE  VersionsTyped' /\ \A v \in Users : M!At(v, "rule")' => SeenOK(thought'[v], Len(rules'))
<1>1. thought'[u] = step /\ \A v \in Users \ {u} : thought'[v] = thought[v]
  BY DEF MemoryInv, M!Think
<1>2. VersionsTyped'
  BY DEF MemoryTyped, VersionsTyped
<1> QED BY <1>1, <1>2 DEF MemoryTyped, M!At

LEMMA FactsTyped ==
    ASSUME MemoryInv, MemoryTyped, NEW u \in Users, M!CreateFact(u)
    PROVE  MemoryTyped'
<1>1. ASSUME NEW step, M!Think(u, step), step # Resting => step.op # "rule", UNCHANGED <<rules, profile>>,
             facts' \in Seq(FactRows)
      PROVE  MemoryTyped'
  BY <1>1, GoesTyped DEF MemoryTyped
<1>2. facts \in Seq(FactRows) /\ thought[u] \in Thoughts \cup {Resting}
  BY DEF MemoryInv, MemoryTyped
<1>3. ASSUME NEW owner, NEW key, M!AskFact(u, owner, key)
      PROVE  MemoryTyped'
  <2>1. PICK step : step = [op |-> "embed", owner |-> owner, key |-> key]
    OBVIOUS
  <2>2. step.op = "embed" /\ M!Think(u, step) /\ UNCHANGED <<facts, rules, profile>>
    BY <1>3, <2>1 DEF M!AskFact
  <2> QED BY <1>1, <1>2, <2>2
<1>4. CASE M!EmbeddingFails(u) \/ M!ReturnFact(u)
  BY <1>1, <1>2, <1>4 DEF M!EmbeddingFails, M!ReturnFact
<1>5. CASE M!LookUpFact(u)
  <2>1. PICK old, step : old = thought[u] /\ step = [old EXCEPT !.op = "insert"]
    OBVIOUS
  <2>2. old \in [op : {"embed", "insert"}, owner : Users, key : FactKeys]
    BY <1>2, <1>5, <2>1 DEF M!LookUpFact, M!At, Thoughts
  <2>3. step.op = "insert"
    BY <2>1, <2>2
  <2>4. M!Think(u, step) /\ UNCHANGED <<facts, rules, profile>>
    BY <1>5, <2>1 DEF M!LookUpFact
  <2> QED BY <1>1, <1>2, <2>3, <2>4
<1>6. CASE M!InsertFact(u)
  <2>1. PICK old, row : old = thought[u] /\ row = [owner |-> old.owner, key |-> old.key, status |-> "active", by |-> u]
    OBVIOUS
  <2>2. old \in [op : {"embed", "insert"}, owner : Users, key : FactKeys]
    BY <1>2, <1>6, <2>1 DEF M!InsertFact, M!At, Thoughts
  <2>3. row \in FactRows
    BY <2>1, <2>2 DEF FactRows
  <2>4. facts' = Append(facts, row) /\ M!Think(u, Resting) /\ UNCHANGED <<rules, profile>>
    BY <1>6, <2>1 DEF M!InsertFact
  <2>5. facts' \in Seq(FactRows)
    BY <1>2, <2>3, <2>4
  <2> QED BY <1>1, <2>4, <2>5
<1> QED BY <1>3, <1>4, <1>5, <1>6 DEF M!CreateFact

LEMMA ReadsTyped ==
    ASSUME MemoryInv, MemoryTyped, NEW u \in Users, M!ReadRule(u)
    PROVE  MemoryTyped'
<1>1. rules \in Seq(RuleRows) /\ Len(rules) \in Nat /\ DOMAIN rules = 1 .. Len(rules) /\ MaxRules \in Nat
  BY BoundsAssumption DEF MemoryInv
<1>2. PICK n \in 0 .. Len(rules) : n = IF M!ActiveRules = {} THEN 0 ELSE CHOOSE i \in M!ActiveRules : TRUE
  BY <1>1 DEF M!ActiveRules
<1>3. PICK v, step : /\ v = (IF n = 0 THEN 1 ELSE rules[n].version + 1)
                     /\ step = [op |-> "rule", seen |-> n, version |-> v]
  OBVIOUS
<1>4. M!Think(u, step) /\ Len(rules) < MaxRules /\ UNCHANGED <<facts, rules, profile>>
  BY <1>2, <1>3 DEF M!ReadRule
<1>5. v \in Nat /\ v >= 1 /\ v <= MaxRules + n + 1
  <2>1. CASE n = 0
    BY <1>1, <1>3, <2>1
  <2>2. CASE n # 0
    <3>1. n \in 1 .. Len(rules)
      BY <1>1, <1>2, <2>2
    <3>a. rules[n] \in RuleRows
      BY <1>1, <3>1
    <3>b. rules[n].version \in Nat
      BY <3>a DEF RuleRows
    <3>2. PICK w \in Nat : w = rules[n].version
      BY <3>b
    <3>3. w >= 1 /\ w <= MaxRules + n
      BY <3>1, <3>2 DEF MemoryTyped, VersionsTyped
    <3> QED BY <1>1, <1>3, <2>2, <3>1, <3>2, <3>3
  <2> QED BY <2>1, <2>2
<1>6. SeenOK(step, Len(rules))
  BY <1>1, <1>3, <1>4, <1>5 DEF SeenOK
<1> QED BY <1>4, <1>6, GoesTyped DEF MemoryTyped

\* The version that is written follows the last one.
LEMMA WritesTyped ==
    ASSUME MemoryInv, MemoryTyped, NEW u \in Users, M!WriteRule(u)
    PROVE  MemoryTyped'
<1>1. /\ M!At(u, "rule") /\ M!ActiveRules \ {thought[u].seen} = {} /\ thought' = [thought EXCEPT ![u] = Resting]
      /\ UNCHANGED <<facts, profile>>
  BY DEF M!WriteRule, M!Think
<1>2. PICK seen, version, n : seen = thought[u].seen /\ version = thought[u].version /\ n = Len(rules)
  OBVIOUS
<1>3. /\ rules \in Seq(RuleRows) /\ n \in Nat /\ DOMAIN rules = 1 .. n /\ MaxRules \in Nat
      /\ seen \in Nat /\ version \in Nat
  <2>1. thought[u] \in [op : {"rule"}, seen : Nat, version : Nat]
    BY <1>1 DEF MemoryInv, M!At, Thoughts
  <2> QED BY <1>2, <2>1, BoundsAssumption DEF MemoryInv
<1>4. seen <= n /\ seen < MaxRules /\ version >= 1 /\ version <= MaxRules + seen + 1
  BY <1>1, <1>2 DEF MemoryTyped, SeenOK
<1>5. seen = n
  <2>1. ASSUME n # 0 PROVE seen = n
    <3>1. n \in DOMAIN rules /\ rules[n].status = "active"
      BY <1>2, <1>3, <2>1 DEF MemoryTyped, VersionsTyped
    <3> QED BY <1>1, <1>2, <3>1 DEF M!ActiveRules
  <2> QED BY <1>3, <1>4, <2>1
<1>6. PICK old, row : old = M!Superseded(u) /\ row = [version |-> version, status |-> "active", by |-> 0]
  OBVIOUS
<1>7. old = [i \in 1 .. n |-> IF i = seen THEN Replaced(rules[i], n + 1) ELSE rules[i]]
  BY <1>2, <1>3, <1>6 DEF M!Superseded, Replaced
<1>8. \A i \in 1 .. n : rules[i] \in RuleRows /\ Replaced(rules[i], n + 1) \in RuleRows
  <2>1. n + 1 \in Nat /\ \A i \in 1 .. n : rules[i] \in RuleRows
    BY <1>2, <1>3
  <2> QED BY <2>1, ReplacedIs
<1>9. old \in Seq(RuleRows) /\ Len(old) = n
  <2>1. old \in [1 .. n -> RuleRows]
    BY <1>7, <1>8
  <2> QED BY <1>3, <2>1
<1>10. row \in RuleRows /\ row.status = "active" /\ row.version = version /\ row.by = 0
  BY <1>3, <1>6 DEF RuleRows
<1>11. rules' = Append(old, row)
  BY <1>2, <1>6 DEF M!WriteRule
<1>12. /\ Len(rules') = n + 1 /\ rules'[n + 1] = row /\ \A i \in 1 .. n : rules'[i] = old[i]
  BY <1>3, <1>9, <1>10, <1>11
<1>13. ASSUME NEW i \in 1 .. n
       PROVE  rules'[i].version = rules[i].version /\ (rules'[i].by = rules[i].by \/ rules'[i].by = n + 1)
  <2>1. rules'[i] = rules[i] \/ rules'[i] = Replaced(rules[i], n + 1)
    BY <1>7, <1>12
  <2>2. n + 1 \in Nat
    BY <1>3
  <2> QED BY <1>8, <2>1, <2>2, ReplacedIs
<1>14. \A i \in 1 .. n : rules[i].version >= 1 /\ rules[i].version <= MaxRules + i /\ rules[i].by <= MaxRules + 1
  BY <1>2 DEF MemoryTyped, VersionsTyped
<1>15. ASSUME NEW i \in 1 .. n + 1
       PROVE  rules'[i].version >= 1 /\ rules'[i].version <= MaxRules + i /\ rules'[i].by <= MaxRules + 1
  <2>1. CASE i = n + 1
    <3>1. rules'[i] = row
      BY <1>12, <2>1
    <3> QED BY <1>3, <1>4, <1>5, <1>10, <2>1, <3>1
  <2>2. CASE i # n + 1
    <3>1. i \in 1 .. n
      BY <1>3, <2>2
    <3>2. n + 1 <= MaxRules + 1
      BY <1>3, <1>4, <1>5
    <3> QED BY <1>13, <1>14, <3>1, <3>2
  <2> QED BY <2>1, <2>2
<1>16. n + 1 <= MaxRules
  BY <1>3, <1>4, <1>5
<1>17. VersionsTyped'
  BY <1>10, <1>12, <1>15, <1>16 DEF VersionsTyped
<1>18. ASSUME NEW v \in Users, M!At(v, "rule")'
       PROVE  SeenOK(thought'[v], Len(rules'))
  <2>1. v # u /\ thought'[v] = thought[v]
    BY <1>1, <1>18 DEF MemoryInv, M!At
  <2>2. SeenOK(thought[v], n) /\ thought[v].seen \in Nat
    BY <1>2, <1>18, <2>1 DEF MemoryTyped, MemoryInv, M!At, Thoughts
  <2> QED BY <1>3, <1>12, <2>1, <2>2 DEF SeenOK
<1> QED BY <1>1, <1>17, <1>18 DEF MemoryTyped

LEMMA ErasesTyped ==
    ASSUME MemoryInv, MemoryTyped, M!Erase
    PROVE  MemoryTyped'
<1>1. /\ rules' = <<>> /\ ~erased /\ facts' = <<>> /\ profile' = [u \in Users |-> Resting]
      /\ thought' = [u \in Users |-> IF M!At(u, "rule") THEN [thought[u] EXCEPT !.seen = 0] ELSE thought[u]]
  BY DEF M!Erase
<1>2. Len(rules') = 0 /\ 1 .. 0 = {} /\ MaxRules \in Nat /\ facts' \in Seq(FactRows)
  BY <1>1, BoundsAssumption
<1>3. ASSUME NEW u \in Users, M!At(u, "rule")'
      PROVE  SeenOK(thought'[u], 0)
  <2>1. M!At(u, "rule")
    BY <1>1, <1>3 DEF M!At
  <2>2. PICK step, seen : step = thought[u] /\ seen = step.seen
    OBVIOUS
  <2>3. step \in [op : {"rule"}, seen : Nat, version : Nat] /\ thought'[u] = [step EXCEPT !.seen = 0]
    BY <1>1, <2>1, <2>2 DEF MemoryInv, M!At, Thoughts
  <2>4. seen < MaxRules /\ step.version = seen + 1 /\ seen \in Nat
    BY <1>1, <2>1, <2>2, <2>3 DEF MemoryInv, MemoryTyped, FollowsSeen, SeenOK
  <2>5. thought'[u].seen = 0 /\ thought'[u].version = seen + 1
    BY <2>3, <2>4
  <2> QED BY <1>2, <2>4, <2>5 DEF SeenOK
<1>4. VersionsTyped'
  BY <1>2 DEF VersionsTyped
<1>5. \A u \in Users : M!At(u, "rule")' => SeenOK(thought'[u], Len(rules'))
  BY <1>2, <1>3
<1> QED BY <1>1, <1>2, <1>4, <1>5 DEF MemoryTyped

LEMMA MemoryStaysTyped ==
    ASSUME MemoryInv, MemoryTyped, [Next]_vars
    PROVE  MemoryTyped'
<1>1. M!Next \/ UNCHANGED mVars
  BY DEF Next, vars
<1>2. CASE UNCHANGED mVars
  BY <1>2 DEF mVars, MemoryTyped, VersionsTyped, M!At, SeenOK
<1>3. CASE M!Restart
  BY <1>3 DEF M!Restart, MemoryTyped, VersionsTyped, M!At
<1>4. ASSUME NEW u \in Users, M!RefuseRule(u)
      PROVE  MemoryTyped'
  BY <1>4, GoesTyped DEF M!RefuseRule, MemoryTyped
<1>5. ASSUME NEW u \in Users, NEW owner \in Users, M!SetProfileKey(u, owner)
      PROVE  MemoryTyped'
  BY <1>5 DEF M!SetProfileKey, MemoryTyped, VersionsTyped, M!At, SeenOK
<1>6. ASSUME NEW u \in Users, NEW i \in DOMAIN facts, M!SupersedeFact(u, i)
      PROVE  MemoryTyped'
  <2>1. PICK old, row : old = facts[i] /\ row = [old EXCEPT !.status = "superseded"]
    OBVIOUS
  <2>2. facts' = [facts EXCEPT ![i] = row] /\ UNCHANGED <<rules, profile, thought>>
    BY <1>6, <2>1 DEF M!SupersedeFact
  <2>3. old \in FactRows /\ facts \in Seq(FactRows)
    BY <2>1 DEF MemoryTyped
  <2>4. row \in FactRows
    BY <2>1, <2>3 DEF FactRows
  <2>5. facts' \in Seq(FactRows)
    BY <2>2, <2>3, <2>4
  <2> QED BY <2>2, <2>5 DEF MemoryTyped, VersionsTyped, M!At, SeenOK
<1> QED BY <1>1, <1>2, <1>3, <1>4, <1>5, <1>6, FactsTyped, ReadsTyped, WritesTyped, ErasesTyped DEF M!Next, M!CreateRule

LEMMA MemoryTypedInit ==
    ASSUME M!Init
    PROVE  MemoryTyped
<1>1. facts = <<>> /\ rules = <<>> /\ Len(<<>>) = 0 /\ 1 .. 0 = {} /\ MaxRules \in Nat
  BY BoundsAssumption DEF M!Init
<1>2. facts \in Seq(FactRows) /\ VersionsTyped
  BY <1>1 DEF VersionsTyped
<1>3. profile = [u \in Users |-> Resting] /\ \A u \in Users : ~M!At(u, "rule")
  BY DEF M!Init, M!At
<1> QED BY <1>2, <1>3 DEF MemoryTyped

LEMMA MemoryTypesHold ==
    ASSUME MemoryInv, MemoryTyped
    PROVE  M!TypeOK
<1>1. \A i \in DOMAIN facts : facts[i] \in FactRows
  BY DEF MemoryTyped
<1>2. PICK n, Last, End : n = Len(rules) /\ Last = 2 * MaxRules /\ End = MaxRules + 1
  OBVIOUS
<1>3. MaxRules \in Nat /\ n \in Nat /\ n <= MaxRules /\ DOMAIN rules = 1 .. n
  BY <1>2, BoundsAssumption DEF MemoryInv, MemoryTyped, VersionsTyped
<1>4. ASSUME NEW i \in DOMAIN rules
      PROVE  rules[i] \in [version : 1 .. Last, by : 0 .. End, status : {"active", "superseded"}]
  <2>1. rules[i] \in RuleRows
    BY DEF MemoryInv
  <2>2. PICK v, b \in Nat : v = rules[i].version /\ b = rules[i].by /\ v \in Nat
    BY <2>1 DEF RuleRows
  <2>3. v >= 1 /\ v <= MaxRules + i /\ b <= MaxRules + 1 /\ i <= n /\ i \in Nat
    BY <1>2, <1>3, <2>2 DEF MemoryTyped, VersionsTyped
  <2>4. v \in 1 .. Last /\ b \in 0 .. End
    BY <1>2, <1>3, <2>2, <2>3
  <2> QED BY <2>1, <2>2, <2>4 DEF RuleRows
<1> QED BY <1>1, <1>2, <1>4 DEF MemoryTyped, MemoryInv, FactRows, M!TypeOK

-----------------------------------------------------------------------------
(*                       Types: cases and judgements                       *)

\* What was judged was on the paper, and no more passed than were counted.
RunFits(run) == run.results \subseteq DOMAIN run.paper /\ E!Cardinality(run.passed) <= run.count

PaperEnds(do) == do.op = "judge" => IsFiniteSet(DOMAIN do.paper)

EvolTyped ==
    /\ Len(cases) <= MaxCases
    /\ \A r \in 1 .. Len(evalRuns) : RunFits(evalRuns[r])
    /\ \A a \in Admins : hand[a] # AtRest => PaperEnds(hand[a])

LEMMA EvalCounts ==
    ASSUME NEW set
    PROVE  E!Cardinality(set) = Cardinality(set)
BY Zenon DEF E!Cardinality, Cardinality

\* The cases' number grows by the inserts only.
LEMMA CasesFit ==
    ASSUME EvolInv, EvolInv', Len(cases) <= MaxCases,
           \/ DOMAIN cases' = DOMAIN cases
           \/ \E s, e : E!Insert(s, e)
    PROVE  Len(cases') <= MaxCases
<1>1. PICK n, m : n = Len(cases) /\ m = Len(cases')
  OBVIOUS
<1>2. n \in Nat /\ m \in Nat /\ DOMAIN cases = 1 .. n /\ DOMAIN cases' = 1 .. m /\ MaxCases \in Nat
  BY <1>1, BoundsAssumption DEF EvolInv, CasesOK
<1>3. CASE DOMAIN cases' = DOMAIN cases
  <2>1. 1 .. m = 1 .. n
    BY <1>2, <1>3
  <2>2. m <= n
    <3>1. m = 0 \/ m \in 1 .. m
      BY <1>2
    <3> QED BY <1>2, <2>1, <3>1
  <2> QED BY <1>1, <1>2, <2>2
<1>4. ASSUME NEW s, NEW e, E!Insert(s, e)
      PROVE  Len(cases') <= MaxCases
  <2>1. PICK row : row = [status |-> "draft", digest |-> s, expectation |-> e, heir |-> 0]
    OBVIOUS
  <2>2. n < MaxCases /\ cases' = Append(cases, row)
    BY <1>1, <1>4, <2>1 DEF E!Insert
  <2>3. m = n + 1
    BY <1>1, <2>2 DEF EvolInv, CasesOK
  <2> QED BY <1>1, <1>2, <2>2, <2>3
<1> QED BY <1>3, <1>4

LEMMA HandTyped ==
    ASSUME EvolInv, EvolTyped, NEW a \in Admins, NEW do, E!Hold(a, do), do # AtRest => PaperEnds(do)
    PROVE  \A b \in Admins : hand'[b] # AtRest => PaperEnds(hand'[b])
BY DEF E!Hold, EvolInv, HandsOK, EvolTyped

LEMMA CuratesTyped ==
    ASSUME EvolInv, EvolTyped, EvolInv', NEW a \in Admins, E!Curate(a) \/ E!Import(a)
    PROVE  EvolTyped'
<1>1. UNCHANGED evalRuns
  BY DEF E!Curate, E!Import, E!CreateCase, E!SetExpectation, E!SupersedeCreates, E!PublishReads, E!ArchiveCase,
         E!PublishWrites, E!SupersedeArchives, E!ImportReads, E!ImportCreates
<1>2. DOMAIN cases' = DOMAIN cases \/ \E s, e : E!Insert(s, e)
  BY DEF E!Curate, E!Import, E!CreateCase, E!SetExpectation, E!SupersedeCreates, E!PublishReads, E!ArchiveCase,
         E!PublishWrites, E!SupersedeArchives, E!ImportReads, E!ImportCreates
<1>3. UNCHANGED hand \/ \E do : E!Hold(a, do) /\ (do # AtRest => do.op # "judge")
  <2>1. ASSUME NEW op \in {"publish", "supersede"}, NEW i, NEW n, E!Hold(a, [op |-> op, case |-> i, heir |-> n]) \/ E!Hold(a, [op |-> op, case |-> i])
        PROVE  \E do : E!Hold(a, do) /\ (do # AtRest => do.op # "judge")
    <3>1. [op |-> op, case |-> i, heir |-> n].op # "judge" /\ [op |-> op, case |-> i].op # "judge"
      OBVIOUS
    <3> QED BY <2>1, <3>1
  <2>2. ASSUME NEW s, NEW e, E!Hold(a, [op |-> "import", digest |-> s, expectation |-> e])
        PROVE  \E do : E!Hold(a, do) /\ (do # AtRest => do.op # "judge")
    <3>1. [op |-> "import", digest |-> s, expectation |-> e].op # "judge"
      OBVIOUS
    <3> QED BY <2>2, <3>1
  <2>3. ASSUME NEW i, NEW v, E!SupersedeCreates(a, i, v) \/ E!PublishReads(a, i)
        PROVE  \E do : E!Hold(a, do) /\ (do # AtRest => do.op # "judge")
    BY <2>1, <2>3 DEF E!SupersedeCreates, E!PublishReads
  <2>4. ASSUME NEW s, NEW e, E!ImportReads(a, s, e)
        PROVE  \E do : E!Hold(a, do) /\ (do # AtRest => do.op # "judge")
    BY <2>2, <2>4 DEF E!ImportReads
  <2>5. CASE E!PublishWrites(a) \/ E!SupersedeArchives(a)
    BY <2>5 DEF E!PublishWrites, E!SupersedeArchives
  <2>6. CASE E!ImportCreates(a)
    BY <2>1, <2>6 DEF E!ImportCreates
  <2>7. ASSUME NEW i, NEW s, NEW e, E!CreateCase(a, s, e) \/ E!SetExpectation(a, i, e) \/ E!ArchiveCase(a, i)
        PROVE  UNCHANGED hand
    BY <2>7 DEF E!CreateCase, E!SetExpectation, E!ArchiveCase
  <2> QED BY <2>3, <2>4, <2>5, <2>6, <2>7 DEF E!Curate, E!Import
<1>4. \A b \in Admins : hand'[b] # AtRest => PaperEnds(hand'[b])
  BY <1>3, HandTyped DEF EvolTyped, PaperEnds
<1>5. Len(cases') <= MaxCases
  BY <1>2, CasesFit DEF EvolTyped
<1> QED BY <1>1, <1>4, <1>5 DEF EvolTyped

LEMMA JudgesTyped ==
    ASSUME EvolInv, EvolTyped, NEW a \in Admins, E!RunEval(a)
    PROVE  EvolTyped'
<1>1. Len(cases') <= MaxCases
  BY DEF E!RunEval, E!RunReads, E!RunAborts, E!RunCreates, E!RecordResult, EvolTyped
<1>2. evalRuns \in Seq(JudgementRows) /\ \A r \in 1 .. Len(evalRuns) : RunFits(evalRuns[r])
  BY DEF EvolInv, JudgementsOK, EvolTyped
<1>3. ASSUME NEW run, RunFits(run), run \in JudgementRows, evalRuns' = Append(evalRuns, run)
      PROVE  \A r \in 1 .. Len(evalRuns') : RunFits(evalRuns'[r])
  <2>1. \A r \in 1 .. Len(evalRuns') : evalRuns'[r] = run \/ (r \in 1 .. Len(evalRuns) /\ evalRuns'[r] = evalRuns[r])
    BY <1>2, <1>3
  <2> QED BY <1>2, <1>3, <2>1
<1>4. CASE E!RunReads(a)
  <2>1. PICK paper, do : paper = [i \in E!Published |-> cases[i]] /\ do = [op |-> "judge", paper |-> paper]
    OBVIOUS
  <2>2. E!Hold(a, do) /\ UNCHANGED evalRuns
    BY <1>4, <2>1 DEF E!RunReads
  <2>3. IsFiniteSet(E!Published)
    <3>1. E!Published \subseteq 1 .. Len(cases) /\ Len(cases) \in Nat
      BY DEF E!Published, EvolInv, CasesOK
    <3>2. IsFiniteSet(1 .. Len(cases))
      BY <3>1, FS_Interval
    <3> QED BY <3>1, <3>2, FS_Subset
  <2>4. PaperEnds(do)
    BY <2>1, <2>3 DEF PaperEnds
  <2>5. \A b \in Admins : hand'[b] # AtRest => PaperEnds(hand'[b])
    BY <2>2, <2>4, HandTyped
  <2> QED BY <1>1, <1>2, <2>2, <2>5 DEF EvolTyped
<1>5. ASSUME NEW paper, paper = hand[a].paper, E!Doing(a, "judge")
      PROVE  /\ IsFiniteSet(DOMAIN paper) /\ paper \in UNION {[set -> CaseRows] : set \in SUBSET Nat}
             /\ DOMAIN paper \in SUBSET Nat /\ E!Cardinality(DOMAIN paper) \in Counts /\ 0 \in Counts
  <2>1. IsFiniteSet(DOMAIN paper) /\ paper \in UNION {[set -> CaseRows] : set \in SUBSET Nat}
    BY <1>5 DEF E!Doing, EvolTyped, PaperEnds, EvolInv, HandsOK, HandOK
  <2>2. DOMAIN paper \in SUBSET Nat
    BY <2>1
  <2> QED BY <2>1, <2>2 DEF Counts
<1>6. CASE E!RunAborts(a)
  <2>1. PICK paper, run : /\ paper = hand[a].paper
                          /\ run = [status |-> "aborted", paper |-> paper, count |-> 0,
                                    passed |-> {}, results |-> {}]
    OBVIOUS
  <2>2. /\ E!Doing(a, "judge") /\ evalRuns' = Append(evalRuns, run) /\ E!Hold(a, AtRest)
    BY <1>6, <2>1 DEF E!RunAborts
  <2>3. run \in JudgementRows
    BY <1>5, <2>1, <2>2 DEF JudgementRows
  <2>4. E!Cardinality({}) = 0
    BY EvalCounts, FS_EmptySet
  <2>5. RunFits(run)
    BY <2>1, <2>4 DEF RunFits
  <2> QED BY <1>1, <1>3, <2>2, <2>3, <2>5, HandTyped DEF EvolTyped
<1>7. CASE E!RunCreates(a)
  <2>1. PICK paper : paper = hand[a].paper
    OBVIOUS
  <2>2. PICK passed \in SUBSET DOMAIN paper :
            evalRuns' = Append(evalRuns, [status |-> "completed", paper |-> paper,
                                          count |-> E!Cardinality(DOMAIN paper),
                                          passed |-> passed, results |-> {}])
    BY <1>7, <2>1 DEF E!RunCreates
  <2>3. PICK run, do : /\ run = [status |-> "completed", paper |-> paper, count |-> E!Cardinality(DOMAIN paper),
                                 passed |-> passed, results |-> {}]
                       /\ do = [op |-> "results", run |-> Len(evalRuns) + 1]
    OBVIOUS
  <2>4. E!Doing(a, "judge") /\ E!Hold(a, do) /\ do.op = "results"
    BY <1>7, <2>3 DEF E!RunCreates
  <2>5. /\ paper \in UNION {[set -> CaseRows] : set \in SUBSET Nat} /\ passed \in SUBSET Nat
        /\ E!Cardinality(DOMAIN paper) \in Counts /\ IsFiniteSet(DOMAIN paper)
    BY <1>5, <2>1, <2>2, <2>4
  <2>6. run \in JudgementRows
    BY <2>3, <2>5 DEF JudgementRows
  <2>7. Cardinality(passed) <= Cardinality(DOMAIN paper)
    BY <2>2, <2>5, FS_Subset
  <2>8. RunFits(run)
    BY <2>3, <2>7, EvalCounts DEF RunFits
  <2>9. \A b \in Admins : hand'[b] # AtRest => PaperEnds(hand'[b])
    BY <2>4, HandTyped DEF PaperEnds
  <2>10. evalRuns' = Append(evalRuns, run)
    BY <2>2, <2>3
  <2> QED BY <1>1, <1>3, <2>6, <2>8, <2>9, <2>10 DEF EvolTyped
<1>8. CASE E!RecordResult(a)
  <2>1. PICK do, r : do = hand[a] /\ r = do.run
    OBVIOUS
  <2>2. do # AtRest /\ do.op = "results"
    BY <1>8, <2>1 DEF E!RecordResult, E!Doing
  <2>3. r \in 1 .. Len(evalRuns)
    BY <2>1, <2>2 DEF EvolInv, HandsOK, HandOK
  <2>4. PICK i \in DOMAIN evalRuns[r].paper : /\ evalRuns' = [evalRuns EXCEPT ![r] = WithResult(evalRuns[r], i)]
                                              /\ E!Hold(a, AtRest) \/ E!Hold(a, do)
    BY <1>8, <2>1 DEF E!RecordResult, WithResult
  <2>5. PICK old, run : old = evalRuns[r] /\ run = WithResult(old, i)
    OBVIOUS
  <2>6. old \in JudgementRows /\ RunFits(old) /\ i \in DOMAIN old.paper
    BY <1>2, <2>3, <2>4, <2>5
  <2>7. run.paper = old.paper /\ run.results = old.results \cup {i} /\ run.passed = old.passed /\ run.count = old.count
    BY <2>5, <2>6 DEF WithResult, JudgementRows
  <2>8. RunFits(run)
    BY <2>6, <2>7 DEF RunFits
  <2>9. Len(evalRuns') = Len(evalRuns) /\ \A q \in 1 .. Len(evalRuns) : evalRuns'[q] = evalRuns[q] \/ evalRuns'[q] = run
    <3>1. i \in Nat
      BY <2>6 DEF JudgementRows
    <3>2. run \in JudgementRows
      BY <2>5, <2>6, <3>1, WithResultIs
    <3> QED BY <1>2, <2>3, <2>4, <2>5, <3>2
  <2>10. \A b \in Admins : hand'[b] # AtRest => PaperEnds(hand'[b])
    BY <2>2, <2>4, HandTyped DEF PaperEnds
  <2> QED BY <1>1, <1>2, <2>8, <2>9, <2>10 DEF EvolTyped
<1> QED BY <1>4, <1>6, <1>7, <1>8 DEF E!RunEval

LEMMA EvolStaysTyped ==
    ASSUME EvolInv, EvolTyped, [Next]_vars
    PROVE  EvolTyped'
<1>1. E!Next \/ UNCHANGED eVars
  BY DEF Next, vars
<1>2. CASE UNCHANGED eVars
  BY <1>2 DEF eVars, EvolTyped, RunFits, PaperEnds
<1>3. ASSUME NEW a \in Admins, E!Die(a)
      PROVE  EvolTyped'
  <2>1. E!Hold(a, AtRest) /\ UNCHANGED <<cases, evalRuns>>
    BY <1>3 DEF E!Die
  <2> QED BY <2>1, HandTyped DEF EvolTyped, RunFits
<1>4. EvolInv'
  BY EvolOfSystem
<1> QED BY <1>1, <1>2, <1>3, <1>4, CuratesTyped, JudgesTyped DEF E!Next

LEMMA EvolTypedInit ==
    ASSUME E!Init
    PROVE  EvolTyped
<1>1. cases = <<>> /\ evalRuns = <<>> /\ hand = [a \in Admins |-> AtRest] /\ Len(<<>>) = 0 /\ 1 .. 0 = {}
  BY DEF E!Init
<1> QED BY <1>1, BoundsAssumption DEF EvolTyped

LEMMA EvolTypesHold ==
    ASSUME EvolInv, EvolTyped
    PROVE  E!TypeOK
<1>1. /\ DOMAIN cases = 1 .. Len(cases) /\ DOMAIN evalRuns = 1 .. Len(evalRuns)
      /\ Len(cases) \in Nat /\ Len(cases) <= MaxCases /\ MaxCases \in Nat
  BY BoundsAssumption DEF EvolInv, CasesOK, JudgementsOK, EvolTyped
<1>2. ASSUME NEW i \in DOMAIN cases
      PROVE  cases[i] \in [status : {"draft", "published", "archived"}, digest : Snapshots,
                           expectation : E!Expectations, heir : 0 .. MaxCases]
  <2>1. cases[i] \in CaseRows /\ HeirOK(i)
    BY <1>1 DEF EvolInv, CasesOK
  <2>2. cases[i].heir \in 0 .. MaxCases
    BY <1>1, <2>1 DEF CaseRows, HeirOK
  <2> QED BY <2>1, <2>2 DEF CaseRows
<1>3. \A a \in Admins : E!Free(a) \/ hand[a].op \in {"publish", "supersede", "import", "judge", "results"}
  BY DEF EvolInv, HandsOK, HandOK, E!Free
<1> QED BY <1>1, <1>2, <1>3 DEF EvolTyped, RunFits, E!TypeOK

-----------------------------------------------------------------------------
(*                    Types: the drafts of a content task                  *)

\* Revisions have a last one, and only a draft that failed has no text.
DraftFits(d) == d.revision <= MaxRevision /\ (d.status # "failed" => d.body \in Bodies)
CopyFits(r) == \A d \in r.drafts : DraftFits(d)

MayRevise(op, d) ==
    /\ op \in {"edit", "revoke"} => d.revision < MaxRevision
    /\ op = "revoke" => d.status = "confirmed"

PenFits(step) ==
    step.op \in {"create", "verify"} \/ (CopyFits(step.copy) /\ MayRevise(step.op, C!Draft(step.copy)))

ContentTyped ==
    /\ article # Blank => CopyFits(article)
    /\ \A p \in C!People : pen[p] # Blank => PenFits(pen[p])
    /\ contentRuns \in 0 .. MaxContentRuns
    /\ confirmedOnce \subseteq C!Revisions \X Bodies

\* One request goes on.
LEMMA PenGoesTyped ==
    ASSUME ContentInv, ContentTyped, NEW p \in C!People, NEW step, C!Hold(p, step), step = Blank \/ PenFits(step),
           article' # Blank => article' = article \/ CopyFits(article'),
           contentRuns' = contentRuns, confirmedOnce' = confirmedOnce
    PROVE  ContentTyped'
<1>1. /\ pen'[p] = step
      /\ \A q \in C!People \ {p} : pen'[q] = pen[q]
  BY DEF ContentInv, C!Hold
<1>2. \A q \in C!People : pen'[q] # Blank => PenFits(pen'[q])
  BY <1>1 DEF ContentTyped
<1> QED BY <1>2 DEF ContentTyped

LEMMA DraftOfFits ==
    ASSUME NEW r, NEW once, RecordOK(r, once), CopyFits(r)
    PROVE  DraftFits(C!Draft(r)) /\ C!Draft(r) \in DraftRows
BY DraftIs DEF CopyFits

LEMMA WithDraftFits ==
    ASSUME NEW r, NEW once, RecordOK(r, once), CopyFits(r), NEW d, DraftFits(d)
    PROVE  CopyFits(C!WithDraft(r, d))
<1>1. PICK set : set = (r.drafts \ {C!Draft(r)}) \cup {d}
  OBVIOUS
<1>2. C!WithDraft(r, d) = [r EXCEPT !.drafts = set] /\ r \in RecordRows
  BY <1>1 DEF C!WithDraft, RecordOK
<1>3. C!WithDraft(r, d).drafts = set
  BY <1>2 DEF RecordRows
<1> QED BY <1>1, <1>3 DEF CopyFits

LEMMA GeneratedFits ==
    ASSUME NEW d \in C!Generated
    PROVE  DraftFits(d)
<1>1. MaxRevision \in Nat \ {0} /\ d.revision = 1 /\ (d.status # "failed" => d.body \in Bodies)
  BY BoundsAssumption DEF C!Generated
<1>2. 1 <= MaxRevision
  BY <1>1
<1> QED BY <1>1, <1>2 DEF DraftFits

\* A request that begins, with a copy of the record.
LEMMA RecordReadTyped ==
    ASSUME ContentInv, ContentTyped, NEW p \in C!People, NEW op, NEW key, C!Reads(p, op, key),
           MayRevise(op, C!Draft(article)),
           UNCHANGED <<article, confirmedOnce>>
    PROVE  /\ \A q \in C!People : pen'[q] # Blank => PenFits(pen'[q])
           /\ contentRuns' = contentRuns => ContentTyped'
<1>1. PICK s : s = [op |-> op, copy |-> article, key |-> key]
  OBVIOUS
<1>2. C!Hold(p, s) /\ CopyFits(article)
  BY <1>1 DEF C!Reads, ContentTyped
<1>3. s.op = op /\ s.copy = article
  BY <1>1
<1>4. PenFits(s)
  BY <1>2, <1>3 DEF PenFits
<1>5. pen'[p] = s /\ \A q \in C!People \ {p} : pen'[q] = pen[q]
  BY <1>2 DEF ContentInv, C!Hold
<1>6. \A q \in C!People : pen'[q] # Blank => PenFits(pen'[q])
  BY <1>4, <1>5 DEF ContentTyped
<1> QED BY <1>6 DEF ContentTyped

LEMMA OpensTyped ==
    ASSUME ContentInv, ContentTyped, NEW p \in C!People,
           \/ C!UpdateReads(p) \/ C!ConfirmReads(p) \/ C!RevokeReads(p) \/ C!ExportReads(p) \/ C!PublishReads(p)
    PROVE  ContentTyped'
<1>1. PICK op : /\ C!Reads(p, op, Blank) /\ UNCHANGED <<article, contentRuns, confirmedOnce>>
                /\ MayRevise(op, C!Draft(article))
  <2>1. CASE C!UpdateReads(p)
    BY <2>1 DEF C!UpdateReads, C!Opens, MayRevise
  <2>2. CASE C!ConfirmReads(p)
    BY <2>2 DEF C!ConfirmReads, C!Opens, MayRevise
  <2>3. CASE C!RevokeReads(p)
    BY <2>3 DEF C!RevokeReads, C!Opens, MayRevise
  <2>4. CASE C!ExportReads(p)
    BY <2>4 DEF C!ExportReads, C!Opens, MayRevise
  <2>5. CASE C!PublishReads(p)
    BY <2>5 DEF C!PublishReads, C!Opens, MayRevise
  <2> QED BY <2>1, <2>2, <2>3, <2>4, <2>5
<1> QED BY <1>1, RecordReadTyped

LEMMA CountsOn ==
    ASSUME ContentTyped, contentRuns < MaxContentRuns, contentRuns' = contentRuns + 1
    PROVE  contentRuns' \in 0 .. MaxContentRuns
<1>1. MaxContentRuns \in Nat /\ contentRuns \in 0 .. MaxContentRuns
  BY BoundsAssumption DEF ContentTyped
<1> QED BY <1>1

LEMMA GeneratesTyped ==
    ASSUME ContentInv, ContentTyped, NEW p \in C!People, C!CreateStarts \/ C!CreateAdds \/ C!Regenerate(p)
    PROVE  ContentTyped'
<1>1. Author \in C!People
  BY DEF C!People
<1>2. CASE C!CreateStarts
  <2>1. PICK s : s = [op |-> "create"]
    OBVIOUS
  <2>2. C!Hold(Author, s) /\ PenFits(s) /\ UNCHANGED <<article, confirmedOnce>>
    BY <1>2, <2>1 DEF C!CreateStarts, PenFits
  <2>3. pen'[Author] = s /\ \A q \in C!People \ {Author} : pen'[q] = pen[q]
    BY <1>1, <2>2 DEF ContentInv, C!Hold
  <2>4. contentRuns' \in 0 .. MaxContentRuns
    BY <1>2, CountsOn DEF C!CreateStarts
  <2> QED BY <2>2, <2>3, <2>4 DEF ContentTyped
<1>3. CASE C!CreateAdds
  <2>1. PICK d \in C!Generated : article' = [drafts |-> {d}, regenerations |-> {}]
    BY <1>3 DEF C!CreateAdds
  <2>2. CopyFits(article')
    BY <2>1, GeneratedFits DEF CopyFits
  <2> QED BY <1>1, <1>3, <2>2, PenGoesTyped DEF C!CreateAdds
<1>4. ASSUME NEW key \in RegenerationKeys, C!RegenerateStarts(p, key)
      PROVE  ContentTyped'
  <2>1. contentRuns' \in 0 .. MaxContentRuns
    BY <1>4, CountsOn DEF C!RegenerateStarts
  <2>2. C!Reads(p, "regenerate", key) /\ UNCHANGED <<article, confirmedOnce>> /\ MayRevise("regenerate", C!Draft(article))
    BY <1>4 DEF C!RegenerateStarts, MayRevise
  <2>3. \A q \in C!People : pen'[q] # Blank => PenFits(pen'[q])
    BY <2>2, RecordReadTyped
  <2> QED BY <2>1, <2>2, <2>3 DEF ContentTyped
<1>5. CASE C!RegenerateSaves(p)
  <2>1. PICK mine : mine = pen[p].copy
    OBVIOUS
  <2>2. CopyFits(mine)
    BY <1>5, <2>1 DEF C!RegenerateSaves, C!Holds, ContentTyped, PenFits
  <2>3. PICK d \in C!Generated :
            \/ article' = article
            \/ article' = [drafts |-> mine.drafts \cup {d}, regenerations |-> mine.regenerations \cup {pen[p].key}]
    BY <1>5, <2>1 DEF C!RegenerateSaves
  <2>4. article' = article \/ CopyFits(article')
    BY <2>2, <2>3, GeneratedFits DEF CopyFits
  <2> QED BY <1>5, <2>4, PenGoesTyped DEF C!RegenerateSaves
<1> QED BY <1>2, <1>3, <1>4, <1>5 DEF C!Regenerate

LEMMA FitRevised ==
    ASSUME NEW d \in DraftRows, DraftFits(d)
    PROVE  /\ \A body \in Bodies : d.revision < MaxRevision => DraftFits(Rewritten(d, d.revision + 1, body))
           /\ d.status # "failed" /\ d.revision < MaxRevision => DraftFits(Reopened(d, d.revision + 1))
           /\ d.status # "failed" => /\ DraftFits(Confirmed(d)) /\ <<d.revision, d.body>> \in C!Revisions \X Bodies
<1>1. MaxRevision \in Nat \ {0} /\ d.revision \in Nat \ {0} /\ d.revision <= MaxRevision
  BY BoundsAssumption DEF DraftRows, DraftFits
<1>2. PICK n \in Nat \ {0} : n = d.revision + 1
  BY <1>1
<1>3. d.revision < MaxRevision => n <= MaxRevision
  BY <1>1, <1>2
<1>4. ASSUME NEW body \in Bodies, d.revision < MaxRevision
      PROVE  DraftFits(Rewritten(d, n, body))
  BY <1>3, <1>4 DEF DraftFits, Rewritten, DraftRows
<1>5. ASSUME d.status # "failed", d.revision < MaxRevision
      PROVE  DraftFits(Reopened(d, n))
  BY <1>3, <1>5 DEF DraftFits, Reopened, DraftRows
<1>6. ASSUME d.status # "failed"
      PROVE  DraftFits(Confirmed(d)) /\ <<d.revision, d.body>> \in C!Revisions \X Bodies
  <2>1. DraftFits(Confirmed(d))
    BY <1>1, <1>6 DEF DraftFits, Confirmed, DraftRows
  <2>2. d.revision \in 1 .. MaxRevision
    BY <1>1
  <2> QED BY <1>6, <2>1, <2>2 DEF DraftFits, C!Revisions
<1> QED BY <1>2, <1>4, <1>5, <1>6

\* A copy that is saved.
LEMMA SavesTyped ==
    ASSUME ContentInv, ContentTyped, NEW p \in C!People,
           \/ \E body \in Bodies : C!UpdateSaves(p, body)
           \/ C!ConfirmSaves(p) \/ C!RevokeSaves(p) \/ C!ExportSaves(p)
    PROVE  ContentTyped'
<1>1. PICK r, d : r = pen[p].copy /\ d = C!Draft(r)
  OBVIOUS
<1>2. ASSUME NEW op \in {"edit", "confirm", "revoke", "export"}, C!Holds(p, op)
      PROVE  /\ RecordOK(r, confirmedOnce) /\ CopyFits(r) /\ d \in DraftRows /\ DraftFits(d)
             /\ MayRevise(op, d)
             /\ op = "confirm" => d.status # "failed"
  <2>1. RecordOK(r, confirmedOnce) /\ (op = "confirm" => C!Draft(r).status = "reviewing")
    BY <1>1, <1>2 DEF C!Holds, ContentInv, PenOK, Publishing
  <2>2. CopyFits(r) /\ MayRevise(op, d)
    BY <1>1, <1>2 DEF C!Holds, ContentTyped, PenFits
  <2>3. d \in DraftRows /\ DraftFits(d)
    BY <1>1, <2>1, <2>2, DraftOfFits
  <2>4. op = "confirm" => d.status # "failed"
    BY <1>1, <2>1
  <2> QED BY <2>1, <2>2, <2>3, <2>4
<1>3. ASSUME NEW op, NEW e, C!SaveDraft(p, op, e), RecordOK(r, confirmedOnce), CopyFits(r), DraftFits(e),
             confirmedOnce' \subseteq C!Revisions \X Bodies
      PROVE  ContentTyped'
  <2>1. /\ article' = C!WithDraft(r, e) /\ contentRuns' = contentRuns
        /\ pen' = [pen EXCEPT ![p] = Blank]
    BY <1>1, <1>3 DEF C!SaveDraft, C!Hold
  <2>2. CopyFits(article')
    BY <1>3, <2>1, WithDraftFits
  <2>3. \A q \in C!People : pen'[q] = Blank \/ pen'[q] = pen[q]
    BY <2>1 DEF ContentInv
  <2> QED BY <1>3, <2>1, <2>2, <2>3 DEF ContentTyped
<1>4. confirmedOnce \subseteq C!Revisions \X Bodies
  BY DEF ContentTyped
<1>5. ASSUME NEW body \in Bodies, C!UpdateSaves(p, body)
      PROVE  ContentTyped'
  <2>1. PICK e : e = Rewritten(d, d.revision + 1, body)
    OBVIOUS
  <2>2. C!SaveDraft(p, "edit", e) /\ UNCHANGED confirmedOnce
    BY <1>1, <1>5, <2>1 DEF C!UpdateSaves, Rewritten
  <2>3. C!Holds(p, "edit")
    BY <2>2 DEF C!SaveDraft
  <2>4. DraftFits(e) /\ RecordOK(r, confirmedOnce) /\ CopyFits(r)
    BY <1>2, <2>1, <2>3, FitRevised DEF MayRevise
  <2> QED BY <1>3, <1>4, <2>2, <2>4
<1>6. ASSUME C!RevokeSaves(p)
      PROVE  ContentTyped'
  <2>1. PICK e : e = Reopened(d, d.revision + 1)
    OBVIOUS
  <2>2. C!SaveDraft(p, "revoke", e) /\ UNCHANGED confirmedOnce
    BY <1>1, <1>6, <2>1 DEF C!RevokeSaves, Reopened
  <2>3. C!Holds(p, "revoke")
    BY <2>2 DEF C!SaveDraft
  <2>4. d.status # "failed" /\ d.revision < MaxRevision
    BY <1>2, <2>3 DEF MayRevise
  <2>5. DraftFits(e) /\ RecordOK(r, confirmedOnce) /\ CopyFits(r)
    BY <1>2, <2>1, <2>3, <2>4, FitRevised
  <2> QED BY <1>3, <1>4, <2>2, <2>5
<1>7. ASSUME C!ConfirmSaves(p)
      PROVE  ContentTyped'
  <2>1. PICK e : e = Confirmed(d)
    OBVIOUS
  <2>2. C!SaveDraft(p, "confirm", e) /\ confirmedOnce' = confirmedOnce \cup {<<d.revision, d.body>>}
    BY <1>1, <1>7, <2>1 DEF C!ConfirmSaves, Confirmed
  <2>3. C!Holds(p, "confirm")
    BY <2>2 DEF C!SaveDraft
  <2>4. d \in DraftRows /\ DraftFits(d) /\ d.status # "failed" /\ RecordOK(r, confirmedOnce) /\ CopyFits(r)
    BY <1>2, <2>3
  <2>5. DraftFits(e) /\ <<d.revision, d.body>> \in C!Revisions \X Bodies
    BY <2>1, <2>4, FitRevised
  <2>6. confirmedOnce' \subseteq C!Revisions \X Bodies
    BY <1>4, <2>2, <2>5
  <2> QED BY <1>3, <2>2, <2>4, <2>5, <2>6
<1>8. ASSUME C!ExportSaves(p)
      PROVE  ContentTyped'
  <2>1. C!SaveDraft(p, "export", d) /\ UNCHANGED confirmedOnce /\ C!Holds(p, "export")
    BY <1>1, <1>8 DEF C!ExportSaves, C!SaveDraft
  <2> QED BY <1>2, <1>3, <1>4, <2>1
<1> QED BY <1>5, <1>6, <1>7, <1>8

\* A publication goes on with the same copy.
LEMMA PublishesTyped ==
    ASSUME ContentInv, ContentTyped, NEW p \in C!People,
           \/ C!PublishAdds(p)
           \/ \E accepted \in BOOLEAN : C!CallPlatform(p, accepted)
           \/ \E answered \in {"succeeded", "manual_takeover"} : C!MarkResult(p, answered)
    PROVE  ContentTyped'
<1>0. UNCHANGED <<article, contentRuns, confirmedOnce>>
  BY DEF C!PublishAdds, C!CallPlatform, C!MarkResult
<1>1. ASSUME NEW op \in {"publish", "call"}, NEW next \in {"call", "succeeded", "manual_takeover"},
             C!Holds(p, op), C!Hold(p, Going(pen[p], next))
      PROVE  ContentTyped'
  <2>1. op \in Publishing
    BY DEF Publishing
  <2>2. pen[p] = [op |-> pen[p].op, copy |-> pen[p].copy, key |-> pen[p].key]
    BY <1>1, <2>1, PublishingIs
  <2>3. PICK s : s = Going(pen[p], next)
    OBVIOUS
  <2>4. s.op = next /\ s.copy = pen[p].copy
    BY <2>2, <2>3, GoingIs
  <2>5. CopyFits(pen[p].copy)
    BY <1>1 DEF C!Holds, ContentTyped, PenFits
  <2>6. PenFits(s)
    BY <2>4, <2>5 DEF PenFits, MayRevise
  <2> QED BY <1>0, <1>1, <2>3, <2>6, PenGoesTyped
<1>2. ASSUME C!Hold(p, Blank)
      PROVE  ContentTyped'
  BY <1>0, <1>2, PenGoesTyped
<1>3. CASE C!PublishAdds(p)
  <2>1. C!Holds(p, "publish") /\ (C!Hold(p, Blank) \/ C!Hold(p, Going(pen[p], "call")))
    BY <1>3 DEF C!PublishAdds, Going
  <2> QED BY <1>1, <1>2, <2>1
<1>4. ASSUME NEW accepted \in BOOLEAN, C!CallPlatform(p, accepted)
      PROVE  ContentTyped'
  <2>1. PICK next \in {"succeeded", "manual_takeover"} : next = IF accepted THEN "succeeded" ELSE "manual_takeover"
    OBVIOUS
  <2>2. C!Holds(p, "call") /\ C!Hold(p, Going(pen[p], next))
    BY <1>4, <2>1 DEF C!CallPlatform, Going
  <2> QED BY <1>1, <2>2
<1>5. ASSUME NEW answered \in {"succeeded", "manual_takeover"}, C!MarkResult(p, answered)
      PROVE  ContentTyped'
  BY <1>2, <1>5 DEF C!MarkResult
<1> QED BY <1>3, <1>4, <1>5

LEMMA VerifiesTyped ==
    ASSUME ContentInv, ContentTyped, NEW p \in C!People, C!Verify(p) \/ C!Conflict(p) \/ C!Dies(p)
    PROVE  ContentTyped'
<1>1. ASSUME NEW r \in C!Revisions, C!VerifyReads(p, r)
      PROVE  ContentTyped'
  <2>1. PICK s : s = [op |-> "verify", revision |-> r]
    OBVIOUS
  <2>2. C!Hold(p, s) /\ UNCHANGED <<article, contentRuns, confirmedOnce>> /\ s.op = "verify"
    BY <1>1, <2>1 DEF C!VerifyReads
  <2>3. PenFits(s)
    BY <2>2 DEF PenFits
  <2> QED BY <2>2, <2>3, PenGoesTyped
<1>2. ASSUME NEW verdict \in Receipts, C!MarkVerified(p, verdict)
      PROVE  ContentTyped'
  BY <1>2, PenGoesTyped DEF C!MarkVerified
<1>3. CASE C!Conflict(p) \/ C!Dies(p)
  BY <1>3, PenGoesTyped DEF C!Conflict, C!Dies
<1> QED BY <1>1, <1>2, <1>3 DEF C!Verify

LEMMA ContentStaysTyped ==
    ASSUME ContentInv, ContentTyped, [Next]_vars
    PROVE  ContentTyped'
<1>1. C!Next \/ UNCHANGED cVars
  BY DEF Next, vars
<1>2. CASE UNCHANGED cVars
  BY <1>2 DEF cVars, ContentTyped
<1>3. CASE C!CreateStarts \/ C!CreateAdds
  <2>1. Author \in C!People
    BY DEF C!People
  <2> QED BY <1>3, <2>1, GeneratesTyped
<1>4. ASSUME NEW p \in C!People, C!Regenerate(p) \/ C!Update(p) \/ C!Confirm(p) \/ C!Revoke(p) \/ C!Export(p)
      PROVE  ContentTyped'
  BY <1>4, GeneratesTyped, OpensTyped, SavesTyped DEF C!Update, C!Confirm, C!Revoke, C!Export
<1>5. ASSUME NEW p \in C!People, C!Publish(p) \/ C!Verify(p) \/ C!Conflict(p) \/ C!Dies(p)
      PROVE  ContentTyped'
  BY <1>5, OpensTyped, PublishesTyped, VerifiesTyped DEF C!Publish
<1> QED BY <1>1, <1>2, <1>3, <1>4, <1>5 DEF C!Next

LEMMA ContentTypedInit ==
    ASSUME C!Init
    PROVE  ContentTyped
<1>1. MaxContentRuns \in Nat /\ contentRuns = 0
  BY BoundsAssumption DEF C!Init
<1> QED BY <1>1 DEF C!Init, ContentTyped

LEMMA ContentTypesHold ==
    ASSUME ContentInv, ContentTyped
    PROVE  C!TypeOK
<1>1. ASSUME article # Blank
      PROVE  article.drafts \subseteq C!Drafts /\ article.regenerations \subseteq RegenerationKeys
  <2>1. article \in RecordRows /\ CopyFits(article) /\ MaxRevision \in Nat
    BY <1>1, BoundsAssumption DEF ContentInv, RecordOK, ContentTyped
  <2>2. ASSUME NEW d \in article.drafts
        PROVE  d \in C!Drafts
    <3>1. d \in DraftRows /\ d.revision <= MaxRevision
      BY <2>1, <2>2 DEF RecordRows, CopyFits, DraftFits
    <3>2. d.revision \in 1 .. MaxRevision
      BY <2>1, <3>1 DEF DraftRows
    <3> QED BY <3>1, <3>2 DEF C!Drafts, C!Revisions, DraftRows
  <2> QED BY <2>1, <2>2 DEF RecordRows
<1>2. \A r \in C!Revisions : publications[r] # Blank =>
          publications[r].status \in {"pending", "succeeded", "manual_takeover"} \cup Receipts
  BY DEF ContentInv, PublicationsOK, RowOK, PublicationRows
<1> QED BY <1>1, <1>2 DEF ContentTyped, C!TypeOK

-----------------------------------------------------------------------------
(*        Types: the ledger, plans, and a conversation being deleted       *)

LEMMA LedgerTypesHold ==
    ASSUME LedgerInv
    PROVE  U!TypeOK
BY DEF LedgerInv, LedgerTypes, RowsAreLocked, U!TypeOK

LEMMA PlanTypesHold ==
    ASSUME PlanInv
    PROVE  P!TypeOK
<1>1. \A k \in PlanKeys : plans[k] # NoPlan => plans[k] \in P!Plans
  BY DEF PlanInv, PlansOK
<1>2. \A i \in DOMAIN suggestions : suggestions[i] \in P!Suggestions
  BY DEF PlanInv, SuggestionsOK
<1>3. ASSUME NEW n \in notices
      PROVE  n.to \in P!People /\ n.verdict \in P!Verdicts
  <2>1. Tells(n.what, n.to, n.verdict)
    BY <1>3 DEF PlanInv, NoticesOK
  <2>2. CASE \E k \in PlanKeys : plans[k] # NoPlan /\ Decides(plans[k], n.to, n.verdict)
    BY <1>1, <2>2 DEF Decides, P!Plans
  <2>3. CASE \E i \in DOMAIN suggestions : Decides(suggestions[i], n.to, n.verdict)
    BY <1>2, <2>3 DEF Decides, P!Suggestions, P!People
  <2> QED BY <2>1, <2>2, <2>3 DEF Tells
<1> QED BY <1>1, <1>2, <1>3 DEF P!TypeOK

LEMMA SkillTypedInit ==
    ASSUME S!Init
    PROVE  SkillTyped
BY DEF S!Init, SkillTyped

AtWork(r) == pc[r] \notin {"idle", "done"}

MessageWriting == {"user", "userInsert", "reply", "replyInsert"}

\* The locals a request needs for its next step are set.
SenderTyped(r) ==
    /\ AtWork(r) => call[r] \in Calls
    /\ pc[r] = "rebuild" => found[r] \in D!Records
    /\ pc[r] \in MessageWriting \cup {"mark", "remember"} => result[r] \in D!Outcomes

\* Only a pending action is approved.
ApproverHolds == approving # NoRow => approving \in actions

ChatTyped == D!TypeOK /\ ApproverHolds /\ \A r \in Senders : SenderTyped(r)

LEMMA ChatTypedInit == D!Init => ChatTyped
<1> SUFFICES ASSUME D!Init PROVE ChatTyped
  OBVIOUS
<1>1. conversation \in D!Conversations
  BY DEF D!Init, D!Conversations
<1>2. D!TypeOK
  BY <1>1 DEF D!Init, D!TypeOK, D!Pcs, D!Modes, D!Answers
<1>3. \A r \in Senders : SenderTyped(r)
  BY DEF D!Init, SenderTyped, AtWork, MessageWriting
<1>4. ApproverHolds
  BY DEF D!Init, ApproverHolds
<1> QED BY <1>2, <1>3, <1>4 DEF ChatTyped

\* Coming in can only end the calm.
LEMMA ChatComesIn ==
    ASSUME calm \in BOOLEAN, D!ComeIn
    PROVE  calm' \in BOOLEAN /\ (calm' => calm /\ D!Quiet)
BY DEF D!ComeIn

LEMMA ChatBegins ==
    ASSUME ChatTyped, NEW r \in Senders, NEW c \in Calls, D!Begin(r, c)
    PROVE  ChatTyped'
<1>1. calm' \in BOOLEAN
  BY ChatComesIn DEF D!Begin, ChatTyped, D!TypeOK
<1>2. CASE conversation.deleted
  BY <1>1, <1>2 DEF D!Begin, D!Refuse, D!Answer, D!Go, ChatTyped, D!TypeOK, ApproverHolds, SenderTyped, MessageWriting, AtWork, D!Pcs, D!Answers, D!rows
<1>3. CASE ~conversation.deleted
  BY <1>1, <1>3 DEF D!Begin, D!Go, ChatTyped, D!TypeOK, ApproverHolds, SenderTyped, MessageWriting, AtWork, D!Pcs, D!Conversations, D!rows
<1> QED BY <1>2, <1>3

LEMMA ChatRequests ==
    ASSUME ChatTyped, NEW r \in Senders, D!RequestStep(r)
    PROVE  ChatTyped'
<1> USE DEF D!Refuse, D!Answer, D!Conclude, D!Go, ChatTyped, D!TypeOK, ApproverHolds,
           SenderTyped, MessageWriting, AtWork, D!Pcs, D!Outcomes, D!Answers, D!Residues, D!rows, D!others
<1>1. CASE D!Lookup(r)
  BY <1>1 DEF D!Lookup
<1>2. CASE D!Rebuild(r)
  BY <1>2 DEF D!Rebuild, D!Records
<1>3. CASE D!CreateTask(r)
  BY <1>3 DEF D!CreateTask, D!Tasks
<1>4. CASE D!StartRead(r)
  BY <1>4 DEF D!StartRead
<1>5. CASE D!StartRun(r)
  BY <1>5 DEF D!StartRun
<1>6. CASE D!Gates(r)
  BY <1>6 DEF D!Gates
<1>7. CASE D!Execute(r)
  BY <1>7 DEF D!Execute
<1>8. CASE D!Persist(r)
  BY <1>8 DEF D!Persist, D!Leave
<1>9. CASE D!UndoRun(r)
  BY <1>9 DEF D!UndoRun, D!Leave
<1>10. CASE D!UndoState(r) \/ D!UndoTask(r)
  BY <1>10 DEF D!UndoState, D!UndoTask, D!Leave
<1>11. CASE D!Mark(r)
  BY <1>11 DEF D!Mark, D!Tasks, D!TaskExists
<1>12. CASE D!Append(r)
  <2>1. ASSUME NEW here \in MessageWriting, NEW next \in MessageWriting, D!AppendRead(r, here, next)
        PROVE  ChatTyped'
    BY <2>1 DEF D!AppendRead
  <2>2. D!AppendInsert(r, "userInsert", "user", "reply") => ChatTyped'
    BY DEF D!AppendInsert, D!Roles
  <2>3. D!AppendInsert(r, "replyInsert", "assistant", "remember") => ChatTyped'
    BY DEF D!AppendInsert, D!Roles
  <2> QED BY <1>12, <2>1, <2>2, <2>3 DEF D!Append
<1>13. CASE D!Remember(r)
  <2>1. D!Result(r) \in D!Records
    BY <1>13 DEF D!Remember, D!Result, D!Records
  <2> QED BY <1>13, <2>1 DEF D!Remember
<1> QED BY <1>1, <1>2, <1>3, <1>4, <1>5, <1>6, <1>7, <1>8, <1>9, <1>10, <1>11, <1>12, <1>13 DEF D!RequestStep

LEMMA ChatOwned ==
    ASSUME ChatTyped, \/ \E m \in D!Modes : D!SetMode(m)
                    \/ D!Archive \/ D!AskDelete \/ D!DeleteStep \/ D!CrashDelete
    PROVE  ChatTyped'
<1> USE DEF ChatTyped, D!TypeOK, ApproverHolds, SenderTyped, AtWork, D!rows, D!locals
<1>1. D!ComeIn => calm' \in BOOLEAN
  BY ChatComesIn
<1>2. ASSUME NEW m \in D!Modes, D!SetMode(m) PROVE ChatTyped'
  BY <1>1, <1>2 DEF D!SetMode, D!OwnerMay, D!Conversations
<1>3. CASE D!Archive
  BY <1>1, <1>3 DEF D!Archive, D!OwnerMay, D!Conversations
<1>4. CASE D!AskDelete
  BY <1>4 DEF D!AskDelete
<1>5. CASE D!DeleteKeys
  BY <1>1, <1>5 DEF D!DeleteKeys
<1>6. CASE D!DeleteContent
  BY <1>6 DEF D!DeleteContent, D!Conversations
<1>7. CASE D!CrashDelete
  BY <1>7 DEF D!CrashDelete
<1> QED BY <1>2, <1>3, <1>4, <1>5, <1>6, <1>7 DEF D!DeleteStep

LEMMA ChatApproved ==
    ASSUME ChatTyped, (\E r \in Senders : D!EnsureResume(r) \/ D!Crash(r)) \/ D!Resume
    PROVE  ChatTyped'
<1> USE DEF ChatTyped, D!TypeOK, ApproverHolds, SenderTyped, MessageWriting, AtWork, D!rows, D!locals
<1>1. ASSUME NEW r \in Senders, D!EnsureResume(r) PROVE ChatTyped'
  <2>1. calm' \in BOOLEAN
    BY <1>1, ChatComesIn DEF D!EnsureResume
  <2> QED BY <1>1, <2>1 DEF D!EnsureResume
<1>2. ASSUME NEW r \in Senders, D!Crash(r) PROVE ChatTyped'
  BY <1>2 DEF D!Crash, D!Go, D!Pcs
<1>3. CASE D!Resume
  BY <1>3 DEF D!Resume
<1> QED BY <1>1, <1>2, <1>3

LEMMA ChatStaysTyped ==
    ASSUME ChatTyped, [Next]_vars
    PROVE  ChatTyped'
<1>1. D!Next \/ UNCHANGED dVars
  BY DEF Next, vars
<1>2. CASE D!Next
  BY <1>2, ChatBegins, ChatRequests, ChatOwned, ChatApproved DEF D!Next
<1>3. CASE UNCHANGED dVars
  BY <1>3 DEF dVars, ChatTyped, D!TypeOK, ApproverHolds, SenderTyped, AtWork
<1> QED BY <1>1, <1>2, <1>3

-----------------------------------------------------------------------------
(*                           Every part at once                             *)

\* Every part's invariant, with the bounds of its types.
PartsInv ==
    /\ TenantInv /\ SealInv /\ SkillInv /\ KnowInv /\ MemoryInv /\ EvolInv /\ ContentInv /\ PlanInv /\ LedgerInv
    /\ TenantTyped /\ KeptTyped /\ SkillTyped /\ KnowTyped /\ MemoryTyped /\ EvolTyped /\ ContentTyped
    /\ ChatTyped

LEMMA PartsOfSystem ==
    ASSUME PartsInv, [Next]_vars
    PROVE  PartsInv'
<1>1. TenantInv' /\ SealInv' /\ SkillInv' /\ KnowInv' /\ MemoryInv' /\ EvolInv' /\ ContentInv' /\ PlanInv' /\ LedgerInv'
  BY TenantOfSystem, SealOfSystem, SkillOfSystem, KnowOfSystem, MemoryOfSystem, EvolOfSystem, ContentNext, PlanOfSystem,
     LedgerOfSystem DEF PartsInv
<1>2. TenantTyped' /\ KeptTyped' /\ SkillTyped' /\ KnowTyped'
  BY TenantStaysTyped, KeptStaysTyped, SkillStaysTyped, KnowStaysTyped DEF PartsInv
<1>3. MemoryTyped' /\ EvolTyped' /\ ContentTyped' /\ ChatTyped'
  BY MemoryStaysTyped, EvolStaysTyped, ContentStaysTyped, ChatStaysTyped DEF PartsInv
<1> QED BY <1>1, <1>2, <1>3 DEF PartsInv

LEMMA PartsInit ==
    ASSUME Init
    PROVE  PartsInv
<1>1. T!Init /\ R!Init /\ U!Init /\ S!Init /\ K!Init /\ M!Init /\ E!Init /\ C!Init /\ P!Init /\ D!Init
  BY DEF Init
<1>2. TenantInv /\ SealInv /\ SkillInv /\ KnowInv /\ MemoryInv /\ EvolInv /\ ContentInv /\ PlanInv /\ LedgerInv
  BY <1>1, TenantInit, SealInit, SkillInit, KnowInit, MemoryInit, EvolInit, ContentInit, PlanInit, LedgerInit
<1>3. /\ TenantTyped /\ KeptTyped /\ SkillTyped /\ KnowTyped /\ MemoryTyped /\ EvolTyped /\ ContentTyped
      /\ ChatTyped
  BY <1>1, TenantTypedInit, KeptTypedInit, SkillTypedInit, KnowTypedInit, MemoryTypedInit, EvolTypedInit,
     ContentTypedInit, ChatTypedInit
<1> QED BY <1>2, <1>3 DEF PartsInv

\* Every variable has its type, in every part: numbers keep within their
\* bounds, layers go from the first on, only a draft that failed has no text,
\* and nobody is at a place the code does not have.
THEOREM GovernanceTyped == Spec => []TypeOK
<1>1. Init => PartsInv
  BY PartsInit
<1>2. PartsInv /\ [Next]_vars => PartsInv'
  BY PartsOfSystem
<1>3. PartsInv => TypeOK
  <2>1. SUFFICES ASSUME PartsInv PROVE TypeOK
    OBVIOUS
  <2>2. T!TypeOK /\ R!TypeOK /\ U!TypeOK /\ S!TypeOK /\ K!TypeOK
    BY <2>1, TenantTypesHold, LedgerTypesHold, SkillTypesHold, KnowTypesHold DEF PartsInv, KeptTyped
  <2>3. M!TypeOK /\ E!TypeOK /\ C!TypeOK /\ P!TypeOK /\ D!TypeOK
    BY <2>1, MemoryTypesHold, EvolTypesHold, ContentTypesHold, PlanTypesHold DEF PartsInv, ChatTyped
  <2> QED BY <2>2, <2>3 DEF TypeOK
<1> QED BY <1>1, <1>2, <1>3, PTL DEF Spec
=============================================================================
