----------------------------- MODULE UsageLedger -----------------------------
(***************************************************************************)
(* The usage ledger of one tenant: ended runs append what they used under  *)
(* an idempotency key, entries are reversed, and the retention job nets    *)
(* what has expired into one entry.                                        *)
(***************************************************************************)
EXTENDS Integers

CONSTANTS Carriers,    \* worker processes that run the retention job
          UsageKeys,   \* idempotency keys of the usage that requests report
          LastDay, MaxEntries,
          NoRows

VARIABLES today,
          ledger,      \* workbench_usage_ledger
          balance,     \* what the accepted calls add up to
          carrying,    \* the expired entries a worker has selected and locked
          entries      \* ids given so far

vars == <<today, ledger, balance, carrying, entries>>

Days == 0 .. LastDay
UsageEntry ==
    [id : Nat, key : ({"usage"} \X UsageKeys) \cup ({"carryover"} \X Days) \cup ({"reversal"} \X Nat),
     units : Int, date : Days, reversal : BOOLEAN]

\* Usage is kept for one unit of time; what is as old as that is kept still.
Cutoff == today - 1
Overdue == {e \in ledger : e.date < Cutoff}

\* The sum of the units: one entry and what the others add up to.
Total(S) ==
    LET sum[some \in SUBSET S] ==
            IF some = {} THEN 0
            ELSE LET e == CHOOSE e \in some : TRUE IN e.units + sum[some \ {e}]
    IN sum[S]

Init ==
    /\ today = 0 /\ ledger = {} /\ balance = 0 /\ entries = 0
    /\ carrying = [p \in Carriers |-> NoRows]

Tick ==
    /\ today < LastDay /\ today' = today + 1
    /\ UNCHANGED <<ledger, balance, carrying, entries>>

HasKey(k) == \E e \in ledger : e.key = k
Entry(k, n, d, reversal) == [id |-> entries + 1, key |-> k, units |-> n, date |-> d,
                             reversal |-> reversal]
Insert(e) == ledger' = ledger \cup {e} /\ entries' = entries + 1

\* A key that is there already answers with its entry.
AppendUsage(k) ==
    /\ entries < MaxEntries /\ ~HasKey(<<"usage", k>>)
    /\ Insert(Entry(<<"usage", k>>, 1, today, FALSE))
    /\ balance' = balance + 1
    /\ UNCHANGED <<today, carrying>>

\* The key of a reversal is that of its entry, so a second one is refused.
Reverse(e) ==
    /\ entries < MaxEntries /\ ~e.reversal /\ ~HasKey(<<"reversal", e.id>>)
    /\ Insert(Entry(<<"reversal", e.id>>, -e.units, today, TRUE))
    /\ balance' = balance - e.units
    /\ UNCHANGED <<today, carrying>>

Locked == UNION {carrying[p].rows : p \in {q \in Carriers : carrying[q] # NoRows}}

\* Mutant: the rows are selected without being locked.
SelectUnlocked(p) ==
    /\ carrying[p] = NoRows /\ Overdue # {}
    /\ carrying' = [carrying EXCEPT ![p] = [cutoff |-> Cutoff, rows |-> Overdue]]
    /\ UNCHANGED <<today, ledger, balance, entries>>

\* SELECT ... FOR UPDATE waits for rows that another worker has locked.
SelectOverdue(p) ==
    /\ carrying[p] = NoRows /\ Overdue # {} /\ Overdue \cap Locked = {}
    /\ carrying' = [carrying EXCEPT ![p] = [cutoff |-> Cutoff, rows |-> Overdue]]
    /\ UNCHANGED <<today, ledger, balance, entries>>

\* Mutant: what is deleted is what is overdue by now, not what was summed up.
CarryRecut(p) ==
    /\ carrying[p] # NoRows
    /\ ledger' = (ledger \ Overdue) \cup
           {Entry(<<"carryover", carrying[p].cutoff>>, Total(carrying[p].rows), carrying[p].cutoff, FALSE)}
    /\ entries' = entries + 1
    /\ carrying' = [carrying EXCEPT ![p] = NoRows]
    /\ UNCHANGED <<today, balance>>

\* The entries selected become one, under a key made of the cutoff: if that
\* key is there, its entry takes the sum up.  The rows are deleted by id.
CarryOver(p) ==
    /\ carrying[p] # NoRows
    /\ LET rows == carrying[p].rows
           cutoff == carrying[p].cutoff
           key == <<"carryover", cutoff>>
           kept == {e \in ledger : e.key = key}
           base == ledger \ (rows \cup kept) IN
       ledger' = base \cup
           {IF kept = {} THEN Entry(key, Total(rows), cutoff, FALSE)
            ELSE [(CHOOSE e \in kept : TRUE) EXCEPT !.units = @ + Total(rows)]}
    /\ entries' = entries + 1
    /\ carrying' = [carrying EXCEPT ![p] = NoRows]
    /\ UNCHANGED <<today, balance>>

Carry(p) == SelectOverdue(p) \/ CarryOver(p)

Next ==
    \/ Tick
    \/ \E k \in UsageKeys : AppendUsage(k)
    \/ \E e \in ledger : Reverse(e)
    \/ \E p \in Carriers : Carry(p)

Spec == Init /\ [][Next]_vars

\* The beat keeps the worker coming round.
Fairness == WF_vars(\E p \in Carriers : Carry(p))
FairSpec == Spec /\ Fairness

-----------------------------------------------------------------------------
(*                               Properties                                *)

\* Every variable has its type.
TypeOK ==
    /\ today \in Days /\ ledger \subseteq UsageEntry /\ balance \in Int
    /\ \A p \in Carriers : carrying[p] = NoRows \/ carrying[p].rows \subseteq ledger

\* Netting expired entries changes no total, whatever is appended or reversed
\* between the selection and the deletion, and whichever workers meet
\* (carry_over_before).
LedgerIsExact == Total(ledger) = balance

\* What has expired is netted.
UsageIsNetted == (Overdue # {}) ~> (Overdue = {})
=============================================================================
