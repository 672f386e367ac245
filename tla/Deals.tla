-------------------------------- MODULE Deals --------------------------------
(***************************************************************************)
(* Quotes and contracts of one account of the CRM.  A request reads a row, *)
(* checks it, and writes in a transaction of its own: with a condition on  *)
(* the status, or the whole row as it was read.  The table's constraints   *)
(* have the last word.  A periodic scan marks contracts that have ended.   *)
(***************************************************************************)
EXTENDS Integers, Sequences

CONSTANTS Sellers,                  \* who may manage the account
          Scanner,                  \* the periodic task
          Totals,                   \* what the lines of an order come to
          MaxQuotes, MaxContracts,
          NoDeal

VARIABLES quotes,      \* quotes, by number
          contracts,   \* contracts, by number
          agreed,      \* what each quote came to when it was confirmed
          ended,       \* contracts whose last day has passed
          counter      \* the next step of each request

vars == <<quotes, contracts, agreed, ended, counter>>

Clerks == Sellers \cup {Scanner}
QuoteRows == [status : {"draft", "confirmed", "converted", "voided"}, total : Totals,
              confirmed : BOOLEAN, contract : 0 .. MaxContracts]
ContractRows == [status : {"draft", "pending_sign", "signed", "voided", "expired"},
                 quote : 0 .. MaxQuotes, amount : Totals, paid : Nat, signed : BOOLEAN]

QuoteCheck(row) == (row.status \in {"confirmed", "converted"}) = row.confirmed
ContractCheck(row) == /\ row.paid <= row.amount
                      /\ (row.status = "signed") = row.signed

Init ==
    /\ quotes = <<>> /\ contracts = <<>> /\ ended = {}
    /\ agreed = [q \in 1 .. MaxQuotes |-> {}]
    /\ counter = [p \in Clerks |-> NoDeal]

Rings(p, request) == counter' = [counter EXCEPT ![p] = request]
Serving(p, op) == counter[p] # NoDeal /\ counter[p].op = op
Reads(p, request) ==
    counter[p] = NoDeal /\ Rings(p, request) /\ UNCHANGED <<quotes, contracts, agreed, ended>>

-----------------------------------------------------------------------------
(*                                  Quotes                                 *)

\* The number is the count of rows plus one; the index refuses a number twice.
CountQuotes(p, total) ==
    /\ Len(quotes) < MaxQuotes
    /\ Reads(p, [op |-> "add_quote", no |-> Len(quotes) + 1, total |-> total])

AddQuote(p) ==
    /\ Serving(p, "add_quote") /\ Rings(p, NoDeal)
    /\ quotes' = IF counter[p].no = Len(quotes) + 1
                 THEN Append(quotes, [status |-> "draft", total |-> counter[p].total,
                                      confirmed |-> FALSE, contract |-> 0])
                 ELSE quotes
    /\ UNCHANGED <<contracts, agreed, ended>>

\* Draft quotes only may change their lines.
ReplaceReads(p, q, total) ==
    quotes[q].status = "draft" /\ Reads(p, [op |-> "lines", quote |-> q, total |-> total])

\* Mutant: the new totals are written below whatever status the row has.
ReplaceTotalOnly(p) ==
    /\ Serving(p, "lines") /\ Rings(p, NoDeal)
    /\ quotes' = [quotes EXCEPT ![counter[p].quote].total = counter[p].total]
    /\ UNCHANGED <<contracts, agreed, ended>>

\* update_quote writes the status that was read along with the new totals.
ReplaceLines(p) ==
    /\ Serving(p, "lines") /\ Rings(p, NoDeal)
    /\ quotes' = [quotes EXCEPT ![counter[p].quote] =
                    [status |-> "draft", total |-> counter[p].total,
                     confirmed |-> FALSE, contract |-> 0]]
    /\ UNCHANGED <<contracts, agreed, ended>>

ConfirmReads(p, q) ==
    /\ quotes[q].status = "draft" /\ quotes[q].total > 0
    /\ Reads(p, [op |-> "turn", quote |-> q, from |-> "draft", to |-> "confirmed"])

VoidReads(p, q) ==
    /\ quotes[q].status \in {"draft", "confirmed"}
    /\ Reads(p, [op |-> "turn", quote |-> q, from |-> quotes[q].status, to |-> "voided"])

\* The first write wins.  confirmed_at is set, never cleared: the table
\* refuses to void a confirmed quote.
TransitionQuote(p) ==
    /\ Serving(p, "turn") /\ Rings(p, NoDeal)
    /\ LET q == counter[p].quote
           turned == [quotes[q] EXCEPT !.status = counter[p].to,
                                       !.confirmed = @ \/ counter[p].to = "confirmed"]
           won == quotes[q].status = counter[p].from /\ QuoteCheck(turned)
       IN /\ quotes' = IF won THEN [quotes EXCEPT ![q] = turned] ELSE quotes
          /\ agreed' = IF won /\ turned.confirmed
                       THEN [agreed EXCEPT ![q] = @ \cup {turned.total}] ELSE agreed
    /\ UNCHANGED <<contracts, ended>>

\* The amount comes from the quote that was read; the contracts are counted after it.
ConvertReads(p, q) ==
    /\ quotes[q].status = "confirmed"
    /\ Reads(p, [op |-> "number", quote |-> q, amount |-> quotes[q].total])

NumberContract(p) ==
    /\ Serving(p, "number") /\ Len(contracts) < MaxContracts
    /\ Rings(p, [op |-> "convert", quote |-> counter[p].quote, no |-> Len(contracts) + 1,
                 amount |-> counter[p].amount])
    /\ UNCHANGED <<quotes, contracts, agreed, ended>>

NewContract(q, amount) ==
    [status |-> "draft", quote |-> q, amount |-> amount, paid |-> 0, signed |-> FALSE]

\* One transaction: the contract, and the quote without a condition: a quote may
\* become two contracts, and names the last.
ConvertQuote(p) ==
    /\ Serving(p, "convert") /\ Rings(p, NoDeal)
    /\ LET q == counter[p].quote
           turned == [quotes[q] EXCEPT !.status = "converted", !.contract = counter[p].no]
       IN IF counter[p].no = Len(contracts) + 1 /\ QuoteCheck(turned)
          THEN /\ contracts' = Append(contracts, NewContract(q, counter[p].amount))
               /\ quotes' = [quotes EXCEPT ![q] = turned]
          ELSE UNCHANGED <<contracts, quotes>>
    /\ UNCHANGED <<agreed, ended>>

-----------------------------------------------------------------------------
(*                                Contracts                                *)

CountContracts(p, amount) ==
    /\ Len(contracts) < MaxContracts
    /\ Reads(p, [op |-> "add_contract", no |-> Len(contracts) + 1, amount |-> amount])

AddContract(p) ==
    /\ Serving(p, "add_contract") /\ Rings(p, NoDeal)
    /\ contracts' = IF counter[p].no = Len(contracts) + 1
                    THEN Append(contracts, NewContract(0, counter[p].amount)) ELSE contracts
    /\ UNCHANGED <<quotes, agreed, ended>>

ContractTransitions ==
    {<<"draft", "pending_sign">>, <<"draft", "voided">>, <<"pending_sign", "signed">>,
     <<"pending_sign", "voided">>, <<"signed", "voided">>, <<"signed", "expired">>}

\* submit_contract_for_sign, register_signature and void_contract prepare the
\* row they will write.
TransitionContract(p, c, to) ==
    /\ <<contracts[c].status, to>> \in ContractTransitions /\ to # "expired"
    /\ Reads(p, [op |-> "update", contract |-> c,
                 row |-> [contracts[c] EXCEPT !.status = to, !.signed = @ \/ to = "signed"]])

\* update_contract: the whole row, whatever it has become.
UpdateContract(p) ==
    /\ Serving(p, "update") /\ Rings(p, NoDeal)
    /\ contracts' = IF ContractCheck(counter[p].row)
                    THEN [contracts EXCEPT ![counter[p].contract] = counter[p].row]
                    ELSE contracts
    /\ UNCHANGED <<quotes, agreed, ended>>

PayReads(p, c) ==
    contracts[c].status = "signed" /\ Reads(p, [op |-> "pay", contract |-> c])

\* Mutant: the increment asks for nothing.
IncrementAnyway(p) ==
    /\ Serving(p, "pay") /\ Rings(p, NoDeal)
    /\ contracts' = [contracts EXCEPT ![counter[p].contract].paid = @ + 1]
    /\ UNCHANGED <<quotes, agreed, ended>>

\* The increment asks for room in the amount, not for the status.
IncrementPaid(p) ==
    /\ Serving(p, "pay") /\ Rings(p, NoDeal)
    /\ LET c == counter[p].contract
       IN contracts' = IF contracts[c].paid + 1 <= contracts[c].amount
                       THEN [contracts EXCEPT ![c].paid = @ + 1] ELSE contracts
    /\ UNCHANGED <<quotes, agreed, ended>>

-----------------------------------------------------------------------------
(*                       The renewal and expiry scan                       *)

LastDayPasses(c) ==
    /\ c \notin ended /\ ended' = ended \cup {c}
    /\ UNCHANGED <<quotes, contracts, agreed, counter>>

\* Signed contracts past their end are written as expired; a row the table
\* refuses ends the scan.
ScanExpired(c) ==
    /\ contracts[c].status = "signed" /\ c \in ended
    /\ Reads(Scanner, [op |-> "update", contract |-> c,
                       row |-> [contracts[c] EXCEPT !.status = "expired"]])

-----------------------------------------------------------------------------
Quote(p) ==
    \/ \E t \in Totals : CountQuotes(p, t)
    \/ \E q \in DOMAIN quotes : \/ \E t \in Totals : ReplaceReads(p, q, t)
                                \/ ConfirmReads(p, q) \/ VoidReads(p, q) \/ ConvertReads(p, q)
    \/ AddQuote(p) \/ ReplaceLines(p) \/ TransitionQuote(p)
    \/ NumberContract(p) \/ ConvertQuote(p)

Contract(p) ==
    \/ \E t \in Totals : CountContracts(p, t)
    \/ \E c \in DOMAIN contracts :
          \/ \E to \in {"pending_sign", "signed", "voided"} : TransitionContract(p, c, to)
          \/ PayReads(p, c)
    \/ AddContract(p) \/ UpdateContract(p) \/ IncrementPaid(p)

Next ==
    \/ \E p \in Sellers : Quote(p) \/ Contract(p)
    \/ \E c \in DOMAIN contracts : LastDayPasses(c) \/ ScanExpired(c)
    \/ UpdateContract(Scanner)

Spec == Init /\ [][Next]_vars

-----------------------------------------------------------------------------
(*                                Properties                               *)

\* Every variable has its type and every row meets the table's constraints.
TypeOK ==
    /\ quotes \in Seq(QuoteRows) /\ Len(quotes) <= MaxQuotes
    /\ contracts \in Seq(ContractRows) /\ Len(contracts) <= MaxContracts
    /\ \A q \in DOMAIN quotes : QuoteCheck(quotes[q])
    /\ \A c \in DOMAIN contracts : ContractCheck(contracts[c])
    /\ ended \subseteq DOMAIN contracts

\* The amount of a contract that came from a quote is one the quote had while
\* it was confirmed, however often the quote was edited since; and a quote
\* that names a contract is named by it.
AmountWasConfirmed ==
    /\ \A c \in DOMAIN contracts : contracts[c].quote # 0 =>
          contracts[c].amount \in agreed[contracts[c].quote]
    /\ \A q \in DOMAIN quotes : quotes[q].status = "converted" =>
          quotes[q].contract \in DOMAIN contracts /\ contracts[quotes[q].contract].quote = q
=============================================================================
