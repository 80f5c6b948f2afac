----------------------------- MODULE SalesBook -----------------------------
(***************************************************************************)
(* The sales ledger read as a money book: what its documents hold on each  *)
(* invoice, what the balances kept with the invoices must add up to, and   *)
(* under which assumption on concurrent handlers they do.                  *)
(***************************************************************************)
EXTENDS SalesLedger, Sums

\* Tables are finite, and no id names both a payment and a receipt.
ASSUME DocumentsAssumption ==
    IsFiniteSet(Payments) /\ IsFiniteSet(Receipts) /\ Payments \cap Receipts = {}

Documents == Payments \cup Receipts

\* The money document d holds on invoice i: a payment once it is verified, a
\* receipt while it is live.
HeldOn(d, i) ==
    IF d \in Payments
    THEN IF payments[d].status = "verified" /\ payments[d].invoice = i
         THEN payments[d].amount ELSE 0
    ELSE IF receipts[d].row = "live" THEN receipts[d].rows[i] ELSE 0

Balance(i) == SumOver([d \in Documents |-> HeldOn(d, i)], Documents)

\* What an invoice is credited with is exactly what its verified payments and
\* the allocations of its live receipts add up to.
BalanceConserved == \A i \in Invoices : invoices[i].paidAmount = Balance(i)

\* An invoice reopened as a draft has no payment and no receipt allocation
\* applied to it (the guard of SetStatus).
DraftCarriesNoMoney ==
    \A i \in Invoices : invoices[i].status = "draft" => Balance(i) = 0

----------------------------------------------------------------------------
(* The assumption: what the code leaves to its users. *)

\* The document a handler in flight is about to write.
DocumentOf(r) ==
    LET m == requests[r] IN
    CASE m.op = "verify" -> <<"payment", m.payment>>
      [] m.op \in {"update_found", "update_rows", "delete_found", "delete_rows"}
            -> <<"receipt", m.receipt>>
      [] OTHER -> <<"request", r>>

\* At most one handler in flight per payment and per receipt, as long as no
\* user submits the same form twice.
DistinctDocuments ==
    \A r, s \in Requests : r /= s => DocumentOf(r) /= DocumentOf(s)

\* A handler that is about to reopen invoice i as a draft.
Reopening(i) ==
    \E r \in Requests :
        LET m == requests[r] IN
        \/ m.op \in {"count_payments", "count_allocations"} /\ m.invoice = i
        \/ m.op = "set_status" /\ m.invoice = i /\ m.status = "draft"

\* No money arrives between the counts of BackToDraft and its UPDATE: the
\* code takes no lock that would prevent it.
NoMoneyMeanwhile ==
    \A i \in Invoices : Reopening(i)' => invoices'[i].paidAmount <= invoices[i].paidAmount

SpecDistinct == Init /\ [][Next /\ DistinctDocuments' /\ NoMoneyMeanwhile]_vars

----------------------------------------------------------------------------
\* A bill is open while its invoice is live and confirmed.
Book == INSTANCE MoneyBook WITH
    terms <- [i \in Invoices |->
                 [open |-> Live(i) /\ invoices[i].status = "confirmed",
                  due |-> invoices[i].grandTotal]],
    held <- [d \in Documents |-> [i \in Invoices |-> HeldOn(d, i)]],
    paid <- [i \in Invoices |-> invoices[i].paidAmount]

\* The ledger implements the money book: each transaction moves one document,
\* and every invoice it touches by exactly the difference, in particular an
\* edit of a receipt that reverses its old rows and applies its new ones; no
\* reversal is cut short by the clamp at zero.
ImplementsMoneyBook == Book!Spec
=============================================================================
