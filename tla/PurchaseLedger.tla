--------------------------- MODULE PurchaseLedger --------------------------
(***************************************************************************)
(* What the company owes: purchase_invoices, the purchase_receipts paid    *)
(* against them, and the backfill every server start runs over both.       *)
(*                                                                         *)
(* A receipt is one payment of at most one invoice.  Its previous invoice  *)
(* and amount are read before the transaction that gives them back, so an  *)
(* edit and a deletion are two steps each.  The database may hold receipts *)
(* from before payments were tracked: live, but counted by no invoice.     *)
(* Money is counted in whole cents.                                        *)
(***************************************************************************)
EXTENDS Integers, Sums

CONSTANTS
    Invoices,   \* ids of purchase_invoices rows
    Mitras,     \* ids of partners
    Receipts,   \* ids of purchase_receipts rows
    Requests,   \* handlers that may be in flight at the same time
    MaxAmount,  \* bound on totals and amounts, in cents
    NoInvoice,  \* a receipt that pays no invoice
    Legacy      \* does the first start find receipts that predate tracking?

ASSUME ConstantsAssumption ==
    /\ MaxAmount \in Nat \ {0}
    /\ Invoices /= {} /\ Mitras /= {} /\ NoInvoice \notin Invoices
    /\ Legacy \in BOOLEAN
    /\ IsFiniteSet(Receipts)

VARIABLES
    invoices,   \* purchase_invoices
    receipts,   \* purchase_receipts
    requests,   \* what each handler in flight has read so far
    up,         \* is the server serving requests?
    aligned     \* history: has a backfill succeeded yet?

vars == <<invoices, receipts, requests, up, aligned>>

Amounts == 1 .. MaxAmount
Totals  == 0 .. MaxAmount

InvoiceStatus == {"draft", "confirmed", "cancelled"}

PurchaseInvoice ==
    [row : {"absent", "live", "deleted"}, status : InvoiceStatus, mitra : Mitras,
     grandTotal : Totals, paidAmount : Nat, paymentStatus : {"unpaid", "partially_paid", "paid"}]

PurchaseReceipt ==
    [row : {"absent", "live", "deleted"}, invoice : Invoices \cup {NoInvoice}, amount : Amounts]

NoRequest == [op |-> "none"]

Request ==
         {NoRequest}
    \cup [op : {"count_receipts", "set_status"}, invoice : Invoices, status : InvoiceStatus]
    \cup [op : {"update", "delete"}, receipt : Receipts,
          invoice : Invoices \cup {NoInvoice}, amount : Amounts]

TypeOK ==
    /\ invoices \in [Invoices -> PurchaseInvoice]
    /\ receipts \in [Receipts -> PurchaseReceipt]
    /\ requests \in [Requests -> Request]
    /\ up \in BOOLEAN
    /\ aligned \in BOOLEAN

----------------------------------------------------------------------------
(* The balance primitives (purchase_invoice_balance.go). *)

Live(i) == invoices[i].row = "live"

purchasePaymentStatus(paid, total) ==
    IF total > 0 /\ paid >= total THEN "paid"
    ELSE IF paid > 0 THEN "partially_paid" ELSE "unpaid"

\* Writes an amount and the status it implies.
WithPaid(invoice, paid) ==
    [invoice EXCEPT !.paidAmount = paid,
                    !.paymentStatus = purchasePaymentStatus(paid, invoice.grandTotal)]

\* Faulty variant: the amount is compared with the total, not with what is left.
FaultyMayApply(invoice, mitra, amount) ==
    /\ invoice.row = "live" /\ invoice.mitra = mitra
    /\ invoice.status = "confirmed" /\ amount <= invoice.grandTotal

\* The refusals of applyPurchaseInvoicePayment, all made under the row lock.
mayApply(invoice, mitra, amount) ==
    /\ invoice.row = "live"
    /\ invoice.mitra = mitra
    /\ invoice.status = "confirmed"
    /\ amount <= invoice.grandTotal - invoice.paidAmount

applyPurchaseInvoicePayment(invoice, amount) == WithPaid(invoice, invoice.paidAmount + amount)

\* Faulty variant: nothing stops the amount at zero.
FaultyReverse(invoice, amount) == WithPaid(invoice, invoice.paidAmount - amount)

reversePurchaseInvoicePayment(invoice, amount) ==
    WithPaid(invoice, IF invoice.paidAmount < amount THEN 0 ELSE invoice.paidAmount - amount)

\* All invoices once the payment <<i, amount>> is given back; a receipt
\* without an invoice gives nothing back.
GivenBack(i, amount) ==
    [j \in Invoices |-> IF j = i THEN reversePurchaseInvoicePayment(invoices[j], amount)
                        ELSE invoices[j]]

----------------------------------------------------------------------------
(* Starting and stopping. *)

LiveReceipts(i) == {c \in Receipts : receipts[c].row = "live" /\ receipts[c].invoice = i}

\* What receipt c pays on invoice i.
PaidBy(c, i) == IF c \in LiveReceipts(i) THEN receipts[c].amount ELSE 0

Paid(i) == SumOver([c \in Receipts |-> PaidBy(c, i)], Receipts)

\* Faulty variant: only invoices that look untouched are brought up to date.
FaultyBackfill ==
    [i \in Invoices |->
        IF LiveReceipts(i) = {} \/ invoices[i].paidAmount > 0 THEN invoices[i]
        ELSE WithPaid(invoices[i], Paid(i))]

\* One statement: an invoice without a live receipt is in no group of the
\* inner SELECT, and a row whose amount already agrees is not written.
BackfillPurchasePayments ==
    [i \in Invoices |->
        IF LiveReceipts(i) = {} \/ invoices[i].paidAmount = Paid(i) THEN invoices[i]
        ELSE WithPaid(invoices[i], Paid(i))]

Start ==
    /\ ~up
    /\ invoices' = BackfillPurchasePayments
    /\ up' = TRUE
    /\ aligned' = TRUE
    /\ UNCHANGED <<receipts, requests>>

\* A failed backfill is only logged; the server serves all the same.
StartUnaligned ==
    /\ ~up
    /\ up' = TRUE
    /\ UNCHANGED <<invoices, receipts, requests, aligned>>

\* A crash or a deployment: open transactions roll back.
Stop ==
    /\ up
    /\ up' = FALSE
    /\ requests' = [r \in Requests |-> NoRequest]
    /\ UNCHANGED <<invoices, receipts, aligned>>

----------------------------------------------------------------------------
(* Handlers in flight. *)

Begin(r, m) ==
    /\ up /\ requests[r] = NoRequest
    /\ requests' = [requests EXCEPT ![r] = m]

Finish(r) == requests' = [requests EXCEPT ![r] = NoRequest]

Abort(r) ==
    /\ requests[r] /= NoRequest
    /\ Finish(r)
    /\ UNCHANGED <<invoices, receipts, up, aligned>>

----------------------------------------------------------------------------
(* Purchase invoices. *)

InvoiceCreate(i, mitra, total) ==
    /\ up /\ invoices[i].row = "absent"
    /\ invoices' = [invoices EXCEPT ![i] =
           [row |-> "live", status |-> "draft", mitra |-> mitra, grandTotal |-> total,
            paidAmount |-> 0, paymentStatus |-> "unpaid"]]
    /\ UNCHANGED <<receipts, requests, up, aligned>>

\* Faulty variant: the payment status is not derived again.
FaultyInvoiceUpdate(i, mitra, total) ==
    /\ up /\ Live(i)
    /\ invoices' = [invoices EXCEPT ![i].mitra = mitra, ![i].grandTotal = total]
    /\ UNCHANGED <<receipts, requests, up, aligned>>

\* Allowed in every status; the paid amount stays as recorded.
InvoiceUpdate(i, mitra, total) ==
    /\ up /\ Live(i)
    /\ invoices' = [invoices EXCEPT ![i] =
           WithPaid([invoices[i] EXCEPT !.mitra = mitra, !.grandTotal = total],
                    invoices[i].paidAmount)]
    /\ UNCHANGED <<receipts, requests, up, aligned>>

InvoiceDelete(i) ==
    /\ up /\ Live(i)
    /\ invoices' = [invoices EXCEPT ![i].row = "deleted"]
    /\ UNCHANGED <<receipts, requests, up, aligned>>

ConfirmRead(r, i) ==
    /\ Live(i) /\ invoices[i].status = "draft"
    /\ Begin(r, [op |-> "set_status", invoice |-> i, status |-> "confirmed"])
    /\ UNCHANGED <<invoices, receipts, up, aligned>>

BackToDraftRead(r, i) ==
    /\ Live(i) /\ invoices[i].status /= "draft"
    /\ Begin(r, [op |-> "count_receipts", invoice |-> i, status |-> "draft"])
    /\ UNCHANGED <<invoices, receipts, up, aligned>>

\* Unlike a sales invoice, a purchase invoice with payments cannot be cancelled.
CancelRead(r, i) ==
    /\ Live(i) /\ invoices[i].status /= "cancelled"
    /\ Begin(r, [op |-> "count_receipts", invoice |-> i, status |-> "cancelled"])
    /\ UNCHANGED <<invoices, receipts, up, aligned>>

\* Faulty variant: the payments are not counted.
FaultyCountReceipts(r) ==
    /\ requests[r].op = "count_receipts"
    /\ requests' = [requests EXCEPT ![r].op = "set_status"]
    /\ UNCHANGED <<invoices, receipts, up, aligned>>

\* checkPurchaseInvoiceHasNoPayments
CountReceipts(r) ==
    /\ requests[r].op = "count_receipts"
    /\ LiveReceipts(requests[r].invoice) = {}
    /\ requests' = [requests EXCEPT ![r].op = "set_status"]
    /\ UNCHANGED <<invoices, receipts, up, aligned>>

SetStatus(r) ==
    LET m == requests[r] IN
    /\ m.op = "set_status"
    /\ Live(m.invoice)
    /\ invoices' = [invoices EXCEPT ![m.invoice].status = m.status]
    /\ Finish(r)
    /\ UNCHANGED <<receipts, up, aligned>>

----------------------------------------------------------------------------
(* Purchase receipts. *)

\* The tail shared by Create and Update: apply to the invoice, if one is named.
Applied(invs, i, mitra, amount) ==
    IF i = NoInvoice THEN invoices' = invs
    ELSE /\ mayApply(invs[i], mitra, amount)
         /\ invoices' = [invs EXCEPT ![i] = applyPurchaseInvoicePayment(@, amount)]

ReceiptCreate(c, i, mitra, amount) ==
    /\ up /\ receipts[c].row = "absent"
    /\ Applied(invoices, i, mitra, amount)
    /\ receipts' = [receipts EXCEPT ![c] = [row |-> "live", invoice |-> i, amount |-> amount]]
    /\ UNCHANGED <<requests, up, aligned>>

\* FindByID, outside the transaction: invoice and amount are remembered.
ReceiptRead(r, c, op) ==
    /\ receipts[c].row = "live"
    /\ Begin(r, [op |-> op, receipt |-> c, invoice |-> receipts[c].invoice,
                 amount |-> receipts[c].amount])
    /\ UNCHANGED <<invoices, receipts, up, aligned>>

\* Faulty variant: the old payment is not given back first.
FaultyReceiptUpdate(r, i, mitra, amount) ==
    LET m == requests[r] IN
    /\ m.op = "update"
    /\ Applied(invoices, i, mitra, amount)
    /\ receipts' = [receipts EXCEPT ![m.receipt].invoice = i, ![m.receipt].amount = amount]
    /\ Finish(r)
    /\ UNCHANGED <<up, aligned>>

\* Give the remembered payment back, then apply the new one.  The UPDATE of
\* the receipt matches nothing, without an error, if it was deleted since.
ReceiptUpdate(r, i, mitra, amount) ==
    LET m == requests[r]
        c == m.receipt
    IN
    /\ m.op = "update"
    /\ Applied(GivenBack(m.invoice, m.amount), i, mitra, amount)
    /\ receipts' = IF receipts[c].row = "live"
                   THEN [receipts EXCEPT ![c].invoice = i, ![c].amount = amount]
                   ELSE receipts
    /\ Finish(r)
    /\ UNCHANGED <<up, aligned>>

ReceiptDelete(r) ==
    LET m == requests[r] IN
    /\ m.op = "delete"
    /\ invoices' = GivenBack(m.invoice, m.amount)
    /\ receipts' = [receipts EXCEPT ![m.receipt].row = "deleted"]
    /\ Finish(r)
    /\ UNCHANGED <<up, aligned>>

----------------------------------------------------------------------------
\* Before the first start: an empty database, or one that also has confirmed
\* invoices with receipts recorded by the version that did not move balances.
AbsentInvoice ==
    [row |-> "absent", status |-> "draft", mitra |-> CHOOSE m \in Mitras : TRUE,
     grandTotal |-> 0, paidAmount |-> 0, paymentStatus |-> "unpaid"]

AbsentReceipt == [row |-> "absent", invoice |-> NoInvoice, amount |-> 1]

LegacyInvoices ==
    [row : {"live"}, status : {"confirmed"}, mitra : Mitras, grandTotal : Totals,
     paidAmount : {0}, paymentStatus : {"unpaid"}]

LegacyReceipts == [row : {"live"}, invoice : Invoices, amount : Amounts]

Init ==
    /\ IF Legacy
       THEN /\ invoices \in [Invoices -> LegacyInvoices \cup {AbsentInvoice}]
            /\ receipts \in [Receipts -> LegacyReceipts \cup {AbsentReceipt}]
            /\ \A c \in Receipts : receipts[c].row = "live" => Live(receipts[c].invoice)
       ELSE /\ invoices = [i \in Invoices |-> AbsentInvoice]
            /\ receipts = [c \in Receipts |-> AbsentReceipt]
    /\ requests = [r \in Requests |-> NoRequest]
    /\ up = FALSE
    /\ aligned = FALSE

InvoiceStep ==
    \/ \E i \in Invoices, m \in Mitras, t \in Totals :
          InvoiceCreate(i, m, t) \/ InvoiceUpdate(i, m, t)
    \/ \E i \in Invoices : InvoiceDelete(i)
    \/ \E r \in Requests, i \in Invoices :
          ConfirmRead(r, i) \/ BackToDraftRead(r, i) \/ CancelRead(r, i)
    \/ \E r \in Requests : CountReceipts(r) \/ SetStatus(r)

ReceiptStep ==
    \/ \E c \in Receipts, i \in Invoices \cup {NoInvoice}, m \in Mitras, a \in Amounts :
          ReceiptCreate(c, i, m, a)
    \/ \E r \in Requests, c \in Receipts, op \in {"update", "delete"} : ReceiptRead(r, c, op)
    \/ \E r \in Requests, i \in Invoices \cup {NoInvoice}, m \in Mitras, a \in Amounts :
          ReceiptUpdate(r, i, m, a)
    \/ \E r \in Requests : ReceiptDelete(r)

Next ==
    \/ Start \/ StartUnaligned \/ Stop
    \/ InvoiceStep \/ ReceiptStep
    \/ \E r \in Requests : Abort(r)

Spec == Init /\ [][Next]_vars

----------------------------------------------------------------------------
\* Once a backfill has succeeded, an invoice's paid amount is the sum of its
\* live receipts, whatever was created, edited, moved to another invoice or
\* deleted since, also while an earlier start had served legacy data as it was
\* ("so the balance always equals the sum of live payments").
BooksBalanced == aligned => \A i \in Invoices : invoices[i].paidAmount = Paid(i)

\* An invoice is never credited with more than its live receipts, legacy data
\* included: this is why a backfill that skips invoices without a live receipt
\* leaves none of them credited.
NeverOverstated == \A i \in Invoices : invoices[i].paidAmount <= Paid(i)

\* The stored payment status says what the stored amounts say, across edits,
\* payments, reversals and the SQL of the backfill.
PaymentStatusDerived ==
    \A i \in Invoices : invoices[i].paymentStatus =
        (IF invoices[i].paidAmount = 0 THEN "unpaid"
         ELSE IF invoices[i].grandTotal = 0 \/ invoices[i].paidAmount < invoices[i].grandTotal
              THEN "partially_paid"
         ELSE "paid")

\* Money is never stranded: an invoice that is a draft or cancelled has no
\* live receipt (the guard of SetStatus).
NothingStranded ==
    \A i \in Invoices : invoices[i].status /= "confirmed" => LiveReceipts(i) = {}

\* Outside the backfill, a step that credits an invoice leaves it within its
\* total, whatever else is in flight.
CreditWithinTotal ==
    [][up => \A i \in Invoices :
          invoices'[i].paidAmount > invoices[i].paidAmount =>
              invoices'[i].paidAmount <= invoices'[i].grandTotal]_vars

----------------------------------------------------------------------------
(* The assumption: what the code leaves to its users. *)

\* At most one handler in flight per receipt, as long as no user submits the
\* same form twice.
DistinctReceipts ==
    \A r, s \in Requests :
        (r /= s /\ {requests[r].op, requests[s].op} \subseteq {"update", "delete"})
            => requests[r].receipt /= requests[s].receipt

\* No receipt is attached to invoice i while a handler is about to change its
\* status: the code takes no lock that would prevent it.
ChangingStatus(i) ==
    \E r \in Requests :
        requests[r].op \in {"count_receipts", "set_status"} /\ requests[r].invoice = i

NothingAttachedMeanwhile ==
    \A i \in Invoices : ChangingStatus(i)' => LiveReceipts(i)' \subseteq LiveReceipts(i)

SpecDistinct == Init /\ [][Next /\ DistinctReceipts' /\ NothingAttachedMeanwhile]_vars
=============================================================================
