---------------------------- MODULE SalesLedger ----------------------------
(***************************************************************************)
(* The money side of sales: what customers owe (sales_invoices), what was  *)
(* recorded against one invoice (sales_payments) and what was receipted    *)
(* over several invoices (sales_receipts and their allocation rows).       *)
(*                                                                         *)
(* Every HTTP request is served concurrently, and PostgreSQL runs at READ  *)
(* COMMITTED.  A handler that reads a row and acts on it later is split    *)
(* where the read value may have become stale; requests[r] then holds what *)
(* the handler remembers.  From the first row lock of a transaction to its *)
(* commit nothing it reads under lock can change, so that part is one      *)
(* step.  Money is counted in whole cents (round2 keeps it there).         *)
(***************************************************************************)
EXTENDS Integers

CONSTANTS
    Invoices,   \* ids of sales_invoices rows
    Mitras,     \* ids of partners
    Payments,   \* ids of sales_payments rows
    Receipts,   \* ids of sales_receipts rows
    Requests,   \* handlers that may be in flight at the same time
    MaxAmount   \* bound on totals and amounts, in cents

ASSUME MaxAmountAssumption == MaxAmount \in Nat \ {0}
ASSUME NonEmptyAssumption  == Invoices /= {} /\ Mitras /= {}

VARIABLES
    invoices,   \* sales_invoices: one record per id
    payments,   \* sales_payments
    receipts,   \* sales_receipts with their sales_receipt_allocations
    requests    \* what each handler in flight has read so far

vars == <<invoices, payments, receipts, requests>>

Amounts == 1 .. MaxAmount
Totals  == 0 .. MaxAmount

\* The allocation rows of a receipt: at most one per invoice, 0 for none.
Allocations == [Invoices -> Totals]

InvoiceStatus == {"draft", "confirmed", "cancelled"}
PaymentStatus == {"unpaid", "partially_paid", "paid"}

SalesInvoice ==
    [row : {"absent", "live", "deleted"}, status : InvoiceStatus, mitra : Mitras,
     grandTotal : Totals, paidAmount : Nat, paymentStatus : PaymentStatus]

SalesPayment ==
    [status : {"absent", "pending", "verified"}, invoice : Invoices, amount : Amounts]

SalesReceipt == [row : {"absent", "live", "deleted"}, rows : Allocations]

NoRequest == [op |-> "none"]

Request ==
         {NoRequest}
    \cup [op : {"count_payments", "count_allocations"}, invoice : Invoices]
    \cup [op : {"set_status"}, invoice : Invoices, status : InvoiceStatus]
    \cup [op : {"payment_balance", "payment_insert"}, invoice : Invoices, amount : Amounts]
    \cup [op : {"verify"}, payment : Payments, invoice : Invoices, amount : Amounts]
    \cup [op : {"receipt_create"}, new : Allocations]
    \cup [op : {"update_found"}, receipt : Receipts, new : Allocations]
    \cup [op : {"update_rows"}, receipt : Receipts, new : Allocations, old : Allocations]
    \cup [op : {"delete_found"}, receipt : Receipts]
    \cup [op : {"delete_rows"}, receipt : Receipts, old : Allocations]

TypeOK ==
    /\ invoices \in [Invoices -> SalesInvoice]
    /\ payments \in [Payments -> SalesPayment]
    /\ receipts \in [Receipts -> SalesReceipt]
    /\ requests \in [Requests -> Request]

----------------------------------------------------------------------------
(* The balance primitives (invoice_balance.go), on one locked invoice row. *)

Live(i) == invoices[i].row = "live"

remaining(invoice) == invoice.grandTotal - invoice.paidAmount

\* Faulty variant: the amount is compared with the total, not with what is left.
FaultyMayApply(invoice, amount) ==
    /\ invoice.row = "live" /\ invoice.status = "confirmed"
    /\ amount <= invoice.grandTotal

\* The two refusals of applySalesInvoicePayment.
mayApply(invoice, amount) ==
    /\ invoice.row = "live"
    /\ invoice.status = "confirmed"
    /\ amount <= remaining(invoice)

applySalesInvoicePayment(invoice, amount) ==
    LET paid == invoice.paidAmount + amount
    IN  [invoice EXCEPT !.paidAmount = paid,
                        !.paymentStatus = IF paid >= invoice.grandTotal THEN "paid"
                                          ELSE IF paid > 0 THEN "partially_paid"
                                          ELSE "unpaid"]

refreshSalesInvoicePaymentStatus(invoice) ==
    [invoice EXCEPT !.paymentStatus =
        IF invoice.paidAmount >= invoice.grandTotal /\ invoice.grandTotal > 0 THEN "paid"
        ELSE IF invoice.paidAmount > 0 THEN "partially_paid"
        ELSE "unpaid"]

\* Faulty variant: the status is left as it was.
FaultyReverseKeepsStatus(invoice, amount) ==
    [invoice EXCEPT !.paidAmount = IF invoice.paidAmount < amount THEN 0
                                   ELSE invoice.paidAmount - amount]

\* Subtracts, never below zero, and derives the status as an edit does.
reverseSalesInvoicePayment(invoice, amount) ==
    refreshSalesInvoicePaymentStatus(
        [invoice EXCEPT !.paidAmount = IF invoice.paidAmount < amount THEN 0
                                       ELSE invoice.paidAmount - amount])

\* A receipt holds at most one row per invoice, so the loops over its rows
\* touch each invoice once.
mayApplyAll(invs, new) == \A i \in Invoices : new[i] > 0 => mayApply(invs[i], new[i])

applyReceiptAllocations(invs, new) ==
    [i \in Invoices |-> IF new[i] > 0 THEN applySalesInvoicePayment(invs[i], new[i])
                        ELSE invs[i]]

reverseReceiptAllocations(invs, old) ==
    [i \in Invoices |-> IF old[i] > 0 THEN reverseSalesInvoicePayment(invs[i], old[i])
                        ELSE invs[i]]

\* "invoice not found" and "does not belong to the selected partner": read
\* without a lock, so the partner may have changed when the amount is applied.
partnerChecked(mitra, new) ==
    \A i \in Invoices : new[i] > 0 => Live(i) /\ invoices[i].mitra = mitra

----------------------------------------------------------------------------
(* Handlers in flight. *)

Begin(r, m) ==
    /\ requests[r] = NoRequest
    /\ requests' = [requests EXCEPT ![r] = m]

Continue(r, m) == requests' = [requests EXCEPT ![r] = m]

Finish(r) == requests' = [requests EXCEPT ![r] = NoRequest]

\* A refused check, a deadlock victim, a lost connection or a crash: the
\* handler ends and its transaction, if any, rolls back.
Abort(r) ==
    /\ requests[r] /= NoRequest
    /\ Finish(r)
    /\ UNCHANGED <<invoices, payments, receipts>>

----------------------------------------------------------------------------
(* Sales invoices. *)

InvoiceCreate(i, mitra, total) ==
    /\ invoices[i].row = "absent"
    /\ invoices' = [invoices EXCEPT ![i] =
           [row |-> "live", status |-> "draft", mitra |-> mitra, grandTotal |-> total,
            paidAmount |-> 0, paymentStatus |-> "unpaid"]]
    /\ UNCHANGED <<payments, receipts, requests>>

\* Allowed in every status; the paid amount stays as recorded.
InvoiceUpdate(i, mitra, total) ==
    /\ Live(i)
    /\ invoices' = [invoices EXCEPT ![i] = refreshSalesInvoicePaymentStatus(
                        [invoices[i] EXCEPT !.mitra = mitra, !.grandTotal = total])]
    /\ UNCHANGED <<payments, receipts, requests>>

InvoiceDelete(i) ==
    /\ Live(i)
    /\ invoices' = [invoices EXCEPT ![i].row = "deleted"]
    /\ UNCHANGED <<payments, receipts, requests>>

ConfirmRead(r, i) ==
    /\ Live(i) /\ invoices[i].status = "draft"
    /\ Begin(r, [op |-> "set_status", invoice |-> i, status |-> "confirmed"])
    /\ UNCHANGED <<invoices, payments, receipts>>

CancelRead(r, i) ==
    /\ Live(i) /\ invoices[i].status /= "cancelled"
    /\ Begin(r, [op |-> "set_status", invoice |-> i, status |-> "cancelled"])
    /\ UNCHANGED <<invoices, payments, receipts>>

BackToDraftRead(r, i) ==
    /\ Live(i) /\ invoices[i].status /= "draft"
    /\ Begin(r, [op |-> "count_payments", invoice |-> i])
    /\ UNCHANGED <<invoices, payments, receipts>>

\* checkInvoiceHasNoPayments: two counts, each its own statement.
CountPayments(r) ==
    LET m == requests[r] IN
    /\ m.op = "count_payments"
    /\ \A p \in Payments : payments[p].status /= "absent" => payments[p].invoice /= m.invoice
    /\ Continue(r, [op |-> "count_allocations", invoice |-> m.invoice])
    /\ UNCHANGED <<invoices, payments, receipts>>

\* Faulty variant: receipt allocations are not counted.
FaultyCountAllocations(r) ==
    LET m == requests[r] IN
    /\ m.op = "count_allocations"
    /\ Continue(r, [op |-> "set_status", invoice |-> m.invoice, status |-> "draft"])
    /\ UNCHANGED <<invoices, payments, receipts>>

CountAllocations(r) ==
    LET m == requests[r] IN
    /\ m.op = "count_allocations"
    /\ \A c \in Receipts : receipts[c].row = "live" => receipts[c].rows[m.invoice] = 0
    /\ Continue(r, [op |-> "set_status", invoice |-> m.invoice, status |-> "draft"])
    /\ UNCHANGED <<invoices, payments, receipts>>

\* The UPDATE names the row only: the status that was read is not rechecked.
SetStatus(r) ==
    LET m == requests[r] IN
    /\ m.op = "set_status"
    /\ Live(m.invoice)
    /\ invoices' = [invoices EXCEPT ![m.invoice].status = m.status]
    /\ Finish(r)
    /\ UNCHANGED <<payments, receipts>>

----------------------------------------------------------------------------
(* Sales payments. *)

PaymentCreateConfirmed(r, i, amount) ==
    /\ Live(i) /\ invoices[i].status = "confirmed"
    /\ Begin(r, [op |-> "payment_balance", invoice |-> i, amount |-> amount])
    /\ UNCHANGED <<invoices, payments, receipts>>

PaymentCreateBalance(r) ==
    LET m == requests[r] IN
    /\ m.op = "payment_balance"
    /\ Live(m.invoice) /\ m.amount <= remaining(invoices[m.invoice])
    /\ Continue(r, [m EXCEPT !.op = "payment_insert"])
    /\ UNCHANGED <<invoices, payments, receipts>>

\* Faulty variant: the payment is recorded over all that is left by then.
FaultyPaymentCreateInsert(r, p) ==
    LET m == requests[r] IN
    /\ m.op = "payment_insert"
    /\ payments[p].status = "absent"
    /\ payments' = [payments EXCEPT ![p] =
           [status |-> "pending", invoice |-> m.invoice,
            amount |-> remaining(invoices[m.invoice])]]
    /\ Finish(r)
    /\ UNCHANGED <<invoices, receipts>>

PaymentCreateInsert(r, p) ==
    LET m == requests[r] IN
    /\ m.op = "payment_insert"
    /\ payments[p].status = "absent"
    /\ payments' = [payments EXCEPT ![p] =
           [status |-> "pending", invoice |-> m.invoice, amount |-> m.amount]]
    /\ Finish(r)
    /\ UNCHANGED <<invoices, receipts>>

\* The payment row is read without a lock ...
VerifyRead(r, p) ==
    /\ payments[p].status = "pending"
    /\ Begin(r, [op |-> "verify", payment |-> p,
                 invoice |-> payments[p].invoice, amount |-> payments[p].amount])
    /\ UNCHANGED <<invoices, payments, receipts>>

\* ... and only the invoice row is locked: its status is not read again.
VerifyCommit(r) ==
    LET m == requests[r] IN
    /\ m.op = "verify"
    /\ mayApply(invoices[m.invoice], m.amount)
    /\ invoices' = [invoices EXCEPT ![m.invoice] = applySalesInvoicePayment(@, m.amount)]
    /\ payments' = [payments EXCEPT ![m.payment].status = "verified"]
    /\ Finish(r)
    /\ UNCHANGED receipts

----------------------------------------------------------------------------
(* Sales receipts. *)

\* At least one allocation is required by the request validation.
SomeRow(new) == \E i \in Invoices : new[i] > 0

ReceiptCreateCheck(r, mitra, new) ==
    /\ SomeRow(new)
    /\ partnerChecked(mitra, new)
    /\ Begin(r, [op |-> "receipt_create", new |-> new])
    /\ UNCHANGED <<invoices, payments, receipts>>

ReceiptCreateCommit(r, c) ==
    LET m == requests[r] IN
    /\ m.op = "receipt_create"
    /\ receipts[c].row = "absent"
    /\ mayApplyAll(invoices, m.new)
    /\ invoices' = applyReceiptAllocations(invoices, m.new)
    /\ receipts' = [receipts EXCEPT ![c] = [row |-> "live", rows |-> m.new]]
    /\ Finish(r)
    /\ UNCHANGED payments

ReceiptUpdateFind(r, c, new) ==
    /\ receipts[c].row = "live"
    /\ SomeRow(new)
    /\ Begin(r, [op |-> "update_found", receipt |-> c, new |-> new])
    /\ UNCHANGED <<invoices, payments, receipts>>

\* Inside the transaction: the rows to give back are read without a lock.
ReceiptUpdateLoad(r, mitra) ==
    LET m == requests[r] IN
    /\ m.op = "update_found"
    /\ partnerChecked(mitra, m.new)
    /\ Continue(r, [op |-> "update_rows", receipt |-> m.receipt, new |-> m.new,
                    old |-> receipts[m.receipt].rows])
    /\ UNCHANGED <<invoices, payments, receipts>>

\* Faulty variant: the new rows replace the old ones in memory before these
\* are given back.
FaultyReceiptUpdateCommit(r) ==
    LET m == requests[r]
        given == reverseReceiptAllocations(invoices, m.new)
    IN
    /\ m.op = "update_rows"
    /\ mayApplyAll(given, m.new)
    /\ invoices' = applyReceiptAllocations(given, m.new)
    /\ receipts' = [receipts EXCEPT ![m.receipt].rows = m.new]
    /\ Finish(r)
    /\ UNCHANGED payments

\* Reverse the old rows, apply the new ones, replace the rows.  The UPDATE of
\* the receipt itself matches nothing, without an error, if it was deleted.
ReceiptUpdateCommit(r) ==
    LET m == requests[r]
        given == reverseReceiptAllocations(invoices, m.old)
    IN
    /\ m.op = "update_rows"
    /\ mayApplyAll(given, m.new)
    /\ invoices' = applyReceiptAllocations(given, m.new)
    /\ receipts' = [receipts EXCEPT ![m.receipt].rows = m.new]
    /\ Finish(r)
    /\ UNCHANGED payments

ReceiptDeleteFind(r, c) ==
    /\ receipts[c].row = "live"
    /\ Begin(r, [op |-> "delete_found", receipt |-> c])
    /\ UNCHANGED <<invoices, payments, receipts>>

ReceiptDeleteLoad(r) ==
    LET m == requests[r] IN
    /\ m.op = "delete_found"
    /\ Continue(r, [op |-> "delete_rows", receipt |-> m.receipt,
                    old |-> receipts[m.receipt].rows])
    /\ UNCHANGED <<invoices, payments, receipts>>

\* Faulty variant: the receipt disappears and its money stays.
FaultyReceiptDeleteCommit(r) ==
    LET m == requests[r] IN
    /\ m.op = "delete_rows"
    /\ receipts' = [receipts EXCEPT ![m.receipt].row = "deleted"]
    /\ Finish(r)
    /\ UNCHANGED <<invoices, payments>>

\* The allocation rows are kept for the audit trail.
ReceiptDeleteCommit(r) ==
    LET m == requests[r] IN
    /\ m.op = "delete_rows"
    /\ invoices' = reverseReceiptAllocations(invoices, m.old)
    /\ receipts' = [receipts EXCEPT ![m.receipt].row = "deleted"]
    /\ Finish(r)
    /\ UNCHANGED payments

----------------------------------------------------------------------------
Init ==
    /\ invoices = [i \in Invoices |->
           [row |-> "absent", status |-> "draft", mitra |-> CHOOSE m \in Mitras : TRUE,
            grandTotal |-> 0, paidAmount |-> 0, paymentStatus |-> "unpaid"]]
    /\ payments = [p \in Payments |->
           [status |-> "absent", invoice |-> CHOOSE i \in Invoices : TRUE, amount |-> 1]]
    /\ receipts = [c \in Receipts |-> [row |-> "absent", rows |-> [i \in Invoices |-> 0]]]
    /\ requests = [r \in Requests |-> NoRequest]

InvoiceStep ==
    \/ \E i \in Invoices, m \in Mitras, t \in Totals :
          InvoiceCreate(i, m, t) \/ InvoiceUpdate(i, m, t)
    \/ \E i \in Invoices : InvoiceDelete(i)
    \/ \E r \in Requests, i \in Invoices :
          ConfirmRead(r, i) \/ CancelRead(r, i) \/ BackToDraftRead(r, i)
    \/ \E r \in Requests : CountPayments(r) \/ CountAllocations(r) \/ SetStatus(r)

PaymentStep ==
    \/ \E r \in Requests, i \in Invoices, a \in Amounts : PaymentCreateConfirmed(r, i, a)
    \/ \E r \in Requests : PaymentCreateBalance(r) \/ VerifyCommit(r)
    \/ \E r \in Requests, p \in Payments : PaymentCreateInsert(r, p) \/ VerifyRead(r, p)

ReceiptStep ==
    \/ \E r \in Requests, m \in Mitras, new \in Allocations : ReceiptCreateCheck(r, m, new)
    \/ \E r \in Requests, c \in Receipts : ReceiptCreateCommit(r, c) \/ ReceiptDeleteFind(r, c)
    \/ \E r \in Requests, c \in Receipts, new \in Allocations : ReceiptUpdateFind(r, c, new)
    \/ \E r \in Requests, m \in Mitras : ReceiptUpdateLoad(r, m)
    \/ \E r \in Requests :
          ReceiptUpdateCommit(r) \/ ReceiptDeleteLoad(r) \/ ReceiptDeleteCommit(r)

Next == InvoiceStep \/ PaymentStep \/ ReceiptStep \/ \E r \in Requests : Abort(r)

Spec == Init /\ [][Next]_vars

----------------------------------------------------------------------------
(* What holds however the handlers interleave. *)

\* The stored payment status always says what the two stored amounts say,
\* although five code paths write one of the three columns (apply, reverse,
\* refresh, create and edit).
StatusDerived(v) ==
    v.paymentStatus = IF v.paidAmount >= v.grandTotal /\ v.grandTotal > 0 THEN "paid"
                      ELSE IF v.paidAmount > 0 THEN "partially_paid" ELSE "unpaid"

PaymentStatusDerived == \A i \in Invoices : StatusDerived(invoices[i])

\* Money is only ever added to a live, confirmed invoice, and no step that adds
\* takes it past its total: the checks of applySalesInvoicePayment are made
\* under the row lock, so a cancellation, an edit of the total or a competing
\* payment between the first read and the lock is noticed.
GainWithinBalance(i) ==
    invoices'[i].paidAmount > invoices[i].paidAmount =>
        /\ Live(i)
        /\ invoices[i].status = "confirmed"
        /\ invoices'[i].paidAmount <= invoices'[i].grandTotal

GainsWithinBalance == [][\A i \in Invoices : GainWithinBalance(i)]_vars
=============================================================================
