------------------------- MODULE SalesLedgerProofs -------------------------
(* Proofs about SalesLedger for any number of invoices, documents and      *)
(* concurrent handlers.                                                    *)
EXTENDS SalesBook, RowLocks, SumTheorems, TLAPS

\* The balance primitives keep an invoice row well typed; applying is only
\* asked for within the remaining balance.
LEMMA ApplyType ==
    ASSUME NEW v \in SalesInvoice, NEW a \in Amounts
    PROVE  applySalesInvoicePayment(v, a) \in SalesInvoice
<1> DEFINE paid == v.paidAmount + a
           st == IF paid >= v.grandTotal THEN "paid"
                 ELSE IF paid > 0 THEN "partially_paid" ELSE "unpaid"
<1>1. paid \in Nat
  BY MaxAmountAssumption DEF SalesInvoice, Amounts
<1>2. st \in PaymentStatus
  BY DEF PaymentStatus
<1>3. applySalesInvoicePayment(v, a) = [v EXCEPT !.paidAmount = paid, !.paymentStatus = st]
  BY DEF applySalesInvoicePayment
<1> HIDE DEF paid, st
<1> QED
  BY <1>1, <1>2, <1>3 DEF SalesInvoice

\* The refresh after an edit keeps the row well typed.
LEMMA RefreshType ==
    ASSUME NEW v \in SalesInvoice
    PROVE  refreshSalesInvoicePaymentStatus(v) \in SalesInvoice
  BY DEF refreshSalesInvoicePaymentStatus, SalesInvoice, PaymentStatus

\* So does a reversal: the clamp keeps the paid amount natural.
LEMMA ReverseType ==
    ASSUME NEW v \in SalesInvoice, NEW a \in Amounts
    PROVE  reverseSalesInvoicePayment(v, a) \in SalesInvoice
<1> DEFINE w == [v EXCEPT !.paidAmount = IF v.paidAmount < a THEN 0 ELSE v.paidAmount - a]
<1>1. w \in SalesInvoice
  BY MaxAmountAssumption DEF SalesInvoice, Amounts
<1> QED
  BY <1>1, RefreshType DEF reverseSalesInvoicePayment

\* The loop of applyReceiptAllocations keeps all rows well typed.
LEMMA ApplyAllType ==
    ASSUME NEW f \in [Invoices -> SalesInvoice], NEW new \in Allocations
    PROVE  applyReceiptAllocations(f, new) \in [Invoices -> SalesInvoice]
<1> SUFFICES ASSUME NEW i \in Invoices, new[i] > 0
             PROVE  applySalesInvoicePayment(f[i], new[i]) \in SalesInvoice
  BY DEF applyReceiptAllocations
<1>1. new[i] \in Amounts
  BY MaxAmountAssumption DEF Allocations, Amounts, Totals
<1> QED
  BY <1>1, ApplyType

\* So does the loop of reverseReceiptAllocations.
LEMMA ReverseAllType ==
    ASSUME NEW f \in [Invoices -> SalesInvoice], NEW old \in Allocations
    PROVE  reverseReceiptAllocations(f, old) \in [Invoices -> SalesInvoice]
<1> SUFFICES ASSUME NEW i \in Invoices, old[i] > 0
             PROVE  reverseSalesInvoicePayment(f[i], old[i]) \in SalesInvoice
  BY DEF reverseReceiptAllocations
<1>1. old[i] \in Amounts
  BY MaxAmountAssumption DEF Allocations, Amounts, Totals
<1> QED
  BY <1>1, ReverseType

----------------------------------------------------------------------------
\* The empty database is well typed.
LEMMA InitType == Init => TypeOK
<1> SUFFICES ASSUME Init PROVE TypeOK
  OBVIOUS
<1>1. (CHOOSE m \in Mitras : TRUE) \in Mitras /\ (CHOOSE i \in Invoices : TRUE) \in Invoices
  BY NonEmptyAssumption
<1>2. 0 \in Totals /\ 1 \in Amounts
  BY MaxAmountAssumption DEF Totals, Amounts
<1>3. invoices \in [Invoices -> SalesInvoice]
  BY <1>1, <1>2 DEF Init, SalesInvoice, InvoiceStatus, PaymentStatus
<1>4. payments \in [Payments -> SalesPayment]
  BY <1>1, <1>2 DEF Init, SalesPayment
<1>5. receipts \in [Receipts -> SalesReceipt]
  BY <1>2 DEF Init, SalesReceipt, Allocations
<1>6. requests \in [Requests -> Request]
  BY DEF Init, Request
<1> QED
  BY <1>3, <1>4, <1>5, <1>6 DEF TypeOK

\* A handler starts, moves on or ends with something Request describes.
LEMMA RequestsType ==
    ASSUME TypeOK, NEW r \in Requests, NEW m \in Request,
           requests' = [requests EXCEPT ![r] = m]
    PROVE  requests' \in [Requests -> Request]
  BY DEF TypeOK

\* A handler that ends leaves the others as they are.
LEMMA FinishType ==
    ASSUME TypeOK, NEW r \in Requests, Finish(r)
    PROVE  requests' \in [Requests -> Request]
  BY DEF TypeOK, Finish, Request

\* The operations on invoices keep the types.
LEMMA InvoiceStepType == TypeOK /\ InvoiceStep => TypeOK'
<1> SUFFICES ASSUME TypeOK, InvoiceStep PROVE TypeOK'
  OBVIOUS
<1>1. ASSUME NEW i \in Invoices, NEW m \in Mitras, NEW t \in Totals, InvoiceCreate(i, m, t)
      PROVE  TypeOK'
  BY <1>1 DEF InvoiceCreate, TypeOK, SalesInvoice, InvoiceStatus, PaymentStatus
<1>2. ASSUME NEW i \in Invoices, NEW m \in Mitras, NEW t \in Totals, InvoiceUpdate(i, m, t)
      PROVE  TypeOK'
  <2>1. [invoices[i] EXCEPT !.mitra = m, !.grandTotal = t] \in SalesInvoice
    BY DEF TypeOK, SalesInvoice
  <2> QED
    BY <1>2, <2>1, RefreshType DEF InvoiceUpdate, TypeOK
<1>3. ASSUME NEW i \in Invoices, InvoiceDelete(i)
      PROVE  TypeOK'
  <2>1. [invoices[i] EXCEPT !.row = "deleted"] \in SalesInvoice
    BY DEF TypeOK, SalesInvoice
  <2> QED
    BY <1>3, <2>1 DEF InvoiceDelete, TypeOK
<1>4. ASSUME NEW r \in Requests, NEW i \in Invoices, ConfirmRead(r, i)
      PROVE  TypeOK'
  <2>1. [op |-> "set_status", invoice |-> i, status |-> "confirmed"] \in Request
    BY DEF Request, InvoiceStatus
  <2> QED
    BY <1>4, <2>1, RequestsType DEF ConfirmRead, Begin, TypeOK
<1>5. ASSUME NEW r \in Requests, NEW i \in Invoices, CancelRead(r, i)
      PROVE  TypeOK'
  <2>1. [op |-> "set_status", invoice |-> i, status |-> "cancelled"] \in Request
    BY DEF Request, InvoiceStatus
  <2> QED
    BY <1>5, <2>1, RequestsType DEF CancelRead, Begin, TypeOK
<1>6. ASSUME NEW r \in Requests, NEW i \in Invoices, BackToDraftRead(r, i)
      PROVE  TypeOK'
  <2>1. [op |-> "count_payments", invoice |-> i] \in Request
    BY DEF Request
  <2> QED
    BY <1>6, <2>1, RequestsType DEF BackToDraftRead, Begin, TypeOK
<1>7. ASSUME NEW r \in Requests, CountPayments(r)
      PROVE  TypeOK'
  <2>1. requests[r].invoice \in Invoices
    BY <1>7 DEF CountPayments, TypeOK, Request, NoRequest
  <2>2. [op |-> "count_allocations", invoice |-> requests[r].invoice] \in Request
    BY <2>1 DEF Request
  <2> QED
    BY <1>7, <2>2, RequestsType DEF CountPayments, Continue, TypeOK
<1>8. ASSUME NEW r \in Requests, CountAllocations(r)
      PROVE  TypeOK'
  <2>1. requests[r].invoice \in Invoices
    BY <1>8 DEF CountAllocations, TypeOK, Request, NoRequest
  <2>2. [op |-> "set_status", invoice |-> requests[r].invoice, status |-> "draft"] \in Request
    BY <2>1 DEF Request, InvoiceStatus
  <2> QED
    BY <1>8, <2>2, RequestsType DEF CountAllocations, Continue, TypeOK
<1>9. ASSUME NEW r \in Requests, SetStatus(r)
      PROVE  TypeOK'
  <2>1. requests[r].invoice \in Invoices /\ requests[r].status \in InvoiceStatus
    BY <1>9 DEF SetStatus, TypeOK, Request, NoRequest
  <2>2. [invoices[requests[r].invoice] EXCEPT !.status = requests[r].status] \in SalesInvoice
    BY <2>1 DEF TypeOK, SalesInvoice
  <2> QED
    BY <1>9, <2>1, <2>2, FinishType DEF SetStatus, TypeOK
<1> QED
  BY <1>1, <1>2, <1>3, <1>4, <1>5, <1>6, <1>7, <1>8, <1>9 DEF InvoiceStep

\* The operations on payments keep the types.
LEMMA PaymentStepType == TypeOK /\ PaymentStep => TypeOK'
<1> SUFFICES ASSUME TypeOK, PaymentStep PROVE TypeOK'
  OBVIOUS
<1>1. ASSUME NEW r \in Requests, NEW i \in Invoices, NEW a \in Amounts,
             PaymentCreateConfirmed(r, i, a)
      PROVE  TypeOK'
  <2>1. [op |-> "payment_balance", invoice |-> i, amount |-> a] \in Request
    BY DEF Request
  <2> QED
    BY <1>1, <2>1, RequestsType DEF PaymentCreateConfirmed, Begin, TypeOK
<1>2. ASSUME NEW r \in Requests, PaymentCreateBalance(r)
      PROVE  TypeOK'
  <2>1. requests[r] \in [op : {"payment_balance", "payment_insert"}, invoice : Invoices, amount : Amounts]
    BY <1>2 DEF PaymentCreateBalance, TypeOK, Request, NoRequest
  <2>2. [requests[r] EXCEPT !.op = "payment_insert"] \in Request
    BY <2>1 DEF Request
  <2> QED
    BY <1>2, <2>2, RequestsType DEF PaymentCreateBalance, Continue, TypeOK
<1>3. ASSUME NEW r \in Requests, NEW p \in Payments, PaymentCreateInsert(r, p)
      PROVE  TypeOK'
  <2>1. requests[r].invoice \in Invoices /\ requests[r].amount \in Amounts
    BY <1>3 DEF PaymentCreateInsert, TypeOK, Request, NoRequest
  <2>2. [status |-> "pending", invoice |-> requests[r].invoice,
         amount |-> requests[r].amount] \in SalesPayment
    BY <2>1 DEF SalesPayment
  <2> QED
    BY <1>3, <2>2, FinishType DEF PaymentCreateInsert, TypeOK
<1>4. ASSUME NEW r \in Requests, NEW p \in Payments, VerifyRead(r, p)
      PROVE  TypeOK'
  <2>1. payments[p].invoice \in Invoices /\ payments[p].amount \in Amounts
    BY DEF TypeOK, SalesPayment
  <2>2. [op |-> "verify", payment |-> p, invoice |-> payments[p].invoice,
         amount |-> payments[p].amount] \in Request
    BY <2>1 DEF Request
  <2> QED
    BY <1>4, <2>2, RequestsType DEF VerifyRead, Begin, TypeOK
<1>5. ASSUME NEW r \in Requests, VerifyCommit(r)
      PROVE  TypeOK'
  <2>1. /\ requests[r].payment \in Payments
        /\ requests[r].invoice \in Invoices
        /\ requests[r].amount \in Amounts
    BY <1>5 DEF VerifyCommit, TypeOK, Request, NoRequest
  <2>2. [payments[requests[r].payment] EXCEPT !.status = "verified"] \in SalesPayment
    BY <2>1 DEF TypeOK, SalesPayment
  <2>3. payments' \in [Payments -> SalesPayment]
    BY <1>5, <2>1, <2>2 DEF VerifyCommit, TypeOK
  <2>4. invoices' \in [Invoices -> SalesInvoice]
    BY <1>5, <2>1, ApplyType DEF VerifyCommit, TypeOK
  <2> QED
    BY <1>5, <2>3, <2>4, FinishType DEF VerifyCommit, TypeOK
<1> QED
  BY <1>1, <1>2, <1>3, <1>4, <1>5 DEF PaymentStep

\* The operations on receipts keep the types.
LEMMA ReceiptStepType == TypeOK /\ ReceiptStep => TypeOK'
<1> SUFFICES ASSUME TypeOK, ReceiptStep PROVE TypeOK'
  OBVIOUS
<1>1. ASSUME NEW r \in Requests, NEW m \in Mitras, NEW new \in Allocations,
             ReceiptCreateCheck(r, m, new)
      PROVE  TypeOK'
  <2>1. [op |-> "receipt_create", new |-> new] \in Request
    BY DEF Request
  <2> QED
    BY <1>1, <2>1, RequestsType DEF ReceiptCreateCheck, Begin, TypeOK
<1>2. ASSUME NEW r \in Requests, NEW c \in Receipts, ReceiptCreateCommit(r, c)
      PROVE  TypeOK'
  <2>1. requests[r].new \in Allocations
    BY <1>2 DEF ReceiptCreateCommit, TypeOK, Request, NoRequest
  <2>2. [row |-> "live", rows |-> requests[r].new] \in SalesReceipt
    BY <2>1 DEF SalesReceipt
  <2>3. invoices' \in [Invoices -> SalesInvoice]
    BY <1>2, <2>1, ApplyAllType DEF ReceiptCreateCommit, TypeOK
  <2> QED
    BY <1>2, <2>2, <2>3, FinishType DEF ReceiptCreateCommit, TypeOK
<1>3. ASSUME NEW r \in Requests, NEW c \in Receipts, NEW new \in Allocations,
             ReceiptUpdateFind(r, c, new)
      PROVE  TypeOK'
  <2>1. [op |-> "update_found", receipt |-> c, new |-> new] \in Request
    BY DEF Request
  <2> QED
    BY <1>3, <2>1, RequestsType DEF ReceiptUpdateFind, Begin, TypeOK
<1>4. ASSUME NEW r \in Requests, NEW m \in Mitras, ReceiptUpdateLoad(r, m)
      PROVE  TypeOK'
  <2>1. requests[r].receipt \in Receipts /\ requests[r].new \in Allocations
    BY <1>4 DEF ReceiptUpdateLoad, TypeOK, Request, NoRequest
  <2>2. receipts[requests[r].receipt].rows \in Allocations
    BY <2>1 DEF TypeOK, SalesReceipt
  <2>3. [op |-> "update_rows", receipt |-> requests[r].receipt, new |-> requests[r].new,
         old |-> receipts[requests[r].receipt].rows] \in Request
    BY <2>1, <2>2 DEF Request
  <2> QED
    BY <1>4, <2>3, RequestsType DEF ReceiptUpdateLoad, Continue, TypeOK
<1>5. ASSUME NEW r \in Requests, ReceiptUpdateCommit(r)
      PROVE  TypeOK'
  <2>1. /\ requests[r].receipt \in Receipts
        /\ requests[r].new \in Allocations
        /\ requests[r].old \in Allocations
    BY <1>5 DEF ReceiptUpdateCommit, TypeOK, Request, NoRequest
  <2>2. reverseReceiptAllocations(invoices, requests[r].old) \in [Invoices -> SalesInvoice]
    BY <2>1, ReverseAllType DEF TypeOK
  <2>3. invoices' \in [Invoices -> SalesInvoice]
    BY <1>5, <2>1, <2>2, ApplyAllType DEF ReceiptUpdateCommit
  <2>4. [receipts[requests[r].receipt] EXCEPT !.rows = requests[r].new] \in SalesReceipt
    BY <2>1 DEF TypeOK, SalesReceipt
  <2> QED
    BY <1>5, <2>1, <2>3, <2>4, FinishType DEF ReceiptUpdateCommit, TypeOK
<1>6. ASSUME NEW r \in Requests, NEW c \in Receipts, ReceiptDeleteFind(r, c)
      PROVE  TypeOK'
  <2>1. [op |-> "delete_found", receipt |-> c] \in Request
    BY DEF Request
  <2> QED
    BY <1>6, <2>1, RequestsType DEF ReceiptDeleteFind, Begin, TypeOK
<1>7. ASSUME NEW r \in Requests, ReceiptDeleteLoad(r)
      PROVE  TypeOK'
  <2>1. requests[r].receipt \in Receipts
    BY <1>7 DEF ReceiptDeleteLoad, TypeOK, Request, NoRequest
  <2>2. receipts[requests[r].receipt].rows \in Allocations
    BY <2>1 DEF TypeOK, SalesReceipt
  <2>3. [op |-> "delete_rows", receipt |-> requests[r].receipt,
         old |-> receipts[requests[r].receipt].rows] \in Request
    BY <2>1, <2>2 DEF Request
  <2> QED
    BY <1>7, <2>3, RequestsType DEF ReceiptDeleteLoad, Continue, TypeOK
<1>8. ASSUME NEW r \in Requests, ReceiptDeleteCommit(r)
      PROVE  TypeOK'
  <2>1. requests[r].receipt \in Receipts /\ requests[r].old \in Allocations
    BY <1>8 DEF ReceiptDeleteCommit, TypeOK, Request, NoRequest
  <2>2. invoices' \in [Invoices -> SalesInvoice]
    BY <1>8, <2>1, ReverseAllType DEF ReceiptDeleteCommit, TypeOK
  <2>3. [receipts[requests[r].receipt] EXCEPT !.row = "deleted"] \in SalesReceipt
    BY <2>1 DEF TypeOK, SalesReceipt
  <2> QED
    BY <1>8, <2>1, <2>2, <2>3, FinishType DEF ReceiptDeleteCommit, TypeOK
<1> QED
  BY <1>1, <1>2, <1>3, <1>4, <1>5, <1>6, <1>7, <1>8 DEF ReceiptStep

\* Every step keeps the types.
LEMMA NextType == TypeOK /\ [Next]_vars => TypeOK'
<1> SUFFICES ASSUME TypeOK, [Next]_vars PROVE TypeOK'
  OBVIOUS
<1>1. ASSUME NEW r \in Requests, Abort(r) PROVE TypeOK'
  BY <1>1, FinishType DEF Abort, TypeOK
<1>2. CASE UNCHANGED vars
  BY <1>2 DEF vars, TypeOK
<1> QED
  BY <1>1, <1>2, InvoiceStepType, PaymentStepType, ReceiptStepType DEF Next

\* Type correctness, for any number of invoices, documents and concurrent
\* handlers: in particular no sequence of reversals drives a paid amount
\* below zero.
THEOREM TypeCorrect == Spec => []TypeOK
  BY InitType, NextType, PTL DEF Spec

----------------------------------------------------------------------------
(* The stored payment status.  PaymentStatusDerived is inductive given the *)
(* types: each path that writes an amount derives the status again.        *)

\* The refresh derives the status whatever it was.
LEMMA RefreshDerived ==
    ASSUME NEW v \in SalesInvoice
    PROVE  StatusDerived(refreshSalesInvoicePaymentStatus(v))
  BY DEF StatusDerived, refreshSalesInvoicePaymentStatus, SalesInvoice

\* Apply tests only paid >= total, which agrees because an amount of at
\* least one cent fits the remaining balance only if the total is positive.
LEMMA ApplyDerived ==
    ASSUME NEW v \in SalesInvoice, NEW a \in Amounts, mayApply(v, a)
    PROVE  StatusDerived(applySalesInvoicePayment(v, a))
<1>1. v.grandTotal \in Nat /\ v.paidAmount \in Nat /\ a \in Nat /\ a > 0
  BY MaxAmountAssumption DEF SalesInvoice, Amounts, Totals
<1>2. v.grandTotal > 0
  BY <1>1 DEF mayApply, remaining
<1> DEFINE w == applySalesInvoicePayment(v, a)
<1>3. /\ w.paidAmount = v.paidAmount + a
      /\ w.grandTotal = v.grandTotal
      /\ w.paymentStatus = IF v.paidAmount + a >= v.grandTotal THEN "paid"
                           ELSE IF v.paidAmount + a > 0 THEN "partially_paid" ELSE "unpaid"
  BY DEF applySalesInvoicePayment, SalesInvoice
<1> QED
  BY <1>1, <1>2, <1>3 DEF StatusDerived

\* A reversal ends with a refresh.
LEMMA ReverseDerived ==
    ASSUME NEW v \in SalesInvoice, NEW a \in Amounts
    PROVE  StatusDerived(reverseSalesInvoicePayment(v, a))
<1> DEFINE w == [v EXCEPT !.paidAmount = IF v.paidAmount < a THEN 0 ELSE v.paidAmount - a]
<1>1. w \in SalesInvoice
  BY MaxAmountAssumption DEF SalesInvoice, Amounts
<1> QED
  BY <1>1, RefreshDerived DEF reverseSalesInvoicePayment

\* Applying a receipt derives the status of every invoice it touches.
LEMMA ApplyAllDerived ==
    ASSUME NEW f \in [Invoices -> SalesInvoice], NEW new \in Allocations,
           mayApplyAll(f, new), NEW i \in Invoices, StatusDerived(f[i])
    PROVE  StatusDerived(applyReceiptAllocations(f, new)[i])
<1>1. CASE new[i] > 0
  <2>1. new[i] \in Amounts
    BY <1>1, MaxAmountAssumption DEF Allocations, Amounts, Totals
  <2> QED
    BY <1>1, <2>1, ApplyDerived DEF applyReceiptAllocations, mayApplyAll
<1>2. CASE ~(new[i] > 0)
  BY <1>2 DEF applyReceiptAllocations
<1> QED
  BY <1>1, <1>2

\* Giving a receipt back does, too.
LEMMA ReverseAllDerived ==
    ASSUME NEW f \in [Invoices -> SalesInvoice], NEW old \in Allocations,
           NEW i \in Invoices, StatusDerived(f[i])
    PROVE  StatusDerived(reverseReceiptAllocations(f, old)[i])
<1>1. CASE old[i] > 0
  <2>1. old[i] \in Amounts
    BY <1>1, MaxAmountAssumption DEF Allocations, Amounts, Totals
  <2> QED
    BY <1>1, <2>1, ReverseDerived DEF reverseReceiptAllocations
<1>2. CASE ~(old[i] > 0)
  BY <1>2 DEF reverseReceiptAllocations
<1> QED
  BY <1>1, <1>2

\* Every step leaves every status derived.
LEMMA DerivedStep ==
    ASSUME TypeOK, PaymentStatusDerived, [Next]_vars
    PROVE  PaymentStatusDerived'
<1> SUFFICES ASSUME NEW i \in Invoices PROVE StatusDerived(invoices'[i])
  BY DEF PaymentStatusDerived
<1> USE DEF PaymentStatusDerived
<1>1. CASE invoices' = invoices
  BY <1>1
<1>2. ASSUME NEW j \in Invoices, NEW m \in Mitras, NEW t \in Totals, InvoiceCreate(j, m, t)
      PROVE  StatusDerived(invoices'[i])
  BY <1>2, MaxAmountAssumption DEF InvoiceCreate, TypeOK, StatusDerived, Totals
<1>3. ASSUME NEW j \in Invoices, NEW m \in Mitras, NEW t \in Totals, InvoiceUpdate(j, m, t)
      PROVE  StatusDerived(invoices'[i])
  <2>1. [invoices[j] EXCEPT !.mitra = m, !.grandTotal = t] \in SalesInvoice
    BY DEF TypeOK, SalesInvoice
  <2> QED
    BY <1>3, <2>1, RefreshDerived DEF InvoiceUpdate, TypeOK
<1>4. ASSUME NEW j \in Invoices, InvoiceDelete(j)
      PROVE  StatusDerived(invoices'[i])
  BY <1>4 DEF InvoiceDelete, TypeOK, StatusDerived, SalesInvoice
<1>5. ASSUME NEW r \in Requests, SetStatus(r)
      PROVE  StatusDerived(invoices'[i])
  BY <1>5 DEF SetStatus, TypeOK, StatusDerived, SalesInvoice
<1>6. ASSUME NEW r \in Requests, VerifyCommit(r)
      PROVE  StatusDerived(invoices'[i])
  <2>1. requests[r].invoice \in Invoices /\ requests[r].amount \in Amounts
    BY <1>6 DEF VerifyCommit, TypeOK, Request, NoRequest
  <2> QED
    BY <1>6, <2>1, ApplyDerived DEF VerifyCommit, TypeOK
<1>7. ASSUME NEW r \in Requests, NEW c \in Receipts, ReceiptCreateCommit(r, c)
      PROVE  StatusDerived(invoices'[i])
  <2>1. requests[r].new \in Allocations
    BY <1>7 DEF ReceiptCreateCommit, TypeOK, Request, NoRequest
  <2> QED
    BY <1>7, <2>1, ApplyAllDerived DEF ReceiptCreateCommit, TypeOK
<1>8. ASSUME NEW r \in Requests, ReceiptUpdateCommit(r)
      PROVE  StatusDerived(invoices'[i])
  <2>1. requests[r].new \in Allocations /\ requests[r].old \in Allocations
    BY <1>8 DEF ReceiptUpdateCommit, TypeOK, Request, NoRequest
  <2> DEFINE given == reverseReceiptAllocations(invoices, requests[r].old)
  <2>2. given \in [Invoices -> SalesInvoice]
    BY <2>1, ReverseAllType DEF TypeOK
  <2>3. StatusDerived(given[i])
    BY <2>1, ReverseAllDerived DEF TypeOK
  <2>4. mayApplyAll(given, requests[r].new) /\ invoices' = applyReceiptAllocations(given, requests[r].new)
    BY <1>8 DEF ReceiptUpdateCommit
  <2> HIDE DEF given
  <2> QED
    BY <2>1, <2>2, <2>3, <2>4, ApplyAllDerived
<1>9. ASSUME NEW r \in Requests, ReceiptDeleteCommit(r)
      PROVE  StatusDerived(invoices'[i])
  <2>1. requests[r].old \in Allocations
    BY <1>9 DEF ReceiptDeleteCommit, TypeOK, Request, NoRequest
  <2> QED
    BY <1>9, <2>1, ReverseAllDerived DEF ReceiptDeleteCommit, TypeOK
<1>10. CASE InvoiceStep
  BY <1>1, <1>2, <1>3, <1>4, <1>5, <1>10
  DEF InvoiceStep, ConfirmRead, CancelRead, BackToDraftRead, CountPayments, CountAllocations
<1>11. CASE PaymentStep
  BY <1>1, <1>6, <1>11
  DEF PaymentStep, PaymentCreateConfirmed, PaymentCreateBalance, PaymentCreateInsert, VerifyRead
<1>12. CASE ReceiptStep
  BY <1>1, <1>7, <1>8, <1>9, <1>12
  DEF ReceiptStep, ReceiptCreateCheck, ReceiptUpdateFind, ReceiptUpdateLoad,
      ReceiptDeleteFind, ReceiptDeleteLoad
<1> QED
  BY <1>1, <1>10, <1>11, <1>12 DEF Next, Abort, vars

\* payment_status never disagrees with paid_amount and grand_total, for any
\* number of handlers applying, reversing and editing at the same time.
THEOREM StatusAlwaysDerived == Spec => []PaymentStatusDerived
<1>1. Init => PaymentStatusDerived
  <2> SUFFICES ASSUME Init, NEW i \in Invoices PROVE StatusDerived(invoices[i])
    BY DEF PaymentStatusDerived
  <2>1. /\ invoices[i].paidAmount = 0 /\ invoices[i].grandTotal = 0
        /\ invoices[i].paymentStatus = "unpaid"
    BY DEF Init
  <2> QED
    BY <2>1 DEF StatusDerived
<1> QED
  BY <1>1, DerivedStep, TypeCorrect, PTL DEF Spec

----------------------------------------------------------------------------
(* Money is added only within the balance of a confirmed invoice. *)

\* Reversing changes neither the row, the status nor the total, and never
\* adds money.
LEMMA ReverseAllOnlyGivesBack ==
    ASSUME NEW f \in [Invoices -> SalesInvoice], NEW old \in Allocations, NEW i \in Invoices
    PROVE  LET g == reverseReceiptAllocations(f, old)[i]
           IN  /\ g.row = f[i].row /\ g.status = f[i].status
               /\ g.grandTotal = f[i].grandTotal
               /\ g.paidAmount \in Nat /\ g.paidAmount <= f[i].paidAmount
<1>1. f[i].paidAmount \in Nat /\ old[i] \in Nat
  BY MaxAmountAssumption DEF SalesInvoice, Allocations, Totals
<1>2. CASE old[i] > 0
  BY <1>1, <1>2
  DEF reverseReceiptAllocations, reverseSalesInvoicePayment,
      refreshSalesInvoicePaymentStatus, SalesInvoice
<1>3. CASE ~(old[i] > 0)
  BY <1>1, <1>3 DEF reverseReceiptAllocations
<1> QED
  BY <1>2, <1>3

\* Applying needs a live, confirmed invoice and stays within its total.
LEMMA ApplyWithinBalance ==
    ASSUME NEW v \in SalesInvoice, NEW a \in Amounts, mayApply(v, a)
    PROVE  LET w == applySalesInvoicePayment(v, a)
           IN  v.row = "live" /\ v.status = "confirmed" /\ w.paidAmount <= w.grandTotal
<1>1. v.grandTotal \in Nat /\ v.paidAmount \in Nat /\ a \in Nat
  BY MaxAmountAssumption DEF SalesInvoice, Amounts, Totals
<1> QED
  BY <1>1 DEF mayApply, remaining, applySalesInvoicePayment, SalesInvoice

\* Applying a receipt adds money only where applying one amount may.
LEMMA ApplyAllWithinBalance ==
    ASSUME NEW f \in [Invoices -> SalesInvoice], NEW new \in Allocations,
           mayApplyAll(f, new), NEW i \in Invoices
    PROVE  LET w == applyReceiptAllocations(f, new)[i]
           IN  \/ w = f[i]
               \/ f[i].row = "live" /\ f[i].status = "confirmed" /\ w.paidAmount <= w.grandTotal
<1>1. CASE new[i] > 0
  <2>1. new[i] \in Amounts
    BY <1>1, MaxAmountAssumption DEF Allocations, Amounts, Totals
  <2> QED
    BY <1>1, <2>1, ApplyWithinBalance DEF applyReceiptAllocations, mayApplyAll
<1>2. CASE ~(new[i] > 0)
  BY <1>2 DEF applyReceiptAllocations
<1> QED
  BY <1>1, <1>2

\* No step adds money in any other way.
LEMMA GainStep ==
    ASSUME TypeOK, Next, NEW i \in Invoices
    PROVE  GainWithinBalance(i)
<1>0. invoices[i] \in SalesInvoice /\ invoices[i].paidAmount \in Nat
  BY DEF TypeOK, SalesInvoice
<1>1. CASE invoices'[i].paidAmount = invoices[i].paidAmount
  BY <1>0, <1>1 DEF GainWithinBalance
<1>2. ASSUME NEW j \in Invoices, NEW m \in Mitras, NEW t \in Totals, InvoiceCreate(j, m, t)
      PROVE  GainWithinBalance(i)
  <2>1. invoices'[i].paidAmount = 0 \/ invoices'[i] = invoices[i]
    BY <1>2 DEF InvoiceCreate, TypeOK
  <2> QED
    BY <1>0, <2>1 DEF GainWithinBalance
<1>3. ASSUME NEW j \in Invoices, NEW m \in Mitras, NEW t \in Totals, InvoiceUpdate(j, m, t)
      PROVE  invoices'[i].paidAmount = invoices[i].paidAmount
  BY <1>3 DEF InvoiceUpdate, TypeOK, refreshSalesInvoicePaymentStatus, SalesInvoice
<1>4. ASSUME NEW j \in Invoices, InvoiceDelete(j)
      PROVE  invoices'[i].paidAmount = invoices[i].paidAmount
  BY <1>4 DEF InvoiceDelete, TypeOK, SalesInvoice
<1>5. ASSUME NEW r \in Requests, SetStatus(r)
      PROVE  invoices'[i].paidAmount = invoices[i].paidAmount
  BY <1>5 DEF SetStatus, TypeOK, SalesInvoice
<1>6. ASSUME NEW r \in Requests, VerifyCommit(r)
      PROVE  GainWithinBalance(i)
  <2>1. requests[r].invoice \in Invoices /\ requests[r].amount \in Amounts
    BY <1>6 DEF VerifyCommit, TypeOK, Request, NoRequest
  <2>2. CASE i = requests[r].invoice
    BY <1>6, <2>1, <2>2, ApplyWithinBalance DEF VerifyCommit, TypeOK, GainWithinBalance, Live
  <2>3. CASE i /= requests[r].invoice
    BY <1>1, <1>6, <2>1, <2>3 DEF VerifyCommit, TypeOK
  <2> QED
    BY <2>2, <2>3
<1>7. ASSUME NEW r \in Requests, NEW c \in Receipts, ReceiptCreateCommit(r, c)
      PROVE  GainWithinBalance(i)
  <2>1. requests[r].new \in Allocations
    BY <1>7 DEF ReceiptCreateCommit, TypeOK, Request, NoRequest
  <2>2. \/ invoices'[i] = invoices[i]
        \/ /\ invoices[i].row = "live" /\ invoices[i].status = "confirmed"
           /\ invoices'[i].paidAmount <= invoices'[i].grandTotal
    BY <1>7, <2>1, ApplyAllWithinBalance DEF ReceiptCreateCommit, TypeOK
  <2> QED
    BY <1>1, <2>2 DEF GainWithinBalance, Live
<1>8. ASSUME NEW r \in Requests, ReceiptUpdateCommit(r)
      PROVE  GainWithinBalance(i)
  <2>1. requests[r].new \in Allocations /\ requests[r].old \in Allocations
    BY <1>8 DEF ReceiptUpdateCommit, TypeOK, Request, NoRequest
  <2> DEFINE given == reverseReceiptAllocations(invoices, requests[r].old)
  <2>2. given \in [Invoices -> SalesInvoice]
    BY <2>1, ReverseAllType DEF TypeOK
  <2>3. /\ given[i].row = invoices[i].row /\ given[i].status = invoices[i].status
        /\ given[i].paidAmount \in Nat /\ given[i].paidAmount <= invoices[i].paidAmount
    BY <2>1, ReverseAllOnlyGivesBack DEF TypeOK
  <2>4. mayApplyAll(given, requests[r].new) /\ invoices' = applyReceiptAllocations(given, requests[r].new)
    BY <1>8 DEF ReceiptUpdateCommit
  <2> HIDE DEF given
  <2>5. \/ invoices'[i] = given[i]
        \/ /\ given[i].row = "live" /\ given[i].status = "confirmed"
           /\ invoices'[i].paidAmount <= invoices'[i].grandTotal
    BY <2>1, <2>2, <2>4, ApplyAllWithinBalance
  <2> QED
    BY <1>0, <2>3, <2>5 DEF GainWithinBalance, Live
<1>9. ASSUME NEW r \in Requests, ReceiptDeleteCommit(r)
      PROVE  GainWithinBalance(i)
  <2>1. requests[r].old \in Allocations
    BY <1>9 DEF ReceiptDeleteCommit, TypeOK, Request, NoRequest
  <2>2. invoices'[i].paidAmount \in Nat /\ invoices'[i].paidAmount <= invoices[i].paidAmount
    BY <1>9, <2>1, ReverseAllOnlyGivesBack DEF ReceiptDeleteCommit, TypeOK
  <2> QED
    BY <1>0, <2>2 DEF GainWithinBalance
<1>10. CASE InvoiceStep
  BY <1>1, <1>2, <1>3, <1>4, <1>5, <1>10
  DEF InvoiceStep, ConfirmRead, CancelRead, BackToDraftRead, CountPayments, CountAllocations
<1>11. CASE PaymentStep
  BY <1>1, <1>6, <1>11
  DEF PaymentStep, PaymentCreateConfirmed, PaymentCreateBalance, PaymentCreateInsert, VerifyRead
<1>12. CASE ReceiptStep
  BY <1>1, <1>7, <1>8, <1>9, <1>12
  DEF ReceiptStep, ReceiptCreateCheck, ReceiptUpdateFind, ReceiptUpdateLoad,
      ReceiptDeleteFind, ReceiptDeleteLoad
<1> QED
  BY <1>1, <1>10, <1>11, <1>12 DEF Next, Abort

\* Whatever a handler read before it took the row lock, money is added only
\* to a live, confirmed invoice and never past its total.
THEOREM GainsAlwaysWithinBalance == Spec => GainsWithinBalance
<1>1. TypeOK /\ [Next]_vars => [\A i \in Invoices : GainWithinBalance(i)]_vars
  BY GainStep DEF vars
<1> QED
  BY <1>1, TypeCorrect, PTL DEF Spec, GainsWithinBalance

----------------------------------------------------------------------------
(* The balance is conserved.  A handler acts on what it read earlier; while *)
(* handlers write distinct documents, what it read still holds.             *)

\* What a handler read of the document it is about to write is still so.
Fresh(r) ==
    LET m == requests[r] IN
    /\ m.op = "verify" =>
          /\ payments[m.payment].status = "pending"
          /\ payments[m.payment].invoice = m.invoice
          /\ payments[m.payment].amount = m.amount
    /\ m.op \in {"update_found", "delete_found"} => receipts[m.receipt].row = "live"
    /\ m.op \in {"update_rows", "delete_rows"} =>
          receipts[m.receipt].row = "live" /\ receipts[m.receipt].rows = m.old

\* What the counts of a handler that reopens an invoice found is still so.
StillUnpaid(r) ==
    LET m == requests[r] IN
    /\ m.op = "count_allocations" =>
          \A p \in Payments : payments[p].status = "verified" => payments[p].invoice /= m.invoice
    /\ m.op = "set_status" /\ m.status = "draft" => invoices[m.invoice].paidAmount = 0

\* An invoice that was not created yet, or is a draft, is not credited.
UnpaidUntilConfirmed ==
    \A i \in Invoices :
        invoices[i].row = "absent" \/ invoices[i].status = "draft" => invoices[i].paidAmount = 0

IInv ==
    /\ TypeOK
    /\ BalanceConserved
    /\ UnpaidUntilConfirmed
    /\ DistinctDocuments
    /\ \A r \in Requests : Fresh(r) /\ StillUnpaid(r)

\* Documents hold amounts between nothing and the bound.
LEMMA HeldType ==
    ASSUME TypeOK, NEW d \in Documents, NEW i \in Invoices
    PROVE  HeldOn(d, i) \in Totals
<1>1. CASE d \in Payments
  <2>1. payments[d].amount \in Totals
    BY <1>1, MaxAmountAssumption DEF TypeOK, SalesPayment, Amounts, Totals
  <2> QED
    BY <1>1, <2>1, MaxAmountAssumption DEF HeldOn, Totals
<1>2. CASE d \notin Payments
  <2>1. d \in Receipts
    BY <1>2 DEF Documents
  <2>2. receipts[d].rows[i] \in Totals
    BY <2>1 DEF TypeOK, SalesReceipt, Allocations
  <2> QED
    BY <1>2, <2>2, MaxAmountAssumption DEF HeldOn, Totals
<1> QED
  BY <1>1, <1>2

\* The same after a step.
LEMMA HeldTypeNext ==
    ASSUME TypeOK', NEW d \in Documents, NEW i \in Invoices
    PROVE  HeldOn(d, i)' \in Totals
<1>1. CASE d \in Payments
  <2>1. payments'[d].amount \in Totals
    BY <1>1, MaxAmountAssumption DEF TypeOK, SalesPayment, Amounts, Totals
  <2> QED
    BY <1>1, <2>1, MaxAmountAssumption DEF HeldOn, Totals
<1>2. CASE d \notin Payments
  <2>1. d \in Receipts
    BY <1>2 DEF Documents
  <2>2. receipts'[d].rows[i] \in Totals
    BY <2>1 DEF TypeOK, SalesReceipt, Allocations
  <2> QED
    BY <1>2, <2>2, MaxAmountAssumption DEF HeldOn, Totals
<1> QED
  BY <1>1, <1>2

\* A step that moves no money.
Quiet ==
    /\ \A d \in Documents, i \in Invoices : HeldOn(d, i)' = HeldOn(d, i)
    /\ \A i \in Invoices : invoices'[i].paidAmount = invoices[i].paidAmount

\* A step that writes the row of invoice i and no other; the row counts as
\* absent or as a draft afterwards only if it is not credited.
Edits(i) ==
    /\ \A j \in Invoices \ {i} : invoices'[j] = invoices[j]
    /\ invoices'[i].row = "absent" \/ invoices'[i].status = "draft" => invoices[i].paidAmount = 0

\* A step that moves the money of document d and of no other.
Moves(d) ==
    /\ \A e \in Documents \ {d}, i \in Invoices : HeldOn(e, i)' = HeldOn(e, i)
    /\ \A i \in Invoices :
          /\ invoices'[i].paidAmount = invoices[i].paidAmount + HeldOn(d, i)' - HeldOn(d, i)
          /\ invoices'[i].row = invoices[i].row
          /\ invoices'[i].status = invoices[i].status
          /\ invoices'[i].grandTotal = invoices[i].grandTotal
          /\ HeldOn(d, i)' > HeldOn(d, i) =>
                /\ Live(i) /\ invoices[i].status = "confirmed"
                /\ invoices'[i].paidAmount <= invoices[i].grandTotal

\* Documents are finitely many.
LEMMA DocumentsFinite == IsFiniteSet(Documents)
  BY DocumentsAssumption, FS_Union DEF Documents

\* The balance follows the document that moved.
LEMMA BalanceFollows ==
    ASSUME TypeOK, TypeOK', NEW d \in Documents, NEW i \in Invoices,
           \A e \in Documents \ {d} : HeldOn(e, i)' = HeldOn(e, i)
    PROVE  Balance(i)' = Balance(i) - HeldOn(d, i) + HeldOn(d, i)'
<1> DEFINE f == [e \in Documents |-> HeldOn(e, i)]
           g == [e \in Documents |-> HeldOn(e, i)']
<1>1. f \in [Documents -> Nat]
  <2> SUFFICES ASSUME NEW e \in Documents PROVE HeldOn(e, i) \in Nat
    OBVIOUS
  <2> QED BY HeldType, MaxAmountAssumption DEF Totals
<1>2. g \in [Documents -> Nat]
  <2> SUFFICES ASSUME NEW e \in Documents PROVE HeldOn(e, i)' \in Nat
    OBVIOUS
  <2> QED BY HeldTypeNext, MaxAmountAssumption DEF Totals
<1>3. \A e \in Documents \ {d} : g[e] = f[e]
  OBVIOUS
<1>4. f[d] = HeldOn(d, i) /\ g[d] = HeldOn(d, i)'
  OBVIOUS
<1>5. Balance(i) = SumOver(f, Documents)
  BY DEF Balance
<1>6. Balance(i)' = SumOver(g, Documents)
  BY DEF Balance, Documents
<1> HIDE DEF f, g
<1>7. SumOver(g, Documents) = SumOver(f, Documents) - f[d] + g[d]
  BY <1>1, <1>2, <1>3, DocumentsFinite, SumUpdate
<1> QED
  BY <1>4, <1>5, <1>6, <1>7

\* The balance stays where nothing moved.
LEMMA BalanceStays ==
    ASSUME TypeOK, TypeOK', NEW i \in Invoices,
           \A e \in Documents : HeldOn(e, i)' = HeldOn(e, i)
    PROVE  Balance(i)' = Balance(i)
<1> DEFINE f == [e \in Documents |-> HeldOn(e, i)]
           g == [e \in Documents |-> HeldOn(e, i)']
<1>1. f = g
  OBVIOUS
<1>2. Balance(i) = SumOver(f, Documents)
  BY DEF Balance
<1>3. Balance(i)' = SumOver(g, Documents)
  BY DEF Balance, Documents
<1> HIDE DEF f, g
<1> QED
  BY <1>1, <1>2, <1>3

\* No document holds more on an invoice than the invoice is credited with.
LEMMA HeldWithinBalance ==
    ASSUME TypeOK, BalanceConserved, NEW d \in Documents, NEW i \in Invoices
    PROVE  HeldOn(d, i) <= invoices[i].paidAmount
<1> DEFINE f == [e \in Documents |-> HeldOn(e, i)]
<1>1. f \in [Documents -> Nat]
  <2> SUFFICES ASSUME NEW e \in Documents PROVE HeldOn(e, i) \in Nat
    OBVIOUS
  <2> QED BY HeldType, MaxAmountAssumption DEF Totals
<1>2. f[d] = HeldOn(d, i) /\ invoices[i].paidAmount = SumOver(f, Documents)
  BY DEF BalanceConserved, Balance
<1> HIDE DEF f
<1> QED
  BY <1>1, <1>2, DocumentsFinite, SumTerm

\* An invoice on which no document holds money has a balance of zero.
LEMMA NothingHeld ==
    ASSUME TypeOK, NEW i \in Invoices, \A d \in Documents : HeldOn(d, i) = 0
    PROVE  Balance(i) = 0
<1> DEFINE f == [e \in Documents |-> HeldOn(e, i)]
<1>1. f \in [Documents -> Nat] /\ \A d \in Documents : f[d] = 0
  OBVIOUS
<1>2. Balance(i) = SumOver(f, Documents)
  BY DEF Balance
<1> HIDE DEF f
<1> QED
  BY <1>1, <1>2, DocumentsFinite, SumZero

\* A reversal of no more than was credited is exact.
LEMMA ReverseExact ==
    ASSUME NEW f \in [Invoices -> SalesInvoice], NEW old \in Allocations, NEW i \in Invoices,
           old[i] <= f[i].paidAmount
    PROVE  LET g == reverseReceiptAllocations(f, old)[i]
           IN  /\ g.row = f[i].row /\ g.status = f[i].status
               /\ g.grandTotal = f[i].grandTotal
               /\ g.paidAmount = f[i].paidAmount - old[i]
<1>1. f[i].paidAmount \in Nat /\ old[i] \in Nat
  BY MaxAmountAssumption DEF SalesInvoice, Allocations, Totals
<1>2. CASE old[i] > 0
  BY <1>1, <1>2
  DEF reverseReceiptAllocations, reverseSalesInvoicePayment,
      refreshSalesInvoicePaymentStatus, SalesInvoice
<1>3. CASE ~(old[i] > 0)
  BY <1>1, <1>3 DEF reverseReceiptAllocations
<1> QED
  BY <1>2, <1>3

\* What applying one amount does to the columns the book reads.
LEMMA ApplyExact ==
    ASSUME NEW v \in SalesInvoice, NEW a \in Amounts, mayApply(v, a)
    PROVE  LET w == applySalesInvoicePayment(v, a)
           IN  /\ w.row = v.row /\ w.status = v.status /\ w.grandTotal = v.grandTotal
               /\ w.paidAmount = v.paidAmount + a
               /\ v.row = "live" /\ v.status = "confirmed"
               /\ w.paidAmount <= v.grandTotal
<1>1. v.grandTotal \in Nat /\ v.paidAmount \in Nat /\ a \in Nat
  BY MaxAmountAssumption DEF SalesInvoice, Amounts, Totals
<1> QED
  BY <1>1 DEF mayApply, remaining, applySalesInvoicePayment, SalesInvoice

\* The same for the rows of a receipt.
LEMMA ApplyAllExact ==
    ASSUME NEW f \in [Invoices -> SalesInvoice], NEW new \in Allocations,
           mayApplyAll(f, new), NEW i \in Invoices
    PROVE  LET w == applyReceiptAllocations(f, new)[i]
           IN  /\ w.row = f[i].row /\ w.status = f[i].status /\ w.grandTotal = f[i].grandTotal
               /\ w.paidAmount = f[i].paidAmount + new[i]
               /\ new[i] > 0 =>
                     /\ f[i].row = "live" /\ f[i].status = "confirmed"
                     /\ w.paidAmount <= f[i].grandTotal
<1>0. f[i].paidAmount \in Nat /\ new[i] \in Nat
  BY MaxAmountAssumption DEF SalesInvoice, Allocations, Totals
<1>1. CASE new[i] > 0
  <2>1. new[i] \in Amounts
    BY <1>1, MaxAmountAssumption DEF Allocations, Amounts, Totals
  <2> QED
    BY <1>1, <2>1, ApplyExact DEF applyReceiptAllocations, mayApplyAll
<1>2. CASE ~(new[i] > 0)
  BY <1>0, <1>2 DEF applyReceiptAllocations
<1> QED
  BY <1>1, <1>2

\* Verifying a payment moves that payment.
LEMMA VerifyMoves ==
    ASSUME IInv, NEW r \in Requests, NEW p \in Payments, VerifyCommit(r), p = requests[r].payment
    PROVE  Moves(p)
<1> DEFINE m == requests[r]
<1>1. m.invoice \in Invoices /\ m.amount \in Amounts
  BY DEF IInv, VerifyCommit, TypeOK, Request, NoRequest
<1>2. /\ payments[p].status = "pending"
      /\ payments[p].invoice = m.invoice /\ payments[p].amount = m.amount
  BY DEF IInv, Fresh, VerifyCommit
<1>3. payments[p] \in SalesPayment
  BY DEF IInv, TypeOK
<1>4. ASSUME NEW e \in Documents \ {p}, NEW i \in Invoices
      PROVE  HeldOn(e, i)' = HeldOn(e, i)
  BY <1>4 DEF HeldOn, VerifyCommit, IInv, TypeOK, Documents
<1>5. ASSUME NEW i \in Invoices
      PROVE  /\ HeldOn(p, i) = 0
             /\ HeldOn(p, i)' = IF i = m.invoice THEN m.amount ELSE 0
  <2>1. /\ payments'[p].status = "verified"
        /\ payments'[p].invoice = m.invoice /\ payments'[p].amount = m.amount
    BY <1>2, <1>3 DEF VerifyCommit, IInv, TypeOK, SalesPayment
  <2> HIDE DEF m
  <2> QED
    BY <1>2, <2>1 DEF HeldOn
<1>6. ASSUME NEW i \in Invoices, i /= m.invoice
      PROVE  invoices'[i] = invoices[i]
  BY <1>1, <1>6 DEF VerifyCommit, IInv, TypeOK
<1>7. LET v == invoices[m.invoice]
          w == invoices'[m.invoice]
      IN  /\ w.row = v.row /\ w.status = v.status /\ w.grandTotal = v.grandTotal
          /\ w.paidAmount = v.paidAmount + m.amount
          /\ v.row = "live" /\ v.status = "confirmed"
          /\ w.paidAmount <= v.grandTotal
  BY <1>1, ApplyExact DEF VerifyCommit, IInv, TypeOK
<1>8. ASSUME NEW i \in Invoices
      PROVE  invoices[i].paidAmount \in Nat /\ m.amount \in Nat
  BY <1>1, MaxAmountAssumption DEF IInv, TypeOK, SalesInvoice, Amounts
<1> HIDE DEF m
<1> QED
  BY <1>1, <1>4, <1>5, <1>6, <1>7, <1>8 DEF Moves, Live

\* Creating a receipt moves that receipt.
LEMMA CreateMoves ==
    ASSUME IInv, NEW r \in Requests, NEW c \in Receipts, ReceiptCreateCommit(r, c)
    PROVE  Moves(c)
<1> DEFINE new == requests[r].new
<1>1. new \in Allocations /\ c \notin Payments
  BY DocumentsAssumption DEF IInv, ReceiptCreateCommit, TypeOK, Request, NoRequest
<1>2. ASSUME NEW e \in Documents \ {c}, NEW i \in Invoices
      PROVE  HeldOn(e, i)' = HeldOn(e, i)
  BY <1>2 DEF HeldOn, ReceiptCreateCommit, IInv, TypeOK, Documents
<1>3. ASSUME NEW i \in Invoices
      PROVE  HeldOn(c, i) = 0 /\ HeldOn(c, i)' = new[i]
  BY <1>1 DEF HeldOn, ReceiptCreateCommit, IInv, TypeOK
<1>4. /\ mayApplyAll(invoices, new) /\ invoices' = applyReceiptAllocations(invoices, new)
      /\ invoices \in [Invoices -> SalesInvoice]
  BY DEF ReceiptCreateCommit, IInv, TypeOK
<1>5. ASSUME NEW i \in Invoices
      PROVE  invoices[i].paidAmount \in Nat /\ new[i] \in Nat
  BY <1>1, <1>4, MaxAmountAssumption DEF SalesInvoice, Allocations, Totals
<1> HIDE DEF new
<1> QED
  BY <1>1, <1>2, <1>3, <1>4, <1>5, ApplyAllExact DEF Moves, Live

\* Editing a receipt moves that receipt: what is given back is what it held,
\* so the clamp of the reversal does not bite.
LEMMA UpdateMoves ==
    ASSUME IInv, NEW r \in Requests, NEW c \in Receipts, ReceiptUpdateCommit(r),
           c = requests[r].receipt
    PROVE  Moves(c)
<1> DEFINE new == requests[r].new
           old == requests[r].old
           given == reverseReceiptAllocations(invoices, old)
<1>1. new \in Allocations /\ old \in Allocations /\ c \notin Payments /\ c \in Documents
  BY DocumentsAssumption DEF IInv, ReceiptUpdateCommit, TypeOK, Request, NoRequest, Documents
<1>2. receipts[c].row = "live" /\ receipts[c].rows = old /\ receipts[c] \in SalesReceipt
  BY DEF IInv, Fresh, ReceiptUpdateCommit, TypeOK
<1>3. ASSUME NEW e \in Documents \ {c}, NEW i \in Invoices
      PROVE  HeldOn(e, i)' = HeldOn(e, i)
  BY <1>3 DEF HeldOn, ReceiptUpdateCommit, IInv, TypeOK, Documents
<1>4. receipts'[c].row = "live" /\ receipts'[c].rows = new
  BY <1>2 DEF ReceiptUpdateCommit, IInv, TypeOK, SalesReceipt
<1>5. mayApplyAll(given, new) /\ invoices' = applyReceiptAllocations(given, new)
  BY DEF ReceiptUpdateCommit
<1>6. given \in [Invoices -> SalesInvoice] /\ invoices \in [Invoices -> SalesInvoice]
  BY <1>1, ReverseAllType DEF IInv, TypeOK
<1> HIDE DEF new, old
<1>7. ASSUME NEW i \in Invoices
      PROVE  HeldOn(c, i) = old[i] /\ HeldOn(c, i)' = new[i]
  BY <1>1, <1>2, <1>4 DEF HeldOn
<1>8. ASSUME NEW i \in Invoices
      PROVE  /\ given[i].row = invoices[i].row /\ given[i].status = invoices[i].status
             /\ given[i].grandTotal = invoices[i].grandTotal
             /\ given[i].paidAmount = invoices[i].paidAmount - old[i]
  <2>1. old[i] <= invoices[i].paidAmount
    BY <1>1, <1>7, HeldWithinBalance DEF IInv
  <2> QED
    BY <1>1, <1>6, <2>1, ReverseExact
<1> HIDE DEF given
<1>9. ASSUME NEW i \in Invoices
      PROVE  invoices[i].paidAmount \in Nat /\ new[i] \in Nat /\ old[i] \in Nat
  BY <1>1, <1>6, MaxAmountAssumption DEF SalesInvoice, Allocations, Totals
<1>10. ASSUME NEW i \in Invoices
       PROVE  /\ invoices'[i].row = given[i].row /\ invoices'[i].status = given[i].status
              /\ invoices'[i].grandTotal = given[i].grandTotal
              /\ invoices'[i].paidAmount = given[i].paidAmount + new[i]
              /\ new[i] > 0 =>
                    /\ given[i].row = "live" /\ given[i].status = "confirmed"
                    /\ invoices'[i].paidAmount <= given[i].grandTotal
  BY <1>1, <1>5, <1>6, ApplyAllExact
<1> QED
  BY <1>3, <1>7, <1>8, <1>9, <1>10 DEF Moves, Live

\* Deleting a receipt moves that receipt.
LEMMA DeleteMoves ==
    ASSUME IInv, NEW r \in Requests, NEW c \in Receipts, ReceiptDeleteCommit(r),
           c = requests[r].receipt
    PROVE  Moves(c)
<1> DEFINE old == requests[r].old
<1>1. old \in Allocations /\ c \notin Payments /\ c \in Documents
  BY DocumentsAssumption DEF IInv, ReceiptDeleteCommit, TypeOK, Request, NoRequest, Documents
<1>2. receipts[c].row = "live" /\ receipts[c].rows = old /\ receipts[c] \in SalesReceipt
  BY DEF IInv, Fresh, ReceiptDeleteCommit, TypeOK
<1>3. ASSUME NEW e \in Documents \ {c}, NEW i \in Invoices
      PROVE  HeldOn(e, i)' = HeldOn(e, i)
  BY <1>3 DEF HeldOn, ReceiptDeleteCommit, IInv, TypeOK, Documents
<1>4. receipts'[c].row = "deleted"
  BY <1>2 DEF ReceiptDeleteCommit, IInv, TypeOK, SalesReceipt
<1>5. /\ invoices' = reverseReceiptAllocations(invoices, old)
      /\ invoices \in [Invoices -> SalesInvoice]
  BY DEF ReceiptDeleteCommit, IInv, TypeOK
<1> HIDE DEF old
<1>6. ASSUME NEW i \in Invoices
      PROVE  HeldOn(c, i) = old[i] /\ HeldOn(c, i)' = 0
  BY <1>1, <1>2, <1>4 DEF HeldOn
<1>7. ASSUME NEW i \in Invoices
      PROVE  /\ invoices'[i].row = invoices[i].row /\ invoices'[i].status = invoices[i].status
             /\ invoices'[i].grandTotal = invoices[i].grandTotal
             /\ invoices'[i].paidAmount = invoices[i].paidAmount - old[i]
  <2>1. old[i] <= invoices[i].paidAmount
    BY <1>1, <1>6, HeldWithinBalance DEF IInv
  <2> QED
    BY <1>1, <1>5, <2>1, ReverseExact
<1>8. ASSUME NEW i \in Invoices
      PROVE  invoices[i].paidAmount \in Nat /\ old[i] \in Nat
  BY <1>1, <1>5, MaxAmountAssumption DEF SalesInvoice, Allocations, Totals
<1> QED
  BY <1>3, <1>6, <1>7, <1>8 DEF Moves, Live

\* Recording a payment moves nothing: it is pending.
LEMMA InsertQuiet ==
    ASSUME IInv, NEW r \in Requests, NEW p \in Payments, PaymentCreateInsert(r, p)
    PROVE  Quiet
<1>1. ASSUME NEW e \in Documents \ {p}, NEW i \in Invoices
      PROVE  HeldOn(e, i)' = HeldOn(e, i)
  BY <1>1 DEF HeldOn, PaymentCreateInsert, IInv, TypeOK, Documents
<1>2. ASSUME NEW i \in Invoices
      PROVE  HeldOn(p, i)' = HeldOn(p, i)
  <2>1. payments[p].status = "absent" /\ payments'[p].status = "pending"
    BY DEF PaymentCreateInsert, IInv, TypeOK
  <2> QED
    BY <2>1 DEF HeldOn
<1>3. invoices' = invoices
  BY DEF PaymentCreateInsert
<1> QED
  BY <1>1, <1>2, <1>3 DEF Quiet

\* Every step moves one document, or nothing while it edits at most one invoice.
LEMMA MoneyStep ==
    ASSUME IInv, [Next]_vars
    PROVE  \/ Quiet /\ UNCHANGED invoices
           \/ Quiet /\ \E i \in Invoices : Edits(i)
           \/ \E d \in Documents : Moves(d)
<1> DEFINE Goal == \/ Quiet /\ UNCHANGED invoices
                   \/ Quiet /\ \E i \in Invoices : Edits(i)
                   \/ \E d \in Documents : Moves(d)
<1>0. \A i \in Invoices : invoices[i] \in SalesInvoice
  BY DEF IInv, TypeOK
<1>1. ASSUME payments' = payments, receipts' = receipts, NEW j \in Invoices, Edits(j),
             invoices'[j].paidAmount = invoices[j].paidAmount
      PROVE  Goal
  BY <1>1 DEF Quiet, HeldOn, Edits
<1>2. ASSUME NEW j \in Invoices, NEW m \in Mitras, NEW t \in Totals, InvoiceCreate(j, m, t)
      PROVE  Goal
  <2>1. Edits(j) /\ invoices'[j].paidAmount = invoices[j].paidAmount
    BY <1>2 DEF InvoiceCreate, IInv, TypeOK, UnpaidUntilConfirmed, Edits
  <2> QED
    BY <1>1, <1>2, <2>1 DEF InvoiceCreate
<1>3. ASSUME NEW j \in Invoices, NEW m \in Mitras, NEW t \in Totals, InvoiceUpdate(j, m, t)
      PROVE  Goal
  <2>1. Edits(j) /\ invoices'[j].paidAmount = invoices[j].paidAmount
    BY <1>0, <1>3
    DEF InvoiceUpdate, IInv, TypeOK, refreshSalesInvoicePaymentStatus, SalesInvoice,
        UnpaidUntilConfirmed, Edits
  <2> QED
    BY <1>1, <1>3, <2>1 DEF InvoiceUpdate
<1>4. ASSUME NEW j \in Invoices, InvoiceDelete(j)
      PROVE  Goal
  <2>1. Edits(j) /\ invoices'[j].paidAmount = invoices[j].paidAmount
    BY <1>0, <1>4 DEF InvoiceDelete, IInv, TypeOK, SalesInvoice, UnpaidUntilConfirmed, Edits
  <2> QED
    BY <1>1, <1>4, <2>1 DEF InvoiceDelete
<1>5. ASSUME NEW r \in Requests, SetStatus(r)
      PROVE  Goal
  <2>1. PICK j \in Invoices : j = requests[r].invoice
    BY <1>5 DEF SetStatus, IInv, TypeOK, Request, NoRequest
  <2>2. requests[r].status = "draft" => invoices[j].paidAmount = 0
    BY <1>5, <2>1 DEF SetStatus, IInv, StillUnpaid
  <2>3. Edits(j) /\ invoices'[j].paidAmount = invoices[j].paidAmount
    BY <1>0, <1>5, <2>1, <2>2 DEF SetStatus, Live, IInv, TypeOK, SalesInvoice, Edits
  <2> QED
    BY <1>1, <1>5, <2>3 DEF SetStatus
<1>6. ASSUME NEW r \in Requests, VerifyCommit(r)
      PROVE  Goal
  <2>1. PICK p \in Payments : p = requests[r].payment
    BY <1>6 DEF IInv, VerifyCommit, TypeOK, Request, NoRequest
  <2>2. Moves(p) /\ p \in Documents
    BY <1>6, <2>1, VerifyMoves DEF Documents
  <2> QED
    BY <2>2
<1>7. ASSUME NEW r \in Requests, NEW c \in Receipts, ReceiptCreateCommit(r, c)
      PROVE  Goal
  BY <1>7, CreateMoves DEF Documents
<1>8. ASSUME NEW r \in Requests, ReceiptUpdateCommit(r)
      PROVE  Goal
  <2>1. PICK c \in Receipts : c = requests[r].receipt
    BY <1>8 DEF IInv, ReceiptUpdateCommit, TypeOK, Request, NoRequest
  <2>2. Moves(c) /\ c \in Documents
    BY <1>8, <2>1, UpdateMoves DEF Documents
  <2> QED
    BY <2>2
<1>9. ASSUME NEW r \in Requests, ReceiptDeleteCommit(r)
      PROVE  Goal
  <2>1. PICK c \in Receipts : c = requests[r].receipt
    BY <1>9 DEF IInv, ReceiptDeleteCommit, TypeOK, Request, NoRequest
  <2>2. Moves(c) /\ c \in Documents
    BY <1>9, <2>1, DeleteMoves DEF Documents
  <2> QED
    BY <2>2
<1>10. ASSUME NEW r \in Requests, NEW p \in Payments, PaymentCreateInsert(r, p)
       PROVE  Goal
  BY <1>10, InsertQuiet DEF PaymentCreateInsert
<1>11. CASE UNCHANGED <<invoices, payments, receipts>>
  BY <1>11 DEF Quiet, HeldOn
<1>12. CASE InvoiceStep
  BY <1>2, <1>3, <1>4, <1>5, <1>11, <1>12
  DEF InvoiceStep, ConfirmRead, CancelRead, BackToDraftRead, CountPayments, CountAllocations
<1>13. CASE PaymentStep
  BY <1>6, <1>10, <1>11, <1>13
  DEF PaymentStep, PaymentCreateConfirmed, PaymentCreateBalance, VerifyRead
<1>14. CASE ReceiptStep
  BY <1>7, <1>8, <1>9, <1>11, <1>14
  DEF ReceiptStep, ReceiptCreateCheck, ReceiptUpdateFind, ReceiptUpdateLoad,
      ReceiptDeleteFind, ReceiptDeleteLoad
<1> QED
  BY <1>11, <1>12, <1>13, <1>14 DEF Next, Abort, vars

\* So the balance stays conserved.
LEMMA BalanceStep ==
    ASSUME IInv, TypeOK', [Next]_vars
    PROVE  BalanceConserved'
<1> SUFFICES ASSUME NEW i \in Invoices PROVE invoices'[i].paidAmount = Balance(i)'
  BY DEF BalanceConserved
<1>1. TypeOK /\ invoices[i].paidAmount = Balance(i) /\ invoices[i].paidAmount \in Nat
  BY DEF IInv, BalanceConserved, TypeOK, SalesInvoice
<1>2. CASE Quiet
  BY <1>1, <1>2, BalanceStays DEF Quiet
<1>3. ASSUME NEW d \in Documents, Moves(d)
      PROVE  invoices'[i].paidAmount = Balance(i)'
  <2>1. Balance(i)' = Balance(i) - HeldOn(d, i) + HeldOn(d, i)'
    BY <1>1, <1>3, BalanceFollows DEF Moves
  <2>2. invoices'[i].paidAmount = invoices[i].paidAmount + HeldOn(d, i)' - HeldOn(d, i)
    BY <1>3 DEF Moves
  <2>3. HeldOn(d, i) \in Nat /\ HeldOn(d, i)' \in Nat
    BY <1>1, HeldType, HeldTypeNext, MaxAmountAssumption DEF Totals
  <2> QED
    BY <1>1, <2>1, <2>2, <2>3
<1> QED
  BY <1>2, <1>3, MoneyStep

\* Money moves on confirmed invoices only, and only unpaid ones are reopened.
LEMMA UnpaidStep ==
    ASSUME IInv, TypeOK', [Next]_vars
    PROVE  UnpaidUntilConfirmed'
<1> SUFFICES ASSUME NEW i \in Invoices, invoices'[i].row = "absent" \/ invoices'[i].status = "draft"
             PROVE  invoices'[i].paidAmount = 0
  BY DEF UnpaidUntilConfirmed
<1>0. /\ invoices[i].paidAmount \in Nat /\ invoices'[i].paidAmount \in Nat
      /\ invoices[i].row = "absent" \/ invoices[i].status = "draft" => invoices[i].paidAmount = 0
  BY DEF IInv, TypeOK, SalesInvoice, UnpaidUntilConfirmed
<1>1. ASSUME NEW d \in Documents, Moves(d)
      PROVE  invoices'[i].paidAmount = 0
  <2>1. HeldOn(d, i) \in Nat /\ HeldOn(d, i)' \in Nat
    BY HeldType, HeldTypeNext, MaxAmountAssumption DEF IInv, Totals
  <2> QED
    BY <1>0, <1>1, <2>1 DEF Moves, Live
<1>2. CASE Quiet /\ UNCHANGED invoices
  BY <1>0, <1>2
<1>3. CASE Quiet /\ \E j \in Invoices : Edits(j)
  BY <1>0, <1>3 DEF Quiet, Edits
<1> QED
  BY <1>1, <1>2, <1>3, MoneyStep

\* Handlers that write other documents leave what a handler read alone.
LEMMA FreshStep ==
    ASSUME IInv, [Next]_vars, NEW s \in Requests
    PROVE  Fresh(s)'
<1> DEFINE m == requests[s]
<1>0. Fresh(s) /\ TypeOK /\ m \in Request
  BY DEF IInv, TypeOK
<1>1. CASE UNCHANGED <<payments, receipts>> /\ requests'[s] \in {requests[s], NoRequest}
  BY <1>0, <1>1 DEF Fresh, NoRequest
<1>2. CASE UNCHANGED <<payments, receipts>> /\ requests'[s].op \notin
           {"verify", "update_found", "delete_found", "update_rows", "delete_rows"}
  BY <1>2 DEF Fresh
<1>3. ASSUME NEW p \in Payments, VerifyRead(s, p)
      PROVE  Fresh(s)'
  BY <1>0, <1>3 DEF VerifyRead, Begin, Fresh, TypeOK
<1>4. ASSUME NEW c \in Receipts, NEW new \in Allocations, ReceiptUpdateFind(s, c, new)
      PROVE  Fresh(s)'
  BY <1>0, <1>4 DEF ReceiptUpdateFind, Begin, Fresh, TypeOK
<1>5. ASSUME NEW c \in Receipts, ReceiptDeleteFind(s, c)
      PROVE  Fresh(s)'
  BY <1>0, <1>5 DEF ReceiptDeleteFind, Begin, Fresh, TypeOK
<1>6. ASSUME NEW t \in Mitras, ReceiptUpdateLoad(s, t)
      PROVE  Fresh(s)'
  BY <1>0, <1>6 DEF ReceiptUpdateLoad, Continue, Fresh, TypeOK
<1>7. CASE ReceiptDeleteLoad(s)
  BY <1>0, <1>7 DEF ReceiptDeleteLoad, Continue, Fresh, TypeOK
<1>8. ASSUME NEW r \in Requests, NEW p \in Payments, PaymentCreateInsert(r, p)
      PROVE  Fresh(s)'
  BY <1>0, <1>8 DEF PaymentCreateInsert, Finish, Fresh, TypeOK, Request, NoRequest
<1>9. ASSUME NEW r \in Requests, VerifyCommit(r)
      PROVE  Fresh(s)'
  <2>1. r /= s /\ m.op = "verify" => m.payment /= requests[r].payment
    BY <1>9 DEF VerifyCommit, IInv, DistinctDocuments, DocumentOf
  <2> QED
    BY <1>0, <1>9, <2>1 DEF VerifyCommit, Finish, Fresh, TypeOK, Request, NoRequest
<1>10. ASSUME NEW r \in Requests, NEW c \in Receipts, ReceiptCreateCommit(r, c)
       PROVE  Fresh(s)'
  BY <1>0, <1>10 DEF ReceiptCreateCommit, Finish, Fresh, TypeOK, Request, NoRequest
<1>11. ASSUME NEW r \in Requests, ReceiptUpdateCommit(r) \/ ReceiptDeleteCommit(r)
       PROVE  Fresh(s)'
  <2>1. ASSUME r /= s, m.op \in {"update_found", "delete_found", "update_rows", "delete_rows"}
        PROVE  m.receipt /= requests[r].receipt
    BY <1>11, <2>1 DEF ReceiptUpdateCommit, ReceiptDeleteCommit, IInv, DistinctDocuments, DocumentOf
  <2> QED
    BY <1>0, <1>11, <2>1
    DEF ReceiptUpdateCommit, ReceiptDeleteCommit, Finish, Fresh, TypeOK, Request, NoRequest
<1>12. CASE InvoiceStep
  <2>1. UNCHANGED <<payments, receipts>>
    BY <1>12
    DEF InvoiceStep, InvoiceCreate, InvoiceUpdate, InvoiceDelete, ConfirmRead, CancelRead,
        BackToDraftRead, CountPayments, CountAllocations, SetStatus
  <2>2. ASSUME NEW r \in Requests, NEW i \in Invoices,
               ConfirmRead(r, i) \/ CancelRead(r, i) \/ BackToDraftRead(r, i)
        PROVE  Fresh(s)'
    BY <1>0, <1>1, <1>2, <2>1, <2>2 DEF ConfirmRead, CancelRead, BackToDraftRead, Begin, TypeOK
  <2>3. ASSUME NEW r \in Requests, CountPayments(r) \/ CountAllocations(r) \/ SetStatus(r)
        PROVE  Fresh(s)'
    BY <1>0, <1>1, <1>2, <2>1, <2>3
    DEF CountPayments, CountAllocations, SetStatus, Continue, Finish, TypeOK
  <2>4. CASE UNCHANGED requests
    BY <1>1, <2>1, <2>4
  <2> QED
    BY <1>12, <2>2, <2>3, <2>4 DEF InvoiceStep, InvoiceCreate, InvoiceUpdate, InvoiceDelete
<1>13. CASE PaymentStep
  <2>1. ASSUME NEW r \in Requests, NEW i \in Invoices, NEW a \in Amounts,
               PaymentCreateConfirmed(r, i, a)
        PROVE  Fresh(s)'
    BY <1>0, <1>1, <1>2, <2>1 DEF PaymentCreateConfirmed, Begin, TypeOK
  <2>2. ASSUME NEW r \in Requests, PaymentCreateBalance(r)
        PROVE  Fresh(s)'
    <3>1. requests[r].op = "payment_balance" /\ requests[r] \in Request
      BY <2>2 DEF PaymentCreateBalance, IInv, TypeOK
    <3>2. [requests[r] EXCEPT !.op = "payment_insert"].op = "payment_insert"
      BY <3>1 DEF Request, NoRequest
    <3> QED
      BY <1>0, <1>1, <1>2, <2>2, <3>2 DEF PaymentCreateBalance, Continue, TypeOK
  <2>3. ASSUME NEW r \in Requests, NEW p \in Payments, VerifyRead(r, p)
        PROVE  Fresh(s)'
    BY <1>0, <1>1, <1>3, <2>3 DEF VerifyRead, Begin, TypeOK
  <2> QED
    BY <1>8, <1>9, <1>13, <2>1, <2>2, <2>3 DEF PaymentStep
<1>14. CASE ReceiptStep
  BY <1>0, <1>1, <1>2, <1>4, <1>5, <1>6, <1>7, <1>10, <1>11, <1>14
  DEF ReceiptStep, ReceiptCreateCheck, ReceiptUpdateFind, ReceiptUpdateLoad,
      ReceiptDeleteFind, ReceiptDeleteLoad, Begin, Continue, TypeOK
<1>15. CASE \E r \in Requests : Abort(r)
  BY <1>0, <1>1, <1>15 DEF Abort, Finish, TypeOK
<1> QED
  BY <1>1, <1>12, <1>13, <1>14, <1>15 DEF Next, vars

\* While the counts of a reopening stand, no payment of its invoice becomes
\* verified: that would bring money.
LEMMA NoneVerifiedStep ==
    ASSUME IInv, Next, NoMoneyMeanwhile, NEW s \in Requests,
           requests'[s] = requests[s], requests[s].op = "count_allocations",
           NEW p \in Payments, payments'[p].status = "verified"
    PROVE  payments'[p].invoice /= requests[s].invoice
<1>0. TypeOK
  BY DEF IInv
<1>1. payments[p].status = "verified" => payments[p].invoice /= requests[s].invoice
  BY DEF IInv, StillUnpaid
<1>2. CASE UNCHANGED payments
  BY <1>1, <1>2
<1>3. ASSUME NEW r \in Requests, NEW q \in Payments, PaymentCreateInsert(r, q)
      PROVE  payments'[p].invoice /= requests[s].invoice
  BY <1>0, <1>1, <1>3 DEF PaymentCreateInsert, TypeOK
<1>4. ASSUME NEW r \in Requests, VerifyCommit(r)
      PROVE  payments'[p].invoice /= requests[s].invoice
  <2>1. CASE p /= requests[r].payment
    BY <1>0, <1>1, <1>4, <2>1 DEF VerifyCommit, TypeOK
  <2>2. CASE p = requests[r].payment
    <3>1. requests[r].invoice \in Invoices /\ requests[r].amount \in Amounts
      BY <1>0, <1>4 DEF VerifyCommit, TypeOK, Request, NoRequest
    <3>2. invoices'[requests[r].invoice].paidAmount > invoices[requests[r].invoice].paidAmount
      <4>1. invoices[requests[r].invoice] \in SalesInvoice
        BY <1>0, <3>1 DEF TypeOK
      <4>2. /\ invoices[requests[r].invoice].paidAmount \in Nat
            /\ requests[r].amount \in Nat /\ requests[r].amount > 0
        BY <3>1, <4>1, MaxAmountAssumption DEF SalesInvoice, Amounts
      <4>3. invoices'[requests[r].invoice].paidAmount
                = invoices[requests[r].invoice].paidAmount + requests[r].amount
        BY <1>0, <1>4, <3>1, <4>1, ApplyExact DEF VerifyCommit, TypeOK
      <4> QED
        BY <4>2, <4>3
    <3>3. requests[r].invoice /= requests[s].invoice
      <4> SUFFICES ASSUME requests[r].invoice = requests[s].invoice PROVE FALSE
        OBVIOUS
      <4>1. PICK i \in Invoices : i = requests[s].invoice
        BY <3>1
      <4>2. Reopening(i)'
        BY <4>1 DEF Reopening
      <4>3. invoices'[i].paidAmount <= invoices[i].paidAmount
        BY <4>2 DEF NoMoneyMeanwhile
      <4>4. invoices[i].paidAmount \in Nat /\ invoices'[i].paidAmount \in Int
        BY <1>0, <1>4, <3>1, <4>1, ApplyExact, MaxAmountAssumption
        DEF VerifyCommit, TypeOK, SalesInvoice, Amounts
      <4> QED
        BY <3>2, <4>1, <4>3, <4>4
    <3>4. payments'[p].invoice = payments[p].invoice
      BY <1>0, <1>4, <2>2 DEF VerifyCommit, TypeOK, SalesPayment
    <3>5. payments[p].invoice = requests[r].invoice
      BY <1>4, <2>2 DEF VerifyCommit, IInv, Fresh
    <3> QED
      BY <3>3, <3>4, <3>5
  <2> QED
    BY <2>1, <2>2
<1> QED
  BY <1>2, <1>3, <1>4
  DEF Next, InvoiceStep, InvoiceCreate, InvoiceUpdate, InvoiceDelete, ConfirmRead, CancelRead,
      BackToDraftRead, CountPayments, CountAllocations, SetStatus,
      PaymentStep, PaymentCreateConfirmed, PaymentCreateBalance, VerifyRead,
      ReceiptStep, ReceiptCreateCheck, ReceiptCreateCommit, ReceiptUpdateFind, ReceiptUpdateLoad,
      ReceiptUpdateCommit, ReceiptDeleteFind, ReceiptDeleteLoad, ReceiptDeleteCommit, Abort

\* The request of a handler after a step: as it was, over, or one of the
\* messages the handler writes next.
LEMMA RequestStep ==
    ASSUME TypeOK, Next, NEW s \in Requests
    PROVE  \/ requests'[s] = requests[s]
           \/ CountPayments(s)
           \/ CountAllocations(s)
           \/ requests'[s].op \notin {"count_allocations", "set_status"}
           \/ requests'[s].op = "set_status" /\ requests'[s].status /= "draft"
<1> DEFINE Goal == \/ requests'[s] = requests[s]
                   \/ CountPayments(s)
                   \/ CountAllocations(s)
                   \/ requests'[s].op \notin {"count_allocations", "set_status"}
                   \/ requests'[s].op = "set_status" /\ requests'[s].status /= "draft"
<1>1. ASSUME NEW r \in Requests, Finish(r)
      PROVE  Goal
  BY <1>1 DEF Finish, NoRequest, TypeOK
<1>2. CASE UNCHANGED requests
  BY <1>2
<1>3. ASSUME NEW r \in Requests, NEW i \in Invoices,
             ConfirmRead(r, i) \/ CancelRead(r, i) \/ BackToDraftRead(r, i)
      PROVE  Goal
  BY <1>3 DEF ConfirmRead, CancelRead, BackToDraftRead, Begin, TypeOK
<1>4. ASSUME NEW r \in Requests, CountPayments(r) \/ CountAllocations(r)
      PROVE  Goal
  BY <1>4 DEF CountPayments, CountAllocations, Continue, TypeOK
<1>5. CASE InvoiceStep
  BY <1>1, <1>2, <1>3, <1>4, <1>5
  DEF InvoiceStep, InvoiceCreate, InvoiceUpdate, InvoiceDelete, SetStatus
<1>6. ASSUME NEW r \in Requests, PaymentCreateBalance(r)
      PROVE  Goal
  <2>1. requests[r].op = "payment_balance" /\ requests[r] \in Request
    BY <1>6 DEF PaymentCreateBalance, TypeOK
  <2>2. [requests[r] EXCEPT !.op = "payment_insert"].op = "payment_insert"
    BY <2>1 DEF Request, NoRequest
  <2> QED
    BY <1>6, <2>2 DEF PaymentCreateBalance, Continue, TypeOK
<1>7. CASE PaymentStep
  <2>1. ASSUME NEW r \in Requests, NEW i \in Invoices, NEW a \in Amounts,
               PaymentCreateConfirmed(r, i, a)
        PROVE  Goal
    BY <2>1 DEF PaymentCreateConfirmed, Begin, TypeOK
  <2>2. ASSUME NEW r \in Requests, NEW p \in Payments, VerifyRead(r, p)
        PROVE  Goal
    BY <2>2 DEF VerifyRead, Begin, TypeOK
  <2> QED
    BY <1>1, <1>6, <1>7, <2>1, <2>2 DEF PaymentStep, PaymentCreateInsert, VerifyCommit
<1>8. CASE ReceiptStep
  <2>1. ASSUME NEW r \in Requests, NEW m \in Mitras, NEW new \in Allocations,
               ReceiptCreateCheck(r, m, new)
        PROVE  Goal
    BY <2>1 DEF ReceiptCreateCheck, Begin, TypeOK
  <2>2. ASSUME NEW r \in Requests, NEW c \in Receipts, NEW new \in Allocations,
               ReceiptUpdateFind(r, c, new)
        PROVE  Goal
    BY <2>2 DEF ReceiptUpdateFind, Begin, TypeOK
  <2>3. ASSUME NEW r \in Requests, NEW c \in Receipts, ReceiptDeleteFind(r, c)
        PROVE  Goal
    BY <2>3 DEF ReceiptDeleteFind, Begin, TypeOK
  <2>4. ASSUME NEW r \in Requests, NEW m \in Mitras, ReceiptUpdateLoad(r, m)
        PROVE  Goal
    BY <2>4 DEF ReceiptUpdateLoad, Continue, TypeOK
  <2>5. ASSUME NEW r \in Requests, ReceiptDeleteLoad(r)
        PROVE  Goal
    BY <2>5 DEF ReceiptDeleteLoad, Continue, TypeOK
  <2> QED
    BY <1>1, <1>8, <2>1, <2>2, <2>3, <2>4, <2>5
    DEF ReceiptStep, ReceiptCreateCommit, ReceiptUpdateCommit, ReceiptDeleteCommit
<1> QED
  BY <1>1, <1>5, <1>7, <1>8 DEF Next, Abort

\* No money on an invoice without verified payments and live allocations.
LEMMA CountedUnpaid ==
    ASSUME TypeOK, BalanceConserved, NEW i \in Invoices,
           \A p \in Payments : payments[p].status = "verified" => payments[p].invoice /= i,
           \A c \in Receipts : receipts[c].row = "live" => receipts[c].rows[i] = 0
    PROVE  invoices[i].paidAmount = 0
<1>1. \A d \in Documents : HeldOn(d, i) = 0
  BY DEF HeldOn, Documents
<1> QED
  BY <1>1, NothingHeld DEF BalanceConserved

\* What the counts of a reopening found stays so until its UPDATE.
LEMMA StillUnpaidStep ==
    ASSUME IInv, TypeOK', Next, NoMoneyMeanwhile, NEW s \in Requests
    PROVE  StillUnpaid(s)'
<1>0. TypeOK /\ StillUnpaid(s) /\ requests[s] \in Request
  BY DEF IInv, TypeOK
<1>1. CASE requests'[s] = requests[s]
  <2>1. requests[s].op = "count_allocations" =>
            \A p \in Payments :
                payments'[p].status = "verified" => payments'[p].invoice /= requests[s].invoice
    BY <1>1, NoneVerifiedStep
  <2>2. ASSUME requests[s].op = "set_status", requests[s].status = "draft"
        PROVE  invoices'[requests[s].invoice].paidAmount = 0
    <3>1. PICK i \in Invoices : i = requests[s].invoice
      BY <1>0, <2>2 DEF Request, NoRequest
    <3>2. Reopening(i)'
      BY <1>1, <2>2, <3>1 DEF Reopening
    <3>3. invoices'[i].paidAmount <= invoices[i].paidAmount
      BY <3>2 DEF NoMoneyMeanwhile
    <3>4. invoices[i].paidAmount = 0 /\ invoices'[i].paidAmount \in Nat
      BY <1>0, <2>2, <3>1 DEF StillUnpaid, TypeOK, SalesInvoice
    <3> QED
      BY <3>1, <3>3, <3>4
  <2> QED
    BY <1>1, <2>1, <2>2 DEF StillUnpaid
<1>2. CASE CountPayments(s)
  BY <1>0, <1>2 DEF CountPayments, Continue, TypeOK, StillUnpaid
<1>3. CASE CountAllocations(s)
  <2>1. PICK i \in Invoices : i = requests[s].invoice
    BY <1>0, <1>3 DEF CountAllocations, Request, NoRequest
  <2>2. invoices[i].paidAmount = 0
    BY <1>0, <1>3, <2>1, CountedUnpaid DEF CountAllocations, StillUnpaid, IInv
  <2> QED
    BY <1>0, <1>3, <2>1, <2>2 DEF CountAllocations, Continue, TypeOK, StillUnpaid
<1>4. CASE requests'[s].op \notin {"count_allocations", "set_status"}
  BY <1>4 DEF StillUnpaid
<1>5. CASE requests'[s].op = "set_status" /\ requests'[s].status /= "draft"
  BY <1>5 DEF StillUnpaid
<1> QED
  BY <1>0, <1>1, <1>2, <1>3, <1>4, <1>5, RequestStep

\* The invariant is inductive under the assumption on concurrent handlers.
LEMMA InvariantStep ==
    ASSUME IInv, [Next /\ DistinctDocuments' /\ NoMoneyMeanwhile]_vars
    PROVE  IInv'
<1>1. TypeOK'
  BY NextType DEF IInv
<1>2. BalanceConserved' /\ UnpaidUntilConfirmed'
  BY <1>1, BalanceStep, UnpaidStep
<1>3. \A s \in Requests : Fresh(s)'
  BY FreshStep
<1>4. CASE Next /\ DistinctDocuments' /\ NoMoneyMeanwhile
  BY <1>1, <1>2, <1>3, <1>4, StillUnpaidStep DEF IInv
<1>5. CASE UNCHANGED vars
  <2>1. DistinctDocuments' /\ \A s \in Requests : StillUnpaid(s)'
    BY <1>5 DEF IInv, vars, DistinctDocuments, DocumentOf, StillUnpaid
  <2> QED
    BY <1>1, <1>2, <1>3, <2>1 DEF IInv
<1> QED
  BY <1>4, <1>5

\* The empty books are conserved.
LEMMA InvariantInit == Init => IInv
<1> SUFFICES ASSUME Init PROVE IInv
  OBVIOUS
<1>1. TypeOK
  BY InitType
<1>2. \A i \in Invoices : invoices[i].paidAmount = 0
  BY DEF Init
<1>3. \A d \in Documents, i \in Invoices : HeldOn(d, i) = 0
  BY DEF Init, HeldOn, Documents
<1>4. BalanceConserved
  BY <1>1, <1>2, <1>3, NothingHeld DEF BalanceConserved
<1>5. \A r \in Requests : requests[r] = NoRequest
  BY DEF Init
<1>6. \A r \in Requests : Fresh(r) /\ StillUnpaid(r) /\ DocumentOf(r) = <<"request", r>>
  BY <1>5 DEF Fresh, StillUnpaid, DocumentOf, NoRequest
<1>7. DistinctDocuments
  BY <1>6 DEF DistinctDocuments
<1> QED
  BY <1>1, <1>2, <1>4, <1>6, <1>7 DEF IInv, UnpaidUntilConfirmed

\* The invariant holds throughout.
LEMMA InvariantHolds == SpecDistinct => []IInv
  BY InvariantInit, InvariantStep, PTL DEF SpecDistinct

\* Whatever number of invoices, documents and handlers: the amount kept with an
\* invoice is the sum of its verified payments and live allocations.
THEOREM BalanceAlwaysConserved == SpecDistinct => []BalanceConserved
<1>1. IInv => BalanceConserved
  BY DEF IInv
<1> QED
  BY <1>1, InvariantHolds, PTL

\* A draft never carries money, also one that was confirmed, paid, given back
\* and reopened.
THEOREM DraftsCarryNoMoney == SpecDistinct => []DraftCarriesNoMoney
<1>1. IInv => DraftCarriesNoMoney
  BY DEF IInv, BalanceConserved, UnpaidUntilConfirmed, DraftCarriesNoMoney
<1> QED
  BY <1>1, InvariantHolds, PTL

----------------------------------------------------------------------------
(* The ledger implements the money book. *)

\* The empty ledger is an empty book.
LEMMA BookInit == Init => Book!Init
<1> SUFFICES ASSUME Init PROVE Book!Init
  OBVIOUS
<1>1. \A i \in Invoices : /\ ~Live(i) /\ invoices[i].grandTotal = 0
                          /\ invoices[i].paidAmount = 0
  BY DEF Init, Live
<1>2. \A d \in Documents, i \in Invoices : HeldOn(d, i) = 0
  BY DEF Init, HeldOn, Documents
<1>3. 0 \in 0 .. MaxAmount
  BY MaxAmountAssumption
<1> QED
  BY <1>1, <1>2, <1>3 DEF Book!Init

\* A step that edits one invoice and moves nothing sets the terms of one bill.
LEMMA BookTerms ==
    ASSUME TypeOK', Quiet, NEW i \in Invoices, Edits(i)
    PROVE  \E open \in BOOLEAN, due \in 0 .. MaxAmount : Book!SetTerms(i, open, due)
<1>1. PICK open \in BOOLEAN, due \in 0 .. MaxAmount :
          /\ open = (invoices'[i].row = "live" /\ invoices'[i].status = "confirmed")
          /\ due = invoices'[i].grandTotal
  BY DEF TypeOK, SalesInvoice, Totals
<1> DEFINE before == [j \in Invoices |->
                         [open |-> invoices[j].row = "live" /\ invoices[j].status = "confirmed",
                          due |-> invoices[j].grandTotal]]
           after == [j \in Invoices |->
                        [open |-> invoices'[j].row = "live" /\ invoices'[j].status = "confirmed",
                         due |-> invoices'[j].grandTotal]]
<1>2. after = [before EXCEPT ![i] = [open |-> open, due |-> due]]
  <2>1. \A j \in Invoices \ {i} : after[j] = before[j]
    BY DEF Edits
  <2>2. after[i] = [open |-> open, due |-> due]
    BY <1>1
  <2>3. /\ before = [j \in Invoices |-> before[j]]
        /\ after = [j \in Invoices |-> after[j]]
    OBVIOUS
  <2> HIDE DEF before, after
  <2> QED
    BY <2>1, <2>2, <2>3
<1>3. \A d \in Documents, j \in Invoices : HeldOn(d, j)' = HeldOn(d, j)
  BY DEF Quiet
<1>4. \A j \in Invoices : invoices'[j].paidAmount = invoices[j].paidAmount
  BY DEF Quiet
<1>5. Book!SetTerms(i, open, due)
  BY <1>2, <1>3, <1>4 DEF Book!SetTerms, Live, Documents
<1> QED
  BY <1>5

\* A step that moves a document moves it in the book.
LEMMA BookMove ==
    ASSUME TypeOK, TypeOK', NEW d \in Documents, Moves(d)
    PROVE  \E h \in Book!Holdings : Book!Move(d, h)
<1>1. PICK h \in Book!Holdings : h = [i \in Invoices |-> HeldOn(d, i)']
  BY HeldTypeNext DEF Book!Holdings, Totals
<1>2. \A i \in Invoices : h[i] = HeldOn(d, i)'
  BY <1>1
<1> DEFINE held == [e \in Documents |-> [i \in Invoices |-> HeldOn(e, i)]]
           heldNext == [e \in Documents |-> [i \in Invoices |-> HeldOn(e, i)']]
<1>3. heldNext = [held EXCEPT ![d] = h]
  <2>1. \A e \in Documents \ {d} : heldNext[e] = held[e]
    BY DEF Moves
  <2>2. heldNext[d] = h
    BY <1>1
  <2>3. /\ held = [e \in Documents |-> held[e]]
        /\ heldNext = [e \in Documents |-> heldNext[e]]
    OBVIOUS
  <2> HIDE DEF held, heldNext
  <2> QED
    BY <2>1, <2>2, <2>3
<1>4. \A i \in Invoices :
          /\ invoices'[i].paidAmount = invoices[i].paidAmount + h[i] - HeldOn(d, i)
          /\ h[i] > HeldOn(d, i) =>
                /\ Live(i) /\ invoices[i].status = "confirmed"
                /\ invoices[i].paidAmount + h[i] - HeldOn(d, i) <= invoices[i].grandTotal
  BY <1>2 DEF Moves
<1>5. \A i \in Invoices :
          [open |-> Live(i) /\ invoices[i].status = "confirmed", due |-> invoices[i].grandTotal]'
              = [open |-> Live(i) /\ invoices[i].status = "confirmed", due |-> invoices[i].grandTotal]
  BY DEF Moves, Live
<1>6. Book!Move(d, h)
  BY <1>3, <1>4, <1>5 DEF Book!Move, Documents
<1> QED
  BY <1>6

\* Every step of the ledger is a step of the book, or none.
LEMMA BookStep ==
    ASSUME IInv, TypeOK', [Next]_vars
    PROVE  [Book!Next]_(Book!vars)
<1>1. ASSUME NEW d \in Documents, Moves(d)
      PROVE  Book!Next
  BY <1>1, BookMove DEF Book!Next, IInv
<1>2. ASSUME Quiet, NEW i \in Invoices, Edits(i)
      PROVE  Book!Next
  BY <1>2, BookTerms DEF Book!Next
<1>3. CASE Quiet /\ UNCHANGED invoices
  BY <1>3 DEF Quiet, Book!vars, Live, Documents
<1> QED
  BY <1>1, <1>2, <1>3, MoneyStep

\* The concurrent ledger implements the money book.
THEOREM LedgerImplementsBook == SpecDistinct => ImplementsMoneyBook
<1>1. Init => Book!Init
  BY BookInit
<1>2. IInv /\ IInv' /\ [Next /\ DistinctDocuments' /\ NoMoneyMeanwhile]_vars
          => [Book!Next]_(Book!vars)
  BY BookStep DEF IInv
<1> QED
  BY <1>1, <1>2, InvariantHolds, PTL DEF SpecDistinct, ImplementsMoneyBook, Book!Spec

-----------------------------------------------------------------------------
(* The lock order of the transactions on invoices (module InvoiceLocks):    *)
(* sorting by id rules out every deadlock without an edit in it, for any    *)
(* invoices and any number of transactions, edits among them.               *)

Locks == INSTANCE InvoiceLocks

\* What InvoiceLocks assumes of its constants.
LockConstants == Ids \subseteq Nat /\ NoTxn \notin Txns

\* Least is that element.
LEMMA LeastType ==
    ASSUME NEW S \in SUBSET Nat, S /= {}
    PROVE  Locks!Least(S) \in S /\ \A j \in S : Locks!Least(S) <= j
  BY LeastOfNaturals DEF Locks!Least

\* The row a transaction needs next is the least of those still to be locked
\* in its current part.
LEMMA NextIsLeast ==
    ASSUME LockConstants, Locks!TypeOK, NEW t \in Txns, NEW i \in Ids, Locks!IsNext(t, i)
    PROVE  LET part == IF giveBack[t] /= {} THEN giveBack[t] ELSE apply[t]
           IN  i \in part /\ \A j \in part : i <= j
<1>1. giveBack[t] \in SUBSET Nat /\ apply[t] \in SUBSET Nat
  BY DEF LockConstants, Locks!TypeOK
<1>2. CASE giveBack[t] /= {}
  BY <1>1, <1>2, LeastType DEF Locks!IsNext
<1>3. CASE giveBack[t] = {}
  BY <1>1, <1>3, LeastType DEF Locks!IsNext
<1> QED
  BY <1>2, <1>3

\* Nothing is locked at first.
LEMMA InitLocks == LockConstants /\ Locks!Init => Locks!TypeOK /\ Locks!LockOrder
  BY DEF LockConstants, Locks!Init, Locks!TypeOK, Locks!LockOrder, Locks!Sorted

\* A transaction that ends gives up all its rows and disturbs no other.
LEMMA EndKeeps ==
    ASSUME LockConstants, Locks!TypeOK, Locks!LockOrder, NEW t \in Txns,
           NEW outcome \in {"committed", "rolled_back"}, Locks!End(t, outcome)
    PROVE  Locks!TypeOK' /\ Locks!LockOrder'
<1>1. Locks!TypeOK'
  BY DEF Locks!TypeOK, Locks!End
<1>2. ASSUME NEW u \in Txns
      PROVE  /\ kind'[u] /= "update" => Locks!Sorted(u)'
             /\ state'[u] /= "running" => \A i \in Ids : holder'[i] /= u
  <2>1. CASE u = t
    BY <2>1 DEF LockConstants, Locks!TypeOK, Locks!End, Locks!Sorted
  <2>2. CASE u /= t
    BY <2>2 DEF LockConstants, Locks!TypeOK, Locks!LockOrder, Locks!End, Locks!Sorted
  <2> QED
    BY <2>1, <2>2
<1> QED
  BY <1>1, <1>2 DEF Locks!LockOrder

\* One that begins holds nothing yet.
LEMMA BeginKeeps ==
    ASSUME LockConstants, Locks!TypeOK, Locks!LockOrder, NEW t \in Txns, NEW k \in Locks!Kinds,
           NEW old \in SUBSET Ids, NEW new \in SUBSET Ids, Locks!BeginTx(t, k, old, new)
    PROVE  Locks!TypeOK' /\ Locks!LockOrder'
<1>1. Locks!TypeOK'
  BY DEF Locks!TypeOK, Locks!BeginTx
<1>2. k /= "update" => old = {} \/ new = {}
  BY DEF Locks!BeginTx, Locks!Locks, Locks!Kinds
<1>3. ASSUME NEW u \in Txns
      PROVE  /\ kind'[u] /= "update" => Locks!Sorted(u)'
             /\ state'[u] /= "running" => \A i \in Ids : holder'[i] /= u
  <2>1. CASE u = t
    <3>1. kind'[t] = k /\ state'[t] = "running" /\ giveBack'[t] = old /\ apply'[t] = new
      BY DEF Locks!BeginTx, Locks!TypeOK
    <3>2. \A i \in Ids : holder'[i] /= t
      BY DEF Locks!BeginTx, Locks!LockOrder
    <3> QED
      BY <1>2, <2>1, <3>1, <3>2 DEF Locks!Sorted
  <2>2. CASE u /= t
    BY <2>2 DEF Locks!BeginTx, Locks!LockOrder, Locks!TypeOK, Locks!Sorted
  <2> QED
    BY <2>1, <2>2
<1> QED
  BY <1>1, <1>3 DEF Locks!LockOrder

\* The row just locked is below all that are left.
LEMMA LockKeeps ==
    ASSUME LockConstants, Locks!TypeOK, Locks!LockOrder, NEW t \in Txns, Locks!Lock(t)
    PROVE  Locks!TypeOK' /\ Locks!LockOrder'
<1>1. PICK i \in Ids :
        /\ Locks!IsNext(t, i)
        /\ holder[i] \in {NoTxn, t}
        /\ holder' = [holder EXCEPT ![i] = t]
        /\ IF giveBack[t] /= {}
           THEN giveBack' = [giveBack EXCEPT ![t] = @ \ {i}] /\ UNCHANGED apply
           ELSE apply' = [apply EXCEPT ![t] = @ \ {i}] /\ UNCHANGED giveBack
  BY DEF Locks!Lock
<1>2. Locks!TypeOK'
  BY <1>1 DEF Locks!TypeOK, Locks!Lock
<1>3. ASSUME kind[t] /= "update"
      PROVE  \A j \in giveBack'[t] \cup apply'[t] :
                 j \in giveBack[t] \cup apply[t] /\ i < j
  <2>1. i \in Nat /\ \A j \in giveBack[t] \cup apply[t] : j \in Nat
    BY DEF LockConstants, Locks!TypeOK
  <2>2. giveBack[t] = {} \/ apply[t] = {}
    BY <1>3 DEF Locks!LockOrder, Locks!Sorted
  <2>3. CASE giveBack[t] /= {}
    <3>1. \A j \in giveBack[t] : i <= j
      BY <1>1, <2>3, NextIsLeast
    <3>2. giveBack'[t] = giveBack[t] \ {i} /\ apply'[t] = {}
      BY <1>1, <2>2, <2>3 DEF Locks!TypeOK
    <3> QED
      BY <2>1, <3>1, <3>2
  <2>4. CASE giveBack[t] = {}
    <3>1. \A j \in apply[t] : i <= j
      BY <1>1, <2>4, NextIsLeast
    <3>2. giveBack'[t] = {} /\ apply'[t] = apply[t] \ {i}
      BY <1>1, <2>4 DEF Locks!TypeOK
    <3> QED
      BY <2>1, <3>1, <3>2
  <2> QED
    BY <2>3, <2>4
<1>4. ASSUME NEW u \in Txns
      PROVE  /\ kind'[u] /= "update" => Locks!Sorted(u)'
             /\ state'[u] /= "running" => \A k \in Ids : holder'[k] /= u
  <2>1. CASE u = t
    <3>1. kind[t] /= "update" => giveBack'[t] = {} \/ apply'[t] = {}
      BY <1>1 DEF Locks!LockOrder, Locks!TypeOK, Locks!Sorted
    <3>2. \A k \in Ids : holder'[k] = t => k = i \/ holder[k] = t
      BY <1>1 DEF Locks!TypeOK
    <3>3. kind[t] /= "update" =>
            \A k \in Ids : holder'[k] = t => \A j \in giveBack'[t] \cup apply'[t] : k < j
      BY <1>3, <3>2 DEF Locks!LockOrder, Locks!Sorted
    <3>4. state'[t] = "running" /\ kind' = kind
      BY DEF Locks!Lock
    <3> QED
      BY <2>1, <3>1, <3>3, <3>4 DEF Locks!Sorted
  <2>2. CASE u /= t
    BY <1>1, <2>2 DEF Locks!LockOrder, Locks!TypeOK, Locks!Lock, Locks!Sorted
  <2> QED
    BY <2>1, <2>2
<1> QED
  BY <1>2, <1>4 DEF Locks!LockOrder

\* Every step keeps the lock order.
LEMMA StepKeepsOrder ==
    ASSUME LockConstants, Locks!TypeOK, Locks!LockOrder, [Locks!Next]_(Locks!vars)
    PROVE  Locks!TypeOK' /\ Locks!LockOrder'
<1>1. CASE UNCHANGED Locks!vars
  BY <1>1 DEF Locks!vars, Locks!TypeOK, Locks!LockOrder, Locks!Sorted
<1>2. CASE Locks!Next
  <2>1. PICK t \in Txns :
          \/ \E k \in Locks!Kinds, old, new \in SUBSET Ids : Locks!BeginTx(t, k, old, new)
          \/ Locks!Lock(t) \/ Locks!Commit(t) \/ Locks!Refuse(t) \/ Locks!DeadlockVictim(t)
    BY <1>2 DEF Locks!Next
  <2>2. CASE \E k \in Locks!Kinds, old, new \in SUBSET Ids : Locks!BeginTx(t, k, old, new)
    BY <2>2, BeginKeeps
  <2>3. CASE Locks!Lock(t)
    BY <2>3, LockKeeps
  <2>4. CASE Locks!Commit(t) \/ Locks!Refuse(t) \/ Locks!DeadlockVictim(t)
    BY <2>4, EndKeeps DEF Locks!Commit, Locks!Refuse, Locks!DeadlockVictim
  <2> QED
    BY <2>1, <2>2, <2>3, <2>4
<1> QED
  BY <1>1, <1>2

\* In a ring, whoever needs the least row of all is waited for by a transaction
\* that needs a row it holds, hence a smaller one.
LEMMA OrderExcludesRings == LockConstants /\ Locks!TypeOK /\ Locks!LockOrder => Locks!RingsNeedAnEdit
<1> SUFFICES ASSUME LockConstants, Locks!TypeOK, Locks!LockOrder, NEW S \in SUBSET Txns, Locks!Ring(S),
                    \A t \in S : kind[t] /= "update"
             PROVE  FALSE
  BY DEF Locks!RingsNeedAnEdit
<1> DEFINE needed == {i \in Ids : \E u \in S : Locks!IsNext(u, i)}
<1>1. needed \in SUBSET Nat /\ needed /= {}
  BY DEF LockConstants, Locks!Ring, Locks!WaitsFor
<1>2. PICK d \in needed : \A j \in needed : d <= j
  BY <1>1, LeastOfNaturals
<1>3. PICK u \in S : Locks!IsNext(u, d)
  BY <1>2
<1>4. PICK t \in S : Locks!WaitsFor(t, u)
  BY DEF Locks!Ring
<1>5. PICK i \in Ids : Locks!IsNext(t, i) /\ holder[i] = u
  BY <1>4 DEF Locks!WaitsFor
<1>6. i \in needed /\ d \in Ids
  BY <1>5
<1>7. d \in giveBack[u] \cup apply[u]
  BY <1>3, <1>6, NextIsLeast
<1>8. i < d
  BY <1>3, <1>5, <1>7 DEF Locks!LockOrder, Locks!Sorted
<1> QED
  BY <1>1, <1>2, <1>6, <1>8

\* The lock order of receipt creation, receipt deletion and payment
\* verification admits no deadlock among them, for any number of transactions
\* over any invoices, whatever edits run beside them.
THEOREM SortedLocksNeverDeadlock == Locks!Spec => []RingsNeedAnEdit
<1>1. LockConstants
  BY IdsAssumption, NoneAssumption DEF LockConstants
<1>2. Locks!TypeOK /\ Locks!LockOrder /\ [Locks!Next]_(Locks!vars) => Locks!TypeOK' /\ Locks!LockOrder'
  BY <1>1, StepKeepsOrder
<1>3. Locks!Init => Locks!TypeOK /\ Locks!LockOrder
  BY <1>1, InitLocks
<1>4. Locks!TypeOK /\ Locks!LockOrder => RingsNeedAnEdit
  <2>1. \A S : Ring(S) <=> Locks!Ring(S)
    BY DEF Ring, WaitsFor, IsNext, Least, Locks!Ring, Locks!WaitsFor, Locks!IsNext, Locks!Least
  <2> QED
    BY <1>1, <2>1, OrderExcludesRings DEF RingsNeedAnEdit, Locks!RingsNeedAnEdit
<1> QED
  BY <1>2, <1>3, <1>4, PTL DEF Locks!Spec
=============================================================================
