------------------------ MODULE PurchaseLedgerProofs -----------------------
(* Proofs about PurchaseLedger for any number of invoices, receipts and    *)
(* concurrent handlers, with or without legacy data.                       *)
EXTENDS PurchaseLedger, SumTheorems, TLAPS

----------------------------------------------------------------------------
(* Type correctness. *)

\* Rewriting an amount with its status keeps the row well typed.
LEMMA WithPaidType ==
    ASSUME NEW v \in PurchaseInvoice, NEW paid \in Nat
    PROVE  WithPaid(v, paid) \in PurchaseInvoice
<1>1. purchasePaymentStatus(paid, v.grandTotal) \in {"unpaid", "partially_paid", "paid"}
  BY DEF purchasePaymentStatus
<1> QED
  BY <1>1 DEF WithPaid, PurchaseInvoice

\* Giving a payment back keeps all rows well typed: the amount stops at zero.
LEMMA GivenBackType ==
    ASSUME TypeOK, NEW i, NEW a \in Amounts
    PROVE  GivenBack(i, a) \in [Invoices -> PurchaseInvoice]
<1> SUFFICES ASSUME NEW j \in Invoices
             PROVE  reversePurchaseInvoicePayment(invoices[j], a) \in PurchaseInvoice
  BY DEF GivenBack, TypeOK
<1>1. invoices[j] \in PurchaseInvoice /\ invoices[j].paidAmount \in Nat /\ a \in Nat
  BY ConstantsAssumption DEF TypeOK, PurchaseInvoice, Amounts
<1>2. (IF invoices[j].paidAmount < a THEN 0 ELSE invoices[j].paidAmount - a) \in Nat
  BY <1>1
<1> QED
  BY <1>1, <1>2, WithPaidType DEF reversePurchaseInvoicePayment

\* So does the tail shared by Create and Update.
LEMMA AppliedType ==
    ASSUME NEW f \in [Invoices -> PurchaseInvoice], NEW i \in Invoices \cup {NoInvoice},
           NEW m, NEW a \in Amounts, Applied(f, i, m, a)
    PROVE  invoices' \in [Invoices -> PurchaseInvoice]
<1>1. CASE i = NoInvoice
  BY <1>1 DEF Applied
<1>2. CASE i /= NoInvoice
  <2>1. f[i] \in PurchaseInvoice /\ f[i].paidAmount + a \in Nat
    BY <1>2, ConstantsAssumption DEF PurchaseInvoice, Amounts
  <2>2. applyPurchaseInvoicePayment(f[i], a) \in PurchaseInvoice
    BY <2>1, WithPaidType DEF applyPurchaseInvoicePayment
  <2> QED
    BY <1>2, <2>2 DEF Applied
<1> QED
  BY <1>1, <1>2

\* What one receipt pays is a natural number.
LEMMA PaidByType ==
    ASSUME TypeOK, NEW i
    PROVE  [c \in Receipts |-> PaidBy(c, i)] \in [Receipts -> Nat]
<1> SUFFICES ASSUME NEW c \in Receipts PROVE PaidBy(c, i) \in Nat
  OBVIOUS
<1>1. receipts[c].amount \in Nat
  BY ConstantsAssumption DEF TypeOK, PurchaseReceipt, Amounts
<1> QED
  BY <1>1 DEF PaidBy

\* So is what all of them pay.
LEMMA PaidType ==
    ASSUME TypeOK, NEW i
    PROVE  Paid(i) \in Nat
<1> DEFINE f == [c \in Receipts |-> PaidBy(c, i)]
<1>1. f \in [Receipts -> Nat]
  BY PaidByType
<1>2. Paid(i) = SumOver(f, Receipts)
  BY DEF Paid
<1> HIDE DEF f
<1> QED
  BY <1>1, <1>2, ConstantsAssumption, SumType

\* The backfill keeps all rows well typed.
LEMMA BackfillType ==
    ASSUME TypeOK
    PROVE  BackfillPurchasePayments \in [Invoices -> PurchaseInvoice]
<1> SUFFICES ASSUME NEW i \in Invoices PROVE BackfillPurchasePayments[i] \in PurchaseInvoice
  BY DEF BackfillPurchasePayments
<1>1. invoices[i] \in PurchaseInvoice
  BY DEF TypeOK
<1>2. WithPaid(invoices[i], Paid(i)) \in PurchaseInvoice
  BY <1>1, PaidType, WithPaidType
<1> QED
  BY <1>1, <1>2 DEF BackfillPurchasePayments

\* The database is well typed before the first start.
LEMMA InitType == Init => TypeOK
<1> SUFFICES ASSUME Init PROVE TypeOK
  OBVIOUS
<1>1. (CHOOSE m \in Mitras : TRUE) \in Mitras
  BY ConstantsAssumption
<1>2. 0 \in Totals /\ 1 \in Amounts
  BY ConstantsAssumption DEF Totals, Amounts
<1>3. AbsentInvoice \in PurchaseInvoice /\ AbsentReceipt \in PurchaseReceipt
  BY <1>1, <1>2 DEF AbsentInvoice, AbsentReceipt, PurchaseInvoice, PurchaseReceipt, InvoiceStatus
<1>4. LegacyInvoices \subseteq PurchaseInvoice /\ LegacyReceipts \subseteq PurchaseReceipt
  BY DEF LegacyInvoices, LegacyReceipts, PurchaseInvoice, PurchaseReceipt, InvoiceStatus
<1>5. invoices \in [Invoices -> PurchaseInvoice] /\ receipts \in [Receipts -> PurchaseReceipt]
  BY <1>3, <1>4 DEF Init
<1>6. requests \in [Requests -> Request]
  BY DEF Init, Request
<1> QED
  BY <1>5, <1>6 DEF Init, TypeOK

\* Steps on the invoice rows keep everything well typed.
LEMMA InvoiceStepType == ASSUME TypeOK, InvoiceStep PROVE TypeOK'
<1>1. ASSUME NEW i \in Invoices, NEW m \in Mitras, NEW t \in Totals, InvoiceCreate(i, m, t)
      PROVE  TypeOK'
  BY <1>1 DEF InvoiceCreate, TypeOK, PurchaseInvoice, InvoiceStatus
<1>2. ASSUME NEW i \in Invoices, NEW m \in Mitras, NEW t \in Totals, InvoiceUpdate(i, m, t)
      PROVE  TypeOK'
  <2>1. [invoices[i] EXCEPT !.mitra = m, !.grandTotal = t] \in PurchaseInvoice
    BY DEF TypeOK, PurchaseInvoice
  <2>2. WithPaid([invoices[i] EXCEPT !.mitra = m, !.grandTotal = t], invoices[i].paidAmount)
            \in PurchaseInvoice
    BY <2>1, WithPaidType DEF TypeOK, PurchaseInvoice
  <2> QED
    BY <1>2, <2>2 DEF InvoiceUpdate, TypeOK
<1>3. ASSUME NEW i \in Invoices, InvoiceDelete(i)
      PROVE  TypeOK'
  BY <1>3 DEF InvoiceDelete, TypeOK, PurchaseInvoice
<1>4. ASSUME NEW r \in Requests, NEW i \in Invoices,
             ConfirmRead(r, i) \/ BackToDraftRead(r, i) \/ CancelRead(r, i)
      PROVE  TypeOK'
  BY <1>4 DEF ConfirmRead, BackToDraftRead, CancelRead, Begin, TypeOK, Request, InvoiceStatus
<1>5. ASSUME NEW r \in Requests, CountReceipts(r)
      PROVE  TypeOK'
  BY <1>5 DEF CountReceipts, TypeOK, Request, NoRequest
<1>6. ASSUME NEW r \in Requests, SetStatus(r)
      PROVE  TypeOK'
  <2>1. requests[r].invoice \in Invoices /\ requests[r].status \in InvoiceStatus
    BY <1>6 DEF SetStatus, TypeOK, Request, NoRequest
  <2>2. invoices' \in [Invoices -> PurchaseInvoice]
    BY <1>6, <2>1 DEF SetStatus, TypeOK, PurchaseInvoice
  <2> QED
    BY <1>6, <2>2 DEF SetStatus, Finish, TypeOK, Request
<1> QED
  BY <1>1, <1>2, <1>3, <1>4, <1>5, <1>6 DEF InvoiceStep

\* So do steps on receipts.
LEMMA ReceiptStepType == ASSUME TypeOK, ReceiptStep PROVE TypeOK'
<1>1. ASSUME NEW c \in Receipts, NEW i \in Invoices \cup {NoInvoice}, NEW m \in Mitras,
             NEW a \in Amounts, ReceiptCreate(c, i, m, a)
      PROVE  TypeOK'
  <2>1. invoices' \in [Invoices -> PurchaseInvoice]
    BY <1>1, AppliedType DEF ReceiptCreate, TypeOK
  <2> QED
    BY <1>1, <2>1 DEF ReceiptCreate, TypeOK, PurchaseReceipt
<1>2. ASSUME NEW r \in Requests, NEW c \in Receipts, NEW op \in {"update", "delete"},
             ReceiptRead(r, c, op)
      PROVE  TypeOK'
  BY <1>2 DEF ReceiptRead, Begin, TypeOK, PurchaseReceipt, Request
<1>3. ASSUME NEW r \in Requests, NEW i \in Invoices \cup {NoInvoice}, NEW m \in Mitras,
             NEW a \in Amounts, ReceiptUpdate(r, i, m, a)
      PROVE  TypeOK'
  <2>1. requests[r].receipt \in Receipts /\ requests[r].amount \in Amounts
    BY <1>3 DEF ReceiptUpdate, TypeOK, Request, NoRequest
  <2>2. GivenBack(requests[r].invoice, requests[r].amount) \in [Invoices -> PurchaseInvoice]
    BY <2>1, GivenBackType
  <2>3. invoices' \in [Invoices -> PurchaseInvoice]
    BY <1>3, <2>2, AppliedType DEF ReceiptUpdate
  <2>4. receipts' \in [Receipts -> PurchaseReceipt]
    BY <1>3, <2>1 DEF ReceiptUpdate, TypeOK, PurchaseReceipt
  <2> QED
    BY <1>3, <2>3, <2>4 DEF ReceiptUpdate, Finish, TypeOK, Request
<1>4. ASSUME NEW r \in Requests, ReceiptDelete(r)
      PROVE  TypeOK'
  <2>1. requests[r].receipt \in Receipts /\ requests[r].amount \in Amounts
    BY <1>4 DEF ReceiptDelete, TypeOK, Request, NoRequest
  <2>2. invoices' \in [Invoices -> PurchaseInvoice]
    BY <1>4, <2>1, GivenBackType DEF ReceiptDelete
  <2>3. receipts' \in [Receipts -> PurchaseReceipt]
    BY <1>4, <2>1 DEF ReceiptDelete, TypeOK, PurchaseReceipt
  <2> QED
    BY <1>4, <2>2, <2>3 DEF ReceiptDelete, Finish, TypeOK, Request
<1> QED
  BY <1>1, <1>2, <1>3, <1>4 DEF ReceiptStep

\* And every other step.
LEMMA NextType == ASSUME TypeOK, [Next]_vars PROVE TypeOK'
<1>1. ASSUME Start PROVE TypeOK'
  BY <1>1, BackfillType DEF Start, TypeOK
<1>2. ASSUME StartUnaligned PROVE TypeOK'
  BY <1>2 DEF StartUnaligned, TypeOK
<1>3. ASSUME Stop PROVE TypeOK'
  BY <1>3 DEF Stop, TypeOK, Request
<1>4. ASSUME NEW r \in Requests, Abort(r) PROVE TypeOK'
  BY <1>4 DEF Abort, Finish, TypeOK, Request
<1>5. CASE UNCHANGED vars
  BY <1>5 DEF vars, TypeOK
<1> QED
  BY <1>1, <1>2, <1>3, <1>4, <1>5, InvoiceStepType, ReceiptStepType DEF Next

\* Every state is well typed: no reversal drives a paid amount below zero.
THEOREM TypeCorrect == Spec => []TypeOK
  BY InitType, NextType, PTL DEF Spec

----------------------------------------------------------------------------
(* The stored payment status. *)

\* The status of row v says what its amounts say.
Derived(v) ==
    v.paymentStatus = (IF v.paidAmount = 0 THEN "unpaid"
                       ELSE IF v.grandTotal = 0 \/ v.paidAmount < v.grandTotal
                            THEN "partially_paid"
                       ELSE "paid")

\* Every writer of the amount derives the status with it.
LEMMA WithPaidDerived ==
    ASSUME NEW v \in PurchaseInvoice, NEW paid \in Nat
    PROVE  Derived(WithPaid(v, paid))
<1>1. v.grandTotal \in Nat
  BY ConstantsAssumption DEF PurchaseInvoice, Totals
<1> QED
  BY <1>1 DEF Derived, WithPaid, purchasePaymentStatus, PurchaseInvoice

\* A reversal does.
LEMMA GivenBackDerived ==
    ASSUME TypeOK, PaymentStatusDerived, NEW i, NEW a \in Amounts, NEW j \in Invoices
    PROVE  Derived(GivenBack(i, a)[j])
<1>1. invoices[j] \in PurchaseInvoice /\ invoices[j].paidAmount \in Nat /\ a \in Nat
  BY ConstantsAssumption DEF TypeOK, PurchaseInvoice, Amounts
<1>2. (IF invoices[j].paidAmount < a THEN 0 ELSE invoices[j].paidAmount - a) \in Nat
  BY <1>1
<1>3. Derived(reversePurchaseInvoicePayment(invoices[j], a))
  BY <1>1, <1>2, WithPaidDerived DEF reversePurchaseInvoicePayment
<1>4. Derived(invoices[j])
  BY DEF PaymentStatusDerived, Derived
<1> QED
  BY <1>3, <1>4 DEF GivenBack

\* A payment does.
LEMMA AppliedDerived ==
    ASSUME NEW f \in [Invoices -> PurchaseInvoice], NEW i \in Invoices \cup {NoInvoice},
           NEW m, NEW a \in Amounts, Applied(f, i, m, a), NEW j \in Invoices, Derived(f[j])
    PROVE  Derived(invoices'[j])
<1>1. CASE i = NoInvoice
  BY <1>1 DEF Applied
<1>2. CASE i /= NoInvoice
  <2>1. f[i] \in PurchaseInvoice /\ f[i].paidAmount + a \in Nat
    BY <1>2, ConstantsAssumption DEF PurchaseInvoice, Amounts
  <2>2. Derived(applyPurchaseInvoicePayment(f[i], a))
    BY <2>1, WithPaidDerived DEF applyPurchaseInvoicePayment
  <2> QED
    BY <1>2, <2>2 DEF Applied
<1> QED
  BY <1>1, <1>2

\* Every step leaves every status derived.
LEMMA DerivedStep ==
    ASSUME TypeOK, PaymentStatusDerived, [Next]_vars
    PROVE  PaymentStatusDerived'
<1> SUFFICES ASSUME NEW j \in Invoices PROVE Derived(invoices'[j])
  BY DEF PaymentStatusDerived, Derived
<1>0. Derived(invoices[j]) /\ invoices[j] \in PurchaseInvoice
  BY DEF PaymentStatusDerived, Derived, TypeOK
<1>1. CASE UNCHANGED invoices
  BY <1>0, <1>1
<1>2. ASSUME NEW i \in Invoices, NEW m \in Mitras, NEW t \in Totals, InvoiceCreate(i, m, t)
      PROVE  Derived(invoices'[j])
  BY <1>0, <1>2, ConstantsAssumption DEF InvoiceCreate, TypeOK, Derived, Totals
<1>3. ASSUME NEW i \in Invoices, NEW m \in Mitras, NEW t \in Totals, InvoiceUpdate(i, m, t)
      PROVE  Derived(invoices'[j])
  <2>1. [invoices[i] EXCEPT !.mitra = m, !.grandTotal = t] \in PurchaseInvoice
    BY DEF TypeOK, PurchaseInvoice
  <2>2. Derived(WithPaid([invoices[i] EXCEPT !.mitra = m, !.grandTotal = t],
                         invoices[i].paidAmount))
    BY <2>1, WithPaidDerived DEF TypeOK, PurchaseInvoice
  <2> QED
    BY <1>0, <1>3, <2>2 DEF InvoiceUpdate, TypeOK
<1>4. ASSUME NEW i \in Invoices, InvoiceDelete(i)
      PROVE  Derived(invoices'[j])
  BY <1>0, <1>4 DEF InvoiceDelete, TypeOK, PurchaseInvoice, Derived
<1>5. ASSUME NEW r \in Requests, SetStatus(r)
      PROVE  Derived(invoices'[j])
  BY <1>0, <1>5 DEF SetStatus, TypeOK, PurchaseInvoice, Derived
<1>6. ASSUME NEW c \in Receipts, NEW i \in Invoices \cup {NoInvoice}, NEW m \in Mitras,
             NEW a \in Amounts, ReceiptCreate(c, i, m, a)
      PROVE  Derived(invoices'[j])
  BY <1>0, <1>6, AppliedDerived DEF ReceiptCreate, TypeOK
<1>7. ASSUME NEW r \in Requests, NEW i \in Invoices \cup {NoInvoice}, NEW m \in Mitras,
             NEW a \in Amounts, ReceiptUpdate(r, i, m, a)
      PROVE  Derived(invoices'[j])
  <2>1. requests[r].amount \in Amounts
    BY <1>7 DEF ReceiptUpdate, TypeOK, Request, NoRequest
  <2> QED
    BY <1>7, <2>1, GivenBackType, GivenBackDerived, AppliedDerived DEF ReceiptUpdate
<1>8. ASSUME NEW r \in Requests, ReceiptDelete(r)
      PROVE  Derived(invoices'[j])
  <2>1. requests[r].amount \in Amounts
    BY <1>8 DEF ReceiptDelete, TypeOK, Request, NoRequest
  <2> QED
    BY <1>8, <2>1, GivenBackDerived DEF ReceiptDelete
<1>9. ASSUME Start
      PROVE  Derived(invoices'[j])
  <2>1. Derived(WithPaid(invoices[j], Paid(j)))
    BY <1>0, PaidType, WithPaidDerived
  <2> QED
    BY <1>0, <1>9, <2>1 DEF Start, BackfillPurchasePayments
<1>10. CASE InvoiceStep
  BY <1>1, <1>2, <1>3, <1>4, <1>5, <1>10
  DEF InvoiceStep, ConfirmRead, BackToDraftRead, CancelRead, CountReceipts
<1>11. CASE ReceiptStep
  BY <1>1, <1>6, <1>7, <1>8, <1>11 DEF ReceiptStep, ReceiptRead
<1> QED
  BY <1>1, <1>9, <1>10, <1>11 DEF Next, StartUnaligned, Stop, Abort, vars

\* payment_status never disagrees with the amounts it summarises, through
\* payments, reversals, edits of the total, backfills and restarts.
THEOREM StatusAlwaysDerived == Spec => []PaymentStatusDerived
<1>1. Init => PaymentStatusDerived
  <2> SUFFICES ASSUME Init, NEW i \in Invoices
               PROVE  invoices[i].paidAmount = 0 /\ invoices[i].paymentStatus = "unpaid"
    BY DEF PaymentStatusDerived
  <2> QED
    BY DEF Init, AbsentInvoice, LegacyInvoices
<1> QED
  BY <1>1, DerivedStep, TypeCorrect, PTL DEF Spec

----------------------------------------------------------------------------
(* Credits stay within totals. *)

\* Giving back never adds money and changes nothing else.
LEMMA GivenBackOnlyGivesBack ==
    ASSUME TypeOK, NEW i, NEW a \in Amounts, NEW j \in Invoices
    PROVE  LET g == GivenBack(i, a)[j]
           IN  /\ g.row = invoices[j].row /\ g.status = invoices[j].status
               /\ g.grandTotal = invoices[j].grandTotal
               /\ g.paidAmount = IF j /= i THEN invoices[j].paidAmount
                                 ELSE IF invoices[j].paidAmount < a THEN 0
                                 ELSE invoices[j].paidAmount - a
<1>1. invoices[j] \in PurchaseInvoice
  BY DEF TypeOK
<1> QED
  BY <1>1 DEF GivenBack, reversePurchaseInvoicePayment, WithPaid, PurchaseInvoice

\* A payment adds its amount to one confirmed invoice with room for it.
LEMMA AppliedExact ==
    ASSUME NEW f \in [Invoices -> PurchaseInvoice], NEW i \in Invoices \cup {NoInvoice},
           NEW m, NEW a \in Amounts, Applied(f, i, m, a), NEW j \in Invoices
    PROVE  /\ invoices'[j].row = f[j].row /\ invoices'[j].status = f[j].status
           /\ invoices'[j].grandTotal = f[j].grandTotal
           /\ invoices'[j].paidAmount = f[j].paidAmount + (IF j = i THEN a ELSE 0)
           /\ j = i => f[j].status = "confirmed" /\ invoices'[j].paidAmount <= f[j].grandTotal
<1>0. f[j] \in PurchaseInvoice /\ f[j].paidAmount \in Nat /\ f[j].grandTotal \in Nat /\ a \in Nat
  BY ConstantsAssumption DEF PurchaseInvoice, Totals, Amounts
<1>1. CASE i /= j
  BY <1>0, <1>1 DEF Applied
<1>2. CASE i = j
  <2>1. /\ mayApply(f[j], m, a)
        /\ invoices'[j] = applyPurchaseInvoicePayment(f[j], a)
    BY <1>2, ConstantsAssumption DEF Applied
  <2> QED
    BY <1>0, <1>2, <2>1 DEF mayApply, applyPurchaseInvoicePayment, WithPaid, PurchaseInvoice
<1> QED
  BY <1>1, <1>2

\* Money gained by one invoice in a step.
WithinTotal(j) ==
    invoices'[j].paidAmount > invoices[j].paidAmount =>
        invoices'[j].paidAmount <= invoices'[j].grandTotal

\* No step of a running server takes a credit past the total.
LEMMA CreditStep ==
    ASSUME TypeOK, Next, up, NEW j \in Invoices
    PROVE  WithinTotal(j)
<1>0. invoices[j] \in PurchaseInvoice /\ invoices[j].paidAmount \in Nat
  BY DEF TypeOK, PurchaseInvoice
<1>1. CASE invoices'[j].paidAmount = invoices[j].paidAmount
  BY <1>0, <1>1 DEF WithinTotal
<1>2. ASSUME NEW i \in Invoices, NEW m \in Mitras, NEW t \in Totals, InvoiceCreate(i, m, t)
      PROVE  WithinTotal(j)
  <2>1. invoices'[j].paidAmount = 0 \/ invoices'[j] = invoices[j]
    BY <1>2 DEF InvoiceCreate, TypeOK
  <2> QED
    BY <1>0, <2>1 DEF WithinTotal
<1>3. ASSUME NEW i \in Invoices, NEW m \in Mitras, NEW t \in Totals, InvoiceUpdate(i, m, t)
      PROVE  invoices'[j].paidAmount = invoices[j].paidAmount
  BY <1>0, <1>3 DEF InvoiceUpdate, WithPaid, TypeOK, PurchaseInvoice
<1>4. ASSUME NEW i \in Invoices, InvoiceDelete(i)
      PROVE  invoices'[j].paidAmount = invoices[j].paidAmount
  BY <1>0, <1>4 DEF InvoiceDelete, TypeOK, PurchaseInvoice
<1>5. ASSUME NEW r \in Requests, SetStatus(r)
      PROVE  invoices'[j].paidAmount = invoices[j].paidAmount
  BY <1>0, <1>5 DEF SetStatus, TypeOK, PurchaseInvoice
<1>6. ASSUME NEW c \in Receipts, NEW i \in Invoices \cup {NoInvoice}, NEW m \in Mitras,
             NEW a \in Amounts, ReceiptCreate(c, i, m, a)
      PROVE  WithinTotal(j)
  <2>1. /\ invoices'[j].paidAmount = invoices[j].paidAmount + (IF j = i THEN a ELSE 0)
        /\ j = i => invoices'[j].paidAmount <= invoices'[j].grandTotal
    BY <1>6, AppliedExact DEF ReceiptCreate, TypeOK
  <2> QED
    BY <1>0, <2>1 DEF WithinTotal
<1>7. ASSUME NEW r \in Requests, NEW i \in Invoices \cup {NoInvoice}, NEW m \in Mitras,
             NEW a \in Amounts, ReceiptUpdate(r, i, m, a)
      PROVE  WithinTotal(j)
  <2>1. requests[r].amount \in Amounts /\ requests[r].amount \in Nat
    BY <1>7, ConstantsAssumption DEF ReceiptUpdate, TypeOK, Request, NoRequest, Amounts
  <2> DEFINE given == GivenBack(requests[r].invoice, requests[r].amount)
  <2>2. given \in [Invoices -> PurchaseInvoice]
    BY <2>1, GivenBackType
  <2>3. given[j].paidAmount \in Nat /\ given[j].paidAmount <= invoices[j].paidAmount
    BY <1>0, <2>1, GivenBackOnlyGivesBack
  <2>4. Applied(given, i, m, a)
    BY <1>7 DEF ReceiptUpdate
  <2> HIDE DEF given
  <2>5. /\ invoices'[j].paidAmount = given[j].paidAmount + (IF j = i THEN a ELSE 0)
        /\ j = i => invoices'[j].paidAmount <= invoices'[j].grandTotal
    BY <2>2, <2>4, AppliedExact
  <2> QED
    BY <1>0, <2>3, <2>5 DEF WithinTotal
<1>8. ASSUME NEW r \in Requests, ReceiptDelete(r)
      PROVE  WithinTotal(j)
  <2>1. requests[r].amount \in Amounts /\ requests[r].amount \in Nat
    BY <1>8, ConstantsAssumption DEF ReceiptDelete, TypeOK, Request, NoRequest, Amounts
  <2>2. invoices'[j].paidAmount \in Nat /\ invoices'[j].paidAmount <= invoices[j].paidAmount
    BY <1>0, <1>8, <2>1, GivenBackOnlyGivesBack DEF ReceiptDelete
  <2> QED
    BY <1>0, <2>2 DEF WithinTotal
<1>9. CASE InvoiceStep
  BY <1>1, <1>2, <1>3, <1>4, <1>5, <1>9
  DEF InvoiceStep, ConfirmRead, BackToDraftRead, CancelRead, CountReceipts
<1>10. CASE ReceiptStep
  BY <1>1, <1>6, <1>7, <1>8, <1>10 DEF ReceiptStep, ReceiptRead
<1> QED
  BY <1>1, <1>9, <1>10 DEF Next, Start, StartUnaligned, Stop, Abort

\* While the server runs, whatever a handler read before it took the row lock,
\* a credit never takes an invoice past its total.
THEOREM CreditsAlwaysWithinTotal == Spec => CreditWithinTotal
<1>1. TypeOK /\ [Next]_vars => [up => \A i \in Invoices : WithinTotal(i)]_vars
  BY CreditStep DEF vars
<1> QED
  BY <1>1, TypeCorrect, PTL DEF Spec, CreditWithinTotal, WithinTotal

----------------------------------------------------------------------------
(* The books.  A handler acts on what it read earlier; while handlers write *)
(* distinct receipts, what it read still holds.                             *)

\* The payment a handler is about to give back is the one the receipt records.
Fresh(r) ==
    LET m == requests[r] IN
    m.op \in {"update", "delete"} =>
        /\ receipts[m.receipt].row = "live"
        /\ receipts[m.receipt].invoice = m.invoice
        /\ receipts[m.receipt].amount = m.amount

\* An invoice about to be reopened or cancelled still has no live receipt.
StillEmpty(r) ==
    LET m == requests[r] IN
    m.op = "set_status" /\ m.status /= "confirmed" => LiveReceipts(m.invoice) = {}

\* Invoices that were not created yet count as drafts.
AbsentIsDraft == \A i \in Invoices : invoices[i].row = "absent" => invoices[i].status = "draft"

IInv ==
    /\ TypeOK
    /\ NeverOverstated
    /\ BooksBalanced
    /\ NothingStranded
    /\ AbsentIsDraft
    /\ DistinctReceipts
    /\ \A r \in Requests : Fresh(r) /\ StillEmpty(r)

\* Giving back stops at zero.
Minus(x, y) == IF x < y THEN 0 ELSE x - y

\* A step that settles receipt c: what it paid is given back, what it pays now
\* is applied, and only to confirmed invoices.
Settles(c) ==
    /\ UNCHANGED aligned
    /\ \A e \in Receipts \ {c} : receipts'[e] = receipts[e]
    /\ \A j \in Invoices :
          /\ invoices'[j].row = invoices[j].row /\ invoices'[j].status = invoices[j].status
          /\ invoices'[j].paidAmount = Minus(invoices[j].paidAmount, PaidBy(c, j)) + PaidBy(c, j)'
          /\ c \in LiveReceipts(j)' => invoices[j].status = "confirmed"

\* When one receipt changes, what all of them pay changes by the difference.
LEMMA PaidFollows ==
    ASSUME TypeOK, TypeOK', NEW j \in Invoices, NEW c \in Receipts,
           \A e \in Receipts \ {c} : receipts'[e] = receipts[e]
    PROVE  /\ Paid(j)' = Paid(j) - PaidBy(c, j) + PaidBy(c, j)'
           /\ Paid(j) \in Nat /\ PaidBy(c, j) \in Nat /\ PaidBy(c, j)' \in Nat
           /\ PaidBy(c, j) <= Paid(j)
<1> DEFINE f == [e \in Receipts |-> PaidBy(e, j)]
           g == [e \in Receipts |-> PaidBy(e, j)']
<1>1. f \in [Receipts -> Nat]
  BY PaidByType
<1>2. g \in [Receipts -> Nat]
  <2> SUFFICES ASSUME NEW e \in Receipts PROVE PaidBy(e, j)' \in Nat
    OBVIOUS
  <2>1. receipts'[e].amount \in Nat
    BY ConstantsAssumption DEF TypeOK, PurchaseReceipt, Amounts
  <2> QED
    BY <2>1 DEF PaidBy
<1>3. \A e \in Receipts \ {c} : g[e] = f[e]
  BY DEF PaidBy, LiveReceipts
<1>4. f[c] = PaidBy(c, j) /\ g[c] = PaidBy(c, j)'
  OBVIOUS
<1>5. Paid(j) = SumOver(f, Receipts)
  BY DEF Paid
<1>6. Paid(j)' = SumOver(g, Receipts)
  BY DEF Paid
<1> HIDE DEF f, g
<1>7. SumOver(g, Receipts) = SumOver(f, Receipts) - f[c] + g[c]
  BY <1>1, <1>2, <1>3, ConstantsAssumption, SumUpdate
<1>8. f[c] <= SumOver(f, Receipts) /\ SumOver(f, Receipts) \in Nat
  BY <1>1, ConstantsAssumption, SumTerm, SumType
<1> QED
  BY <1>1, <1>2, <1>4, <1>5, <1>6, <1>7, <1>8

\* When no receipt changes, neither does what they pay.
LEMMA PaidStays ==
    ASSUME NEW j \in Invoices, UNCHANGED receipts
    PROVE  Paid(j)' = Paid(j)
  BY DEF Paid, PaidBy, LiveReceipts

\* Nothing is paid on an invoice without live receipts.
LEMMA NothingPaid ==
    ASSUME TypeOK, NEW j \in Invoices, LiveReceipts(j) = {}
    PROVE  Paid(j) = 0
<1> DEFINE f == [e \in Receipts |-> PaidBy(e, j)]
<1>1. f \in [Receipts -> Nat] /\ \A e \in Receipts : f[e] = 0
  BY DEF PaidBy
<1>2. Paid(j) = SumOver(f, Receipts)
  BY DEF Paid
<1> HIDE DEF f
<1> QED
  BY <1>1, <1>2, ConstantsAssumption, SumZero

\* Creating a receipt settles it.
LEMMA CreateSettles ==
    ASSUME TypeOK, NEW c \in Receipts, NEW i \in Invoices \cup {NoInvoice}, NEW m \in Mitras,
           NEW a \in Amounts, ReceiptCreate(c, i, m, a)
    PROVE  Settles(c)
<1>1. \A e \in Receipts \ {c} : receipts'[e] = receipts[e]
  BY DEF ReceiptCreate, TypeOK
<1>2. ASSUME NEW j \in Invoices
      PROVE  /\ PaidBy(c, j) = 0 /\ PaidBy(c, j)' = (IF j = i THEN a ELSE 0)
             /\ c \in LiveReceipts(j)' => j = i
  BY DEF ReceiptCreate, TypeOK, PaidBy, LiveReceipts
<1>3. ASSUME NEW j \in Invoices
      PROVE  /\ invoices'[j].row = invoices[j].row /\ invoices'[j].status = invoices[j].status
             /\ invoices'[j].paidAmount = invoices[j].paidAmount + (IF j = i THEN a ELSE 0)
             /\ j = i => invoices[j].status = "confirmed"
  BY AppliedExact DEF ReceiptCreate, TypeOK
<1>4. \A j \in Invoices : invoices[j].paidAmount \in Nat
  BY DEF TypeOK, PurchaseInvoice
<1> QED
  BY <1>1, <1>2, <1>3, <1>4 DEF Settles, Minus, ReceiptCreate

\* Editing a receipt settles it, also when it moves to another invoice.
LEMMA UpdateSettles ==
    ASSUME IInv, NEW r \in Requests, NEW i \in Invoices \cup {NoInvoice}, NEW m \in Mitras,
           NEW a \in Amounts, ReceiptUpdate(r, i, m, a),
           NEW c \in Receipts, c = requests[r].receipt
    PROVE  Settles(c)
<1>1. /\ TypeOK /\ requests[r].amount \in Amounts
      /\ receipts[c].row = "live" /\ receipts[c].invoice = requests[r].invoice
      /\ receipts[c].amount = requests[r].amount /\ receipts[c] \in PurchaseReceipt
  BY DEF IInv, ReceiptUpdate, TypeOK, Request, NoRequest, Fresh
<1>2. \A e \in Receipts \ {c} : receipts'[e] = receipts[e]
  BY <1>1 DEF ReceiptUpdate, TypeOK
<1>3. receipts'[c].row = "live" /\ receipts'[c].invoice = i /\ receipts'[c].amount = a
  BY <1>1 DEF ReceiptUpdate, TypeOK, PurchaseReceipt
<1>4. ASSUME NEW j \in Invoices
      PROVE  /\ PaidBy(c, j) = (IF j = requests[r].invoice THEN requests[r].amount ELSE 0)
             /\ PaidBy(c, j)' = (IF j = i THEN a ELSE 0)
             /\ c \in LiveReceipts(j)' => j = i
  BY <1>1, <1>3 DEF PaidBy, LiveReceipts
<1> DEFINE given == GivenBack(requests[r].invoice, requests[r].amount)
<1>5. given \in [Invoices -> PurchaseInvoice]
  BY <1>1, GivenBackType
<1>6. ASSUME NEW j \in Invoices
      PROVE  /\ given[j].row = invoices[j].row /\ given[j].status = invoices[j].status
             /\ given[j].paidAmount = IF j /= requests[r].invoice THEN invoices[j].paidAmount
                                      ELSE Minus(invoices[j].paidAmount, requests[r].amount)
  BY <1>1, GivenBackOnlyGivesBack DEF Minus
<1>7. Applied(given, i, m, a)
  BY DEF ReceiptUpdate
<1> HIDE DEF given
<1>8. ASSUME NEW j \in Invoices
      PROVE  /\ invoices'[j].row = given[j].row /\ invoices'[j].status = given[j].status
             /\ invoices'[j].paidAmount = given[j].paidAmount + (IF j = i THEN a ELSE 0)
             /\ j = i => given[j].status = "confirmed"
  BY <1>5, <1>7, AppliedExact
<1>9. ASSUME NEW j \in Invoices
      PROVE  invoices[j].paidAmount \in Nat /\ Minus(invoices[j].paidAmount, 0) = invoices[j].paidAmount
  BY <1>1 DEF TypeOK, PurchaseInvoice, Minus
<1>10. UNCHANGED aligned
  BY DEF ReceiptUpdate
<1> QED
  BY <1>2, <1>4, <1>6, <1>8, <1>9, <1>10 DEF Settles

\* Deleting a receipt settles it.
LEMMA DeleteSettles ==
    ASSUME IInv, NEW r \in Requests, ReceiptDelete(r),
           NEW c \in Receipts, c = requests[r].receipt
    PROVE  Settles(c)
<1>1. /\ TypeOK /\ requests[r].amount \in Amounts
      /\ receipts[c].row = "live" /\ receipts[c].invoice = requests[r].invoice
      /\ receipts[c].amount = requests[r].amount /\ receipts[c] \in PurchaseReceipt
  BY DEF IInv, ReceiptDelete, TypeOK, Request, NoRequest, Fresh
<1>2. \A e \in Receipts \ {c} : receipts'[e] = receipts[e]
  BY <1>1 DEF ReceiptDelete, TypeOK
<1>3. receipts'[c].row = "deleted"
  BY <1>1 DEF ReceiptDelete, TypeOK, PurchaseReceipt
<1>4. ASSUME NEW j \in Invoices
      PROVE  /\ PaidBy(c, j) = (IF j = requests[r].invoice THEN requests[r].amount ELSE 0)
             /\ PaidBy(c, j)' = 0
             /\ c \notin LiveReceipts(j)'
  BY <1>1, <1>3 DEF PaidBy, LiveReceipts
<1>5. ASSUME NEW j \in Invoices
      PROVE  /\ invoices'[j].row = invoices[j].row /\ invoices'[j].status = invoices[j].status
             /\ invoices'[j].paidAmount = IF j /= requests[r].invoice THEN invoices[j].paidAmount
                                          ELSE Minus(invoices[j].paidAmount, requests[r].amount)
  BY <1>1, GivenBackOnlyGivesBack DEF Minus, ReceiptDelete
<1>6. ASSUME NEW j \in Invoices
      PROVE  /\ invoices[j].paidAmount \in Nat
             /\ Minus(invoices[j].paidAmount, 0) = invoices[j].paidAmount
             /\ Minus(invoices[j].paidAmount, requests[r].amount) \in Nat
  BY <1>1, ConstantsAssumption DEF TypeOK, PurchaseInvoice, Minus, Amounts
<1>7. UNCHANGED aligned
  BY DEF ReceiptDelete
<1> QED
  BY <1>2, <1>4, <1>5, <1>6, <1>7 DEF Settles

\* A step that writes the row of invoice i, not its amount; the invoice is not
\* confirmed afterwards only if no live receipt pays it.
Edits(i) ==
    /\ UNCHANGED <<receipts, aligned>>
    /\ \A j \in Invoices \ {i} : invoices'[j] = invoices[j]
    /\ invoices'[i].paidAmount = invoices[i].paidAmount
    /\ invoices'[i].status /= "confirmed" => LiveReceipts(i) = {}
    /\ invoices'[i].row = "absent" => invoices'[i].status = "draft"

\* A successful start.
Aligns ==
    /\ UNCHANGED receipts
    /\ \A j \in Invoices :
          /\ invoices'[j].row = invoices[j].row /\ invoices'[j].status = invoices[j].status
          /\ invoices'[j].paidAmount = Paid(j)

\* The backfill aligns every invoice, also those it skips: an invoice without a
\* live receipt was not credited.
LEMMA StartAligns ==
    ASSUME TypeOK, NeverOverstated, Start
    PROVE  Aligns
<1> SUFFICES ASSUME NEW j \in Invoices
             PROVE  /\ invoices'[j].row = invoices[j].row /\ invoices'[j].status = invoices[j].status
                    /\ invoices'[j].paidAmount = Paid(j)
  BY DEF Aligns, Start
<1>1. invoices[j] \in PurchaseInvoice /\ invoices[j].paidAmount \in Nat
  BY DEF TypeOK, PurchaseInvoice
<1>2. LiveReceipts(j) = {} => invoices[j].paidAmount = Paid(j)
  BY <1>1, NothingPaid DEF NeverOverstated
<1>3. /\ WithPaid(invoices[j], Paid(j)).paidAmount = Paid(j)
      /\ WithPaid(invoices[j], Paid(j)).row = invoices[j].row
      /\ WithPaid(invoices[j], Paid(j)).status = invoices[j].status
  BY <1>1 DEF WithPaid, PurchaseInvoice
<1>4. \/ invoices'[j] = invoices[j] /\ invoices[j].paidAmount = Paid(j)
      \/ invoices'[j] = WithPaid(invoices[j], Paid(j))
  BY <1>2 DEF Start, BackfillPurchasePayments
<1> QED
  BY <1>3, <1>4

\* Every step settles one receipt, edits one invoice, aligns all or touches none.
LEMMA MoneyStep ==
    ASSUME IInv, [Next]_vars
    PROVE  \/ UNCHANGED <<invoices, receipts, aligned>>
           \/ \E i \in Invoices : Edits(i)
           \/ Aligns
           \/ \E c \in Receipts : Settles(c)
<1> DEFINE Goal == \/ UNCHANGED <<invoices, receipts, aligned>>
                   \/ \E i \in Invoices : Edits(i)
                   \/ Aligns
                   \/ \E c \in Receipts : Settles(c)
<1>0. TypeOK /\ \A i \in Invoices : invoices[i] \in PurchaseInvoice
  BY DEF IInv, TypeOK
<1>1. ASSUME NEW i \in Invoices, NEW m \in Mitras, NEW t \in Totals, InvoiceCreate(i, m, t)
      PROVE  Goal
  <2>1. LiveReceipts(i) = {}
    BY <1>1 DEF InvoiceCreate, IInv, AbsentIsDraft, NothingStranded
  <2>2. invoices[i].paidAmount = 0
    BY <1>0, <2>1, NothingPaid DEF IInv, NeverOverstated, PurchaseInvoice
  <2>3. Edits(i)
    BY <1>0, <1>1, <2>1, <2>2 DEF InvoiceCreate, Edits, TypeOK
  <2> QED
    BY <2>3
<1>2. ASSUME NEW i \in Invoices, NEW m \in Mitras, NEW t \in Totals, InvoiceUpdate(i, m, t)
      PROVE  Goal
  <2>1. Edits(i)
    BY <1>0, <1>2
    DEF InvoiceUpdate, Edits, WithPaid, TypeOK, PurchaseInvoice, IInv, NothingStranded, AbsentIsDraft
  <2> QED
    BY <2>1
<1>3. ASSUME NEW i \in Invoices, InvoiceDelete(i)
      PROVE  Goal
  <2>1. Edits(i)
    BY <1>0, <1>3 DEF InvoiceDelete, Edits, TypeOK, PurchaseInvoice, IInv, NothingStranded
  <2> QED
    BY <2>1
<1>4. ASSUME NEW r \in Requests, SetStatus(r)
      PROVE  Goal
  <2>1. PICK i \in Invoices : i = requests[r].invoice
    BY <1>0, <1>4 DEF SetStatus, TypeOK, Request, NoRequest
  <2>2. requests[r].status /= "confirmed" => LiveReceipts(i) = {}
    BY <1>4, <2>1 DEF SetStatus, IInv, StillEmpty
  <2>3. Edits(i)
    BY <1>0, <1>4, <2>1, <2>2 DEF SetStatus, Live, Edits, TypeOK, PurchaseInvoice
  <2> QED
    BY <2>3
<1>5. ASSUME NEW c \in Receipts, NEW i \in Invoices \cup {NoInvoice}, NEW m \in Mitras,
             NEW a \in Amounts, ReceiptCreate(c, i, m, a)
      PROVE  Goal
  BY <1>0, <1>5, CreateSettles
<1>6. ASSUME NEW r \in Requests, NEW i \in Invoices \cup {NoInvoice}, NEW m \in Mitras,
             NEW a \in Amounts, ReceiptUpdate(r, i, m, a)
      PROVE  Goal
  <2>1. PICK c \in Receipts : c = requests[r].receipt
    BY <1>0, <1>6 DEF ReceiptUpdate, TypeOK, Request, NoRequest
  <2> QED
    BY <1>6, <2>1, UpdateSettles
<1>7. ASSUME NEW r \in Requests, ReceiptDelete(r)
      PROVE  Goal
  <2>1. PICK c \in Receipts : c = requests[r].receipt
    BY <1>0, <1>7 DEF ReceiptDelete, TypeOK, Request, NoRequest
  <2> QED
    BY <1>7, <2>1, DeleteSettles
<1>8. ASSUME Start
      PROVE  Goal
  BY <1>0, <1>8, StartAligns DEF IInv
<1>9. CASE UNCHANGED <<invoices, receipts, aligned>>
  BY <1>9
<1>10. CASE InvoiceStep
  BY <1>1, <1>2, <1>3, <1>4, <1>9, <1>10
  DEF InvoiceStep, ConfirmRead, BackToDraftRead, CancelRead, CountReceipts
<1>11. CASE ReceiptStep
  BY <1>5, <1>6, <1>7, <1>9, <1>11 DEF ReceiptStep, ReceiptRead
<1> QED
  BY <1>8, <1>9, <1>10, <1>11 DEF Next, StartUnaligned, Stop, Abort, vars

\* The books stay as good as they were, and a backfill makes them balance.
LEMMA BooksStep ==
    ASSUME IInv, TypeOK', [Next]_vars, NEW j \in Invoices
    PROVE  /\ invoices'[j].paidAmount <= Paid(j)'
           /\ aligned' => invoices'[j].paidAmount = Paid(j)'
<1>0. /\ TypeOK /\ invoices[j].paidAmount \in Nat /\ invoices'[j].paidAmount \in Nat
      /\ Paid(j) \in Nat
      /\ invoices[j].paidAmount <= Paid(j)
      /\ aligned => invoices[j].paidAmount = Paid(j)
  BY PaidType DEF IInv, TypeOK, PurchaseInvoice, NeverOverstated, BooksBalanced
<1>1. CASE UNCHANGED <<invoices, receipts, aligned>>
  BY <1>0, <1>1, PaidStays
<1>2. ASSUME NEW i \in Invoices, Edits(i)
      PROVE  /\ invoices'[j].paidAmount <= Paid(j)'
             /\ aligned' => invoices'[j].paidAmount = Paid(j)'
  <2>1. invoices'[j].paidAmount = invoices[j].paidAmount /\ aligned' = aligned
    BY <1>2 DEF Edits
  <2>2. Paid(j)' = Paid(j)
    BY <1>2, PaidStays DEF Edits
  <2> QED
    BY <1>0, <2>1, <2>2
<1>3. CASE Aligns
  BY <1>0, <1>3, PaidStays DEF Aligns
<1>4. ASSUME NEW c \in Receipts, Settles(c)
      PROVE  /\ invoices'[j].paidAmount <= Paid(j)'
             /\ aligned' => invoices'[j].paidAmount = Paid(j)'
  <2>1. /\ Paid(j)' = Paid(j) - PaidBy(c, j) + PaidBy(c, j)'
        /\ PaidBy(c, j) \in Nat /\ PaidBy(c, j)' \in Nat /\ PaidBy(c, j) <= Paid(j)
    BY <1>0, <1>4, PaidFollows DEF Settles
  <2>2. /\ invoices'[j].paidAmount = Minus(invoices[j].paidAmount, PaidBy(c, j)) + PaidBy(c, j)'
        /\ aligned' = aligned
    BY <1>4 DEF Settles
  <2> QED
    BY <1>0, <2>1, <2>2 DEF Minus
<1> QED
  BY <1>1, <1>2, <1>3, <1>4, MoneyStep

\* A live receipt is attached to a confirmed invoice only, and the invoice
\* stays confirmed while it is.
LEMMA StrandedStep ==
    ASSUME IInv, TypeOK', [Next]_vars
    PROVE  NothingStranded' /\ AbsentIsDraft'
<1> SUFFICES ASSUME NEW j \in Invoices
             PROVE  /\ invoices'[j].status /= "confirmed" => LiveReceipts(j)' = {}
                    /\ invoices'[j].row = "absent" => invoices'[j].status = "draft"
  BY DEF NothingStranded, AbsentIsDraft
<1>0. /\ invoices[j].status /= "confirmed" => LiveReceipts(j) = {}
      /\ invoices[j].row = "absent" => invoices[j].status = "draft"
  BY DEF IInv, NothingStranded, AbsentIsDraft
<1>1. UNCHANGED receipts => LiveReceipts(j)' = LiveReceipts(j)
  BY DEF LiveReceipts
<1>2. CASE UNCHANGED <<invoices, receipts, aligned>>
  BY <1>0, <1>1, <1>2
<1>3. ASSUME NEW i \in Invoices, Edits(i)
      PROVE  /\ invoices'[j].status /= "confirmed" => LiveReceipts(j)' = {}
             /\ invoices'[j].row = "absent" => invoices'[j].status = "draft"
  <2>1. CASE i = j
    BY <1>1, <1>3, <2>1 DEF Edits
  <2>2. CASE i /= j
    BY <1>0, <1>1, <1>3, <2>2 DEF Edits
  <2> QED
    BY <2>1, <2>2
<1>4. CASE Aligns
  BY <1>0, <1>1, <1>4 DEF Aligns
<1>5. ASSUME NEW c \in Receipts, Settles(c)
      PROVE  /\ invoices'[j].status /= "confirmed" => LiveReceipts(j)' = {}
             /\ invoices'[j].row = "absent" => invoices'[j].status = "draft"
  <2>1. LiveReceipts(j)' \ {c} \subseteq LiveReceipts(j)
    BY <1>5 DEF Settles, LiveReceipts
  <2>2. /\ c \in LiveReceipts(j)' => invoices[j].status = "confirmed"
        /\ invoices'[j].row = invoices[j].row /\ invoices'[j].status = invoices[j].status
    BY <1>5 DEF Settles
  <2> QED
    BY <1>0, <2>1, <2>2
<1> QED
  BY <1>2, <1>3, <1>4, <1>5, MoneyStep

\* Handlers that write other receipts leave what a handler read alone.
LEMMA FreshStep ==
    ASSUME IInv, [Next]_vars, NEW s \in Requests
    PROVE  Fresh(s)'
<1>0. Fresh(s) /\ TypeOK /\ requests[s] \in Request
  BY DEF IInv, TypeOK
<1>1. CASE UNCHANGED receipts /\ requests'[s] \in {requests[s], NoRequest}
  BY <1>0, <1>1 DEF Fresh, NoRequest
<1>2. CASE UNCHANGED receipts /\ requests'[s].op \notin {"update", "delete"}
  BY <1>2 DEF Fresh
<1>3. ASSUME NEW r \in Requests, NEW c \in Receipts, NEW op \in {"update", "delete"},
             ReceiptRead(r, c, op)
      PROVE  Fresh(s)'
  <2>1. CASE r = s
    BY <1>0, <1>3, <2>1 DEF ReceiptRead, Begin, Fresh, TypeOK
  <2>2. CASE r /= s
    BY <1>0, <1>1, <1>3, <2>2 DEF ReceiptRead, Begin, TypeOK
  <2> QED
    BY <2>1, <2>2
<1>4. ASSUME NEW c \in Receipts, NEW i \in Invoices \cup {NoInvoice}, NEW m \in Mitras,
             NEW a \in Amounts, ReceiptCreate(c, i, m, a)
      PROVE  Fresh(s)'
  BY <1>0, <1>4 DEF ReceiptCreate, Fresh, TypeOK, Request, NoRequest
<1>5. ASSUME NEW r \in Requests, requests[r].op \in {"update", "delete"}, Finish(r),
             \A e \in Receipts : e /= requests[r].receipt => receipts'[e] = receipts[e]
      PROVE  Fresh(s)'
  <2>1. CASE s = r
    BY <1>0, <1>5, <2>1 DEF Finish, Fresh, TypeOK, NoRequest
  <2>2. CASE s /= r
    <3>1. requests'[s] = requests[s]
      BY <1>0, <1>5, <2>2 DEF Finish, TypeOK
    <3>2. ASSUME requests[s].op \in {"update", "delete"}
          PROVE  receipts'[requests[s].receipt] = receipts[requests[s].receipt]
      <4>1. {requests[r].op, requests[s].op} \subseteq {"update", "delete"}
        BY <1>5, <3>2
      <4>2. requests[r].receipt /= requests[s].receipt
        BY <2>2, <4>1 DEF IInv, DistinctReceipts
      <4>3. requests[s].receipt \in Receipts
        BY <1>0, <3>2 DEF Request, NoRequest
      <4> QED
        BY <1>5, <4>2, <4>3
    <3> QED
      BY <1>0, <3>1, <3>2 DEF Fresh
  <2> QED
    BY <2>1, <2>2
<1>6. ASSUME NEW r \in Requests, NEW i \in Invoices \cup {NoInvoice}, NEW m \in Mitras,
             NEW a \in Amounts, ReceiptUpdate(r, i, m, a)
      PROVE  Fresh(s)'
  BY <1>0, <1>5, <1>6 DEF ReceiptUpdate, TypeOK
<1>7. ASSUME NEW r \in Requests, ReceiptDelete(r)
      PROVE  Fresh(s)'
  BY <1>0, <1>5, <1>7 DEF ReceiptDelete, TypeOK
<1>8. ASSUME NEW r \in Requests, NEW i \in Invoices,
             ConfirmRead(r, i) \/ BackToDraftRead(r, i) \/ CancelRead(r, i)
      PROVE  Fresh(s)'
  BY <1>0, <1>1, <1>2, <1>8 DEF ConfirmRead, BackToDraftRead, CancelRead, Begin, TypeOK
<1>9. ASSUME NEW r \in Requests, CountReceipts(r)
      PROVE  Fresh(s)'
  <2>1. [requests[r] EXCEPT !.op = "set_status"].op = "set_status"
    BY <1>0, <1>9 DEF CountReceipts, TypeOK, Request, NoRequest
  <2> QED
    BY <1>0, <1>1, <1>2, <1>9, <2>1 DEF CountReceipts, TypeOK
<1>10. ASSUME NEW r \in Requests, SetStatus(r) \/ Abort(r)
       PROVE  Fresh(s)'
  BY <1>0, <1>1, <1>10 DEF SetStatus, Abort, Finish, TypeOK
<1>11. CASE InvoiceStep
  BY <1>1, <1>8, <1>9, <1>10, <1>11
  DEF InvoiceStep, InvoiceCreate, InvoiceUpdate, InvoiceDelete
<1>12. CASE ReceiptStep
  BY <1>3, <1>4, <1>6, <1>7, <1>12 DEF ReceiptStep
<1>13. CASE Start \/ StartUnaligned \/ Stop
  BY <1>1, <1>13 DEF Start, StartUnaligned, Stop
<1> QED
  BY <1>1, <1>10, <1>11, <1>12, <1>13 DEF Next, vars

\* What CountReceipts found stays so until the UPDATE of the status.
LEMMA StillEmptyStep ==
    ASSUME IInv, Next, NothingAttachedMeanwhile, NEW s \in Requests
    PROVE  StillEmpty(s)'
<1>0. StillEmpty(s) /\ TypeOK /\ requests[s] \in Request
  BY DEF IInv, TypeOK
<1>1. CASE requests'[s] = requests[s]
  <2> SUFFICES ASSUME requests[s].op = "set_status", requests[s].status /= "confirmed"
               PROVE  LiveReceipts(requests[s].invoice)' = {}
    BY <1>1 DEF StillEmpty
  <2>1. PICK i \in Invoices : i = requests[s].invoice
    BY <1>0 DEF Request, NoRequest
  <2>2. ChangingStatus(i)'
    BY <1>1, <2>1 DEF ChangingStatus
  <2>3. LiveReceipts(i)' = {}
    BY <1>0, <2>1, <2>2 DEF NothingAttachedMeanwhile, StillEmpty
  <2>4. requests'[s].invoice = i
    BY <1>1, <2>1
  <2> QED
    BY <1>1, <2>3, <2>4 DEF LiveReceipts
<1>2. CASE requests'[s].op /= "set_status" \/ requests'[s].status = "confirmed"
  BY <1>2 DEF StillEmpty
<1>3. CASE CountReceipts(s)
  <2>1. /\ requests'[s].invoice = requests[s].invoice /\ UNCHANGED receipts
        /\ LiveReceipts(requests[s].invoice) = {}
    BY <1>0, <1>3 DEF CountReceipts, TypeOK, Request, NoRequest
  <2> QED
    BY <2>1 DEF StillEmpty, LiveReceipts
<1>4. ASSUME NEW r \in Requests, Finish(r)
      PROVE  requests'[s] = requests[s] \/ requests'[s].op /= "set_status"
  BY <1>0, <1>4 DEF Finish, TypeOK, NoRequest
<1>5. ASSUME NEW r \in Requests, NEW i \in Invoices,
             ConfirmRead(r, i) \/ BackToDraftRead(r, i) \/ CancelRead(r, i)
      PROVE  \/ requests'[s] = requests[s]
             \/ requests'[s].op /= "set_status" \/ requests'[s].status = "confirmed"
  BY <1>0, <1>5 DEF ConfirmRead, BackToDraftRead, CancelRead, Begin, TypeOK
<1>6. ASSUME NEW r \in Requests, CountReceipts(r)
      PROVE  requests'[s] = requests[s] \/ CountReceipts(s)
  BY <1>0, <1>6 DEF CountReceipts, TypeOK
<1>7. CASE InvoiceStep
  BY <1>1, <1>2, <1>3, <1>4, <1>5, <1>6, <1>7
  DEF InvoiceStep, InvoiceCreate, InvoiceUpdate, InvoiceDelete, SetStatus
<1>8. ASSUME NEW r \in Requests, NEW c \in Receipts, NEW op \in {"update", "delete"},
             ReceiptRead(r, c, op)
      PROVE  requests'[s] = requests[s] \/ requests'[s].op /= "set_status"
  BY <1>0, <1>8 DEF ReceiptRead, Begin, TypeOK
<1>9. CASE ReceiptStep
  BY <1>1, <1>2, <1>4, <1>8, <1>9 DEF ReceiptStep, ReceiptCreate, ReceiptUpdate, ReceiptDelete
<1>10. CASE Stop
  BY <1>2, <1>10 DEF Stop, NoRequest
<1>11. CASE Start \/ StartUnaligned
  BY <1>1, <1>11 DEF Start, StartUnaligned
<1> QED
  BY <1>1, <1>2, <1>4, <1>7, <1>9, <1>10, <1>11 DEF Next, Abort

\* The invariant is inductive under the assumption on concurrent handlers.
LEMMA InvariantStep ==
    ASSUME IInv, [Next /\ DistinctReceipts' /\ NothingAttachedMeanwhile]_vars
    PROVE  IInv'
<1>1. TypeOK'
  BY NextType DEF IInv
<1>2. NeverOverstated' /\ BooksBalanced'
  BY <1>1, BooksStep DEF NeverOverstated, BooksBalanced
<1>3. NothingStranded' /\ AbsentIsDraft'
  BY <1>1, StrandedStep
<1>4. \A s \in Requests : Fresh(s)'
  BY FreshStep
<1>5. CASE Next /\ DistinctReceipts' /\ NothingAttachedMeanwhile
  BY <1>1, <1>2, <1>3, <1>4, <1>5, StillEmptyStep DEF IInv
<1>6. CASE UNCHANGED vars
  <2>1. DistinctReceipts' /\ \A s \in Requests : StillEmpty(s)'
    BY <1>6 DEF IInv, vars, DistinctReceipts, StillEmpty, LiveReceipts
  <2> QED
    BY <1>1, <1>2, <1>3, <1>4, <2>1 DEF IInv
<1> QED
  BY <1>5, <1>6

\* The invariant holds of an empty database and of one with legacy receipts.
LEMMA InvariantInit == Init => IInv
<1> SUFFICES ASSUME Init PROVE IInv
  OBVIOUS
<1>1. TypeOK
  BY InitType
<1>2. /\ \A i \in Invoices : invoices[i].paidAmount = 0
      /\ AbsentIsDraft
  BY DEF Init, AbsentInvoice, LegacyInvoices, AbsentIsDraft
<1>3. NeverOverstated /\ BooksBalanced
  <2>1. ~aligned
    BY DEF Init
  <2> QED
    BY <1>1, <1>2, <2>1, PaidType DEF NeverOverstated, BooksBalanced
<1>4. NothingStranded
  <2> SUFFICES ASSUME NEW i \in Invoices, invoices[i].status /= "confirmed",
                      NEW c \in Receipts, receipts[c].row = "live", receipts[c].invoice = i
               PROVE  FALSE
    BY DEF NothingStranded, LiveReceipts
  <2> QED
    BY DEF Init, AbsentInvoice, AbsentReceipt, LegacyInvoices, Live
<1>5. \A r \in Requests : requests[r] = NoRequest
  BY DEF Init
<1>6. DistinctReceipts /\ \A r \in Requests : Fresh(r) /\ StillEmpty(r)
  BY <1>5 DEF DistinctReceipts, Fresh, StillEmpty, NoRequest
<1> QED
  BY <1>1, <1>2, <1>3, <1>4, <1>6 DEF IInv

\* The invariant holds throughout.
LEMMA InvariantHolds == SpecDistinct => []IInv
  BY InvariantInit, InvariantStep, PTL DEF SpecDistinct

\* Before and after any backfill, no invoice is credited with more than its
\* live receipts.
THEOREM NeverOverstatedHolds == SpecDistinct => []NeverOverstated
<1>1. IInv => NeverOverstated
  BY DEF IInv
<1> QED
  BY <1>1, InvariantHolds, PTL

\* Once a backfill has succeeded the books balance, through every later start,
\* crash, payment, edit, move and deletion.
THEOREM BooksStayBalanced == SpecDistinct => []BooksBalanced
<1>1. IInv => BooksBalanced
  BY DEF IInv
<1> QED
  BY <1>1, InvariantHolds, PTL

\* No live receipt is left on an invoice that was reopened or cancelled.
THEOREM NothingEverStranded == SpecDistinct => []NothingStranded
<1>1. IInv => NothingStranded
  BY DEF IInv
<1> QED
  BY <1>1, InvariantHolds, PTL
=============================================================================
