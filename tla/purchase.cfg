SPECIFICATION SpecDistinct
CONSTANTS
    Invoices = {i1, i2}
    Mitras = {m1}
    Receipts = {c1, c2}
    Requests = {r1, r2}
    MaxAmount = 2
    NoInvoice = NoInvoice
    Legacy = TRUE
SYMMETRY Symmetry
INVARIANTS TypeOK PaymentStatusDerived NeverOverstated BooksBalanced NothingStranded
PROPERTY CreditWithinTotal
