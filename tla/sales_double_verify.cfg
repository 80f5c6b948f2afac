SPECIFICATION Spec
CONSTANTS
    Invoices = {i1}
    Mitras = {m1}
    Payments = {p1}
    Receipts = {}
    Requests = {r1, r2}
    MaxAmount = 2
SYMMETRY Symmetry
INVARIANT BalanceConserved
\* A quiet server is not stuck: users may have nothing left to ask.
CHECK_DEADLOCK FALSE
