SPECIFICATION SpecDistinct
CONSTANTS
    Invoices = {i1}
    Mitras = {m1, m2}
    Payments = {p1, p2}
    Receipts = {c1, c2}
    Requests = {r1, r2}
    MaxAmount = 2
SYMMETRY Symmetry
INVARIANTS TypeOK PaymentStatusDerived BalanceConserved DraftCarriesNoMoney
PROPERTIES GainsWithinBalance ImplementsMoneyBook
\* A quiet server is not stuck: users may have nothing left to ask.
CHECK_DEADLOCK FALSE
