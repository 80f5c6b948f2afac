SPECIFICATION SpecApart
CONSTANTS
    Entries = {e1, e2}
    cash = cash
    sales = sales
    Accounts = {cash, sales}
    Keys = {k1}
    NoKey = NoKey
    Requests = {r1, r2}
    Sheets <- Mixed
    MaxAmount = 4
SYMMETRY Symmetry
INVARIANTS SameKeySameEntry PostedImmutable PostedBalanced NoDanglingAccount
\* Accounts may all be deleted and entries used up.
CHECK_DEADLOCK FALSE
