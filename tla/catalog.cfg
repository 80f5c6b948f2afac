CONSTANTS
    None = None
    Accounts = {a1, a2}
    Taxes = {t1, t2, t3}
    Books = {jb}
    Banks = {b1, b2}
    Rates = {0, 10}
    Requests = {r1, r2, r3}
SPECIFICATION Spec
SYMMETRY MCSymmetry
CHECK_DEADLOCK FALSE
INVARIANTS MasterDataLive CompoundRateIsSum OnePrimary
