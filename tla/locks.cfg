SPECIFICATION Spec
CONSTANTS
    Ids = {1, 2}
    Txns = {t1, t2, t3}
    NoTxn = NoTxn
INVARIANTS RingsNeedAnEdit
PROPERTY EveryTransactionEnds
\* All transactions have ended.
CHECK_DEADLOCK FALSE
