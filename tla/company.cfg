SPECIFICATION MCSpec
CONSTANTS
    Handlers = {r1, r2}
    Logos = {l1, l2}
    NoLogo = NoLogo
    RequiredPartners = 1
    InitialPartners = 1
    FullPartners = 3
    InitialTransactions = 1
    FullTransactions = 3
    Docs = {d1, d2, d3}
    Requests = {r1, r2}
    MaxSeq = 3
    OtherSpellings = {"lowercase"}
INVARIANTS LimitsOvershoot ProfileAsGiven UniqueNumbers
\* Documents are used up in the end.
CHECK_DEADLOCK FALSE
