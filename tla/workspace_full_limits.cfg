SPECIFICATION Spec
CONSTANTS
    Handlers = {r1}
    Logos = {l1}
    NoLogo = NoLogo
    RequiredPartners = 1
    InitialPartners = 1
    FullPartners = 3
    InitialTransactions = 1
    FullTransactions = 3
PROPERTY ActivatedGetsFullLimits
