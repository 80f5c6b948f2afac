SPECIFICATION SpecApart
CONSTANTS
    MaxRows = 3
    People = {creator, p, q}
    Creator = creator
    Handlers = {h1, h2}
    UserLimit = 1
    OwnerPinned = FALSE
    NoOne = NoOne
SYMMETRY Symmetry
INVARIANTS
    OwnerRemains
    SeatsOvershoot
PROPERTIES
    AcceptedStands
    RemovedStaysOut
CHECK_DEADLOCK FALSE
