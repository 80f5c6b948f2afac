SPECIFICATION MCSpec
CONSTANTS
    Clients = {c1}
    Admins = {a1, a2}
    Roles = {admin, clerk}
    CustomRoles = {clerk}
    Fallback = TRUE
    MaxChanges = 2
    MaxEdits = 1
    Calls = {k1, k2}
    MaxReissues = 2
    Miss = Miss
    Gone = Gone
    NoRole = NoRole
    TokenPerms = TokenPerms
INVARIANTS
    StaleOnlyAfterARace
PROPERTIES
    OutageNeverLogsOut
    CachesSettle
