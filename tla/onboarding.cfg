CONSTANTS
    Companies = {c1}
    Readers = {r1, r2}
    Tables = {"accounts", "taxes", "units"}
    OwnTables = {"accounts"}
    Fallback = TRUE
    MaxFaults = 2
SPECIFICATION Spec
INVARIANTS NoMemberlessCompany SeededOnce TaxesLinked
PROPERTIES BackfillReachesAll EventuallySeeded
