SPECIFICATION BSpec
CONSTANTS
    Tenants = {t1, t2}
    Names <- MCFamily
    Requests = {r1, r2, i1}
    Metas = {m1, m2}
    Preexisting = {}
    Leftover = {}
    External = External
    MaxInFlight = 2
    MaxFaults = 1
    Minted = {i1}
    MaxTemplates = 1
    MaxImports = 2
SYMMETRY MCSymmetry
INVARIANTS
    OrphanExplained
    OverlapOnlyByRace
    AgreeUnlessRaced
    ImportRestores
PROPERTY RegistryRefined
CHECK_DEADLOCK FALSE
