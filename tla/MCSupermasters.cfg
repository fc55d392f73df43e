SPECIFICATION Spec
CONSTANTS
    Tenants = {t1, t2}
    Pairs = {p1, p2}
    Requests = {r1, r2, r3}
    None = None
    Unset = Unset
    Foreign = Foreign
    MaxFaults = 1
    MaxExports = 1
SYMMETRY MCSymmetry
INVARIANTS
    StoresAgree
PROPERTIES
    ImportRestores
CHECK_DEADLOCK FALSE
