SPECIFICATION Spec
CONSTANTS
    Users = {u1, u2}
    NoUser = NoUser
    Conns = {c1, c2}
    Buffer = 1
    StreamsPerTenant = 2
    MaxLen = 2
    MaxEvents = 3
    Instances <- MCInstances
INVARIANTS
    Ascending
    NothingElseMissed
    QuotaExact
PROPERTIES
    CloseEnds
    Delivered
CHECK_DEADLOCK FALSE
