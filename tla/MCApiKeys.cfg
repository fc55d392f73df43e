SPECIFICATION Spec
CONSTANTS
    Refs = {pdns, recursor}
    Rotating = {pdns}
    Callers = {c1, c2}
    Refresh = 1
    MaxStale = 2
    Timeout = 1
    None = None
    MaxTime = 4
    MaxRotations = 1
INVARIANTS
    StaleBounded
    RefusedExplained
PROPERTY Answered
