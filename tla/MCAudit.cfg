SPECIFICATION FairSpec
CONSTANTS
    Flushers = {f1, f2}
    Capacity = 2
    No = No
    MaxEvents = 5
    MaxFaults = 1
INVARIANTS
    Conserved
    Flushed
PROPERTY CloseReturns
CHECK_DEADLOCK FALSE
