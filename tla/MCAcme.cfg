SPECIFICATION Spec
CONSTANTS
    Zones <- MCZones
    Fqdn <- MCFqdn
    Values = {v1, v2}
    Other = other
    Callers = {r1, r2}
    Instances = {i1}
    Nobody = Nobody
    SweepBatch = 1
    MaxValues = 2
    MaxZones = 2
    MaxFaults = 1
    Settings <- MCSettings
INVARIANT StrayExplained
PROPERTIES
    OthersKept
    
CHECK_DEADLOCK FALSE
