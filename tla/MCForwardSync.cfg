SPECIFICATION PassSpec
CONSTANTS
    Tenants = {t1}
    Names <- MCNames
    Requests = {r1, r2}
    Metas = {m1}
    Preexisting <- MCServed
    Leftover <- MCLeftover
    Static <- MCStatic
    Loops = {loop}
    Resyncs = {now}
    External = External
    MaxInFlight = 1
    MaxFaults = 3
INVARIANTS
    OnePassRepairs
PROPERTIES
    StaticKept
    Settles
