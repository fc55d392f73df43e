SPECIFICATION MCSpec
CONSTANTS
    Ids = {a1, a2}
    Ips = {p1, p2}
    Hosts <- MCHosts
    None = None
    ForwardZones <- MCNested
    Registrable <- MCRegistrable
    PtrZone <- MCPtrZone
    MaxZones = 3
    Settings <- MCSettings
    Addresses <- MCAddresses
    PrefixLengths <- MCPrefixes
    HandMade <- MCHandMade
INVARIANTS
    
    
    SubnetCovered
    NotShadowed
PROPERTIES
    Quiet
    Converges
CHECK_DEADLOCK FALSE
