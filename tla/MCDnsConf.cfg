SPECIFICATION FairSpec
CONSTANTS
    Servers <- MCServers
    Resolver = "recursor"
    Nets = {"lan", "all"}
    Everyone = "all"
    Drafts <- MCDrafts
    MaxList = 2
    None = None
    Requests = {r1, r2}
    Boot = Boot
    Deployments <- MCDeployments
    MaxUpdates = 2
    MaxCrashes = 1
    MaxFaults = 1
INVARIANTS
    FilesFollowStore
    StaleReported
PROPERTY Reapplied
CHECK_DEADLOCK FALSE
