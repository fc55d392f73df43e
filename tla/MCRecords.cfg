SPECIFICATION Spec
CONSTANTS
    Plain = {"example", "lab", "ph", "other", "www", "ftp", "mail", "h1", "h2"}
    Underscored = {"_acme"}
    Suffixes <- MCSuffixes
    MaxName = 4
    Editable = {"A", "CNAME", "NS", "MX"}
    PriorityFields <- MCPriorityFields
    MinTTL = 60
    MaxTTL = 90
    MaxValues = 3
    MaxPriority = 10
    MaxTemplateRecords = 3
    Contents <- MCContents
    Zone <- MCZone
    PlaceholderZone <- MCPlaceholder
    Writers = {w1, w2, w3}
    Inputs <- MCInputs
    Origs <- MCOrigs
    Templates <- MCTemplates
    Tried <- MCTried
    Nameservers <- MCNameservers
    None = None
    MaxFaults = 1
SYMMETRY MCSymmetry
INVARIANTS
    OrderFree
    TemplateComplete
    CnameAlone
    EventsTell
CHECK_DEADLOCK FALSE
