SPECIFICATION StoresSpec
CONSTANTS
    Null = Null
    Tenants = {ta, tb}
    Ids = {1, 2}
    ListIds = {1, 2, 3}
    Names <- MCNames
    Kinds = {1, 2}
    Sections = {m1, m2}
    Rank <- MCRank
    Texts <- MCTexts
    Fqdns = {f1}
    Tokens = {v1, v2}
    Addrs = {1, 2}
    SyncAddrs = {1}
    MaxCreated = 1
SYMMETRY MCSymmetry
INVARIANTS
    SameRows
    ListsComplete
    SameAnswers
