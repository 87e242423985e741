CONSTANTS
    n1 = n1
    sc = sc
    a = a
    b = b
    Nodes = {n1}
    Console = sc
    Spaces = {a, b}
    NoSpace = NoSpace
    HostSpaces <- OneSpaceOrNone
    Everyone = Everyone
    Seconds = {1, 2}
    MaxVersion = 1
    MaxRefresh = 1
    MaxAlive = 1
    MaxFaults = 2
SPECIFICATION FairSpec
INVARIANTS RealmTellsTruth NeverDeaf ParamsWithNode
PROPERTIES CompleteMeansLoaded PushReaches
CHECK_DEADLOCK FALSE
