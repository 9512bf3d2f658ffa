SPECIFICATION HandlersSpec
CONSTANTS
    r1 = r1
    r2 = r2
    r3 = r3
    c1 = c1
    c2 = c2
    a = a
    b = b
    none = none
    v1 = v1
    v2 = v2
    f1 = f1
    f2 = f2
    Requests <- MCRequests
    Clients <- MCClients
    Lines <- MCLines
    NoLine = none
    MaxJobs = 2
    Visitors <- MCVisitors
    Feeds <- MCFeeds
    PerFeed = 2
    Cap = 3
    TTL = 2
    FetchTimeout = 1
    MaxTime = 4
SYMMETRY Symmetry
INVARIANTS
    IInv
    Accounted
    RealTimeOrder
    CtInv
    NewsInv
    FreshPages
    MissingMeansFailed
PROPERTIES
    UnracedAddAppends
    UnracedRemoveExact
