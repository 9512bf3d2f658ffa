SPECIFICATION Spec
CONSTANTS
    c1 = c1
    c2 = c2
    t1 = t1
    t2 = t2
    none = none
    Conns <- MCConns
    Tokens <- MCTokens
    NoToken = none
    SessionTTL = 2
    MaxTime = 4
INVARIANTS
    IInv
    LogoutKnowsActor
PROPERTIES
    ImplementsContract
    ExpiredCollected
