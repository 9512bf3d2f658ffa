SPECIFICATION ThrottleSpec
CONSTANTS
    c1 = c1
    c2 = c2
    h1 = h1
    Conns <- MCConns
    HostOf <- MCHostOf
    Window = 2
    Limit = 2
    MaxTime = 3
INVARIANTS
    PerSourceIP
