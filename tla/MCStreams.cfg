SPECIFICATION Spec
CONSTANTS
    t1 = t1
    d1 = d1
    Terminals <- MCTerminals
    Dashboards <- MCDashboards
    MaxLines = 2
CHECK_DEADLOCK FALSE
INVARIANTS
    IInv
    OutputComplete
PROPERTIES
    TerminalEnds
    DashboardEnds
    ShutdownEnds
