SPECIFICATION Spec
CONSTANTS
    Jobs <- MCJobs
    NameOf <- MCNameOf
    Shows <- MCShows
    Failed = "inactive"
    Unset = "unset"
INVARIANTS
    IInv
    NothingLeft
PROPERTIES
    ImplementsSnapshot
    CallEnds
