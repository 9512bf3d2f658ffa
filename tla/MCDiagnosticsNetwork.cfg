SPECIFICATION Spec
CONSTANTS
    Jobs <- MCJobs
    NameOf <- MCNameOf
    Shows <- MCShows
    Failed = "N/A"
    Unset = "unset"
INVARIANTS
    NetworkTellsPing
