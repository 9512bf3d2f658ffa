SPECIFICATION CrontabSpec
CONSTANTS
    c1 = c1
    c2 = c2
    a = a
    b = b
    none = none
    Clients <- MCClients
    Lines <- MCLines
    NoLine = none
    MaxJobs = 2
PROPERTIES
    AddAppends
