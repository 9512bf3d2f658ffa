SPECIFICATION LoginSpec
CONSTANTS
    c1 = c1
    c2 = c2
    p1 = p1
    p2 = p2
    p3 = p3
    l1 = l1
    Absent = Absent
    Torn = Torn
    None = None
    Changers <- MCChangers
    Passwords <- MCPasswords
    Logins <- MCLogins
INVARIANTS
    IInv
    LoginInv
    OnlyValidLogsIn
PROPERTIES
    StoredPasswordAccepted
    LoginAnswered
    ImplementsAccount
