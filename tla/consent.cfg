SPECIFICATION FairSpec
CONSTANTS
    Users = {u1}
    u1 = u1
    Tabs = {t1}
    t1 = t1
    Worker = Worker
    States = {s1, s2}
    s1 = s1
    s2 = s2
    Addresses = {b1, b2}
    b1 = b1
    b2 = b2
    Accounts = {a1, a2}
    a1 = a1
    a2 = a2
    Rotates = TRUE
    Revokes = TRUE
    MaxAccounts = 1
    MaxOps = 7
    MaxFaults = 1
INVARIANTS
    TypeOK
    StaysConnected
PROPERTIES
    ErrorsPass
CHECK_DEADLOCK FALSE
