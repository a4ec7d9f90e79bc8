SPECIFICATION ResultsSpec
CONSTANTS
    c = c
    a = a
    d = d
    q1 = q1
    u1 = u1
    u2 = u2
    k1 = k1
    k2 = k2
    Null = Null
    Requests = {c, a, d}
    Users = {u1, u2}
    Communities = {k1, k2}
    Readers = {q1}
    MaxTime = 0
    Menu <- StaleWriters
    QueryMenu <- StaleReaders
CONSTRAINTS AfterCreation CrmKeepsUp
INVARIANT AlwaysWithheld
