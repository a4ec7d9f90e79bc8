SPECIFICATION FairSpec
CONSTANTS
    r1 = r1
    r2 = r2
    r3 = r3
    u1 = u1
    a1 = a1
    a2 = a2
    i1 = i1
    i2 = i2
    Null = Null
    Requests = {r1, r2, r3}
    Users = {u1}
    AuthIds = {a1, a2}
    Ids = {i1, i2}
    IdOf <- MCIdOf
    CrmConns = {c1, c2}
    LocalConns = {l1}
    Menu <- PipelineMenu
    MaxChanges = 1
CONSTRAINT OtherStays
INVARIANTS TypeOK ServedWithAccess TurnedAwayForCause AnswerTellsEffect NoCircularWait
CHECK_DEADLOCK FALSE
PROPERTY EveryRequestEnds
