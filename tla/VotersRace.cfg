SPECIFICATION Spec
CONSTANTS
    c = c
    a = a
    b = b
    d = d
    u1 = u1
    u2 = u2
    k1 = k1
    k2 = k2
    Null = Null
    Requests = {c, a, b, d}
    Users = {u1, u2}
    Communities = {k1, k2}
    MaxTime = 0
    Menu <- VotersMenu
CONSTRAINT AfterCreation
SYMMETRY Twins
INVARIANTS OneRowPerOption OneBallotPerVoter CastVoteIsKept
PROPERTY ImplementsBallotBox
