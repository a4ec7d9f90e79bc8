SPECIFICATION Spec
CONSTANTS
    c = c
    a = a
    b = b
    d = d
    u1 = u1
    u2 = u2
    k1 = k1
    k2 = k2
    Null = Null
    Requests = {c, a, b, d}
    Users = {u1}
    Communities = {k1, k2}
    MaxTime = 0
    Menu <- ManagersMenu
CONSTRAINT AfterCreation
SYMMETRY Twins
INVARIANTS Integrity OptionsFromOneSubmission PollOffersChoice CastVoteIsKept RecordsSpeakTrue
PROPERTIES ReplacementSparesSettledVotes ImplementsBallotBox
