SPECIFICATION FairSpec
CONSTANTS
    u1 = u1
    u2 = u2
    q1 = q1
    q2 = q2
    q3 = q3
    i1 = i1
    i2 = i2
    Users = {u1}
    Reqs = {q1, q2}
    None = None
    Invites = {i1}
    MinCount = 0
    MayFail = TRUE
INVARIANTS
    TypeOK
    CountNeverOverstates
PROPERTY EveryRequestEnds
