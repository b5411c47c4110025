SPECIFICATION FairSpec
CONSTANTS
    k1 = k1
    k2 = k2
    q1 = q1
    q2 = q2
    q3 = q3
    Sockets = {k1, k2}
    Reqs = {q1, q2}
    None = None
    Ops = {"join", "send", "approveJoin", "leaveTrip", "joinViaLink", "communityJoin", "communityLeave"}
    MaxFaults = 1
INVARIANTS
    TypeOK
    NeverMemberNeverIn
    CoherentAtRest
    OnlyMembersInRoom
PROPERTIES
    StaleAnswersExpire
