SPECIFICATION MCSpec
CONSTANTS
    q1 = q1
    q2 = q2
    creator = creator
    u1 = u1
    N = 3
    Reqs = {q1, q2}
    None = None
    PoolSize = 3
    Users = {creator, u1}
    Creator = creator
    Capacities = {2}
    Ops = {"approve", "leave", "link", "cancel"}
    CrashOps = {}
    Cells = {1, 2}
    Slots = {p1}
    p1 = p1
INVARIANTS
    TypeOK
    NextStopOffered
PROPERTIES
    UndoneOnlyByRace
    EveryCompletionEnds
    EveryRequestEnds
    LimitLifts
