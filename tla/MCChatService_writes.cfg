SPECIFICATION ServiceSpec
CONSTANTS
    r1 = r1
    s1 = s1
    s2 = s2
    Rooms = {r1}
    Servers = {s1, s2}
    NoOwner = NoOwner
    BatchSize = 2
    MaxEntries = 3
    MaxFaults = 1
    q1 = q1
    q2 = q2
    q3 = q3
    Handlers = {q1, q2, q3}
    RL_REACT_MAX = 2
    FLOOD_MAX = 2
    MaxLimitDeaths = 1
INVARIANTS
    TypeOK
    AckedIsStored
    ExclusiveDelivery
    LimitsHold
PROPERTIES
    ImplementsMessageLog
    EventuallyDelivered
    StoredUnlessFault
    FloodLifts
