SPECIFICATION RequestsSpec
CONSTANTS
    creator = creator
    u1 = u1
    u2 = u2
    u3 = u3
    q1 = q1
    p1 = p1
    p2 = p2
    w1 = w1
    w2 = w2
    rider = rider
    friend = friend
    admin = admin
    NoMessage = NoMessage
    Users = {creator, u1, u2, u3}
    Creator = creator
    Reqs = {q1}
    None = None
    Capacities = {2, 3}
    Ops = {"approve", "leave", "reject", "request", "link", "cancel", "update"}
    CrashOps = {"approve", "leave", "reject", "request", "cancel", "update"}
    PoolSize = 3
    Slots = {p1, p2}
    MaxLinkTokens = 2
    MaxSaves = 1
    MaxHits = 1
    MaxLinkFaults = 1
    Riders = {rider, admin}
    Admin = admin
    Sender = rider
    MaxCloses = 2
    MaxCodes = 1
    MaxTokens = 3
    MaxEdits = 1
    MaxCrashes = 1
    Reactors = {rider, admin}
    MaxReactDeaths = 1
    Ids = {1, 2, 3}
    Times = {1, 2}
    Senders = {w1}
    Repliers = {w2}
    Limit = 1
    ReplyScan = 1
    MaxScanFaults = 1
    Cells = {1, 2}
    MaxPresenceDeaths = 0
    Passengers = {rider, friend, admin}
    Applicant = applicant
INVARIANTS
    TypeOK
    PartsTypeOK
    RefreshAccepted
    EditsKept
    ToggleKeepsParity
    ToldIsStored
    EveryMessageOnce
    ReplyResolves
    MapShowsStored
    AlertReachesRiders
PROPERTIES
    ImplementsRoster
    LinkStands
    AnswersStand
SYMMETRY Symmetry
