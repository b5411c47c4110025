SPECIFICATION MCSpec
CONSTANTS
    creator = creator
    u1 = u1
    u2 = u2
    q1 = q1
    q2 = q2
    Users = {creator, u1, u2}
    Creator = creator
    Reqs = {q1, q2}
    None = None
    Capacities = {2}
    Ops = {"approve", "leave", "reject", "request", "link", "cancel", "update"}
    CrashOps = {"link"}
    PoolSize = 3
    MaxCodes = 2
    MaxTokens = 2
    MaxCrashes = 1
INVARIANTS
    CountHolds
    OtpIsGuarded
PROPERTIES
    RosterUnlessRaced
    CancelIsFinal
    WithdrawalStands
CONSTRAINT Counting
SYMMETRY Symmetry
