SPECIFICATION Spec
CONSTANTS
    creator = creator
    u1 = u1
    u2 = u2
    u3 = u3
    q1 = q1
    q2 = q2
    q3 = q3
    Users = {creator, u1, u2}
    Creator = creator
    Reqs = {q1, q2}
    None = None
    Capacities = {2}
    Ops = {"approve", "request"}
    CrashOps = {}
    PoolSize = 3
PROPERTY AdmitsOnlyBelowMax
