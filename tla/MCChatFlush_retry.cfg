SPECIFICATION FairSpec
CONSTANTS
    r1 = r1
    r2 = r2
    s1 = s1
    s2 = s2
    s3 = s3
    Rooms = {r1}
    Servers = {s1, s2}
    NoOwner = NoOwner
    BatchSize = 1
    MaxEntries = 2
    MaxFaults = 1
PROPERTY EventuallyStored
