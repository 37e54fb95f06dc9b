SPECIFICATION Spec
CONSTANTS
    u1 = u1
    u2 = u2
    u3 = u3
    u4 = u4
    f0 = f0
    f1 = f1
    f2 = f2
    f3 = f3
    f4 = f4
    NoUrl = NoUrl
    NoPath = NoPath
    NoFile = NoFile
    Detached = Detached
    Hole = Hole
    DefaultFile = f0
    Paths = {f0, f1, f2, f3, f4}
    NameOf <- OwnNames
    Urls = {u1, u2, u3, u4}
    Sized = {u1, u2, u4}
    Ranged = {u1, u3, u4}
    Large = {u4}
    Size = 2
    MaxDownloads = 2
    Workers = {w1, w2}
    Clients = {c1}
    Ops = {"pause", "resume", "restart"}
    MaxPosts = 2
    MaxOps = 3
    MaxFaults = 2
INVARIANTS
    ActiveHasWorker
    FinalIsWhole
    CompletedIsWhole
    PartIsPrefix
PROPERTIES
    ProgressKept
CHECK_DEADLOCK FALSE
