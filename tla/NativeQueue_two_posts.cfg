SPECIFICATION Spec
CONSTANTS
    u1 = u1
    u2 = u2
    u3 = u3
    u4 = u4
    f0 = f0
    f1 = f1
    f2 = f2
    f3 = f3
    f4 = f4
    NoUrl = NoUrl
    NoPath = NoPath
    NoFile = NoFile
    Detached = Detached
    Hole = Hole
    DefaultFile = f0
    Paths = {f0, f1, f2, f3, f4}
    NameOf <- OwnNames
    Urls = {u1}
    Sized = {u1}
    Ranged = {u1}
    Large = {}
    Size = 1
    MaxDownloads = 2
    Workers = {w1, w2}
    Clients = {c1, c2}
    Ops = {}
    MaxPosts = 2
    MaxOps = 0
    MaxFaults = 0
INVARIANTS
    SingleWorker
CHECK_DEADLOCK FALSE
