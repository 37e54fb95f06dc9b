SPECIFICATION Spec
CONSTANTS
    u1 = u1
    u2 = u2
    u3 = u3
    u4 = u4
    f0 = f0
    f1 = f1
    f2 = f2
    f3 = f3
    f4 = f4
    NoUrl = NoUrl
    NoPath = NoPath
    NoFile = NoFile
    Detached = Detached
    Hole = Hole
    DefaultFile = f0
    Paths = {f0, f1, f2, f3, f4}
    NameOf <- OwnNames
    Urls = {u1, u4}
    Sized = {u4}
    Ranged = {u4}
    Large = {u4}
    Size = 1
    MaxDownloads = 2
    Workers = {w1}
    Clients = {c1, c2}
    Ops = {"delete", "pause"}
    MaxPosts = 3
    MaxOps = 3
    MaxFaults = 0
INVARIANTS
    TypeOK
    IdsAscending
CHECK_DEADLOCK FALSE
