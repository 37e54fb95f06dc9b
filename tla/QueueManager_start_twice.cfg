\* Two starts of one item: the second comes before the first thread is done.
SPECIFICATION Spec
CONSTANTS
    i1 = i1
    i2 = i2
    i3 = i3
    u1 = u1
    u2 = u2
    a = a
    a1 = a1
    a2 = a2
    b = b
    b1 = b1
    NoUrl = NoUrl
    NoPath = NoPath
    NoFile = NoFile
    Detached = Detached
    Hole = Hole
    Paths = {a, a1, a2, b, b1}
    UrlOf <- Links
    NameOf <- Names
    Renames <- Numbers
    Items = {i1, i2, i3}
    Named = {}
    Modes = {"auto-rename"}
    Sized = {u1, u2}
    Ranged = {u1}
    Size = 2
    MaxConcurrent = 1
    Threads = {t1, t2}
    Clients = {c1}
    SoloUsers = FALSE
    Workloads <- Starts
INVARIANTS
    FinalIsWhole
\* Every item may be settled and every bound used up.
CHECK_DEADLOCK FALSE
