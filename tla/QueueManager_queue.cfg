\* What the files hold: a resumable and a non-resumable server, every conflict
\* mode, pauses, cancels, faults with retries, and restarts of the helper.
SPECIFICATION FairSpec
CONSTANTS
    i1 = i1
    i2 = i2
    i3 = i3
    u1 = u1
    u2 = u2
    a = a
    a1 = a1
    a2 = a2
    b = b
    b1 = b1
    NoUrl = NoUrl
    NoPath = NoPath
    NoFile = NoFile
    Detached = Detached
    Hole = Hole
    Paths = {a, a1, a2, b, b1}
    UrlOf <- Links
    NameOf <- Names
    Renames <- Numbers
    Items = {i1, i2, i3}
    Named = {i2}
    Modes = {"auto-rename", "overwrite", "skip"}
    Sized = {u1, u2}
    Ranged = {u1}
    Size = 2
    MaxConcurrent = 1
    Threads = {t1, t2}
    Clients = {c1}
    SoloUsers = TRUE
    Workloads <- Mixes
INVARIANTS
    TypeOK
    EventsReachThread
    FinalIsWhole
    CompletedIsWhole
    PartIsPrefix
PROPERTIES
    ThreadsEnd
    EndSettlesRow
\* Every item may be settled and every bound used up.
CHECK_DEADLOCK FALSE
