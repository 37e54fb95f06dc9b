\* Two handlers: any two requests, faults, and a death of the helper.
SPECIFICATION Spec
CONSTANTS
    open = open
    shy = shy
    plain = plain
    hiding = hiding
    closed = closed
    settings = settings
    NoPath = NoPath
    NoFile = NoFile
    Detached = Detached
    Hole = Hole
    Unreadable = Unreadable
    Paths = {settings}
    SettingsFile = settings
    Handlers = {h1, h2}
    Keys = {dir, limit}
    Vals = {v1, v2, bad}
    Legal = {v1, v2}
    Defaults <- Shipped
    tx = tx
    ty = ty
    Texts = {tx, ty}
    LeadsTo <- Leads
    Urls = {open, shy, plain, hiding, closed}
    Https = {shy, plain, hiding, closed}
    Site <- Manners
    Size = 2
    Retries = 3
    Ttl = 2
    Never = Never
    MaxDirect = 1
    Workloads <- Mixes
INVARIANTS
    TypeOK
    AnswerIsRecent
    RelayKeepsPromise
    SavedIsKept
    SettingsAgree
\* The bounds may be used up.
CHECK_DEADLOCK FALSE
