\* One sender replaces daemons on the two known ports, while another client asks
\* for a status or a shutdown, and an answer is late, a process dies or the loader
\* refuses.  A wait of eight seconds has room for two polls at least: one takes two
\* seconds to connect, two to read, and is followed by half a second of sleep.
SPECIFICATION FairSpec
CONSTANTS
    d1 = d1
    d2 = d2
    d3 = d3
    p2634 = p2634
    p2644 = p2644
    None = None
    Old = {d1, d2}
    New = {d3}
    PortOf <- BuiltFor
    Checked <- KnownPorts
    Senders = {s1}
    MinPolls = 2
    MaxOpen = 2
    MaxSends = 1
    MaxVisits = 1
    MaxMissed = 1
    MaxFaults = 1
INVARIANTS
    TypeOK
    AnsweredIsObeyed
PROPERTIES
    SendsOnQuiet
    ShutdownEnds
\* Nobody need send anything.
CHECK_DEADLOCK FALSE
