\* A file of five blocks, whose last range takes the remainder; reads of up to
\* two blocks; every interleaving of four threads, the coordinator and clients.
SPECIFICATION Spec
CONSTANTS
    Total = 5
    UpdateStep = 2
    MaxRead = 2
INVARIANTS
    TypeOK
    PublishedIsWhole
    WholeIsAccepted
    NeverStuck
PROPERTIES
    ImplementsAtomic
\* The routine returns and the behaviour ends.
CHECK_DEADLOCK FALSE
