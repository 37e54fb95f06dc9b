\* Two threads: clicks, changes and failures around the refreshes, and helpers.
SPECIFICATION FairSpec
CONSTANTS
    Dirs = {d1, d2}
    Jobs = {j1, j2}
    Handles = {h1, h2}
    Children = {c1, c2}
    MaxId = 2
    Workloads <- Mixes
INVARIANTS
    TypeOK
    OneTimer
    ClosedLeavesNoHelper
PROPERTIES
    PanelCatchesUp
\* A closed panel, once the console stays as it is, does nothing.
CHECK_DEADLOCK FALSE
