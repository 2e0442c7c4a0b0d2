\* One page, two reports, a reload or a reopening.
SPECIFICATION FairSpec
CONSTANTS
    Revisions = {0, 1, 2}
    Buffer = 1
    MaxVisits = 1
    NoMessage = NoMessage
INVARIANTS
    PageSettles
PROPERTIES
    WatchEnds
    ReportsArrive
    PageInOrder
CHECK_DEADLOCK FALSE
