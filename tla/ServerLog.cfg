\* Two logs that queue and two handlers, a failing save and a crash, under
\* fair tasks.
SPECIFICATION FairSpec
CONSTANTS
    Jobs = {j1, j2}
    Handlers = {h1, h2}
    NoJob = NoJob
    MaxFaults = 1
    MaxCrashes = 1
CHECK_DEADLOCK FALSE
INVARIANTS
    DoneMeansFound
    NothingLeftBehind
    OneIndexAtATime
PROPERTIES
    CancelledNeverPublished
    LogSettles
