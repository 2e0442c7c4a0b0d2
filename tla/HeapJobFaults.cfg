\* One handler beside the job, a failing disk and a restart.
SPECIFICATION Spec
CONSTANTS
    Requests = {r1}
    Values = {v1}
    Unset = Unset
    Worker = Worker
    Free = Free
    Checkpoints = 3
    IndexCheckpoint = 2
    MaxFaults = 2
    MaxRestarts = 1
INVARIANTS
    AdvertisedRevisionSaved
    FilesSettle
    TerminalReportClosed
PROPERTIES
    ImplementsFeed
    WorkerNeverRecreates
    OutcomeStands
    ReportNeverRegresses
