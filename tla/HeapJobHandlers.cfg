\* Two handlers at once beside the job.
SPECIFICATION Spec
CONSTANTS
    Requests = {r1, r2}
    Values = {v1}
    Unset = Unset
    Worker = Worker
    Free = Free
    Checkpoints = 1
    IndexCheckpoint = 1
    MaxFaults = 0
    MaxRestarts = 0
SYMMETRY Symmetry
INVARIANTS
    NoLostUpdateWhileRunning
    AnnotationsKept
    NamedIndexComplete
    IInv
