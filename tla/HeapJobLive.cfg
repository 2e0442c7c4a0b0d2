\* Liveness, under the fairness of threads and of the lock.
SPECIFICATION FairSpec
CONSTANTS
    Requests = {r1}
    Values = {v1}
    Unset = Unset
    Worker = Worker
    Free = Free
    Checkpoints = 2
    IndexCheckpoint = 2
    MaxFaults = 1
    MaxRestarts = 0
PROPERTIES
    JobEnds
    RequestsAnswered
