\* The comparison of two flows on the corpora of MCTfa: an id that both flows
\* carry is followed, against the promise.
SPECIFICATION TfaSpec
CONSTANTS
    NoTs = NoTs
    NoKey = NoKey
    NoRecord = NoRecord
    ScanLimit = 1
    AnyValue = AnyValue
    Scale = 60
    Inputs <- MCInputs
    Configs <- MCConfigs
    Defects <- MCDefects
    Magnitude <- MCMagnitude
    Trust <- MCTrust
    Good = Good
    Bad = Bad
    NoStamp = NoStamp
    MaxLinks = 1
    Corpora <- MCCorpora
CHECK_DEADLOCK FALSE
INVARIANTS
    SharedIdsAreNotFollowed
