\* All the directories of MCTfa under four configurations, and all its corpora.
SPECIFICATION TfaSpec
CONSTANTS
    NoTs = NoTs
    NoKey = NoKey
    NoRecord = NoRecord
    ScanLimit = 1
    AnyValue = AnyValue
    Scale = 60
    Inputs <- MCInputs
    Configs <- MCConfigs
    Defects <- MCDefects
    Magnitude <- MCMagnitude
    Trust <- MCTrust
    Good = Good
    Bad = Bad
    NoStamp = NoStamp
    MaxLinks = 1
    Corpora <- MCCorpora
CHECK_DEADLOCK FALSE
INVARIANTS
    EpisodesAreTheFlows
    ExplainTellsWhatHappened
    SilentFlowsFollowTheConsensus
    RankingIsSound
    NoBreakMeansSamePath
    FlowsKeepTheirLines
