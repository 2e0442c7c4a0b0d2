CONSTANTS
    Setups <- MCSetups
    NoReport = NoReport
    DeploymentJobs <- MCDeploymentJobs
    SystemLoaders <- MCSystemLoaders
    WebappLoaders <- MCWebappLoaders
    UserCode <- MCUserCode
    Artifact <- MCArtifact
    Archives <- MCArchives
    Package <- MCPackage
    Captures <- MCCaptures
    Synchronizers <- MCSynchronizers
    Crowd = 3
    Scans <- MCScans
    TopHeader = 2
    Logs <- MCLogs
    LineBytes = 4
    EventChars = 6
    MaxFrames = 3
    MaxEventLines = 3
    MaxMarkers = 2
    Questions <- MCQuestions
    OuterOf <- MCOuterOf
    Application <- MCApplication
    IdleFrames <- MCIdleFrames
    Unknown = Unknown
    Window = 5
    Listed = 1
    Blamed = 2
    Lookups = 1
    MaxMatched = 1
    Budget = 1
SPECIFICATION ReportsSpec
INVARIANTS
    ThreadsBelongToTheirLoader
CHECK_DEADLOCK FALSE
