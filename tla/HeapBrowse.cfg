SPECIFICATION Spec
CONSTANTS
    Dumps <- AllDumps
    MaxStarts = 2
    MaxSelection = 3
    UserClasses = {"Owner"}
    Leaves = {"Item", "Cache"}
    Caps <- Samples
    Levels <- Depths
    Limits <- SearchLimits
INVARIANTS
    RetentionIsExact
    ScanAndIndexAgree
    TracesAreTrue
CHECK_DEADLOCK FALSE
