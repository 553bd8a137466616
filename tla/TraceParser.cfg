CONSTANTS
    NoCount = NoCount
    MaxTrace = 2
    MaxBugs = 2
    MaxBlocks = 3
    Logs <- AllLogs
    PMTestLogs <- PMTestAll
SPECIFICATION Spec
INVARIANTS
    TypeOK
    AllBugsRead
    OperationsRead
    TimesIncrease
    WholeLogsRead
CHECK_DEADLOCK FALSE
