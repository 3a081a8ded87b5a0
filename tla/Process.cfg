CONSTANTS
    Request = {r1, r2, r3}
    QueueCap = 1
    Recent = 2
    ConfigDays = 30
    MaxProcesses = 2
SPECIFICATION FairSpec
INVARIANT TypeOK
INVARIANT ShutdownWritesAll
PROPERTY ImplementsSummaryLog
PROPERTY OldRowsArePruned
PROPERTY ShutdownEnds
CHECK_DEADLOCK FALSE
