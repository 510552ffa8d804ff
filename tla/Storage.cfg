\* Two crashes on logs with writes, entries of new leaders and a compaction.
SPECIFICATION FairSpec
CONSTANTS
    MaxIndex = 4
    Logs <- MCLogs
    MaxAppend = 2
    MaxFiles = 1
    MaxCrashes = 2
INVARIANTS
    TypeOK
    NoFatal
    ReadableLog
    StableSurvives
    DataMatches
PROPERTIES
    CommittedIsApplied
CHECK_DEADLOCK FALSE
