\* The session file through failing writes and kills.
CONSTANTS
    p1 = p1
    p2 = p2
    Producers <- TwoProducers
    Quota = 2
    Hidden <- OneHidden
    Saving = TRUE
    JsonPieces = 2
    DiskMayFail = TRUE
SPECIFICATION FairSpec
CHECK_DEADLOCK FALSE
INVARIANTS PrintedIsSaved OkIsComplete ReplayRestores
PROPERTIES SourceEndsRun
