\* Two connections are opened, recorded and evicted while the sampler samples, is
\* stopped, and a snapshot is taken.
CONSTANTS
    Conns = {c1, c2}
    Dirs = {in}
    Batches <- OneBatch
    MaxRecords = 3
    RateHistory = 1
    MaxReads = 2
SPECIFICATION FairSpec
CHECK_DEADLOCK FALSE
INVARIANTS TotalsAccountForConns SamplesAddUp SnapshotNearlyAgrees
PROPERTIES DropJoins
