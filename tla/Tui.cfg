\* A history at its cap under a moving view; recording, :save and :open over two files.
CONSTANTS
    HISTORY_CAP = 2
    HISTORY_TRIM_CHUNK = 2
    Tall <- Heights
    MaxScroll = 3
    Files = {"a", "b"}
    OnDisk <- Disk
    Setups <- SetupsUsed
    RecordMayFail = TRUE
    SaveMayFail = TRUE
SPECIFICATION FairSpec
CHECK_DEADLOCK FALSE
INVARIANTS TypeOK VisibleIsFiltered OneTimeline RecordingFollows DroppedIsExact
PROPERTIES FramesFillView PausedViewStays ChannelDrains
