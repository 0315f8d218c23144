\* Frames of a tagged network.
CONSTANTS
    Endpoints <- Hosts
    Watched <- Servers
    MaxRecords = 1
    Frames <- TaggedFrames
    NoSegment = NoSegment
    Devices <- Listed
    Interfaces = {none}
    NoInterface = none
    Plain <- TaggedFrames
SPECIFICATION CaptureSpec
CHECK_DEADLOCK FALSE
INVARIANT ParsesWire
