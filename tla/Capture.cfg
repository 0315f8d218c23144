\* Every layout and cut of a frame as the first of a capture, then two clients of one server.
CONSTANTS
    Endpoints <- Hosts
    Watched <- Servers
    MaxRecords = 4
    Frames <- AnyFrames
    NoSegment = NoSegment
    Devices <- Listed
    Interfaces = {none, any}
    NoInterface = none
    Plain <- PlainFrames
SPECIFICATION CaptureSpec
CHECK_DEADLOCK FALSE
INVARIANTS SlicesInBounds ParsesWire OpenRecordsHaveEntries LiveIsUnclosed TrailingAbsorbed
PROPERTIES ParseReturns ImplementsTable
