\* Any order and repetition; the sequence space wraps inside the stream.
CONSTANTS
    SeqMod = 18
    Isn = 13
    StreamLen = 8
    Segments <- AlignedSegments
    Window = 8
    LateSyn = FALSE
    SynData = {0}
SPECIFICATION Spec
INVARIANTS NothingHeldBack
PROPERTIES DeliversStream
