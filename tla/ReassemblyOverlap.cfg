\* Retransmissions may be cut differently.
CONSTANTS
    SeqMod = 10
    Isn = 7
    StreamLen = 4
    Segments <- AnySegments
    Window = 4
    LateSyn = FALSE
    SynData = {0}
SPECIFICATION Spec
INVARIANTS NothingHeldBack
