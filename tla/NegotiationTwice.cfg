\* GSS refused, then SSL on the same connection.
CONSTANTS
    Dialogues <- TwoNegotiations
    MaxChunk = 2
SPECIFICATION Spec
CHECK_DEADLOCK FALSE
INVARIANT Faithful
