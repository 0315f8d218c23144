\* Captures in the order of the conversation, and captures out of step.
CONSTANTS
    Dialogues <- Captures
    MaxChunk = 4
SPECIFICATION Spec
CHECK_DEADLOCK FALSE
INVARIANTS Faithful RowsLabelled CountsMessages
PROPERTIES OpaqueIsFinal
