CONSTANTS
    Msgs <- MCChunks
    MaxMsgs = 2
    SplitChunks = TRUE
SPECIFICATION Spec
INVARIANT FramesMatchReference
CHECK_DEADLOCK FALSE
