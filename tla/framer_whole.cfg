CONSTANTS
    Msgs <- MCPlain
    MaxMsgs = 3
    SplitChunks = FALSE
SPECIFICATION Spec
INVARIANT FramesMatchReference
CHECK_DEADLOCK FALSE
