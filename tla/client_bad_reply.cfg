CONSTANTS
    c1 = c1
    c2 = c2
    c3 = c3
    n1 = n1
    None = None
    Notes <- MCNoNotes
    Calls <- MCTwoCalls
    IdBits = 3
    StartIds <- MCStartFresh
    StartTimeouts <- MCTimeoutOff
    Timeouts <- MCTimeoutOn
    Teardowns = {}
    BadReplies = TRUE
SPECIFICATION FairSpec
PROPERTY UnpackedReplyDelivered
PROPERTY ImplementsLifecycle
CHECK_DEADLOCK FALSE
