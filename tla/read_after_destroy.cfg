CONSTANTS
    c1 = c1
    c2 = c2
    c3 = c3
    n1 = n1
    None = None
    Notes <- MCNotes
    Calls <- MCTwoCalls
    IdBits = 3
    StartIds <- MCStartFresh
    StartTimeouts <- MCTimeoutOff
    Timeouts <- MCNoTimeoutSet
    Teardowns = {"answered"}
    BadReplies = FALSE
SPECIFICATION Spec
PROPERTY NoUseAfterDestroy
CHECK_DEADLOCK FALSE
