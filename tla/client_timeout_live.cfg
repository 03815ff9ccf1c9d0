CONSTANTS
    c1 = c1
    c2 = c2
    c3 = c3
    n1 = n1
    None = None
    Notes <- MCNotes
    Calls <- MCTwoCalls
    IdBits = 3
    StartIds <- MCStartFresh
    StartTimeouts <- MCTimeoutOn
    Timeouts <- MCAnyTimeout
    Teardowns = {}
    BadReplies = FALSE
SPECIFICATION FairSpec
PROPERTY EveryOperationCompletes
PROPERTY RepliedCallCompletes
CHECK_DEADLOCK FALSE
