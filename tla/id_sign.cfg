CONSTANTS
    c1 = c1
    c2 = c2
    c3 = c3
    n1 = n1
    None = None
    Notes <- MCNotes
    Calls <- MCTwoCalls
    IdBits = 2
    StartIds <- MCStartBelowSign
    StartTimeouts <- MCTimeoutOff
    Timeouts <- MCNoTimeoutSet
    Teardowns = {}
    BadReplies = FALSE
SPECIFICATION FairSpec
PROPERTY RepliedCallCompletes
CHECK_DEADLOCK FALSE
