CONSTANTS
    c1 = c1
    c2 = c2
    c3 = c3
    n1 = n1
    None = None
    Calls <- MCCalls
    Notes <- MCNotes
    IdBits = 3
    StartIds <- MCStartFresh
    StartTimeouts <- MCTimeoutOn
    Timeouts <- MCNoTimeoutSet
    Teardowns = {}
    BadReplies = FALSE
SPECIFICATION Spec
SYMMETRY CallSymmetry
INVARIANT AtMostOnce
INVARIANT ResultMatchesRequest
INVARIANT NoLostCall
CHECK_DEADLOCK FALSE
