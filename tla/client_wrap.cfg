CONSTANTS
    c1 = c1
    c2 = c2
    c3 = c3
    n1 = n1
    None = None
    Notes <- MCNotes
    Calls <- MCCalls
    IdBits = 1
    StartIds <- MCStartAny
    StartTimeouts <- MCTimeoutOn
    Timeouts <- MCNoTimeoutSet
    Teardowns = {"fixture", "answered"}
    BadReplies = FALSE
SPECIFICATION Spec
SYMMETRY CallSymmetry
INVARIANT TypeOK
INVARIANT AtMostOnce
INVARIANT RoutedById
INVARIANT LostOnlyByCollision
CHECK_DEADLOCK FALSE
