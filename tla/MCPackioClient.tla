--------------------------- MODULE MCPackioClient ---------------------------
(* Instances of PackioClient for TLC.                                      *)
EXTENDS PackioClient, TLC

CONSTANTS c1, c2, c3, n1

MCCalls == {c1, c2, c3}
MCTwoCalls == {c1, c2}
MCNotes == {n1}

\* No notifications: the runs about the read path need none.
MCNoNotes == {}

\* id_ starts at 0, as in a new client: three calls take ids 0, 1, 2,
\* below INT_MAX of a 3-bit int.
MCStartFresh == {0}

\* id_ may be anywhere in its range: the client has made any number of
\* calls, all completed, so the counter wraps and passes INT_MAX.
MCStartAny == Ids

\* id_ two below INT_MAX + 1 of a 2-bit id: the second call takes an id
\* that as<int>() rejects.
MCStartBelowSign == {IntMax}

\* timeout_ > 0 / timeout_ = 0 when the first call is made.
MCTimeoutOn == {1}
MCTimeoutOff == {0}

\* set_timeout is not called again / is called with zero or a duration
\* at any time.
MCNoTimeoutSet == {}
MCAnyTimeout == {0, 1}

\* Call identities are interchangeable.
CallSymmetry == Permutations(MCCalls)
=============================================================================
