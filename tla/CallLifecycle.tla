--------------------------- MODULE CallLifecycle ---------------------------
(***************************************************************************)
(* What the client promises the caller of async_call, as spec.md 4.5 and 8 *)
(* state it: a call is made once, and its completion handler is then       *)
(* invoked at most once, with one outcome, and never before the call is    *)
(* made.  Nothing is said of which outcome, or that there is one: the      *)
(* client's detailed model (PackioClient) says when, and is shown to       *)
(* implement this one.                                                     *)
(***************************************************************************)

CONSTANTS
    Calls,     \* the calls the user may make
    Outcomes,  \* what a completion handler may be invoked with
    None       \* no outcome yet

VARIABLES
    made,      \* the calls made so far
    outcome    \* call -> the outcome its handler was invoked with, or None

vars == <<made, outcome>>

TypeOK ==
    /\ made \subseteq Calls
    /\ outcome \in [Calls -> Outcomes \cup {None}]

Init ==
    /\ made = {}
    /\ outcome = [c \in Calls |-> None]

\* The user makes call c.
Make(c) ==
    /\ c \notin made
    /\ made' = made \cup {c}
    /\ UNCHANGED outcome

\* The handler of call c is invoked with o: only for a call made, and only
\* once.
Complete(c, o) ==
    /\ c \in made
    /\ outcome[c] = None
    /\ outcome' = [outcome EXCEPT ![c] = o]
    /\ UNCHANGED made

Next == \E c \in Calls : Make(c) \/ \E o \in Outcomes : Complete(c, o)

Spec == Init /\ [][Next]_vars

=============================================================================
