---------------------------- MODULE Authorization ----------------------------
(***************************************************************************)
(* What the payment services promise together, and nothing of how: a human *)
(* asks for a purchase, and at most one grant of money is ever made for    *)
(* it, one that honours what was asked.  Retries, races, crashes and       *)
(* restarts are invisible here.                                            *)
(***************************************************************************)
CONSTANTS
    Requests,       \* purchases a human may ask for
    Grants,         \* authorizations to move money
    Honours(_, _)   \* whether a grant is within what a request allows

VARIABLES
    asked,    \* requests recorded so far
    granted   \* request -> the grants made for it

authVars == <<asked, granted>>

AuthInit ==
    /\ asked = {}
    /\ granted = [r \in Requests |-> {}]

Ask(r) ==
    /\ asked' = asked \cup {r}
    /\ UNCHANGED granted

Grant(r, g) ==
    /\ r \in asked
    /\ granted[r] = {}
    /\ Honours(r, g)
    /\ granted' = [granted EXCEPT ![r] = {g}]
    /\ UNCHANGED asked

AuthNext == \E r \in Requests : Ask(r) \/ \E g \in Grants : Grant(r, g)

AuthSpec == AuthInit /\ [][AuthNext]_authVars
=============================================================================
