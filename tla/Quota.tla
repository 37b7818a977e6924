-------------------------------- MODULE Quota --------------------------------
(***************************************************************************)
(* What the limiter of src/rate_limit.rs promises to the brokers, without  *)
(* the clock: each capability has Limit[c] places, a call is granted by    *)
(* taking a free one, and places become free again in the meantime.        *)
(***************************************************************************)
EXTENDS Naturals

CONSTANTS Caps, Limit

VARIABLES
    used,      \* used[c]: places of c that are taken
    granted    \* granted[c]: calls of c that were ever granted

vars == <<used, granted>>

Init ==
    /\ used = [c \in Caps |-> 0]
    /\ granted = [c \in Caps |-> 0]

\* Some calls leave the window, and one that finds a free place takes it.
Grant(c) ==
    /\ \E n \in 0..used[c] : n < Limit[c] /\ used' = [used EXCEPT ![c] = n + 1]
    /\ granted' = [granted EXCEPT ![c] = @ + 1]

Expire(c) ==
    /\ \E n \in 0..used[c] : used' = [used EXCEPT ![c] = n]
    /\ UNCHANGED granted

\* A new process knows of no call.
Restart == used' = [c \in Caps |-> 0] /\ UNCHANGED granted

Next == (\E c \in Caps : Grant(c) \/ Expire(c)) \/ Restart

Spec == Init /\ [][Next]_vars
=============================================================================
