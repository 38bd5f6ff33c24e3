---------------------------- MODULE MotionPermit ----------------------------
(***************************************************************************)
(* What the state machine of the controller promises about motion, without  *)
(* drives, words or counters.  There is one permit for the whole machine.   *)
(* It is granted at standstill only, a drive moves after a cycle only if    *)
(* the cycle began with the permit, and a trip takes the permit away and    *)
(* has to be reset, again at standstill, before it can be granted anew.     *)
(***************************************************************************)
VARIABLES permit, moving, tripped

vars == <<permit, moving, tripped>>

Init == ~permit /\ ~moving /\ ~tripped

Grant ==
    /\ ~permit /\ ~tripped /\ ~moving
    /\ permit' /\ ~moving' /\ ~tripped'

\* With the permit drives may start and stop; it may be handed back.
Work ==
    /\ permit /\ ~tripped
    /\ moving' \in BOOLEAN /\ permit' /\ ~tripped'

HandBack ==
    /\ permit /\ ~tripped
    /\ ~permit' /\ ~moving' /\ ~tripped'

\* A drive that moves when the machine trips is given one more cycle.
Trip ==
    /\ tripped' /\ ~permit'
    /\ moving' \in BOOLEAN /\ (moving' => permit)

Reset ==
    /\ tripped /\ ~moving
    /\ ~tripped' /\ ~permit' /\ ~moving'

Next == Grant \/ Work \/ HandBack \/ Trip \/ Reset

Spec == Init /\ [][Next]_vars
=============================================================================
