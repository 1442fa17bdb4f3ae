------------------------------ MODULE ScopeGate ------------------------------
(***************************************************************************)
(* What a ScopeRunner promises (src/ws-app/utility.hpp 433-477): a gate    *)
(* through which handlers enter a scope and leave it.  Closing the gate    *)
(* waits until nobody is inside, and nobody enters a closed gate.  It is   *)
(* how a destructor keeps completion handlers away from a dying object.    *)
(***************************************************************************)
CONSTANT Workers    \* The threads which run completion handlers.

VARIABLES
    gate,           \* "open" until stop() takes effect, "closed" from then on.
    inside          \* The workers whose handler holds a shared lock.

gateVars == << gate, inside >>

GateInit ==
    /\ gate = "open"
    /\ inside = {}

\* continue_lock() returned a lock.
Enter(w) ==
    /\ gate = "open"
    /\ w \notin inside
    /\ inside' = inside \union {w}
    /\ UNCHANGED gate

\* The lock went out of scope.
Leave(w) ==
    /\ w \in inside
    /\ inside' = inside \ {w}
    /\ UNCHANGED gate

\* stop() took effect.
Close ==
    /\ gate = "open"
    /\ inside = {}
    /\ gate' = "closed"
    /\ UNCHANGED inside

GateNext ==
    \/ \E w \in Workers : Enter(w) \/ Leave(w)
    \/ Close

GateSpec == GateInit /\ [][GateNext]_gateVars
=============================================================================
