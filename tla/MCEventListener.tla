-------------------------- MODULE MCEventListener --------------------------
(* Instances of EventListener for TLC. *)
EXTENDS EventListener

CONSTANTS e1, e2

OneClaim  == {[earner |-> e1, amount |-> 1]}
TwoClaims == {[earner |-> e1, amount |-> 1], [earner |-> e2, amount |-> 1]}
=============================================================================
