---------------------------- MODULE MCAttention ----------------------------
(* Instances of AttentionService for TLC: two sessions of one earner and   *)
(* one of another, two heartbeats to complete, a day of one or two ticks.  *)
EXTENDS AttentionService, TLC

CONSTANTS p1, p2, t1, t2, t3, s1, s2

MCOwnerOf == [t \in Tokens |-> IF t = t3 THEN p2 ELSE p1]

(* The slots of two signals in flight are interchangeable. *)
SlotSymmetry == Permutations({s1, s2})
=============================================================================
