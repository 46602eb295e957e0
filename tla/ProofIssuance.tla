---------------------------- MODULE ProofIssuance ----------------------------
(***************************************************************************)
(* What the four services that issue proofs promise to an advertiser: a    *)
(* proof is handed out only for an action that was really earned.  An      *)
(* action is what the vault's nullifier tells apart, so handing out the    *)
(* same proof again is no step of this specification.                      *)
(***************************************************************************)
CONSTANT Actions

VARIABLES
    earned,  \* actions the service has accepted
    issued   \* actions a proof was handed out for

vars == <<earned, issued>>

Init == earned = {} /\ issued = {}

Earn(a) ==
    /\ a \notin earned
    /\ earned' = earned \cup {a}
    /\ UNCHANGED issued

Issue(a) ==
    /\ a \in earned \ issued
    /\ issued' = issued \cup {a}
    /\ UNCHANGED earned

Next == \E a \in Actions : Earn(a) \/ Issue(a)

Spec == Init /\ [][Next]_vars
=============================================================================
