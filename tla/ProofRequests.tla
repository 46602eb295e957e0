---------------------------- MODULE ProofRequests ----------------------------
(***************************************************************************)
(* What the learn, social and referrals services have in common: they are  *)
(* asked by earners about campaigns, and a slot for a request is idle      *)
(* until a handler is waiting in it.                                       *)
(***************************************************************************)
CONSTANTS
    Pairs,      \* (campaign, earner)
    Campaigns,  \* per pair, whether its campaign is in the database
    None

Idle == [pc |-> "idle"]
=============================================================================
