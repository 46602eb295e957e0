---------------------------- MODULE MCClaimPath ----------------------------
(* A small instance of ClaimPath for TLC: one campaign, one earner. *)
EXTENDS ClaimPath

CONSTANTS c1, usd, mgr, adv, ear, k1

MCOffers ==
    {[asset |-> usd, amount |-> 2, reward_per_action |-> 1,
      oracle_pubkey |-> k1, advertiser |-> adv]}
=============================================================================
