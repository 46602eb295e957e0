------------------------- MODULE MCCampaignManager -------------------------
(* A small instance of CampaignManager for TLC. *)
EXTENDS Listing

CONSTANTS c1, c2, adv, bob, Social, Referral

Draft(c, who, type, budget, reward, expiry) ==
    [id |-> c, advertiser |-> who, campaign_type |-> type,
     total_budget |-> budget, reward_per_action |-> reward, expiry |-> expiry]

(* Two good configurations for c1 (it can be tried again by somebody else),*)
(* one for c2, and one for each check that can fail on its own.            *)
MCConfigs ==
    {Draft(c1, adv, Social, 2, 1, 2), Draft(c1, bob, Referral, 2, 1, 1),
     Draft(c2, adv, Referral, 2, 1, 2),
     Draft(c2, adv, Referral, 0, 1, 2), Draft(c2, adv, Referral, 2, 0, 2),
     Draft(c2, adv, Referral, 2, 1, 0)}

(* A duplicate of c1's entry, and an entry for a campaign of nobody's. *)
MCDirectEntries ==
    {[campaign_id |-> c1, advertiser |-> adv, campaign_type |-> Social],
     [campaign_id |-> c2, advertiser |-> bob, campaign_type |-> Social]}
=============================================================================
