--------------------------- MODULE MCRewardVault ---------------------------
(* Small instances of RewardVault for TLC. *)
EXTENDS RewardVault, TLC

CONSTANTS c1, c2, usd, xlm, mgr, adv, vault, k1, k2, h1, h2

(* Two campaigns priced in one asset: one at 1, of which 1 * 7500 / 10000  *)
(* leaves the earner nothing, one at -1, whose claims then move nothing    *)
(* and raise its balance; and an offer in another asset, at a price whose  *)
(* product leaves the i128 of this instance when there is no fee.  An      *)
(* offer by the vault's own address repeats without end and is left to the *)
(* proofs.                                                                 *)
MCOffers ==
    {[asset |-> usd, amount |-> 2, reward_per_action |-> 1,
      oracle_pubkey |-> k1, advertiser |-> adv],
     [asset |-> usd, amount |-> 1, reward_per_action |-> -1,
      oracle_pubkey |-> k2, advertiser |-> adv],
     [asset |-> xlm, amount |-> 3, reward_per_action |-> 3,
      oracle_pubkey |-> k1, advertiser |-> adv]}

(* 0, 2500 (25%), and 12500, which the documented range 0..10000 excludes  *)
(* and the contract accepts.                                               *)
MCFeeRates == {0, 2500, 12500}

(* No definition tells two campaigns or two actions apart. *)
MCSymmetry == Permutations(Campaigns) \cup Permutations(ActionHashes)
=============================================================================
