------------------------------ MODULE FeeSplit ------------------------------
(***************************************************************************)
(* The protocol fee of RewardVault.claim, as the contract computes it.     *)
(* Amounts are i128 and the workspace builds with overflow-checks = true,  *)
(* so a product that leaves the type traps; I128Max stands for i128::MAX   *)
(* and is a parameter so that TLC can reach it.                            *)
(***************************************************************************)
EXTENDS Integers

CONSTANT I128Max

ASSUME I128MaxAssumption == I128Max \in Nat

(* Denominator of a rate in basis points. *)
BPS == 10000

(* Rust's integer division truncates toward zero; \div rounds down. *)
TruncDiv(x, d) == IF x >= 0 THEN x \div d ELSE -((-x) \div d)

(* reward * (10_000 - fee_rate); fee_rate is any u32, checked nowhere. *)
EarnerProduct(reward, fee_rate) == reward * (BPS - fee_rate)

EarnerAmount(reward, fee_rate) == TruncDiv(EarnerProduct(reward, fee_rate), BPS)

(* Mutants: the fee of the README's formula, and a fee always rounded up. *)
FeeByRate(reward, fee_rate) == TruncDiv(reward * fee_rate, BPS)
FeeRoundedUp(reward, fee_rate) == FeeByRate(reward, fee_rate) + 1

TreasuryAmount(reward, fee_rate) == reward - EarnerAmount(reward, fee_rate)

I128(n) == -I128Max - 1 <= n /\ n <= I128Max

SplitOverflows(reward, fee_rate) ==
    ~(I128(EarnerProduct(reward, fee_rate)) /\ I128(TreasuryAmount(reward, fee_rate)))

=============================================================================
