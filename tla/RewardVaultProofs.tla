-------------------------- MODULE RewardVaultProofs --------------------------
(* Theorems about RewardVault, for every value of its constants. *)
EXTENDS RewardVault, SumLemmas, TLAPS

(* lib.rs:168-170.  Whatever u32 the fee rate is, truncation never gives   *)
(* the earner more than the reward the books are charged, unless that is   *)
(* negative.                                                               *)
LEMMA EarnerAmountBound ==
    ASSUME NEW reward \in Int, NEW rate \in Nat
    PROVE  /\ EarnerAmount(reward, rate) \in Int
           /\ reward >= 0 => EarnerAmount(reward, rate) <= reward
<1> DEFINE x == reward * (BPS - rate)
<1>1. x \in Int
  BY DEF BPS
<1>2. reward >= 0 => x <= reward * BPS
  <2>1. reward >= 0 => reward * rate >= 0
    OBVIOUS
  <2>2. x = reward * BPS - reward * rate
    BY DEF BPS
  <2>3. reward * BPS \in Int /\ reward * rate \in Int
    BY DEF BPS
  <2> QED BY <2>1, <2>2, <2>3
<1> HIDE DEF x
<1>3. CASE x >= 0
  <2>1. x \div BPS \in Int /\ (reward >= 0 => x \div BPS <= reward)
    BY <1>1, <1>2, <1>3 DEF BPS
  <2> QED BY <1>1, <1>3, <2>1 DEF EarnerAmount, EarnerProduct, TruncDiv, x
<1>4. CASE ~(x >= 0)
  <2>1. (-x) \div BPS \in Nat
    BY <1>1, <1>4 DEF BPS
  <2>2. EarnerAmount(reward, rate) = -((-x) \div BPS)
    BY <1>4 DEF EarnerAmount, EarnerProduct, TruncDiv, x
  <2> QED BY <2>1, <2>2
<1> QED BY <1>3, <1>4

(* A transfer that does not trap keeps every token balance a natural. *)
LEMMA TransferType ==
    ASSUME NEW t \in [Assets -> [Holders -> Nat]], NEW a \in Assets,
           NEW from \in Holders, NEW to \in Holders, NEW n \in Int,
           CanTransfer(t, a, from, n)
    PROVE  /\ n \in Nat
           /\ Transfer(t, a, from, to, n) \in [Assets -> [Holders -> Nat]]
<1>1. n \in Nat /\ n <= t[a][from]
  BY DEF CanTransfer
<1> DEFINE u == [t EXCEPT ![a][from] = @ - n]
<1>2. u \in [Assets -> [Holders -> Nat]]
  BY <1>1
<1>3. Transfer(t, a, from, to, n) = [u EXCEPT ![a][to] = @ + n]
  BY DEF Transfer
<1> HIDE DEF u
<1>4. [u EXCEPT ![a][to] = @ + n] \in [Assets -> [Holders -> Nat]]
  BY <1>1, <1>2
<1> QED BY <1>1, <1>3, <1>4

-----------------------------------------------------------------------------
(* Deposits fill in a campaign's record as a whole, and only after         *)
(* initialize has set the admin and the treasury.  Only an unbacked        *)
(* campaign has a negative price.                                          *)
Registered ==
    /\ admin # None => treasury \in Holders
    /\ \A c \in Campaigns :
          /\ oracle_pubkey[c] # None <=> asset[c] \in Assets
          /\ oracle_pubkey[c] # None => admin # None
          /\ balance[c] > 0 => oracle_pubkey[c] # None
          /\ c \in unbacked \/ reward_per_action[c] >= 0

(* The inductive invariant. *)
IInv == TypeOK /\ Registered /\ SpentIffPaid /\ CampaignIsolation

(* The inductive invariant holds after deployment ... *)
LEMMA InitIInv == Init => IInv
<1> SUFFICES ASSUME Init PROVE IInv
  OBVIOUS
<1> USE VaultAssumption DEF Init
<1>1. TypeOK
  BY DEF TypeOK, Holders, Codes
<1>2. Registered
  BY DEF Registered
<1>3. SpentIffPaid
  BY DEF SpentIffPaid
<1>4. CampaignIsolation
  BY DEF CampaignIsolation, Booked
<1> QED BY <1>1, <1>2, <1>3, <1>4 DEF IInv

(* A rolled-back call changes nothing but the outcome. *)
LEMMA RejectedIInv ==
    ASSUME IInv, NEW code \in Codes, Rejected(code)
    PROVE  IInv'
BY DEF IInv, Rejected, state, config, books, ghosts, TypeOK, Registered,
       SpentIffPaid, CampaignIsolation, Booked

(* ... and each operation of the contract preserves it. *)
LEMMA InitializeIInv ==
    ASSUME IInv, NEW adm \in Admins, NEW tre \in Treasuries,
           NEW rate \in FeeRates, initialize(adm, tre, rate)
    PROVE  IInv'
<1>1. CASE Rejected("AlreadyInitialized")
  BY <1>1, RejectedIInv DEF Codes
<1>2. CASE /\ admin = None
           /\ admin' = adm /\ treasury' = tre /\ fee_rate' = rate
           /\ result' = "Ok"
           /\ UNCHANGED <<books, nullifiers, tokens, ghosts>>
  <2> USE <1>2, VaultAssumption DEF IInv, books, ghosts
  <2>1. TypeOK'
    BY DEF TypeOK, Codes
  <2>2. Registered'
    BY DEF Registered, TypeOK
  <2>3. SpentIffPaid' /\ CampaignIsolation'
    BY DEF SpentIffPaid, CampaignIsolation, Booked
  <2> QED BY <2>1, <2>2, <2>3
<1> QED BY <1>1, <1>2 DEF initialize

(* lib.rs:89-116. *)
LEMMA DepositIInv ==
    ASSUME IInv, NEW signers \in SUBSET Accounts, NEW c \in Campaigns,
           NEW o \in Offers, deposit(signers, c, o)
    PROVE  IInv'
<1> DEFINE pull == CanTransfer(tokens, o.asset, o.advertiser, o.amount)
           In == IF o.advertiser = Vault THEN 0 ELSE o.amount
<1> DEFINE Accepted ==
      /\ admin # None /\ pull
      /\ tokens' = Transfer(tokens, o.asset, o.advertiser, Vault, o.amount)
      /\ balance' = [balance EXCEPT ![c] = o.amount]
      /\ asset' = [asset EXCEPT ![c] = o.asset]
      /\ reward_per_action' = [reward_per_action EXCEPT ![c] = o.reward_per_action]
      /\ oracle_pubkey' = [oracle_pubkey EXCEPT ![c] = o.oracle_pubkey]
      /\ custody' = [custody EXCEPT ![c][o.asset] = @ + In]
      /\ unbacked' = unbacked \cup (IF Backed(o) THEN {} ELSE {c})
      /\ result' = "Ok"
      /\ UNCHANGED <<config, nullifiers, payments>>
<1>1. Rejected("NotInitialized") \/ Rejected("Trap") \/ Accepted
  BY DEF deposit
<1>2. CASE Rejected("NotInitialized") \/ Rejected("Trap")
  BY <1>2, RejectedIInv DEF Codes
<1>3. CASE Accepted
  <2>1. /\ o.asset \in Assets /\ o.advertiser \in Holders /\ o.amount \in Nat
        /\ o.reward_per_action \in Int /\ o.oracle_pubkey \in Oracles
        /\ Vault \in Holders /\ In \in Nat
        /\ Backed(o) => In = o.amount /\ o.reward_per_action >= 0
    <3>1. /\ o.asset \in Assets /\ o.advertiser \in Holders /\ o.amount \in Int
          /\ o.reward_per_action \in Int /\ o.oracle_pubkey \in Oracles
          /\ Vault \in Holders
      BY VaultAssumption DEF Offer, Holders
    <3>2. o.amount >= 0
      BY <1>3 DEF CanTransfer
    <3> QED BY <3>1, <3>2 DEF Backed
  <2> HIDE DEF In
  <2>2. tokens' \in [Assets -> [Holders -> Nat]]
    <3>1. tokens \in [Assets -> [Holders -> Nat]] /\ o.amount \in Int
      BY <2>1 DEF IInv, TypeOK
    <3>2. CanTransfer(tokens, o.asset, o.advertiser, o.amount)
      BY <1>3
    <3>3. Transfer(tokens, o.asset, o.advertiser, Vault, o.amount)
             \in [Assets -> [Holders -> Nat]]
      BY <2>1, <3>1, <3>2, TransferType
    <3> QED BY <1>3, <3>3
  <2>3. custody' \in [Campaigns -> [Assets -> Int]]
    BY <1>3, <2>1 DEF IInv, TypeOK
  <2>4. TypeOK'
    BY <1>3, <2>1, <2>2, <2>3 DEF IInv, TypeOK, config, Codes
  <2>5. Registered'
    BY <1>3, <2>1, VaultAssumption DEF IInv, TypeOK, Registered, config
  <2>6. SpentIffPaid'
    BY <1>3 DEF IInv, SpentIffPaid
  <2>7. CampaignIsolation'
    <3> SUFFICES ASSUME NEW d \in Campaigns \ unbacked', NEW a \in Assets
                 PROVE  custody'[d][a] >= Booked(d, a)' /\ custody'[d][a] >= 0
      BY DEF CampaignIsolation
    <3>0. d \notin unbacked /\ (d = c => Backed(o))
      BY <1>3
    <3>1. custody[d][a] \in Int /\ custody[d][a] >= Booked(d, a) /\ custody[d][a] >= 0
      BY <3>0 DEF IInv, TypeOK, CampaignIsolation
    <3>2. CASE d = c /\ a = o.asset
      BY <1>3, <2>1, <3>0, <3>1, <3>2 DEF IInv, TypeOK, Booked
    <3>3. CASE ~(d = c /\ a = o.asset)
      BY <1>3, <2>1, <3>1, <3>3 DEF IInv, TypeOK, Booked
    <3> QED BY <3>2, <3>3
  <2> QED BY <2>4, <2>5, <2>6, <2>7 DEF IInv
<1> QED BY <1>1, <1>2, <1>3

(* What a claim that passes its checks works with. *)
LEMMA ClaimShares ==
    ASSUME IInv, NEW p \in ClaimProof, ClaimChecks(p) = "Ok"
    PROVE  LET c == p.campaign_id
               n == compute_nullifier(p)
               r == reward_per_action[c]
               earn == EarnerAmount(r, fee_rate)
               tre == TreasuryTransfer(c)
           IN  /\ c \in Campaigns /\ p.earner \in Holders
               /\ n \in Nullifiers /\ n \notin nullifiers /\ n[1] = c
               /\ asset[c] \in Assets /\ treasury \in Holders
               /\ oracle_pubkey[c] # None
               /\ r \in Int /\ balance[c] \in Nat /\ balance[c] - r \in Nat
               /\ earn \in Int /\ tre \in Nat
               /\ c \notin unbacked => r \in Nat /\ earn + tre = r
<1> DEFINE c == p.campaign_id
           r == reward_per_action[c]
           earn == EarnerAmount(r, fee_rate)
<1>1. /\ c \in Campaigns /\ p.earner \in Holders
      /\ compute_nullifier(p) \in Nullifiers /\ compute_nullifier(p)[1] = c
  BY VaultAssumption DEF ClaimProof, compute_nullifier, Nullifiers, Holders
<1>2. oracle_pubkey[c] # None /\ compute_nullifier(p) \notin nullifiers /\ ~(balance[c] < r)
  BY DEF ClaimChecks
<1>3. asset[c] \in Assets /\ treasury \in Holders
  BY <1>1, <1>2 DEF IInv, Registered, Holders
<1>4. r \in Int /\ fee_rate \in Nat /\ balance[c] \in Nat /\ balance[c] - r \in Nat
  BY <1>1, <1>2 DEF IInv, TypeOK
<1>5. earn \in Int /\ (r >= 0 => earn <= r)
  BY <1>4, EarnerAmountBound
<1>6. TreasuryTransfer(c) \in Nat /\ (r >= 0 => earn + TreasuryTransfer(c) = r)
  BY <1>4, <1>5 DEF TreasuryTransfer, TreasuryAmount
<1>7. c \notin unbacked => r >= 0
  BY <1>1 DEF IInv, Registered
<1> QED BY <1>1, <1>2, <1>3, <1>4, <1>5, <1>6, <1>7

(* lib.rs:136-194. *)
LEMMA ClaimIInv ==
    ASSUME IInv, NEW p \in ClaimProof, claim(p)
    PROVE  IInv'
<1> DEFINE c == p.campaign_id
           a == asset[c]
           n == compute_nullifier(p)
           r == reward_per_action[c]
           earn == EarnerAmount(r, fee_rate)
           tre == TreasuryTransfer(c)
<1>1. CASE ClaimChecks(p) # "Ok" /\ Rejected(ClaimChecks(p))
  <2>1. ClaimChecks(p) \in Codes
    BY DEF ClaimChecks, Codes
  <2> QED BY <1>1, <2>1, RejectedIInv
<1>2. CASE Rejected("Trap")
  BY <1>2, RejectedIInv DEF Codes
<1>3. CASE /\ ClaimChecks(p) = "Ok"
           /\ ClaimTransfersOk(p)
           /\ nullifiers' = nullifiers \cup {n}
           /\ balance' = [balance EXCEPT ![c] = @ - r]
           /\ tokens' = Transfer(Transfer(tokens, a, Vault, p.earner, earn),
                                 a, Vault, treasury, tre)
           /\ payments' = [payments EXCEPT ![ActionOf(p)] = @ + 1]
           /\ custody' = [custody EXCEPT ![c][a] = @ - earn - tre]
           /\ result' = "Ok"
           /\ UNCHANGED <<config, asset, reward_per_action, oracle_pubkey, unbacked>>
  <2>1. /\ c \in Campaigns /\ p.earner \in Holders /\ Vault \in Holders
        /\ n \in Nullifiers /\ n \notin nullifiers /\ ActionOf(p) = n
        /\ a \in Assets /\ treasury \in Holders /\ oracle_pubkey[c] # None
        /\ r \in Int /\ balance[c] \in Nat /\ balance[c] - r \in Nat
        /\ earn \in Int /\ tre \in Nat
        /\ c \notin unbacked => r \in Nat /\ earn + tre = r
    BY <1>3, ClaimShares DEF Holders, ActionOf, compute_nullifier
  <2> HIDE DEF earn, tre, n
  <2>7. /\ CanTransfer(tokens, a, Vault, earn)
        /\ CanTransfer(Transfer(tokens, a, Vault, p.earner, earn), a, Vault, tre)
    BY <1>3 DEF ClaimTransfersOk, earn, tre
  <2>8. tokens' \in [Assets -> [Holders -> Nat]]
    <3>1. tokens \in [Assets -> [Holders -> Nat]]
      BY DEF IInv, TypeOK
    <3>2. Transfer(tokens, a, Vault, p.earner, earn) \in [Assets -> [Holders -> Nat]]
      BY <2>1, <2>7, <3>1, TransferType
    <3>3. tre \in Int
      BY <2>1
    <3>4. Transfer(Transfer(tokens, a, Vault, p.earner, earn), a, Vault, treasury, tre)
             \in [Assets -> [Holders -> Nat]]
      BY <2>1, <2>7, <3>2, <3>3, TransferType
    <3> QED BY <1>3, <3>4
  <2>9. balance' \in [Campaigns -> Nat] /\ custody' \in [Campaigns -> [Assets -> Int]]
    BY <1>3, <2>1 DEF IInv, TypeOK
  <2>10. payments' \in [Nullifiers -> Nat] /\ nullifiers' \subseteq Nullifiers
    BY <1>3, <2>1 DEF IInv, TypeOK
  <2>11. TypeOK'
    BY <1>3, <2>8, <2>9, <2>10 DEF IInv, TypeOK, config, Codes
  <2>12. Registered'
    BY <1>3, <2>1 DEF IInv, TypeOK, Registered, config
  <2>13. SpentIffPaid'
    <3> SUFFICES ASSUME NEW m \in Nullifiers
                 PROVE  payments'[m] = IF m \in nullifiers' THEN 1 ELSE 0
      BY DEF SpentIffPaid
    <3>1. payments[m] = IF m \in nullifiers THEN 1 ELSE 0
      BY DEF IInv, SpentIffPaid
    <3>2. CASE m = n
      BY <1>3, <2>1, <3>1, <3>2 DEF IInv, TypeOK
    <3>3. CASE m # n
      BY <1>3, <2>1, <3>1, <3>3 DEF IInv, TypeOK
    <3> QED BY <3>2, <3>3
  <2>14. CampaignIsolation'
    <3> SUFFICES ASSUME NEW d \in Campaigns \ unbacked, NEW b \in Assets
                 PROVE  custody'[d][b] >= Booked(d, b)' /\ custody'[d][b] >= 0
      BY <1>3 DEF CampaignIsolation
    <3>1. custody[d][b] \in Int /\ custody[d][b] >= Booked(d, b) /\ custody[d][b] >= 0
      BY DEF IInv, TypeOK, CampaignIsolation
    <3>2. asset' = asset
      BY <1>3
    <3>3. CASE d = c /\ b = a
      <4>1. custody'[d][b] = custody[d][b] - r
        BY <1>3, <2>1, <3>1, <3>3 DEF IInv, TypeOK
      <4>2. balance'[d] = balance[d] - r
        BY <1>3, <2>1, <3>3 DEF IInv, TypeOK
      <4> QED BY <2>1, <3>1, <3>2, <3>3, <4>1, <4>2 DEF Booked
    <3>4. CASE ~(d = c /\ b = a)
      <4>1. custody'[d][b] = custody[d][b]
        BY <1>3, <2>1, <3>4 DEF IInv, TypeOK
      <4>2. Booked(d, b)' = Booked(d, b)
        BY <1>3, <2>1, <3>2, <3>4 DEF IInv, TypeOK, Booked
      <4> QED BY <3>1, <4>1, <4>2
    <3> QED BY <3>3, <3>4
  <2> QED BY <2>11, <2>12, <2>13, <2>14 DEF IInv
<1> QED BY <1>1, <1>2, <1>3 DEF claim

(* lib.rs:204-230. *)
LEMMA WithdrawIInv ==
    ASSUME IInv, NEW signers \in SUBSET Accounts, NEW c \in Campaigns,
           NEW recipient \in Advertisers, withdraw(signers, c, recipient)
    PROVE  IInv'
<1> DEFINE a == asset[c]
           Paid ==
             /\ balance[c] > 0 /\ CanTransfer(tokens, a, Vault, balance[c])
             /\ balance' = [balance EXCEPT ![c] = 0]
             /\ tokens' = Transfer(tokens, a, Vault, recipient, balance[c])
             /\ custody' = [custody EXCEPT ![c][a] = @ - balance[c]]
             /\ result' = "Ok"
             /\ UNCHANGED <<config, asset, reward_per_action, oracle_pubkey,
                            nullifiers, payments, unbacked>>
<1>1. Rejected("NotInitialized") \/ Rejected("Trap") \/ Rejected("Ok") \/ Paid
  BY DEF withdraw
<1>2. CASE Rejected("NotInitialized") \/ Rejected("Trap") \/ Rejected("Ok")
  BY <1>2, RejectedIInv DEF Codes
<1>3. CASE Paid
  <2>1. balance[c] \in Nat /\ a \in Assets /\ Vault \in Holders /\ recipient \in Holders
    BY <1>3, VaultAssumption DEF IInv, TypeOK, Registered, Holders
  <2>2. tokens' \in [Assets -> [Holders -> Nat]]
    <3>1. tokens \in [Assets -> [Holders -> Nat]] /\ balance[c] \in Int
      BY <2>1 DEF IInv, TypeOK
    <3>2. Transfer(tokens, a, Vault, recipient, balance[c]) \in [Assets -> [Holders -> Nat]]
      BY <1>3, <2>1, <3>1, TransferType
    <3> QED BY <1>3, <3>2
  <2>3. TypeOK'
    BY <1>3, <2>1, <2>2 DEF IInv, TypeOK, config, Codes
  <2>4. Registered'
    BY <1>3 DEF IInv, TypeOK, Registered, config
  <2>5. SpentIffPaid'
    BY <1>3 DEF IInv, SpentIffPaid
  <2>6. CampaignIsolation'
    <3> SUFFICES ASSUME NEW d \in Campaigns \ unbacked, NEW b \in Assets
                 PROVE  custody'[d][b] >= Booked(d, b)' /\ custody'[d][b] >= 0
      BY <1>3 DEF CampaignIsolation
    <3>1. custody[d][b] \in Int /\ custody[d][b] >= Booked(d, b) /\ custody[d][b] >= 0
      BY DEF IInv, TypeOK, CampaignIsolation
    <3>2. CASE d = c /\ b = a
      BY <1>3, <2>1, <3>1, <3>2 DEF IInv, TypeOK, Booked
    <3>3. CASE ~(d = c /\ b = a)
      BY <1>3, <2>1, <3>1, <3>3 DEF IInv, TypeOK, Booked
    <3> QED BY <3>2, <3>3
  <2> QED BY <2>3, <2>4, <2>5, <2>6 DEF IInv
<1> QED BY <1>1, <1>2, <1>3

(* Every step of the vault preserves it. *)
LEMMA NextIInv == IInv /\ [Next]_vars => IInv'
<1> SUFFICES ASSUME IInv, [Next]_vars PROVE IInv'
  OBVIOUS
<1>1. CASE UNCHANGED vars
  BY <1>1 DEF vars, state, config, books, ghosts, IInv, TypeOK, Registered,
              SpentIffPaid, CampaignIsolation, Booked
<1>2. CASE Next
  BY <1>2, InitializeIInv, DepositIInv, ClaimIInv, WithdrawIInv DEF Next
<1> QED BY <1>1, <1>2

-----------------------------------------------------------------------------
(* IInv is an invariant; the safety theorems follow from it. *)
THEOREM Invariance == Spec => []IInv
BY InitIInv, NextIInv, PTL DEF Spec

(* The vault's state has its types: in particular no book and no token     *)
(* balance of the vault is ever negative.                                  *)
THEOREM TypeCorrect == Spec => []TypeOK
<1>1. IInv => TypeOK
  BY DEF IInv
<1> QED BY <1>1, Invariance, PTL

(* lib.rs:151-194.  At most one payment per (campaign, earner, action),    *)
(* and no spent nullifier without its payment.                             *)
THEOREM PaidAtMostOnce == Spec => []SpentIffPaid
<1>1. IInv => SpentIffPaid
  BY DEF IInv
<1> QED BY <1>1, Invariance, PTL

(* lib.rs:103-113, 160-186, 217-227.  At any price, fee and truncation no  *)
(* claim or withdrawal is funded by another campaign, except those of a    *)
(* campaign once deposited at a negative price or by the vault itself.     *)
THEOREM IsolatedCampaigns == Spec => []CampaignIsolation
<1>1. IInv => CampaignIsolation
  BY DEF IInv
<1> QED BY <1>1, Invariance, PTL

-----------------------------------------------------------------------------
(* The vault's tokens.  VaultSolvent compares them with the books, which   *)
(* a deposit overwrites; what the steps preserve is that they cover the    *)
(* sum of what was taken in for the campaigns and not paid out.            *)
Held(a) == SumFunction([c \in Campaigns |-> custody[c][a]])

Accounted == \A a \in Assets : tokens[a][Vault] >= Held(a)

(* A step in which the vault's account of asset a grows by d, or by more   *)
(* when the vault pays itself.                                             *)
VaultGains(a, d) ==
    \A b \in Assets : tokens'[b][Vault] >=
        IF b = a THEN tokens[b][Vault] + d ELSE tokens[b][Vault]

LEMMA HeldType ==
    ASSUME IInv, NEW a \in Assets
    PROVE  Held(a) \in Int
<1> DEFINE f == [c \in Campaigns |-> custody[c][a]]
<1>1. \A c \in Campaigns : f[c] \in Int
  BY DEF IInv, TypeOK
<1>2. IsFiniteSet(Campaigns) /\ DOMAIN f = Campaigns
  BY VaultAssumption
<1> HIDE DEF f
<1>3. SumFunctionOnSet(f, Campaigns) \in Int
  BY <1>1, <1>2, SumType
<1> QED BY <1>2, <1>3 DEF Held, SumFunction, f

(* What a move of one campaign's tokens does to the sum of them all.       *)
LEMMA OneHeldMoves ==
    ASSUME IInv, NEW c \in Campaigns, NEW a \in Assets, NEW d \in Int,
           custody' = [custody EXCEPT ![c][a] = custody[c][a] + d],
           NEW b \in Assets
    PROVE  Held(b)' = IF b = a THEN Held(b) + d ELSE Held(b)
<1> DEFINE f == [k \in Campaigns |-> custody[k][b]]
           g == [k \in Campaigns |-> custody'[k][b]]
<1>1. custody \in [Campaigns -> [Assets -> Int]]
  BY DEF IInv, TypeOK
<1>2. \A k \in Campaigns : f[k] \in Int /\ g[k] \in Int
  BY <1>1
<1>3. \A k \in Campaigns \ {c} : f[k] = g[k]
  BY <1>1
<1>4. g[c] = IF b = a THEN f[c] + d ELSE f[c]
  BY <1>1
<1>5. IsFiniteSet(Campaigns) /\ DOMAIN f = Campaigns /\ DOMAIN g = Campaigns
  BY VaultAssumption
<1>6. Held(b) = SumFunctionOnSet(f, Campaigns) /\ Held(b)' = SumFunctionOnSet(g, Campaigns)
  BY <1>5 DEF Held, SumFunction
<1> HIDE DEF f, g
<1>7. SumFunctionOnSet(g, Campaigns) = SumFunctionOnSet(f, Campaigns) + g[c] - f[c]
  BY <1>2, <1>3, <1>5, SumChange
<1>8. SumFunctionOnSet(f, Campaigns) \in Int
  BY <1>2, <1>5, SumType
<1> QED BY <1>2, <1>4, <1>6, <1>7, <1>8

(* The vault's side of a transfer.                                         *)
LEMMA VaultTransfer ==
    ASSUME NEW t \in [Assets -> [Holders -> Nat]], NEW a \in Assets,
           NEW from \in Holders, NEW to \in Holders, NEW n \in Int,
           NEW b \in Assets
    PROVE  Transfer(t, a, from, to, n)[b][Vault] =
               IF b # a \/ from = to THEN t[b][Vault]
               ELSE IF from = Vault THEN t[b][Vault] - n
               ELSE IF to = Vault THEN t[b][Vault] + n
               ELSE t[b][Vault]
<1> DEFINE u == [t EXCEPT ![a][from] = @ - n]
<1>1. Vault \in Holders
  BY DEF Holders
<1>2. u \in [Assets -> [Holders -> Int]]
  OBVIOUS
<1>3. u[b][Vault] = IF b = a /\ from = Vault THEN t[b][Vault] - n ELSE t[b][Vault]
  BY <1>1
<1>4. Transfer(t, a, from, to, n) = [u EXCEPT ![a][to] = @ + n]
  BY DEF Transfer
<1> HIDE DEF u
<1>5. [u EXCEPT ![a][to] = @ + n][b][Vault] =
          IF b = a /\ to = Vault THEN u[b][Vault] + n ELSE u[b][Vault]
  BY <1>1, <1>2
<1> QED BY <1>3, <1>4, <1>5

(* A payment by the vault costs it no more than its amount.                *)
LEMMA VaultPays ==
    ASSUME NEW t \in [Assets -> [Holders -> Nat]], NEW a \in Assets,
           NEW to \in Holders, NEW n \in Int, n >= 0, NEW b \in Assets
    PROVE  Transfer(t, a, Vault, to, n)[b][Vault] >=
               IF b = a THEN t[b][Vault] - n ELSE t[b][Vault]
<1>1. Vault \in Holders
  BY DEF Holders
<1>2. t[b][Vault] \in Nat
  BY <1>1
<1>3. Transfer(t, a, Vault, to, n)[b][Vault] =
          IF b # a \/ Vault = to THEN t[b][Vault] ELSE t[b][Vault] - n
  BY <1>1, VaultTransfer
<1> QED BY <1>2, <1>3

LEMMA InitAccounted == Init => Accounted
<1> SUFFICES ASSUME Init, NEW a \in Assets PROVE tokens[a][Vault] >= Held(a)
  BY DEF Accounted
<1> DEFINE f == [c \in Campaigns |-> custody[c][a]]
<1>1. \A c \in Campaigns : f[c] = 0
  BY DEF Init
<1>2. IsFiniteSet(Campaigns) /\ DOMAIN f = Campaigns
  BY VaultAssumption
<1>3. SumFunctionOnSet(f, Campaigns) = 0
  <2> HIDE DEF f
  <2> QED BY <1>1, <1>2, SumZero
<1>4. Held(a) = 0
  BY <1>2, <1>3 DEF Held, SumFunction
<1>5. tokens[a][Vault] = 0
  BY DEF Init, Holders
<1> QED BY <1>4, <1>5

(* A step that moves d tokens of one asset, on the books and in the token  *)
(* contract.                                                               *)
LEMMA MovesAccounted ==
    ASSUME IInv, IInv', Accounted, NEW c \in Campaigns, NEW a \in Assets, NEW d \in Int,
           custody' = [custody EXCEPT ![c][a] = custody[c][a] + d],
           VaultGains(a, d)
    PROVE  Accounted'
<1> SUFFICES ASSUME NEW b \in Assets PROVE tokens'[b][Vault] >= Held(b)'
  BY DEF Accounted
<1>1. Held(b)' = IF b = a THEN Held(b) + d ELSE Held(b)
  BY OneHeldMoves
<1>2. Held(b) \in Int
  BY HeldType
<1>3. tokens[b][Vault] \in Int
  BY DEF IInv, TypeOK, Holders
<1>4. tokens[b][Vault] >= Held(b)
  BY DEF Accounted
<1>5. tokens'[b][Vault] >= IF b = a THEN tokens[b][Vault] + d ELSE tokens[b][Vault]
  BY DEF VaultGains
<1>6. tokens'[b][Vault] \in Int
  BY DEF IInv, TypeOK, Holders
<1> QED BY <1>1, <1>2, <1>3, <1>4, <1>5, <1>6

LEMMA StillAccounted ==
    ASSUME Accounted, UNCHANGED <<tokens, custody>>
    PROVE  Accounted'
BY DEF Accounted, Held

(* lib.rs:89-230. *)
LEMMA NextAccounted == IInv /\ IInv' /\ Accounted /\ [Next]_vars => Accounted'
<1> SUFFICES ASSUME IInv, IInv', Accounted, [Next]_vars PROVE Accounted'
  OBVIOUS
<1>1. /\ tokens \in [Assets -> [Holders -> Nat]]
      /\ custody \in [Campaigns -> [Assets -> Int]]
      /\ Vault \in Holders
  BY DEF IInv, TypeOK, Holders
<1>2. ASSUME NEW adm \in Admins, NEW tre \in Treasuries, NEW rate \in FeeRates,
             initialize(adm, tre, rate)
      PROVE  Accounted'
  BY <1>2, StillAccounted DEF initialize, Rejected, state, ghosts
<1>3. ASSUME NEW signers \in SUBSET Accounts, NEW c \in Campaigns,
             NEW o \in Offers, deposit(signers, c, o)
      PROVE  Accounted'
  <2>1. CASE UNCHANGED state
    BY <2>1, StillAccounted DEF state, ghosts
  <2>2. CASE ~UNCHANGED state
    <3> DEFINE In == IF o.advertiser = Vault THEN 0 ELSE o.amount
    <3>1. /\ tokens' = Transfer(tokens, o.asset, o.advertiser, Vault, o.amount)
          /\ custody' = [custody EXCEPT ![c][o.asset] = @ + In]
      BY <1>3, <2>2 DEF deposit, Rejected
    <3>2. /\ o.asset \in Assets /\ o.amount \in Int /\ o.advertiser \in Holders
          /\ In \in Int
      BY VaultAssumption DEF Offer, Holders
    <3>3. VaultGains(o.asset, In)
      <4> SUFFICES ASSUME NEW b \in Assets
                   PROVE  tokens'[b][Vault] >=
                            IF b = o.asset THEN tokens[b][Vault] + In ELSE tokens[b][Vault]
        BY DEF VaultGains
      <4>1. tokens'[b][Vault] =
               IF b # o.asset \/ o.advertiser = Vault THEN tokens[b][Vault]
               ELSE tokens[b][Vault] + o.amount
        BY <1>1, <3>1, <3>2, VaultTransfer
      <4>2. tokens[b][Vault] \in Int
        BY <1>1
      <4> QED BY <3>2, <4>1, <4>2
    <3>4. custody' = [custody EXCEPT ![c][o.asset] = custody[c][o.asset] + In]
      <4> HIDE DEF In
      <4> QED BY <3>1, <1>1, <3>2
    <3> HIDE DEF In
    <3> QED BY <3>2, <3>3, <3>4, MovesAccounted
  <2> QED BY <2>1, <2>2
<1>4. ASSUME NEW p \in ClaimProof, claim(p) PROVE Accounted'
  <2>1. CASE UNCHANGED state
    BY <2>1, StillAccounted DEF state, ghosts
  <2>2. CASE ~UNCHANGED state
    <3> DEFINE c == p.campaign_id
               a == asset[c]
               earn == EarnerAmount(reward_per_action[c], fee_rate)
               tre == TreasuryTransfer(c)
               mid == Transfer(tokens, a, Vault, p.earner, earn)
    <3>1. /\ ClaimChecks(p) = "Ok" /\ ClaimTransfersOk(p)
          /\ tokens' = Transfer(mid, a, Vault, treasury, tre)
          /\ custody' = [custody EXCEPT ![c][a] = @ - earn - tre]
      BY <1>4, <2>2 DEF claim, Rejected
    <3>2. /\ c \in Campaigns /\ p.earner \in Holders /\ a \in Assets
          /\ treasury \in Holders /\ earn \in Int /\ tre \in Int
      BY <3>1, ClaimShares
    <3>3. earn >= 0 /\ tre >= 0
      BY <3>1, ClaimShares DEF ClaimTransfersOk, CanTransfer
    <3>4. CanTransfer(tokens, a, Vault, earn)
      BY <3>1 DEF ClaimTransfersOk
    <3> HIDE DEF earn, tre, c, a
    <3>5. mid \in [Assets -> [Holders -> Nat]]
      BY <1>1, <3>2, <3>4, TransferType
    <3>6. \A b \in Assets : mid[b][Vault] >=
             IF b = a THEN tokens[b][Vault] - earn ELSE tokens[b][Vault]
      BY <1>1, <3>2, <3>3, <3>4, VaultPays
    <3> HIDE DEF mid
    <3>7. \A b \in Assets : tokens'[b][Vault] >=
             IF b = a THEN mid[b][Vault] - tre ELSE mid[b][Vault]
      BY <1>1, <3>1, <3>2, <3>3, <3>5, VaultPays
    <3>10. \A b \in Assets : /\ tokens[b][Vault] \in Int /\ tokens'[b][Vault] \in Int
                             /\ mid[b][Vault] \in Int
      BY <1>1, <3>5 DEF IInv, TypeOK
    <3> DEFINE d == 0 - earn - tre
    <3>8. VaultGains(a, d)
      BY <3>2, <3>6, <3>7, <3>10 DEF VaultGains
    <3>9. d \in Int /\ custody' = [custody EXCEPT ![c][a] = custody[c][a] + d]
      <4>1. d \in Int /\ custody[c][a] - earn - tre = custody[c][a] + d
        BY <1>1, <3>2
      <4> HIDE DEF d
      <4> QED BY <3>1, <4>1
    <3> HIDE DEF d
    <3> QED BY <3>2, <3>8, <3>9, MovesAccounted
  <2> QED BY <2>1, <2>2
<1>5. ASSUME NEW signers \in SUBSET Accounts, NEW c \in Campaigns,
             NEW r \in Advertisers, withdraw(signers, c, r)
      PROVE  Accounted'
  <2>1. CASE UNCHANGED state
    BY <2>1, StillAccounted DEF state, ghosts
  <2>2. CASE ~UNCHANGED state
    <3>1. /\ balance[c] > 0
          /\ tokens' = Transfer(tokens, asset[c], Vault, r, balance[c])
          /\ custody' = [custody EXCEPT ![c][asset[c]] = @ - balance[c]]
      BY <1>5, <2>2 DEF withdraw, Rejected
    <3>2. /\ asset[c] \in Assets /\ balance[c] \in Nat /\ r \in Holders
      BY <3>1, VaultAssumption DEF IInv, TypeOK, Registered, Holders
    <3> DEFINE d == 0 - balance[c]
    <3>3. \A b \in Assets : tokens'[b][Vault] >=
             IF b = asset[c] THEN tokens[b][Vault] - balance[c] ELSE tokens[b][Vault]
      BY <1>1, <3>1, <3>2, VaultPays
    <3>4. VaultGains(asset[c], d)
      <4>1. \A b \in Assets : tokens[b][Vault] \in Int
        BY <1>1
      <4> QED BY <3>2, <3>3, <4>1 DEF VaultGains
    <3>5. d \in Int /\ custody' = [custody EXCEPT ![c][asset[c]] = custody[c][asset[c]] + d]
      <4>1. d \in Int /\ custody[c][asset[c]] - balance[c] = custody[c][asset[c]] + d
        BY <1>1, <3>2
      <4> HIDE DEF d
      <4> QED BY <3>1, <4>1
    <3> HIDE DEF d
    <3> QED BY <3>2, <3>4, <3>5, MovesAccounted
  <2> QED BY <2>1, <2>2
<1>6. CASE UNCHANGED vars
  BY <1>6, StillAccounted DEF vars, state, ghosts
<1> QED BY <1>2, <1>3, <1>4, <1>5, <1>6 DEF Next

(* lib.rs:103-113, 160-186, 217-227.  The vault's one account per asset    *)
(* covers the books of all campaigns together: CampaignIsolation bounds    *)
(* each campaign's books by what was taken in for it, and the account      *)
(* covers the sum of that.  What an unbacked campaign has overdrawn is all *)
(* that can be missing.                                                    *)
THEOREM BooksCovered == Spec => []VaultSolvent
<1>1. IInv /\ Accounted => VaultSolvent
  <2> SUFFICES ASSUME IInv, Accounted, NEW a \in Assets
               PROVE  tokens[a][Vault] >=
                        SumFunction([c \in Campaigns |->
                            IF c \in unbacked THEN custody[c][a] ELSE Booked(c, a)])
    BY DEF VaultSolvent
  <2> DEFINE f == [c \in Campaigns |->
                      IF c \in unbacked THEN custody[c][a] ELSE Booked(c, a)]
             g == [c \in Campaigns |-> custody[c][a]]
  <2>1. \A c \in Campaigns : f[c] \in Int /\ g[c] \in Int /\ f[c] <= g[c]
    <3> SUFFICES ASSUME NEW c \in Campaigns
                 PROVE  f[c] \in Int /\ g[c] \in Int /\ f[c] <= g[c]
      OBVIOUS
    <3>1. custody[c][a] \in Int /\ Booked(c, a) \in Int
      BY DEF IInv, TypeOK, Booked
    <3>2. c \in unbacked \/ Booked(c, a) <= custody[c][a]
      BY <3>1 DEF IInv, CampaignIsolation
    <3> QED BY <3>1, <3>2
  <2>2. IsFiniteSet(Campaigns) /\ DOMAIN f = Campaigns /\ DOMAIN g = Campaigns
    BY VaultAssumption
  <2>3. SumFunction(f) = SumFunctionOnSet(f, Campaigns) /\ Held(a) = SumFunctionOnSet(g, Campaigns)
    BY <2>2 DEF Held, SumFunction
  <2> HIDE DEF f, g
  <2>4. SumFunctionOnSet(f, Campaigns) <= SumFunctionOnSet(g, Campaigns)
    BY <2>1, <2>2, SumMonotone
  <2>5. SumFunctionOnSet(f, Campaigns) \in Int /\ SumFunctionOnSet(g, Campaigns) \in Int
    BY <2>1, <2>2, SumType
  <2>6. tokens[a][Vault] \in Int /\ tokens[a][Vault] >= Held(a)
    BY DEF IInv, TypeOK, Accounted, Holders
  <2>7. tokens[a][Vault] >= SumFunction(f)
    BY <2>3, <2>4, <2>5, <2>6
  <2> QED BY <2>7 DEF f
<1>2. Spec => []Accounted
  BY InitAccounted, NextAccounted, NextIInv, Invariance, PTL DEF Spec
<1> QED BY <1>1, <1>2, Invariance, PTL

-----------------------------------------------------------------------------
(* An update of one entry of custody, in the form CampaignPots states it. *)
LEMMA OnePotMoves ==
    ASSUME custody \in [Campaigns -> [Assets -> Int]],
           NEW c \in Campaigns, NEW a \in Assets, NEW v \in Int,
           custody' = [custody EXCEPT ![c][a] = v]
    PROVE  Pots!Moves(c, a) /\ custody'[c][a] = v
<1>1. custody'[c][a] = v
  OBVIOUS
<1> QED BY <1>1 DEF Pots!Moves

(* A deposit strands whatever the campaign held before it. *)
LEMMA DepositFunds ==
    ASSUME IInv, NEW signers \in SUBSET Accounts, NEW c \in Campaigns,
           NEW o \in Offers, Backed(o), deposit(signers, c, o),
           ~UNCHANGED <<custody, nullifiers, StrandedBy, unbacked>>
    PROVE  Pots!Fund(c, o.asset)
<1>1. /\ custody' = [custody EXCEPT ![c][o.asset] = @ + o.amount]
      /\ balance' = [balance EXCEPT ![c] = o.amount]
      /\ asset' = [asset EXCEPT ![c] = o.asset]
      /\ UNCHANGED <<nullifiers, unbacked>>
      /\ o.amount >= 0
  BY DEF deposit, Rejected, state, books, ghosts, StrandedBy, Stranded, Booked,
         Backed, CanTransfer
<1>2. /\ o.asset \in Assets /\ o.amount \in Int
      /\ custody \in [Campaigns -> [Assets -> Int]]
      /\ balance \in [Campaigns -> Nat]
      /\ asset \in [Campaigns -> Assets \cup {None}]
  BY VaultAssumption DEF Offer, IInv, TypeOK
<1> DEFINE v == custody[c][o.asset] + o.amount
<1>3. v \in Int /\ v >= custody[c][o.asset] /\ custody' = [custody EXCEPT ![c][o.asset] = v]
  BY <1>1, <1>2
<1> HIDE DEF v
<1>4. Pots!Moves(c, o.asset) /\ custody'[c][o.asset] = v
  BY <1>2, <1>3, OnePotMoves
<1>5. \A d \in Campaigns, a \in Assets :
         Stranded(d, a)' = IF d = c THEN custody[d][a] ELSE Stranded(d, a)
  BY <1>1, <1>2 DEF Stranded, Booked
<1>6. StrandedBy' = [StrandedBy EXCEPT ![c] = custody[c]]
  <2>1. StrandedBy' = [d \in Campaigns |-> [a \in Assets |->
                          IF d = c THEN custody[d][a] ELSE Stranded(d, a)]]
    BY <1>5 DEF StrandedBy
  <2>2. custody[c] = [a \in Assets |-> custody[c][a]]
    BY <1>2
  <2> QED BY <2>1, <2>2 DEF StrandedBy
<1> QED BY <1>1, <1>3, <1>4, <1>6 DEF Pots!Fund

(* A deposit on other terms makes the campaign void. *)
LEMMA DepositVoids ==
    ASSUME IInv, NEW signers \in SUBSET Accounts, NEW c \in Campaigns,
           NEW o \in Offers, ~Backed(o), deposit(signers, c, o),
           ~UNCHANGED <<custody, nullifiers, StrandedBy, unbacked>>
    PROVE  Pots!MoveVoid(c)
<1> DEFINE v == custody[c][o.asset] + (IF o.advertiser = Vault THEN 0 ELSE o.amount)
<1>1. /\ custody' = [custody EXCEPT ![c][o.asset] = v]
      /\ balance' = [balance EXCEPT ![c] = o.amount]
      /\ asset' = [asset EXCEPT ![c] = o.asset]
      /\ unbacked' = unbacked \cup {c}
      /\ UNCHANGED nullifiers
  <2>1. /\ custody' = [custody EXCEPT ![c][o.asset] =
                          @ + (IF o.advertiser = Vault THEN 0 ELSE o.amount)]
        /\ balance' = [balance EXCEPT ![c] = o.amount]
        /\ asset' = [asset EXCEPT ![c] = o.asset]
        /\ unbacked' = unbacked \cup {c}
        /\ UNCHANGED nullifiers
    BY DEF deposit, Rejected, state, books, ghosts, StrandedBy, Stranded, Booked
  <2>2. c \in DOMAIN custody /\ o.asset \in DOMAIN custody[c]
    BY VaultAssumption DEF Offer, IInv, TypeOK
  <2> QED BY <2>1, <2>2
<1>2. /\ custody \in [Campaigns -> [Assets -> Int]]
      /\ balance \in [Campaigns -> Nat]
      /\ asset \in [Campaigns -> Assets \cup {None}]
  BY DEF IInv, TypeOK
<1> HIDE DEF v
<1>3. \A d \in Campaigns \ {c} : custody'[d] = custody[d] /\ StrandedBy'[d] = StrandedBy[d]
  BY <1>1, <1>2 DEF StrandedBy, Stranded, Booked
<1> QED BY <1>1, <1>3 DEF Pots!MoveVoid

(* So does whatever a claim does to a void campaign, paying an action.     *)
LEMMA ClaimOfVoid ==
    ASSUME IInv, NEW p \in ClaimProof, claim(p), p.campaign_id \in unbacked,
           ~UNCHANGED <<custody, nullifiers, StrandedBy, unbacked>>
    PROVE  Pots!MoveVoid(p.campaign_id)
<1> DEFINE c == p.campaign_id
           n == compute_nullifier(p)
           earn == EarnerAmount(reward_per_action[c], fee_rate)
           tre == TreasuryTransfer(c)
<1>1. /\ ClaimChecks(p) = "Ok"
      /\ nullifiers' = nullifiers \cup {n}
      /\ balance' = [balance EXCEPT ![c] = @ - reward_per_action[c]]
      /\ custody' = [custody EXCEPT ![c][asset[c]] = @ - earn - tre]
      /\ UNCHANGED <<asset, unbacked>>
  BY DEF claim, Rejected, state, books, ghosts, StrandedBy, Stranded, Booked
<1>2. c \in Campaigns /\ n \in Nullifiers /\ n \notin nullifiers /\ n[1] = c
  BY <1>1, ClaimShares
<1>3. /\ custody \in [Campaigns -> [Assets -> Int]]
      /\ balance \in [Campaigns -> Nat]
  BY DEF IInv, TypeOK
<1> HIDE DEF n, earn, tre
<1>4. \A d \in Campaigns \ {c} : custody'[d] = custody[d] /\ StrandedBy'[d] = StrandedBy[d]
  BY <1>1, <1>2, <1>3 DEF StrandedBy, Stranded, Booked
<1>5. n \in Pots!Actions \ nullifiers
  BY <1>2 DEF Nullifiers, Pots!Actions
<1>6. unbacked' = unbacked \cup {c}
  BY <1>1
<1>7. \E m \in Pots!Actions \ nullifiers : m[1] = c /\ nullifiers' = nullifiers \cup {m}
  BY <1>1, <1>2, <1>5
<1> HIDE DEF c
<1>8. Pots!MoveVoid(c)
  BY <1>4, <1>6, <1>7 DEF Pots!MoveVoid
<1> QED BY <1>8 DEF c

(* A successful claim pays its action, out of what is not stranded. *)
LEMMA ClaimPays ==
    ASSUME IInv, IInv', NEW p \in ClaimProof, claim(p), p.campaign_id \notin unbacked,
           ~UNCHANGED <<custody, nullifiers, StrandedBy, unbacked>>
    PROVE  Pots!Pay(compute_nullifier(p), asset[p.campaign_id])
<1> DEFINE c == p.campaign_id
           n == compute_nullifier(p)
           r == reward_per_action[c]
           earn == EarnerAmount(r, fee_rate)
           tre == TreasuryTransfer(c)
<1>1. /\ ClaimChecks(p) = "Ok"
      /\ nullifiers' = nullifiers \cup {n}
      /\ balance' = [balance EXCEPT ![c] = @ - r]
      /\ custody' = [custody EXCEPT ![c][asset[c]] = @ - earn - tre]
      /\ UNCHANGED <<asset, unbacked>>
  BY DEF claim, Rejected, state, books, ghosts, StrandedBy, Stranded, Booked
<1>2. /\ c \in Campaigns /\ asset[c] \in Assets /\ n \notin nullifiers /\ n[1] = c
      /\ earn \in Int /\ tre \in Nat /\ r \in Nat /\ earn + tre = r
  BY <1>1, ClaimShares
<1> HIDE DEF earn, tre, n, r, c
<1> PICK a \in Assets : a = asset[c]
  BY <1>2
<1>3. /\ custody \in [Campaigns -> [Assets -> Int]]
      /\ balance \in [Campaigns -> Nat]
  BY DEF IInv, TypeOK
<1> PICK v \in Int : v = custody[c][a] - earn - tre
  BY <1>2, <1>3
<1>4. v = custody[c][a] - r /\ v <= custody[c][a]
  <2>1. c \notin unbacked
    BY DEF c
  <2>2. custody[c][a] \in Int
    BY <1>2, <1>3
  <2>3. earn \in Int /\ tre \in Int /\ r >= 0 /\ r \in Int /\ earn + tre = r
    BY <1>2, <2>1
  <2> QED BY <2>2, <2>3
<1>5. custody' = [custody EXCEPT ![c][a] = v]
  BY <1>1, <1>2, <1>3
<1>6. Pots!Moves(c, a) /\ custody'[c][a] = v
  BY <1>2, <1>3, <1>4, <1>5, OnePotMoves
<1>7. \A d \in Campaigns, b \in Assets : Stranded(d, b)' = Stranded(d, b)
  <2> SUFFICES ASSUME NEW d \in Campaigns, NEW b \in Assets
               PROVE  Stranded(d, b)' = Stranded(d, b)
    OBVIOUS
  <2>1. CASE d = c /\ b = a
    BY <1>1, <1>2, <1>3, <1>4, <1>5, <2>1 DEF Stranded, Booked
  <2>2. CASE ~(d = c /\ b = a)
    BY <1>1, <1>2, <1>3, <1>4, <1>5, <2>2 DEF Stranded, Booked
  <2> QED BY <2>1, <2>2
<1>8. UNCHANGED StrandedBy
  BY <1>7 DEF StrandedBy
<1>9. StrandedBy[c][a] <= custody'[c][a]
  <2>1. custody'[c][a] \in Int /\ balance'[c] \in Nat
    BY <1>2 DEF IInv, TypeOK
  <2>2. Stranded(c, a)' <= custody'[c][a]
    BY <2>1 DEF Stranded, Booked
  <2> QED BY <1>2, <1>7, <2>2 DEF StrandedBy
<1>10. Pots!Pay(n, a)
  BY <1>1, <1>2, <1>4, <1>6, <1>8, <1>9 DEF Pots!Pay
<1> QED BY <1>10 DEF n, c

(* A successful withdrawal takes everything that is not stranded. *)
LEMMA WithdrawRefunds ==
    ASSUME IInv, NEW signers \in SUBSET Accounts, NEW c \in Campaigns,
           NEW r \in Advertisers, withdraw(signers, c, r),
           ~UNCHANGED <<custody, nullifiers, StrandedBy, unbacked>>
    PROVE  asset[c] \in Assets /\ Pots!Refund(c, asset[c])
<1> DEFINE a == asset[c]
           v == custody[c][a] - balance[c]
<1>1. /\ balance[c] > 0
      /\ balance' = [balance EXCEPT ![c] = 0]
      /\ custody' = [custody EXCEPT ![c][a] = @ - balance[c]]
      /\ UNCHANGED <<asset, nullifiers, unbacked>>
  BY DEF withdraw, Rejected, state, books, ghosts, StrandedBy, Stranded, Booked
<1>2. /\ a \in Assets
      /\ custody \in [Campaigns -> [Assets -> Int]]
      /\ balance \in [Campaigns -> Nat]
  BY <1>1 DEF IInv, TypeOK, Registered
<1>3. v \in Int /\ v <= custody[c][a] /\ v = Stranded(c, a)
  BY <1>2 DEF Stranded, Booked
<1>4. custody' = [custody EXCEPT ![c][a] = v]
  BY <1>1, <1>2
<1> HIDE DEF v
<1>5. Pots!Moves(c, a) /\ custody'[c][a] = v
  BY <1>2, <1>3, <1>4, OnePotMoves
<1>6. \A d \in Campaigns, b \in Assets : Stranded(d, b)' = Stranded(d, b)
  <2> SUFFICES ASSUME NEW d \in Campaigns, NEW b \in Assets
               PROVE  Stranded(d, b)' = Stranded(d, b)
    OBVIOUS
  <2>1. CASE d = c /\ b = a
    BY <1>1, <1>2, <2>1 DEF Stranded, Booked
  <2>2. CASE ~(d = c /\ b = a)
    BY <1>1, <1>2, <2>2 DEF Stranded, Booked
  <2> QED BY <2>1, <2>2
<1>7. UNCHANGED StrandedBy /\ StrandedBy[c][a] = Stranded(c, a)
  BY <1>2, <1>6 DEF StrandedBy
<1> QED BY <1>1, <1>2, <1>3, <1>5, <1>7 DEF Pots!Refund

(* lib.rs:89-230.  The vault implements CampaignPots: what it moves for a  *)
(* campaign is a funding, a refund, or the first payment of an action; on  *)
(* an unbacked campaign, anything that leaves the other campaigns alone.   *)
THEOREM ImplementsPots == Spec => PotsSpec
<1>1. Init => Pots!Init
  BY VaultAssumption DEF Init, Pots!Init, StrandedBy, Stranded, Booked
<1>2. IInv /\ IInv' /\ [Next]_vars => [Pots!Next]_<<custody, StrandedBy, nullifiers, unbacked>>
  <2> SUFFICES ASSUME IInv, IInv', [Next]_vars,
                      ~UNCHANGED <<custody, nullifiers, StrandedBy, unbacked>>
               PROVE  Pots!Next
    OBVIOUS
  <2>1. ASSUME NEW adm \in Admins, NEW tre \in Treasuries, NEW rate \in FeeRates,
               initialize(adm, tre, rate)
        PROVE  FALSE
    BY <2>1 DEF initialize, Rejected, state, books, ghosts, StrandedBy, Stranded, Booked
  <2>2. ASSUME NEW signers \in SUBSET Accounts, NEW c \in Campaigns,
               NEW o \in Offers, deposit(signers, c, o)
        PROVE  Pots!Next
    <3>1. o.asset \in Assets
      BY VaultAssumption DEF Offer
    <3>2. CASE Backed(o)
      BY <2>2, <3>1, <3>2, DepositFunds DEF Pots!Next
    <3>3. CASE ~Backed(o)
      BY <2>2, <3>3, DepositVoids DEF Pots!Next
    <3> QED BY <3>2, <3>3
  <2>3. ASSUME NEW p \in ClaimProof, claim(p)
        PROVE  Pots!Next
    <3>1. p.campaign_id \notin unbacked =>
              Pots!Pay(compute_nullifier(p), asset[p.campaign_id])
      BY <2>3, ClaimPays
    <3>4. p.campaign_id \in unbacked => Pots!MoveVoid(p.campaign_id)
      BY <2>3, ClaimOfVoid
    <3>2. ClaimChecks(p) = "Ok"
      BY <2>3 DEF claim, Rejected, state, books, ghosts, StrandedBy, Stranded, Booked
    <3>3. /\ compute_nullifier(p) \in Pots!Actions /\ asset[p.campaign_id] \in Assets
          /\ p.campaign_id \in Campaigns
      BY <3>2, ClaimShares DEF Pots!Actions, Nullifiers
    <3> QED BY <3>1, <3>3, <3>4 DEF Pots!Next
  <2>4. ASSUME NEW signers \in SUBSET Accounts, NEW c \in Campaigns,
               NEW r \in Advertisers, withdraw(signers, c, r)
        PROVE  Pots!Next
    BY <2>4, WithdrawRefunds DEF Pots!Next
  <2>5. CASE UNCHANGED vars
    BY <2>5 DEF vars, state, books, ghosts, StrandedBy, Stranded, Booked
  <2> QED BY <2>1, <2>2, <2>3, <2>4, <2>5 DEF Next
<1> QED BY <1>1, <1>2, Invariance, PTL DEF Spec, PotsSpec, Pots!Spec, Pots!pvars

(* lib.rs:168-183, 217-227.  Only a deposit over a positive balance leaves *)
(* the vault with tokens it has no record of, and it strands that balance, *)
(* for every campaign not deposited on terms that break the books.         *)
THEOREM StrandingNeedsRedeposit == Spec => StrandedOnlyByRedeposit
<1> DEFINE Step(c, a) ==
      Stranded(c, a)' # Stranded(c, a) =>
          /\ Stranded(c, a)' = Stranded(c, a) + balance[c]
          /\ asset[c] = a
          /\ nullifiers' = nullifiers
<1>1. IInv /\ [Next]_vars => \A c \in Campaigns \ unbacked', a \in Assets : Step(c, a)
  <2> SUFFICES ASSUME IInv, [Next]_vars, NEW d \in Campaigns \ unbacked', NEW b \in Assets,
                      Stranded(d, b)' # Stranded(d, b)
               PROVE  /\ Stranded(d, b)' = Stranded(d, b) + balance[d]
                      /\ asset[d] = b
                      /\ nullifiers' = nullifiers
    OBVIOUS
  <2>1. /\ custody \in [Campaigns -> [Assets -> Int]]
        /\ balance \in [Campaigns -> Nat]
        /\ asset \in [Campaigns -> Assets \cup {None}]
    BY DEF IInv, TypeOK
  <2>2. ASSUME NEW adm \in Admins, NEW tre \in Treasuries, NEW rate \in FeeRates,
               initialize(adm, tre, rate)
        PROVE  FALSE
    BY <2>2 DEF initialize, Rejected, state, books, ghosts, Stranded, Booked
  <2>3. ASSUME NEW signers \in SUBSET Accounts, NEW c \in Campaigns,
               NEW o \in Offers, deposit(signers, c, o)
        PROVE  /\ Stranded(d, b)' = Stranded(d, b) + balance[d]
               /\ asset[d] = b
               /\ nullifiers' = nullifiers
    <3> DEFINE In == IF o.advertiser = Vault THEN 0 ELSE o.amount
    <3>1. /\ custody' = [custody EXCEPT ![c][o.asset] = @ + In]
          /\ balance' = [balance EXCEPT ![c] = o.amount]
          /\ asset' = [asset EXCEPT ![c] = o.asset]
          /\ UNCHANGED nullifiers
          /\ unbacked' = unbacked \cup (IF Backed(o) THEN {} ELSE {c})
      BY <2>3 DEF deposit, Rejected, state, books, ghosts, Stranded, Booked
    <3>2. o.asset \in Assets /\ o.amount \in Int /\ In \in Int
      BY VaultAssumption DEF Offer
    <3>6. d = c => In = o.amount
      BY <3>1 DEF Backed
    <3> HIDE DEF In
    <3>3. CASE d = c /\ b = o.asset
      BY <2>1, <3>1, <3>2, <3>3, <3>6 DEF Stranded, Booked
    <3>4. CASE d = c /\ b # o.asset
      BY <2>1, <3>1, <3>2, <3>4 DEF Stranded, Booked
    <3>5. CASE d # c
      BY <2>1, <3>1, <3>2, <3>5 DEF Stranded, Booked
    <3> QED BY <3>3, <3>4, <3>5
  <2>4. ASSUME NEW p \in ClaimProof, claim(p)
        PROVE  FALSE
    <3> DEFINE c == p.campaign_id
               earn == EarnerAmount(reward_per_action[c], fee_rate)
               tre == TreasuryTransfer(c)
    <3>1. /\ ClaimChecks(p) = "Ok"
          /\ balance' = [balance EXCEPT ![c] = @ - reward_per_action[c]]
          /\ custody' = [custody EXCEPT ![c][asset[c]] = @ - earn - tre]
          /\ UNCHANGED <<asset, unbacked>>
      BY <2>4 DEF claim, Rejected, state, books, ghosts, Stranded, Booked
    <3>2. /\ c \in Campaigns /\ asset[c] \in Assets
          /\ earn \in Int /\ tre \in Nat /\ reward_per_action[c] \in Int
          /\ c \notin unbacked => earn + tre = reward_per_action[c]
      BY <3>1, ClaimShares
    <3> HIDE DEF earn, tre
    <3>3. CASE d = c /\ b = asset[c]
      BY <2>1, <3>1, <3>2, <3>3 DEF Stranded, Booked
    <3>4. CASE ~(d = c /\ b = asset[c])
      BY <2>1, <3>1, <3>2, <3>4 DEF Stranded, Booked
    <3> QED BY <3>3, <3>4
  <2>5. ASSUME NEW signers \in SUBSET Accounts, NEW c \in Campaigns,
               NEW r \in Advertisers, withdraw(signers, c, r)
        PROVE  FALSE
    <3>1. /\ balance[c] > 0
          /\ balance' = [balance EXCEPT ![c] = 0]
          /\ custody' = [custody EXCEPT ![c][asset[c]] = @ - balance[c]]
          /\ UNCHANGED asset
      BY <2>5 DEF withdraw, Rejected, state, books, ghosts, Stranded, Booked
    <3>2. asset[c] \in Assets
      BY <2>1, <3>1 DEF IInv, Registered
    <3>3. CASE d = c /\ b = asset[c]
      BY <2>1, <3>1, <3>2, <3>3 DEF Stranded, Booked
    <3>4. CASE ~(d = c /\ b = asset[c])
      BY <2>1, <3>1, <3>2, <3>4 DEF Stranded, Booked
    <3> QED BY <3>3, <3>4
  <2>6. CASE UNCHANGED vars
    BY <2>6 DEF vars, state, books, ghosts, Stranded, Booked
  <2> QED BY <2>2, <2>3, <2>4, <2>5, <2>6 DEF Next
<1> QED BY <1>1, Invariance, PTL DEF Spec, StrandedOnlyByRedeposit
=============================================================================
