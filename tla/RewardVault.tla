----------------------------- MODULE RewardVault -----------------------------
(***************************************************************************)
(* The reward_vault contract and the SEP-41 tokens it moves.               *)
(*                                                                         *)
(* Each action is one contract invocation.  A Soroban invocation that      *)
(* returns Err or traps is rolled back as a whole, so every error path     *)
(* leaves the state alone and only the outcome seen by the caller changes. *)
(***************************************************************************)
EXTENDS FeeSplit, FiniteSets, Functions

CONSTANTS
    Campaigns,      \* campaign ids, which are 32 bytes
    Assets,         \* SEP-41 token contracts
    Accounts,       \* every address other than the vault's own
    Admins, Treasuries, Advertisers, Earners,  \* the roles accounts may take
    Vault,          \* the vault contract's address
    Oracles,        \* ed25519 public keys
    ActionHashes,
    Timestamps,
    FeeRates,       \* u32 values `initialize` may be called with
    Offers,         \* deposit terms an admin may pass
    Supply,         \* initial token holding of every account, per asset
    None

Holders == Accounts \cup {Vault}

(* `deposit` checks neither amount nor price, both i128: a negative amount *)
(* is refused by the token, a negative price by nothing.                   *)
Offer == [asset: Assets, amount: Int, reward_per_action: Int,
          oracle_pubkey: Oracles, advertiser: Advertisers]

(* A ClaimProof; `signer` is the key whose signature over all the other    *)
(* fields verifies, None when the signature verifies under no key.         *)
ClaimProof == [campaign_id: Campaigns, earner: Earners,
               action_hash: ActionHashes, timestamp: Timestamps,
               signer: Oracles \cup {None}]

ASSUME VaultAssumption ==
    /\ IsFiniteSet(Campaigns)
    /\ Vault \notin Accounts
    /\ Admins \cup Treasuries \cup Advertisers \cup Earners \subseteq Holders
    /\ None \notin Holders \cup Oracles \cup Assets
    /\ FeeRates \subseteq Nat
    /\ Offers \subseteq Offer
    /\ Supply \in Nat

VARIABLES
    admin, treasury, fee_rate,                   \* contract configuration
    balance, asset, reward_per_action, oracle_pubkey,  \* per campaign
    nullifiers,                                  \* spent nullifiers
    tokens,                                      \* the token contracts
    result,                                      \* outcome of the last call
    payments,  \* history: claims paid, per (campaign, earner, action)
    custody,   \* history: tokens taken in for a campaign minus paid out for it
    unbacked   \* history: campaigns ever deposited on terms that break the books

config == <<admin, treasury, fee_rate>>
books  == <<balance, asset, reward_per_action, oracle_pubkey>>
ghosts == <<payments, custody, unbacked>>
state  == <<config, books, nullifiers, tokens, ghosts>>
vars   == <<state, result>>

Nullifiers == Campaigns \X Earners \X ActionHashes

(* The rewarded action a proof is about, the key of `payments`. *)
ActionOf(p) == <<p.campaign_id, p.earner, p.action_hash>>

Codes == {"Ok", "AlreadyInitialized", "NotInitialized", "CampaignNotFound",
          "NullifierSpent", "InvalidSignature", "InsufficientBalance", "Trap"}

-----------------------------------------------------------------------------
(* SEP-41 transfer: traps on a negative amount or a short balance. *)
CanTransfer(t, a, from, n) == n >= 0 /\ n <= t[a][from]

Transfer(t, a, from, to, n) ==
    LET debited == [t EXCEPT ![a][from] = @ - n] IN
    [debited EXCEPT ![a][to] = @ + n]

(* Mutant: a proof re-signed later has a nullifier of its own. *)
NullifierWithTimestamp(p) == <<p.campaign_id, p.earner, p.action_hash, p.timestamp>>

(* SHA256(campaign_id, earner, action_hash); the timestamp is not in it. *)
compute_nullifier(p) == <<p.campaign_id, p.earner, p.action_hash>>

verify_oracle_signature(p) == p.signer = oracle_pubkey[p.campaign_id]

Rejected(code) == result' = code /\ UNCHANGED state

-----------------------------------------------------------------------------
Init ==
    /\ admin = None /\ treasury = None /\ fee_rate = 0
    /\ balance = [c \in Campaigns |-> 0]
    /\ asset = [c \in Campaigns |-> None]
    /\ reward_per_action = [c \in Campaigns |-> 0]
    /\ oracle_pubkey = [c \in Campaigns |-> None]
    /\ nullifiers = {}
    /\ tokens = [a \in Assets |-> [h \in Holders |-> IF h = Vault THEN 0 ELSE Supply]]
    /\ result = "Ok"
    /\ payments = [n \in Nullifiers |-> 0]
    /\ custody = [c \in Campaigns |-> [a \in Assets |-> 0]]
    /\ unbacked = {}

initialize(adm, tre, rate) ==
    \/ /\ admin # None
       /\ Rejected("AlreadyInitialized")
    \/ /\ admin = None
       /\ admin' = adm /\ treasury' = tre /\ fee_rate' = rate
       /\ result' = "Ok"
       /\ UNCHANGED <<books, nullifiers, tokens, ghosts>>

(* Terms that bring in what the books will promise: with a negative price  *)
(* every claim raises the balance, and the vault's own address brings      *)
(* nothing in.  `deposit` takes any terms; the two histories see it.       *)
Backed(o) == o.reward_per_action >= 0 /\ o.advertiser # Vault

(* The vault calls the token, so its own address needs no signature there. *)
Authorised(signers, o) == admin \in signers /\ o.advertiser \in signers \cup {Vault}

(* The balance is set, not increased: a second deposit under the same id   *)
(* replaces what the first one left.                                       *)
deposit(signers, c, o) ==
    LET pull == CanTransfer(tokens, o.asset, o.advertiser, o.amount) IN
    \/ /\ admin = None
       /\ Rejected("NotInitialized")
    \/ /\ admin # None
       /\ ~(Authorised(signers, o) /\ pull)
       /\ Rejected("Trap")
    \/ /\ admin # None /\ Authorised(signers, o) /\ pull
       /\ tokens' = Transfer(tokens, o.asset, o.advertiser, Vault, o.amount)
       /\ balance' = [balance EXCEPT ![c] = o.amount]
       /\ asset' = [asset EXCEPT ![c] = o.asset]
       /\ reward_per_action' = [reward_per_action EXCEPT ![c] = o.reward_per_action]
       /\ oracle_pubkey' = [oracle_pubkey EXCEPT ![c] = o.oracle_pubkey]
       /\ custody' = [custody EXCEPT ![c][o.asset] =
                          @ + (IF o.advertiser = Vault THEN 0 ELSE o.amount)]
       /\ unbacked' = unbacked \cup (IF Backed(o) THEN {} ELSE {c})
       /\ result' = "Ok"
       /\ UNCHANGED <<config, nullifiers, payments>>

(* Mutants: the balance check, and the nullifier check, left out. *)
ChecksWithoutBalance(p) ==
    IF oracle_pubkey[p.campaign_id] = None THEN "CampaignNotFound"
    ELSE IF ~verify_oracle_signature(p) THEN "InvalidSignature"
    ELSE IF compute_nullifier(p) \in nullifiers THEN "NullifierSpent"
    ELSE "Ok"

ChecksWithoutNullifier(p) ==
    LET c == p.campaign_id IN
    IF oracle_pubkey[c] = None THEN "CampaignNotFound"
    ELSE IF ~verify_oracle_signature(p) THEN "InvalidSignature"
    ELSE IF balance[c] < reward_per_action[c] THEN "InsufficientBalance"
    ELSE "Ok"

(* The error a claim stops at, in the contract's order, "Ok" when the      *)
(* tokens get to move.                                                     *)
ClaimChecks(p) ==
    LET c == p.campaign_id IN
    IF oracle_pubkey[c] = None THEN "CampaignNotFound"
    ELSE IF ~verify_oracle_signature(p) THEN "InvalidSignature"
    ELSE IF compute_nullifier(p) \in nullifiers THEN "NullifierSpent"
    ELSE IF balance[c] < reward_per_action[c] THEN "InsufficientBalance"
    ELSE IF \/ SplitOverflows(reward_per_action[c], fee_rate)
            \/ ~I128(balance[c] - reward_per_action[c]) THEN "Trap"
    ELSE "Ok"

(* Both transfers of a claim, the treasury's only when it is positive. *)
TreasuryTransfer(c) ==
    LET share == TreasuryAmount(reward_per_action[c], fee_rate) IN
    IF share > 0 THEN share ELSE 0

ClaimTransfersOk(p) ==
    LET c    == p.campaign_id
        a    == asset[c]
        earn == EarnerAmount(reward_per_action[c], fee_rate) IN
    /\ CanTransfer(tokens, a, Vault, earn)
    /\ CanTransfer(Transfer(tokens, a, Vault, p.earner, earn), a, Vault,
                   TreasuryTransfer(c))

claim(p) ==
    LET c    == p.campaign_id
        a    == asset[c]
        earn == EarnerAmount(reward_per_action[c], fee_rate) IN
    \/ /\ ClaimChecks(p) # "Ok"
       /\ Rejected(ClaimChecks(p))
    \/ /\ ClaimChecks(p) = "Ok"
       /\ ~ClaimTransfersOk(p)
       /\ Rejected("Trap")
    \/ /\ ClaimChecks(p) = "Ok"
       /\ ClaimTransfersOk(p)
       /\ nullifiers' = nullifiers \cup {compute_nullifier(p)}
       /\ balance' = [balance EXCEPT ![c] = @ - reward_per_action[c]]
       /\ tokens' = Transfer(Transfer(tokens, a, Vault, p.earner, earn),
                             a, Vault, treasury, TreasuryTransfer(c))
       /\ payments' = [payments EXCEPT ![ActionOf(p)] = @ + 1]
       /\ custody' = [custody EXCEPT ![c][a] = @ - earn - TreasuryTransfer(c)]
       /\ result' = "Ok"
       /\ UNCHANGED <<config, asset, reward_per_action, oracle_pubkey, unbacked>>

withdraw(signers, c, recipient) ==
    LET pays == CanTransfer(tokens, asset[c], Vault, balance[c]) IN
    \/ /\ admin = None
       /\ Rejected("NotInitialized")
    \/ /\ admin # None
       /\ ~(admin \in signers /\ (balance[c] > 0 => pays))
       /\ Rejected("Trap")
    \/ /\ admin # None /\ admin \in signers /\ balance[c] <= 0
       /\ Rejected("Ok")
    \/ /\ admin # None /\ admin \in signers /\ balance[c] > 0 /\ pays
       /\ balance' = [balance EXCEPT ![c] = 0]
       /\ tokens' = Transfer(tokens, asset[c], Vault, recipient, balance[c])
       /\ custody' = [custody EXCEPT ![c][asset[c]] = @ - balance[c]]
       /\ result' = "Ok"
       /\ UNCHANGED <<config, asset, reward_per_action, oracle_pubkey,
                      nullifiers, payments, unbacked>>

Next ==
    \/ \E adm \in Admins, tre \in Treasuries, rate \in FeeRates : initialize(adm, tre, rate)
    \/ \E signers \in SUBSET Accounts, c \in Campaigns, o \in Offers :
           deposit(signers, c, o)
    \/ \E p \in ClaimProof : claim(p)
    \/ \E signers \in SUBSET Accounts, c \in Campaigns, r \in Advertisers :
           withdraw(signers, c, r)

Spec == Init /\ [][Next]_vars

-----------------------------------------------------------------------------
(* Type invariant. *)
TypeOK ==
    /\ admin \in Holders \cup {None}
    /\ treasury \in Holders \cup {None}
    /\ fee_rate \in Nat
    /\ balance \in [Campaigns -> Nat]
    /\ asset \in [Campaigns -> Assets \cup {None}]
    /\ reward_per_action \in [Campaigns -> Int]
    /\ oracle_pubkey \in [Campaigns -> Oracles \cup {None}]
    /\ nullifiers \subseteq Nullifiers
    /\ tokens \in [Assets -> [Holders -> Nat]]
    /\ result \in Codes
    /\ payments \in [Nullifiers -> Nat]
    /\ custody \in [Campaigns -> [Assets -> Int]]
    /\ unbacked \subseteq Campaigns

(* What the contract's books say it holds of asset a for campaign c. *)
Booked(c, a) == IF asset[c] = a THEN balance[c] ELSE 0

(* What it holds beyond its books, and so can never pay out again. *)
Stranded(c, a) == custody[c][a] - Booked(c, a)

(* lib.rs:151-194.  Whatever the sequence of deposits, re-deposits with    *)
(* another key or price, failed claims, and proofs re-signed with another  *)
(* timestamp: an action is paid once if its nullifier is spent and not at  *)
(* all otherwise, so neither a double payment nor a spent, unpaid          *)
(* nullifier exists.                                                       *)
SpentIffPaid ==
    \A n \in Nullifiers : payments[n] = IF n \in nullifiers THEN 1 ELSE 0

(* lib.rs:103-113, 160-186, 217-227.  The vault pools the tokens of all    *)
(* campaigns in one account, and pays a campaign out of its book alone.    *)
(* For a campaign never deposited at a negative price nor by the vault     *)
(* itself (`deposit` refuses neither, only the manager's own checks do),   *)
(* the tokens taken in for it cover what its book promises, at any fee     *)
(* rate and with any truncation: it never pays with another one's tokens.  *)
CampaignIsolation ==
    \A c \in Campaigns \ unbacked, a \in Assets :
        /\ custody[c][a] >= Booked(c, a)
        /\ custody[c][a] >= 0

(* lib.rs:160-186, 222-227.  The tokens the vault really holds cover the   *)
(* books of all campaigns together, but for what the unbacked ones have    *)
(* overdrawn (their custody turns negative): without such a campaign no    *)
(* transfer of a claim or withdrawal that the books allow is ever short.   *)
VaultSolvent ==
    \A a \in Assets :
        tokens[a][Vault] >=
            SumFunction([c \in Campaigns |->
                IF c \in unbacked THEN custody[c][a] ELSE Booked(c, a)])

(* lib.rs:168-183.  The two shares of a claim add up to what is deducted,  *)
(* and a withdrawal takes what it clears: for a campaign not unbacked, the *)
(* only step after which the vault holds tokens of it that its book has    *)
(* lost is a deposit that overwrites a balance, and it strands exactly     *)
(* that balance.  (What the vault pays to its own address is paid out.)    *)
StrandedOnlyByRedeposit ==
    [][\A c \in Campaigns \ unbacked', a \in Assets :
          Stranded(c, a)' # Stranded(c, a) =>
              /\ Stranded(c, a)' = Stranded(c, a) + balance[c]
              /\ asset[c] = a
              /\ nullifiers' = nullifiers]_vars

(* lib.rs:89-230.  The contract keeps the promise of CampaignPots, with    *)
(* what is stranded as the lost part of a pot and the unbacked campaigns   *)
(* as those whose pots are void.                                           *)
StrandedBy == [c \in Campaigns |-> [a \in Assets |-> Stranded(c, a)]]

Pots == INSTANCE CampaignPots
            WITH pot <- custody, lost <- StrandedBy, paid <- nullifiers,
                 void <- unbacked
PotsSpec == Pots!Spec
=============================================================================
