------------------------------ MODULE ClaimPath ------------------------------
(***************************************************************************)
(* The way of a proof from the backend's oracle to the vault: the oracle   *)
(* signs a message made of the four fields, the earner carries the fields  *)
(* and the signature, and the vault makes the message again from the       *)
(* fields it is given.  SHA-256 is injective here, so a message is the     *)
(* sequence of its parts, each in the form in which its bytes are hashed.  *)
(***************************************************************************)
EXTENDS RewardVault, Sequences

CONSTANTS
    OracleKey,  \* the key pair the backend was configured with, or None
    ZeroKey     \* 32 zero bytes

VARIABLE proofs  \* the ClaimProofs handed out by the backend

Raw(value)    == [form |-> "raw bytes", bytes |-> 32, value |-> value]
Strkey(value) == [form |-> "G... in ASCII", bytes |-> 56, value |-> value]
Le64(value)   == [form |-> "little-endian u64", bytes |-> 8, value |-> value]

(* The oracle is given the decoded key of the earner. *)
buildMessage(c, e, h, t) == <<Raw(c), Raw(e), Raw(h), Le64(t)>>

(* The vault has the earner's Address and hashes its to_string(). *)
build_message(p) ==
    <<Raw(p.campaign_id), Strkey(p.earner), Raw(p.action_hash), Le64(p.timestamp)>>

getPublicKey == IF OracleKey = None THEN ZeroKey ELSE OracleKey

(* The fields and the signature, which verifies under the oracle's key if  *)
(* the vault comes to the message that was signed.                         *)
Signed(c, e, h, t) ==
    LET p == [campaign_id |-> c, earner |-> e, action_hash |-> h, timestamp |-> t] IN
    [campaign_id |-> c, earner |-> e, action_hash |-> h, timestamp |-> t,
     signer |-> IF build_message(p) = buildMessage(c, e, h, t) THEN OracleKey ELSE None]

(* signProof, called by a service with an earned action. *)
signProof(c, e, h, t) ==
    /\ OracleKey # None
    /\ proofs' = proofs \cup {Signed(c, e, h, t)}
    /\ UNCHANGED vars

PathInit == Init /\ proofs = {}

(* Campaigns are funded with the key that the backend publishes. *)
FundedByTheDocs(signers, c, o) ==
    /\ o.oracle_pubkey = getPublicKey
    /\ deposit(signers, c, o)

PathNext ==
    \/ \E c \in Campaigns, e \in Earners, h \in ActionHashes, t \in Timestamps :
          signProof(c, e, h, t)
    \/ /\ \/ \E adm \in Admins, tre \in Treasuries, rate \in FeeRates :
                initialize(adm, tre, rate)
          \/ \E signers \in SUBSET Accounts, c \in Campaigns, o \in Offers :
                FundedByTheDocs(signers, c, o)
          \/ \E p \in proofs : claim(p)
       /\ UNCHANGED proofs

PathSpec == PathInit /\ [][PathNext]_<<vars, proofs>>

(* oracle.service.ts:61, "This MUST match the verify logic in              *)
(* reward_vault/src/verify.rs".  The vault never refuses the signature of  *)
(* a proof that the backend handed out for a campaign that was funded with *)
(* the backend's key.                                                      *)
OracleProofIsAccepted == result # "InvalidSignature"
=============================================================================
