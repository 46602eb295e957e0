--------------------------- MODULE CampaignManager ---------------------------
(***************************************************************************)
(* The campaign_manager contract, calling the registry (modelled) and a    *)
(* vault (external here: each call it receives is accepted or traps).      *)
(* One action is one invocation; Err and traps roll everything back, the   *)
(* state already written and the effects of inner calls included.          *)
(***************************************************************************)
EXTENDS Registry

CONSTANTS
    Configs,   \* Campaign records passed to create_campaign
    MaxTime    \* bound on ledger time

(* The fields of `Campaign` that control anything.  state,                 *)
(* remaining_budget and current_participants of the argument are ignored.  *)
Config == [id: CampaignIds, advertiser: Accounts, campaign_type: CampaignTypes,
           total_budget: Int, reward_per_action: Int, expiry: Nat]

CampaignState == {"Active", "Paused", "Expired", "Drained"}

Campaign == [advertiser: Accounts, campaign_type: CampaignTypes,
             total_budget: Nat \ {0}, remaining_budget: Nat, expiry: Nat,
             state: CampaignState]

ASSUME ManagerAssumption ==
    /\ Configs \subseteq Config
    /\ MaxTime \in Nat
    /\ None \notin Campaign

VARIABLES
    now,          \* ledger timestamp
    initialized,  \* the registry and vault addresses are stored
    campaigns,    \* per id, the stored record or None
    ids,          \* campaign_ids, in order of creation
    deposits,     \* history: vault.deposit calls accepted, per id
    withdrawn     \* history: ids for which vault.withdraw was accepted

manager == <<initialized, campaigns, ids, deposits, withdrawn>>
vars    == <<registry, manager, now, result>>

Exists(c) == campaigns[c] # None

Rejected(code) == result' = code /\ UNCHANGED <<registry, manager, now>>

-----------------------------------------------------------------------------
Init ==
    /\ RegistryInit
    /\ now = 0
    /\ initialized = FALSE
    /\ campaigns = [c \in CampaignIds |-> None]
    /\ ids = <<>>
    /\ deposits = [c \in CampaignIds |-> 0]
    /\ withdrawn = {}

initialize ==
    \/ initialized /\ Rejected("AlreadyInitialized")
    \/ /\ ~initialized
       /\ initialized' = TRUE
       /\ result' = "Ok"
       /\ UNCHANGED <<registry, now, campaigns, ids, deposits, withdrawn>>

(* Mutants: an empty budget, and an id that is taken, let through. *)
CreateChecksAnyBudget(signers, cfg, vaultOk) ==
    IF cfg.advertiser \notin signers THEN "Trap"
    ELSE IF cfg.expiry <= now THEN "InvalidExpiry"
    ELSE IF Exists(cfg.id) THEN "CampaignIdExists"
    ELSE IF ~initialized THEN "NotInitialized"
    ELSE IF ~Registered(cfg.advertiser) \/ ~vaultOk THEN "Trap"
    ELSE "Ok"

CreateChecksAnyId(signers, cfg, vaultOk) ==
    IF cfg.advertiser \notin signers THEN "Trap"
    ELSE IF cfg.total_budget <= 0 THEN "InvalidBudget"
    ELSE IF cfg.expiry <= now THEN "InvalidExpiry"
    ELSE IF cfg.reward_per_action <= 0 THEN "InvalidReward"
    ELSE IF ~initialized THEN "NotInitialized"
    ELSE IF ~Registered(cfg.advertiser) \/ ~vaultOk THEN "Trap"
    ELSE "Ok"

(* What stops create_campaign, in the contract's order.  A registry error  *)
(* inside the call is a trap for the caller, as is a vault that refuses.   *)
CreateChecks(signers, cfg, vaultOk) ==
    IF cfg.advertiser \notin signers THEN "Trap"
    ELSE IF cfg.total_budget <= 0 THEN "InvalidBudget"
    ELSE IF cfg.expiry <= now THEN "InvalidExpiry"
    ELSE IF cfg.reward_per_action <= 0 THEN "InvalidReward"
    ELSE IF Exists(cfg.id) THEN "CampaignIdExists"
    ELSE IF ~initialized THEN "NotInitialized"
    ELSE IF ~Registered(cfg.advertiser) \/ ~vaultOk THEN "Trap"
    ELSE "Ok"

create_campaign(signers, cfg, vaultOk) ==
    \/ /\ CreateChecks(signers, cfg, vaultOk) # "Ok"
       /\ Rejected(CreateChecks(signers, cfg, vaultOk))
    \/ /\ CreateChecks(signers, cfg, vaultOk) = "Ok"
       /\ campaigns' = [campaigns EXCEPT ![cfg.id] =
              [advertiser |-> cfg.advertiser, campaign_type |-> cfg.campaign_type,
               total_budget |-> cfg.total_budget,
               remaining_budget |-> cfg.total_budget,
               expiry |-> cfg.expiry, state |-> "Active"]]
       /\ ids' = Append(ids, cfg.id)
       /\ Indexed([campaign_id |-> cfg.id, advertiser |-> cfg.advertiser,
                   campaign_type |-> cfg.campaign_type])
       /\ deposits' = [deposits EXCEPT ![cfg.id] = @ + 1]
       /\ result' = "Ok"
       /\ UNCHANGED <<now, initialized, withdrawn>>

(* load_campaign and require_auth, common to the advertiser's calls. *)
Owned(signers, c) == Exists(c) /\ campaigns[c].advertiser \in signers

NotOwned(signers, c) ==
    \/ ~Exists(c) /\ Rejected("CampaignNotFound")
    \/ Exists(c) /\ campaigns[c].advertiser \notin signers /\ Rejected("Trap")

Moved(c, to) ==
    /\ campaigns' = [campaigns EXCEPT ![c].state = to]
    /\ result' = "Ok"
    /\ UNCHANGED <<registry, now, initialized, ids, deposits, withdrawn>>

pause_campaign(signers, c) ==
    \/ NotOwned(signers, c)
    \/ /\ Owned(signers, c) /\ campaigns[c].state # "Active"
       /\ Rejected("NotActive")
    \/ /\ Owned(signers, c) /\ campaigns[c].state = "Active"
       /\ Moved(c, "Paused")

(* Mutant: whatever is not active can be resumed. *)
ResumableUnlessActive(c) == campaigns[c].state # "Active"

(* Nothing compares the expiry: an expired campaign can be resumed. *)
Resumable(c) == campaigns[c].state = "Paused"

resume_campaign(signers, c) ==
    \/ NotOwned(signers, c)
    \/ Owned(signers, c) /\ ~Resumable(c) /\ Rejected("NotPaused")
    \/ Owned(signers, c) /\ Resumable(c) /\ Moved(c, "Active")

(* Mutant: drained whatever the time. *)
AutoExpiredAnytime(c) ==
    IF campaigns[c].state \in {"Active", "Paused"} THEN "Expired" ELSE campaigns[c].state

(* The state drain_campaign goes on with, after its automatic expiry. *)
AutoExpired(c) ==
    IF campaigns[c].state \in {"Active", "Paused"} /\ now >= campaigns[c].expiry
    THEN "Expired" ELSE campaigns[c].state

drain_campaign(signers, c, vaultOk) ==
    \/ NotOwned(signers, c)
    \/ /\ Owned(signers, c) /\ AutoExpired(c) \notin {"Expired", "Drained"}
       /\ Rejected("NotExpiredOrDrained")
    \/ /\ Owned(signers, c) /\ AutoExpired(c) \in {"Expired", "Drained"}
       /\ ~vaultOk
       /\ Rejected("Trap")
    \/ /\ Owned(signers, c) /\ AutoExpired(c) \in {"Expired", "Drained"}
       /\ vaultOk
       /\ campaigns' = [campaigns EXCEPT ![c].state = "Drained",
                                         ![c].remaining_budget = 0]
       /\ withdrawn' = withdrawn \cup {c}
       /\ result' = "Ok"
       /\ UNCHANGED <<registry, now, initialized, ids, deposits>>

(* The metadata URI controls nothing: a success changes only the outcome. *)
update_metadata(signers, c) ==
    \/ NotOwned(signers, c)
    \/ Owned(signers, c) /\ Rejected("Ok")

(* Ledger time passes; it may pass an expiry by more than one tick. *)
Tick ==
    /\ \E t \in (now + 1) .. MaxTime : now' = t
    /\ UNCHANGED <<registry, manager, result>>

RegistryCall(signers) ==
    /\ \/ \E a \in Accounts : register_advertiser(signers, a)
       \/ \E a \in EarnerAccounts : register_earner(signers, a)
       \/ \E e \in DirectEntries : index_campaign(e)
    /\ UNCHANGED <<manager, now>>

ManagerCall(signers) ==
    \/ initialize
    \/ \E cfg \in Configs, vaultOk \in BOOLEAN : create_campaign(signers, cfg, vaultOk)
    \/ \E c \in CampaignIds :
          \/ pause_campaign(signers, c)
          \/ resume_campaign(signers, c)
          \/ \E vaultOk \in BOOLEAN : drain_campaign(signers, c, vaultOk)
          \/ update_metadata(signers, c)

Next ==
    \/ Tick
    \/ \E signers \in SUBSET Accounts : RegistryCall(signers) \/ ManagerCall(signers)

Spec == Init /\ [][Next]_vars

-----------------------------------------------------------------------------
(* Type invariant. *)
TypeOK ==
    /\ total_campaigns \in [Accounts -> Nat \cup {None}]
    /\ earners \subseteq Accounts
    /\ index \in Seq(IndexEntry)
    /\ now \in Nat
    /\ initialized \in BOOLEAN
    /\ campaigns \in [CampaignIds -> Campaign \cup {None}]
    /\ ids \in Seq(CampaignIds)
    /\ deposits \in [CampaignIds -> Nat]
    /\ withdrawn \subseteq CampaignIds

(* lib.rs:124-173, registry lib.rs:121-145.  A stored campaign is listed   *)
(* exactly once by the manager, is in the registry's index under the same  *)
(* advertiser and type, and had exactly one deposit accepted by the vault, *)
(* which would overwrite the balance on a second one; an id that is not    *)
(* stored has left no trace in any of the three, however far the creation  *)
(* that failed had got.                                                    *)
CreatedEverywhereOrNowhere ==
    \A c \in CampaignIds :
        LET listed == {i \in DOMAIN ids : ids[i] = c} IN
        IF Exists(c)
        THEN /\ \E i \in listed : listed = {i}
             /\ deposits[c] = 1
             /\ \E i \in DOMAIN index :
                   index[i] = [campaign_id |-> c,
                               advertiser |-> campaigns[c].advertiser,
                               campaign_type |-> campaigns[c].campaign_type]
        ELSE listed = {} /\ deposits[c] = 0 /\ c \notin withdrawn

(* lib.rs:213-247.  The record says Drained and has no budget exactly when *)
(* the vault has been told to pay the rest back, never one without the     *)
(* other, and that is never before the expiry; otherwise the whole budget  *)
(* is still recorded.  Expired is never the state a call leaves behind.    *)
DrainedIffWithdrawn ==
    \A c \in CampaignIds : Exists(c) =>
        LET r == campaigns[c] IN
        IF c \in withdrawn
        THEN r.state = "Drained" /\ r.remaining_budget = 0 /\ r.expiry <= now
        ELSE r.state \in {"Active", "Paused"} /\ r.remaining_budget = r.total_budget

(* The contract keeps the promise of CampaignLifecycle. *)
StatusOf(c) == IF Exists(c) THEN campaigns[c].state ELSE "Absent"

Lifecycle == INSTANCE CampaignLifecycle
    WITH status <- [c \in CampaignIds |-> StatusOf(c)],
         past <- {c \in CampaignIds : Exists(c) /\ campaigns[c].expiry <= now}
LifecycleSpec == Lifecycle!Spec
=============================================================================
