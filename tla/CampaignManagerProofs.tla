------------------------ MODULE CampaignManagerProofs ------------------------
(* Theorems about CampaignManager, for every value of its constants. *)
EXTENDS CampaignManager, FiniteSetTheorems, TLAPS

-----------------------------------------------------------------------------
(* What a call can do to the campaigns, whichever operation it is: the     *)
(* proofs go through these effects instead of every error path.            *)
Unmoved == UNCHANGED <<now, campaigns, ids, deposits, withdrawn>>

(* The index and the counters may grow, and keep the entries they have.    *)
IndexGrows ==
    /\ total_campaigns' \in [Accounts -> Nat \cup {None}]
    /\ earners' \subseteq Accounts
    /\ index' \in Seq(IndexEntry)
    /\ \A i \in DOMAIN index : i \in DOMAIN index' /\ index'[i] = index[i]

Created(cfg) ==
    /\ ~Exists(cfg.id) /\ cfg.total_budget \in Nat \ {0} /\ cfg.expiry > now
    /\ campaigns' = [campaigns EXCEPT ![cfg.id] =
           [advertiser |-> cfg.advertiser, campaign_type |-> cfg.campaign_type,
            total_budget |-> cfg.total_budget,
            remaining_budget |-> cfg.total_budget,
            expiry |-> cfg.expiry, state |-> "Active"]]
    /\ ids' = Append(ids, cfg.id)
    /\ \E i \in DOMAIN index' :
           index'[i] = [campaign_id |-> cfg.id, advertiser |-> cfg.advertiser,
                        campaign_type |-> cfg.campaign_type]
    /\ deposits' = [deposits EXCEPT ![cfg.id] = @ + 1]
    /\ UNCHANGED <<now, withdrawn>>

Switched(c, from, to) ==
    /\ Exists(c) /\ campaigns[c].state = from
    /\ campaigns' = [campaigns EXCEPT ![c].state = to]
    /\ UNCHANGED <<now, ids, deposits, withdrawn>>

Drained(c) ==
    /\ Exists(c)
    /\ \/ campaigns[c].state \in {"Active", "Paused"} /\ now >= campaigns[c].expiry
       \/ campaigns[c].state \in {"Expired", "Drained"}
    /\ campaigns' = [campaigns EXCEPT ![c].state = "Drained",
                                      ![c].remaining_budget = 0]
    /\ withdrawn' = withdrawn \cup {c}
    /\ UNCHANGED <<now, ids, deposits>>

Ticked ==
    /\ now' \in Nat /\ now' > now
    /\ UNCHANGED <<campaigns, ids, deposits, withdrawn>>

Effect ==
    \/ Unmoved
    \/ Ticked
    \/ \E cfg \in Configs : Created(cfg)
    \/ \E c \in CampaignIds :
          \/ Switched(c, "Active", "Paused")
          \/ Switched(c, "Paused", "Active")
          \/ Drained(c)

(* Pushing an entry of a registered advertiser keeps what was indexed.     *)
LEMMA IndexedGrows ==
    ASSUME TypeOK, NEW e \in IndexEntry, Registered(e.advertiser), Indexed(e)
    PROVE  IndexGrows /\ \E i \in DOMAIN index' : index'[i] = e
<1>1. index' = Append(index, e) /\ index \in Seq(IndexEntry)
  BY DEF Indexed, TypeOK
<1>2. index' \in Seq(IndexEntry) /\ Len(index') = Len(index) + 1
  BY <1>1
<1>3. \A i \in DOMAIN index : i \in DOMAIN index' /\ index'[i] = index[i]
  BY <1>1, <1>2
<1>4. Len(index') \in DOMAIN index' /\ index'[Len(index')] = e
  BY <1>1, <1>2
<1>5. total_campaigns' \in [Accounts -> Nat \cup {None}]
  BY DEF Indexed, TypeOK, Registered, IndexEntry
<1>6. earners' \subseteq Accounts
  BY DEF Indexed, TypeOK
<1> QED BY <1>2, <1>3, <1>4, <1>5, <1>6 DEF IndexGrows

(* A call that leaves the registry alone keeps what was indexed. *)
LEMMA RegistryUnchanged ==
    ASSUME TypeOK, UNCHANGED registry
    PROVE  IndexGrows
BY DEF TypeOK, registry, IndexGrows

(* The registry's own operations do not touch a campaign. *)
LEMMA RegistryEffect ==
    ASSUME TypeOK, NEW signers \in SUBSET Accounts, RegistryCall(signers)
    PROVE  IndexGrows /\ Unmoved /\ initialized' \in BOOLEAN
<1>1. Unmoved /\ initialized' \in BOOLEAN
  BY DEF RegistryCall, manager, Unmoved, TypeOK
<1>2. ASSUME NEW a \in Accounts, register_advertiser(signers, a)
      PROVE  IndexGrows
  <2>1. CASE UNCHANGED registry
    BY <2>1, RegistryUnchanged
  <2>2. CASE ~UNCHANGED registry
    BY <1>2, <2>2 DEF register_advertiser, RejectedByRegistry, TypeOK, IndexGrows
  <2> QED BY <2>1, <2>2
<1>3. ASSUME NEW a \in EarnerAccounts, register_earner(signers, a)
      PROVE  IndexGrows
  <2>1. CASE UNCHANGED registry
    BY <2>1, RegistryUnchanged
  <2>2. CASE ~UNCHANGED registry
    BY <1>3, <2>2, RegistryAssumption
       DEF register_earner, RejectedByRegistry, TypeOK, IndexGrows
  <2> QED BY <2>1, <2>2
<1>4. ASSUME NEW e \in DirectEntries, index_campaign(e)
      PROVE  IndexGrows
  <2>1. CASE UNCHANGED registry
    BY <2>1, RegistryUnchanged
  <2>2. CASE ~UNCHANGED registry
    BY <1>4, <2>2, RegistryAssumption, IndexedGrows
       DEF index_campaign, RejectedByRegistry
  <2> QED BY <2>1, <2>2
<1> QED BY <1>1, <1>2, <1>3, <1>4 DEF RegistryCall

(* lib.rs:124-173.  A creation that succeeds has passed every check. *)
LEMMA CreateEffect ==
    ASSUME TypeOK, NEW signers \in SUBSET Accounts, NEW cfg \in Configs,
           NEW vaultOk \in BOOLEAN, create_campaign(signers, cfg, vaultOk),
           CreateChecks(signers, cfg, vaultOk) = "Ok"
    PROVE  IndexGrows /\ Created(cfg) /\ initialized' \in BOOLEAN
<1> DEFINE e == [campaign_id |-> cfg.id, advertiser |-> cfg.advertiser,
                 campaign_type |-> cfg.campaign_type]
<1>1. /\ cfg.total_budget > 0 /\ cfg.expiry > now
      /\ ~Exists(cfg.id) /\ Registered(cfg.advertiser)
  <2>1. cfg \in Config /\ now \in Nat
    BY ManagerAssumption DEF TypeOK
  <2> QED BY <2>1 DEF CreateChecks, Config
<1>2. e \in IndexEntry /\ cfg.total_budget \in Int
  BY ManagerAssumption DEF Config, IndexEntry
<1>3. IndexGrows /\ \E i \in DOMAIN index' : index'[i] = e
  <2>1. Indexed(e) /\ Registered(e.advertiser)
    BY <1>1 DEF create_campaign
  <2> QED BY <1>2, <2>1, IndexedGrows
<1>4. /\ campaigns' = [campaigns EXCEPT ![cfg.id] =
              [advertiser |-> cfg.advertiser, campaign_type |-> cfg.campaign_type,
               total_budget |-> cfg.total_budget,
               remaining_budget |-> cfg.total_budget,
               expiry |-> cfg.expiry, state |-> "Active"]]
      /\ ids' = Append(ids, cfg.id)
      /\ deposits' = [deposits EXCEPT ![cfg.id] = @ + 1]
      /\ UNCHANGED <<now, initialized, withdrawn>>
  BY DEF create_campaign
<1>5. cfg.total_budget \in Nat \ {0}
  BY <1>1, <1>2
<1> QED BY <1>1, <1>3, <1>4, <1>5 DEF Created, TypeOK

(* Every step has one of the effects above. *)
LEMMA StepEffect ==
    ASSUME TypeOK, [Next]_vars
    PROVE  IndexGrows /\ Effect /\ initialized' \in BOOLEAN
<1> DEFINE Goal == IndexGrows /\ Effect /\ initialized' \in BOOLEAN
<1>1. ASSUME UNCHANGED <<registry, manager, now>> PROVE Goal
  BY <1>1, RegistryUnchanged DEF manager, Effect, Unmoved, TypeOK
<1>2. CASE UNCHANGED vars
  BY <1>1, <1>2 DEF vars
<1>3. CASE Tick
  <2>1. Ticked /\ initialized' \in BOOLEAN /\ UNCHANGED registry
    BY <1>3, ManagerAssumption DEF Tick, Ticked, manager, TypeOK
  <2> QED BY <2>1, RegistryUnchanged DEF Effect
<1>4. ASSUME NEW signers \in SUBSET Accounts, RegistryCall(signers) PROVE Goal
  BY <1>4, RegistryEffect DEF Effect
<1>5. CASE initialize
  <2>1. UNCHANGED registry /\ Unmoved /\ initialized' \in BOOLEAN
    BY <1>5 DEF initialize, Rejected, manager, Unmoved, TypeOK
  <2> QED BY <2>1, RegistryUnchanged DEF Effect
<1>6. ASSUME NEW signers \in SUBSET Accounts, NEW cfg \in Configs,
             NEW vaultOk \in BOOLEAN, create_campaign(signers, cfg, vaultOk)
      PROVE  Goal
  <2>1. CASE CreateChecks(signers, cfg, vaultOk) = "Ok"
    BY <1>6, <2>1, CreateEffect DEF Effect
  <2>2. CASE CreateChecks(signers, cfg, vaultOk) # "Ok"
    BY <1>1, <1>6, <2>2 DEF create_campaign, Rejected
  <2> QED BY <2>1, <2>2
<1>7. ASSUME NEW signers \in SUBSET Accounts, NEW c \in CampaignIds, NotOwned(signers, c)
      PROVE  Goal
  BY <1>1, <1>7 DEF NotOwned, Rejected
<1>8. ASSUME NEW c \in CampaignIds, NEW from, NEW to, Exists(c),
             campaigns[c].state = from, Moved(c, to)
      PROVE  IndexGrows /\ Switched(c, from, to) /\ initialized' \in BOOLEAN
  BY <1>8, RegistryUnchanged DEF Moved, Switched, TypeOK
<1>9. ASSUME NEW signers \in SUBSET Accounts, NEW c \in CampaignIds,
             pause_campaign(signers, c)
      PROVE  Goal
  <2>1. CASE Rejected("NotActive")
    BY <1>1, <2>1 DEF Rejected
  <2>2. CASE Exists(c) /\ campaigns[c].state = "Active" /\ Moved(c, "Paused")
    BY <1>8, <2>2 DEF Effect
  <2> QED BY <1>7, <1>9, <2>1, <2>2 DEF pause_campaign, Owned
<1>10. ASSUME NEW signers \in SUBSET Accounts, NEW c \in CampaignIds,
              resume_campaign(signers, c)
       PROVE  Goal
  <2>1. CASE Rejected("NotPaused")
    BY <1>1, <2>1 DEF Rejected
  <2>2. CASE Exists(c) /\ campaigns[c].state = "Paused" /\ Moved(c, "Active")
    BY <1>8, <2>2 DEF Effect
  <2> QED BY <1>7, <1>10, <2>1, <2>2 DEF resume_campaign, Owned, Resumable
<1>11. ASSUME NEW signers \in SUBSET Accounts, NEW c \in CampaignIds,
              NEW vaultOk \in BOOLEAN, drain_campaign(signers, c, vaultOk)
       PROVE  Goal
  <2>1. CASE Rejected("NotExpiredOrDrained") \/ Rejected("Trap")
    BY <1>1, <2>1 DEF Rejected
  <2>2. CASE ~(Rejected("NotExpiredOrDrained") \/ Rejected("Trap") \/ NotOwned(signers, c))
    <3>1. /\ Exists(c) /\ AutoExpired(c) \in {"Expired", "Drained"}
          /\ campaigns' = [campaigns EXCEPT ![c].state = "Drained",
                                            ![c].remaining_budget = 0]
          /\ withdrawn' = withdrawn \cup {c}
          /\ UNCHANGED <<registry, now, initialized, ids, deposits>>
      BY <1>11, <2>2 DEF drain_campaign, Owned
    <3>2. \/ campaigns[c].state \in {"Active", "Paused"} /\ now >= campaigns[c].expiry
          \/ campaigns[c].state \in {"Expired", "Drained"}
      BY <3>1 DEF AutoExpired
    <3> QED BY <3>1, <3>2, RegistryUnchanged DEF Drained, Effect, TypeOK
  <2> QED BY <1>7, <1>11, <2>1, <2>2
<1>12. ASSUME NEW signers \in SUBSET Accounts, NEW c \in CampaignIds,
              update_metadata(signers, c)
       PROVE  Goal
  BY <1>1, <1>7, <1>12 DEF update_metadata, Rejected
<1>13. ASSUME NEW signers \in SUBSET Accounts, ManagerCall(signers) PROVE Goal
  BY <1>5, <1>6, <1>9, <1>10, <1>11, <1>12, <1>13 DEF ManagerCall
<1> QED BY <1>2, <1>3, <1>4, <1>13 DEF Next

-----------------------------------------------------------------------------
(* The inductive invariant: a drain is only sound because an id that is    *)
(* not stored has never been paid back, which creation guarantees.         *)
IInv == TypeOK /\ CreatedEverywhereOrNowhere /\ DrainedIffWithdrawn

(* Storing a typed record keeps the table typed. *)
LEMMA EffectType ==
    ASSUME TypeOK, IndexGrows, Effect, initialized' \in BOOLEAN
    PROVE  TypeOK'
<1>1. /\ total_campaigns' \in [Accounts -> Nat \cup {None}]
      /\ earners' \subseteq Accounts
      /\ index' \in Seq(IndexEntry)
  BY DEF IndexGrows
<1>2. CASE Unmoved
  BY <1>1, <1>2 DEF Unmoved, TypeOK
<1>3. CASE Ticked
  BY <1>1, <1>3 DEF Ticked, TypeOK
<1>4. ASSUME NEW cfg \in Configs, Created(cfg) PROVE TypeOK'
  <2>1. cfg \in Config /\ cfg.expiry \in Nat
    BY ManagerAssumption DEF Config
  <2>2. campaigns' \in [CampaignIds -> Campaign \cup {None}]
    BY <1>4, <2>1 DEF Created, TypeOK, Config, Campaign, CampaignState
  <2>3. ids' \in Seq(CampaignIds) /\ deposits' \in [CampaignIds -> Nat]
    BY <1>4, <2>1 DEF Created, TypeOK, Config
  <2> QED BY <1>1, <1>4, <2>2, <2>3 DEF Created, TypeOK
<1>5. ASSUME NEW c \in CampaignIds, NEW from, NEW to \in CampaignState,
             Switched(c, from, to)
      PROVE  TypeOK'
  <2>1. campaigns' \in [CampaignIds -> Campaign \cup {None}]
    BY <1>5 DEF Switched, Exists, TypeOK, Campaign
  <2> QED BY <1>1, <1>5, <2>1 DEF Switched, TypeOK
<1>6. ASSUME NEW c \in CampaignIds, Drained(c) PROVE TypeOK'
  <2>1. campaigns' \in [CampaignIds -> Campaign \cup {None}]
    <3> DEFINE r == [campaigns[c] EXCEPT !.state = "Drained", !.remaining_budget = 0]
    <3>1. campaigns \in [CampaignIds -> Campaign \cup {None}] /\ campaigns[c] \in Campaign
      BY <1>6 DEF Drained, Exists, TypeOK
    <3>2. r \in Campaign
      BY <3>1 DEF Campaign, CampaignState
    <3>3. campaigns' = [campaigns EXCEPT ![c] = r]
      BY <1>6, <3>1 DEF Drained
    <3> HIDE DEF r
    <3> QED BY <3>1, <3>2, <3>3
  <2> QED BY <1>1, <1>6, <2>1 DEF Drained, TypeOK
<1> QED BY <1>2, <1>3, <1>4, <1>5, <1>6 DEF Effect, CampaignState

(* A campaign's three traces are left together and never separated.        *)
LEMMA EffectCreated ==
    ASSUME IInv, TypeOK', IndexGrows, Effect
    PROVE  CreatedEverywhereOrNowhere'
<1> DEFINE Listed(c) == {i \in DOMAIN ids : ids[i] = c}
           Entry(c) == [campaign_id |-> c, advertiser |-> campaigns[c].advertiser,
                        campaign_type |-> campaigns[c].campaign_type]
           Whole(c) ==
              IF Exists(c)
              THEN /\ \E i \in Listed(c) : Listed(c) = {i}
                   /\ deposits[c] = 1
                   /\ \E i \in DOMAIN index : index[i] = Entry(c)
              ELSE Listed(c) = {} /\ deposits[c] = 0 /\ c \notin withdrawn
<1> SUFFICES ASSUME NEW d \in CampaignIds PROVE Whole(d)'
  BY DEF CreatedEverywhereOrNowhere
<1>1. Whole(d)
  BY DEF IInv, CreatedEverywhereOrNowhere
<1>2. ASSUME Exists(d)' = Exists(d), Exists(d) => Entry(d)' = Entry(d),
             Listed(d)' = Listed(d), deposits'[d] = deposits[d],
             ~Exists(d) => d \notin withdrawn'
      PROVE  Whole(d)'
  <2>1. CASE Exists(d)
    <3>1. PICK i \in DOMAIN index : index[i] = Entry(d)
      BY <1>1, <2>1
    <3>2. i \in DOMAIN index' /\ index'[i] = Entry(d)'
      BY <1>2, <2>1, <3>1 DEF IndexGrows
    <3> HIDE DEF Entry, Listed
    <3> QED BY <1>1, <1>2, <2>1, <3>2
  <2>2. CASE ~Exists(d)
    <3> HIDE DEF Entry, Listed
    <3> QED BY <1>1, <1>2, <2>2
  <2> QED BY <2>1, <2>2
<1>3. CASE Unmoved
  BY <1>1, <1>2, <1>3 DEF Unmoved, Exists
<1>4. CASE Ticked
  BY <1>1, <1>2, <1>4 DEF Ticked, Exists
<1>5. ASSUME NEW cfg \in Configs, Created(cfg) PROVE Whole(d)'
  <2>1. /\ cfg \in Config /\ cfg.id \in CampaignIds
        /\ ids \in Seq(CampaignIds) /\ ids' = Append(ids, cfg.id)
    BY <1>5, ManagerAssumption DEF Config, Created, IInv, TypeOK
  <2>2. /\ DOMAIN ids = 1 .. Len(ids) /\ DOMAIN ids' = 1 .. (Len(ids) + 1)
        /\ Len(ids) \in Nat
        /\ \A i \in 1 .. Len(ids) : ids'[i] = ids[i]
        /\ ids'[Len(ids) + 1] = cfg.id
    BY <2>1
  <2>3. CASE d = cfg.id
    <3>1. ~Exists(d) /\ Listed(d) = {} /\ deposits[d] = 0
      BY <1>1, <1>5, <2>3 DEF Created
    <3>2. Listed(d)' = {Len(ids) + 1}
      BY <2>2, <2>3, <3>1
    <3>3. campaigns'[d] \in Campaign \cup {None}
      BY DEF TypeOK
    <3>4. /\ campaigns'[d] = [advertiser |-> cfg.advertiser,
                campaign_type |-> cfg.campaign_type,
                total_budget |-> cfg.total_budget,
                remaining_budget |-> cfg.total_budget,
                expiry |-> cfg.expiry, state |-> "Active"]
          /\ deposits'[d] = 1
      BY <1>5, <2>3, <3>1 DEF Created, IInv, TypeOK
    <3>5. campaigns'[d] \in Campaign
      BY <1>5, <2>1, <3>4 DEF Created, Config, Campaign, CampaignState
    <3>6. Exists(d)'
      BY <3>5, ManagerAssumption DEF Exists
    <3>7. \E i \in DOMAIN index' : index'[i] = Entry(d)'
      BY <1>5, <2>3, <3>4 DEF Created
    <3> HIDE DEF Entry, Listed
    <3> QED BY <3>2, <3>4, <3>6, <3>7
  <2>4. CASE d # cfg.id
    <3>1. Listed(d)' = Listed(d)
      BY <2>2, <2>4
    <3>2. campaigns'[d] = campaigns[d] /\ deposits'[d] = deposits[d]
      BY <1>5, <2>1, <2>4 DEF Created, IInv, TypeOK
    <3>3. UNCHANGED withdrawn
      BY <1>5 DEF Created
    <3>4. ~Exists(d) => d \notin withdrawn'
      BY <1>1, <3>3
    <3>5. Exists(d)' = Exists(d) /\ Entry(d)' = Entry(d)
      BY <3>2 DEF Exists
    <3> HIDE DEF Entry, Listed, Whole
    <3> QED BY <1>2, <3>1, <3>2, <3>4, <3>5
  <2> QED BY <2>3, <2>4
<1>6. ASSUME NEW c \in CampaignIds, Exists(c),
             UNCHANGED <<ids, deposits>>,
             withdrawn' \subseteq withdrawn \cup {c},
             \A e \in CampaignIds \ {c} : campaigns'[e] = campaigns[e],
             campaigns'[c] # None,
             campaigns'[c].advertiser = campaigns[c].advertiser,
             campaigns'[c].campaign_type = campaigns[c].campaign_type
      PROVE  Whole(d)'
  <2>1. Exists(d)' = Exists(d) /\ (Exists(d) => Entry(d)' = Entry(d))
    BY <1>6 DEF Exists
  <2>2. ~Exists(d) => d \notin withdrawn'
    BY <1>1, <1>6
  <2>3. Listed(d)' = Listed(d) /\ deposits'[d] = deposits[d]
    BY <1>6
  <2> HIDE DEF Entry, Listed, Whole
  <2> QED BY <1>2, <2>1, <2>2, <2>3
<1>7. ASSUME NEW c \in CampaignIds, NEW from, NEW to \in CampaignState,
             Switched(c, from, to)
      PROVE  Whole(d)'
  <2>1. campaigns[c] \in Campaign /\ campaigns' = [campaigns EXCEPT ![c].state = to]
    BY <1>7 DEF Switched, Exists, IInv, TypeOK
  <2>2. campaigns'[c] \in Campaign
    BY <2>1 DEF Campaign, IInv, TypeOK
  <2>3. /\ \A e \in CampaignIds \ {c} : campaigns'[e] = campaigns[e]
        /\ campaigns'[c].advertiser = campaigns[c].advertiser
        /\ campaigns'[c].campaign_type = campaigns[c].campaign_type
    BY <2>1 DEF IInv, TypeOK, Campaign
  <2> HIDE DEF Whole
  <2> QED BY <1>6, <1>7, <2>2, <2>3, ManagerAssumption DEF Switched
<1>8. ASSUME NEW c \in CampaignIds, Drained(c) PROVE Whole(d)'
  <2>1. /\ campaigns[c] \in Campaign
        /\ campaigns' = [campaigns EXCEPT ![c].state = "Drained",
                                          ![c].remaining_budget = 0]
    BY <1>8 DEF Drained, Exists, IInv, TypeOK
  <2>2. campaigns'[c] \in Campaign
    BY <2>1 DEF Campaign, CampaignState, IInv, TypeOK
  <2>3. /\ \A e \in CampaignIds \ {c} : campaigns'[e] = campaigns[e]
        /\ campaigns'[c].advertiser = campaigns[c].advertiser
        /\ campaigns'[c].campaign_type = campaigns[c].campaign_type
    BY <2>1 DEF IInv, TypeOK, Campaign
  <2> HIDE DEF Whole
  <2> QED BY <1>6, <1>8, <2>2, <2>3, ManagerAssumption DEF Drained
<1> HIDE DEF Whole
<1> QED BY <1>3, <1>4, <1>5, <1>7, <1>8 DEF Effect, CampaignState

(* Paying back and recording it are one step, and time only moves on. *)
LEMMA EffectDrained ==
    ASSUME IInv, TypeOK', Effect
    PROVE  DrainedIffWithdrawn'
<1> DEFINE Right(c) ==
      Exists(c) =>
          LET r == campaigns[c] IN
          IF c \in withdrawn
          THEN r.state = "Drained" /\ r.remaining_budget = 0 /\ r.expiry <= now
          ELSE r.state \in {"Active", "Paused"} /\ r.remaining_budget = r.total_budget
<1> SUFFICES ASSUME NEW d \in CampaignIds PROVE Right(d)'
  BY DEF DrainedIffWithdrawn
<1>1. Right(d)
  BY DEF IInv, DrainedIffWithdrawn
<1>2. CASE Unmoved
  BY <1>1, <1>2 DEF Unmoved, Exists
<1>3. CASE Ticked
  <2>1. now \in Nat /\ (Exists(d) => campaigns[d].expiry \in Nat)
    BY DEF IInv, TypeOK, Exists, Campaign
  <2> QED BY <1>1, <1>3, <2>1 DEF Ticked, Exists
<1>4. ASSUME NEW cfg \in Configs, Created(cfg) PROVE Right(d)'
  <2>1. cfg.id \in CampaignIds /\ campaigns \in [CampaignIds -> Campaign \cup {None}]
    BY ManagerAssumption DEF Config, IInv, TypeOK
  <2>2. CASE d = cfg.id
    <3>1. d \notin withdrawn'
      BY <1>4, <2>2 DEF Created, IInv, CreatedEverywhereOrNowhere
    <3> QED BY <1>4, <2>1, <2>2, <3>1 DEF Created
  <2>3. CASE d # cfg.id
    BY <1>1, <1>4, <2>1, <2>3 DEF Created, Exists
  <2> QED BY <2>2, <2>3
<1>5. ASSUME NEW c \in CampaignIds, NEW from \in {"Active", "Paused"},
             NEW to \in {"Active", "Paused"}, Switched(c, from, to)
      PROVE  Right(d)'
  <2>1. campaigns[c] \in Campaign /\ campaigns \in [CampaignIds -> Campaign \cup {None}]
    BY <1>5 DEF Switched, Exists, IInv, TypeOK
  <2>2. CASE d = c
    <3>1. d \notin withdrawn
      BY <1>1, <1>5, <2>2 DEF Switched
    <3> QED BY <1>1, <1>5, <2>1, <2>2, <3>1 DEF Switched, Campaign
  <2>3. CASE d # c
    BY <1>1, <1>5, <2>1, <2>3 DEF Switched, Exists
  <2> QED BY <2>2, <2>3
<1>6. ASSUME NEW c \in CampaignIds, Drained(c) PROVE Right(d)'
  <2>1. campaigns[c] \in Campaign /\ campaigns \in [CampaignIds -> Campaign \cup {None}]
    BY <1>6 DEF Drained, Exists, IInv, TypeOK
  <2>2. CASE d = c
    <3>1. campaigns[c].expiry <= now
      <4>1. campaigns[c].expiry \in Nat /\ now \in Nat
        BY <2>1 DEF Campaign, IInv, TypeOK
      <4> QED BY <1>1, <1>6, <2>2, <4>1 DEF Drained
    <3>2. d \in withdrawn' /\ UNCHANGED now
      BY <1>6, <2>2 DEF Drained
    <3>3. /\ campaigns'[d].state = "Drained" /\ campaigns'[d].remaining_budget = 0
          /\ campaigns'[d].expiry = campaigns[d].expiry
      BY <1>6, <2>1, <2>2 DEF Drained, Campaign
    <3> QED BY <2>2, <3>1, <3>2, <3>3
  <2>3. CASE d # c
    BY <1>1, <1>6, <2>1, <2>3 DEF Drained, Exists
  <2> QED BY <2>2, <2>3
<1> HIDE DEF Right
<1> QED BY <1>2, <1>3, <1>4, <1>5, <1>6 DEF Effect

(* Every reachable state satisfies the inductive invariant. *)
THEOREM Invariance == Spec => []IInv
<1>1. Init => IInv
  <2> SUFFICES ASSUME Init PROVE IInv
    OBVIOUS
  <2> USE DEF Init, RegistryInit
  <2>1. TypeOK
    <3>1. index \in Seq(IndexEntry) /\ ids \in Seq(CampaignIds)
      OBVIOUS
    <3>2. /\ total_campaigns \in [Accounts -> Nat \cup {None}]
          /\ campaigns \in [CampaignIds -> Campaign \cup {None}]
          /\ deposits \in [CampaignIds -> Nat]
      OBVIOUS
    <3> QED BY <3>1, <3>2 DEF TypeOK
  <2>2. \A c \in CampaignIds : ~Exists(c)
    BY DEF Exists
  <2>3. CreatedEverywhereOrNowhere /\ DrainedIffWithdrawn
    BY <2>2 DEF CreatedEverywhereOrNowhere, DrainedIffWithdrawn
  <2> QED BY <2>1, <2>3 DEF IInv
<1>2. IInv /\ [Next]_vars => IInv'
  <2> SUFFICES ASSUME IInv, [Next]_vars PROVE IInv'
    OBVIOUS
  <2>1. IndexGrows /\ Effect /\ initialized' \in BOOLEAN
    BY StepEffect DEF IInv
  <2>2. TypeOK'
    BY <2>1, EffectType DEF IInv
  <2> QED BY <2>1, <2>2, EffectCreated, EffectDrained DEF IInv
<1> QED BY <1>1, <1>2, PTL DEF Spec

(* Type correctness. *)
THEOREM TypeCorrect == Spec => []TypeOK
BY Invariance, PTL DEF IInv

(* lib.rs:124-173.  Whatever fails half-way, a campaign is recorded by the *)
(* manager, the registry and the vault, or by none of them.                *)
THEOREM CreationIsWhole == Spec => []CreatedEverywhereOrNowhere
BY Invariance, PTL DEF IInv

(* lib.rs:213-247.  The budget is recorded as gone exactly when the vault  *)
(* has been told to pay it back, after the expiry.                         *)
THEOREM DrainMatchesWithdrawal == Spec => []DrainedIffWithdrawn
BY Invariance, PTL DEF IInv

-----------------------------------------------------------------------------
StatusMap == [c \in CampaignIds |-> StatusOf(c)]
PastSet   == {c \in CampaignIds : Exists(c) /\ campaigns[c].expiry <= now}

(* Changing one campaign, its expiry apart, is one step of the lifecycle.  *)
LEMMA OneStatus ==
    ASSUME IInv, NEW c \in CampaignIds, Exists(c), Exists(c)', UNCHANGED now,
           NEW to, campaigns'[c].state = to,
           campaigns'[c].expiry = campaigns[c].expiry,
           \A e \in CampaignIds \ {c} : campaigns'[e] = campaigns[e]
    PROVE  StatusMap' = [StatusMap EXCEPT ![c] = to] /\ PastSet' = PastSet
<1>1. \A e \in CampaignIds : StatusOf(e)' = IF e = c THEN to ELSE StatusOf(e)
  BY DEF StatusOf, Exists
<1>2. StatusMap' = [StatusMap EXCEPT ![c] = to]
  BY <1>1 DEF StatusMap
<1>3. \A e \in CampaignIds :
         (Exists(e) /\ campaigns[e].expiry <= now)' <=> (Exists(e) /\ campaigns[e].expiry <= now)
  BY DEF Exists
<1> QED BY <1>2, <1>3 DEF PastSet

(* lib.rs:124-247.  The manager implements CampaignLifecycle: no sequence  *)
(* of calls resumes, pauses or re-creates a drained campaign, or drains    *)
(* one before its expiry.                                                  *)
THEOREM ImplementsLifecycle == Spec => LifecycleSpec
<1>1. Init => Lifecycle!Init
  BY DEF Init, RegistryInit, Lifecycle!Init, StatusOf, Exists
<1>2. IInv /\ IInv' /\ [Next]_vars => [Lifecycle!Next]_<<StatusMap, PastSet>>
  <2> SUFFICES ASSUME IInv, IInv', [Next]_vars,
                      ~UNCHANGED <<StatusMap, PastSet>>
               PROVE  Lifecycle!Next
    OBVIOUS
  <2> USE DEF StatusMap, PastSet
  <2>1. Effect
    BY StepEffect DEF IInv
  <2>2. ASSUME Unmoved PROVE FALSE
    BY <2>2 DEF Unmoved, StatusOf, Exists
  <2>3. CASE Ticked
    <3>1. UNCHANGED StatusMap
      BY <2>3 DEF Ticked, StatusOf, Exists
    <3>2. PastSet \subseteq PastSet'
      <4>1. now \in Nat /\ now' \in Nat /\ now' > now
            /\ \A c \in CampaignIds : Exists(c) => campaigns[c].expiry \in Nat
        BY <2>3 DEF Ticked, IInv, TypeOK, Exists, Campaign
      <4> QED BY <2>3, <4>1 DEF Ticked, Exists
    <3>3. \A c \in PastSet' : StatusMap[c] # "Absent"
      BY <2>3 DEF Ticked, StatusOf, Exists, IInv, TypeOK, Campaign, CampaignState
    <3> QED BY <3>1, <3>2, <3>3 DEF Lifecycle!Next, Lifecycle!Expire
  <2>4. ASSUME NEW cfg \in Configs, Created(cfg) PROVE Lifecycle!Next
    <3> DEFINE c == cfg.id
    <3>1. c \in CampaignIds /\ cfg.expiry \in Nat
      BY ManagerAssumption DEF Config
    <3>2. /\ ~Exists(c) /\ cfg.expiry > now /\ UNCHANGED now
          /\ \A e \in CampaignIds \ {c} : campaigns'[e] = campaigns[e]
          /\ campaigns'[c].state = "Active" /\ campaigns'[c].expiry = cfg.expiry
      BY <2>4, <3>1 DEF Created, IInv, TypeOK
    <3>3. deposits'[c] # 0
      BY <2>4, <3>1 DEF Created, IInv, TypeOK
    <3>4. Exists(c)'
      BY <3>1, <3>3 DEF IInv, CreatedEverywhereOrNowhere
    <3> HIDE DEF c
    <3>5. \A e \in CampaignIds : StatusOf(e)' = IF e = c THEN "Active" ELSE StatusOf(e)
      BY <3>2, <3>4 DEF StatusOf, Exists
    <3>6. StatusMap' = [StatusMap EXCEPT ![c] = "Active"] /\ StatusMap[c] = "Absent"
      BY <3>1, <3>2, <3>5 DEF StatusOf
    <3>7. UNCHANGED PastSet /\ c \notin PastSet
      <4>1. now \in Nat
        BY DEF IInv, TypeOK
      <4> QED BY <3>1, <3>2, <4>1 DEF Exists
    <3>8. Lifecycle!Create(c)
      BY <3>6, <3>7 DEF Lifecycle!Create, Lifecycle!Becomes
    <3> QED BY <3>1, <3>8 DEF Lifecycle!Next
  <2>5. ASSUME NEW c \in CampaignIds, NEW from \in CampaignState,
               NEW to \in CampaignState, Switched(c, from, to)
        PROVE  /\ StatusMap[c] = from
               /\ StatusMap' = [StatusMap EXCEPT ![c] = to] /\ UNCHANGED PastSet
    <3>1. campaigns[c] \in Campaign /\ campaigns \in [CampaignIds -> Campaign \cup {None}]
      BY <2>5 DEF Switched, Exists, IInv, TypeOK
    <3>2. /\ UNCHANGED now
          /\ \A e \in CampaignIds \ {c} : campaigns'[e] = campaigns[e]
          /\ campaigns'[c].state = to /\ campaigns'[c].expiry = campaigns[c].expiry
      BY <2>5, <3>1 DEF Switched, Campaign
    <3>3. campaigns'[c] \in Campaign
      BY <2>5, <3>1 DEF Switched, Campaign
    <3>4. Exists(c) /\ Exists(c)'
      BY <2>5, <3>3, ManagerAssumption DEF Switched, Exists
    <3>5. StatusMap' = [StatusMap EXCEPT ![c] = to] /\ PastSet' = PastSet
      BY <3>2, <3>4, OneStatus
    <3> QED BY <2>5, <3>4, <3>5 DEF Switched, StatusOf
  <2>6. ASSUME NEW c \in CampaignIds,
               Switched(c, "Active", "Paused") \/ Switched(c, "Paused", "Active")
        PROVE  Lifecycle!Next
    <3>1. Lifecycle!Pause(c) \/ Lifecycle!Resume(c)
      BY <2>5, <2>6 DEF CampaignState, Lifecycle!Pause, Lifecycle!Resume, Lifecycle!Becomes
    <3> QED BY <3>1 DEF Lifecycle!Next
  <2>7. ASSUME NEW c \in CampaignIds, Drained(c) PROVE Lifecycle!Next
    <3>1. campaigns[c] \in Campaign /\ campaigns \in [CampaignIds -> Campaign \cup {None}]
      BY <2>7 DEF Drained, Exists, IInv, TypeOK
    <3>2. /\ UNCHANGED now
          /\ \A e \in CampaignIds \ {c} : campaigns'[e] = campaigns[e]
          /\ campaigns'[c].state = "Drained" /\ campaigns'[c].expiry = campaigns[c].expiry
      BY <2>7, <3>1 DEF Drained, Campaign
    <3>3. Exists(c) /\ Exists(c)'
      <4>1. Exists(c) /\ deposits'[c] = 1
        BY <2>7 DEF Drained, IInv, CreatedEverywhereOrNowhere
      <4> QED BY <4>1 DEF IInv, CreatedEverywhereOrNowhere
    <3>4. StatusMap' = [StatusMap EXCEPT ![c] = "Drained"] /\ PastSet' = PastSet
      BY <3>2, <3>3, OneStatus
    <3>5. campaigns[c].state \in {"Active", "Paused"} /\ now >= campaigns[c].expiry
      <4>1. campaigns[c].state \notin {"Expired"}
        BY <3>3 DEF IInv, DrainedIffWithdrawn
      <4>2. campaigns[c].state = "Drained" => UNCHANGED StatusMap
        BY <3>3, <3>4 DEF StatusOf
      <4> QED BY <2>7, <3>4, <4>1, <4>2 DEF Drained
    <3>6. campaigns[c].expiry \in Nat /\ now \in Nat
      BY <3>1 DEF Campaign, IInv, TypeOK
    <3>7. c \in PastSet /\ StatusMap[c] \in {"Active", "Paused"}
      BY <3>3, <3>5, <3>6 DEF StatusOf
    <3>8. Lifecycle!Drain(c)
      BY <3>4, <3>7 DEF Lifecycle!Drain, Lifecycle!Becomes
    <3> QED BY <3>8 DEF Lifecycle!Next
  <2> QED BY <2>1, <2>2, <2>3, <2>4, <2>6, <2>7 DEF Effect
<1> QED BY <1>1, <1>2, Invariance, PTL
    DEF Spec, LifecycleSpec, Lifecycle!Spec, Lifecycle!lvars, StatusMap, PastSet

-----------------------------------------------------------------------------
(* The entries of an advertiser are positions of a finite list. *)
LEMMA EntriesFinite ==
    ASSUME TypeOK, NEW a \in Accounts
    PROVE  IsFiniteSet(EntriesOf(a))
<1>1. Len(index) \in Nat /\ DOMAIN index = 1 .. Len(index)
  BY DEF TypeOK
<1>2. IsFiniteSet(1 .. Len(index))
  BY <1>1, FS_Interval
<1>3. EntriesOf(a) \in SUBSET (1 .. Len(index))
  BY <1>1 DEF EntriesOf
<1> QED BY <1>2, <1>3, FS_Subset

(* A push is counted once, for its advertiser alone. *)
LEMMA IndexedCounts ==
    ASSUME TypeOK, CountersMatchIndex, NEW e \in IndexEntry,
           Registered(e.advertiser), Indexed(e)
    PROVE  CountersMatchIndex'
<1> DEFINE last == Len(index) + 1
<1>1. /\ index' = Append(index, e) /\ e.advertiser \in Accounts
      /\ total_campaigns' = [total_campaigns EXCEPT ![e.advertiser] = @ + 1]
  BY DEF Indexed, IndexEntry
<1>2. /\ index \in Seq(IndexEntry) /\ Len(index) \in Nat
      /\ total_campaigns \in [Accounts -> Nat \cup {None}]
  BY DEF TypeOK
<1>3. /\ DOMAIN index' = DOMAIN index \cup {last} /\ last \notin DOMAIN index
      /\ \A i \in DOMAIN index : index'[i] = index[i]
      /\ index'[last] = e
  BY <1>1, <1>2
<1> HIDE DEF last
<1> SUFFICES ASSUME NEW a \in Accounts
             PROVE  IF Registered(a)' THEN total_campaigns'[a] = Cardinality(EntriesOf(a)')
                                      ELSE EntriesOf(a)' = {}
  BY DEF CountersMatchIndex
<1>4. CASE a = e.advertiser
  <2>1. EntriesOf(a)' = EntriesOf(a) \cup {last} /\ last \notin EntriesOf(a)
    BY <1>3, <1>4 DEF EntriesOf
  <2>2. Cardinality(EntriesOf(a)') = Cardinality(EntriesOf(a)) + 1
    BY <2>1, EntriesFinite, FS_AddElement
  <2>3. total_campaigns'[a] = total_campaigns[a] + 1 /\ total_campaigns[a] \in Nat
    BY <1>1, <1>2, <1>4 DEF Registered
  <2>4. Registered(a)'
    BY <2>3, RegistryAssumption DEF Registered
  <2> QED BY <1>4, <2>2, <2>3, <2>4 DEF CountersMatchIndex
<1>5. CASE a # e.advertiser
  <2>1. EntriesOf(a)' = EntriesOf(a)
    BY <1>3, <1>5 DEF EntriesOf
  <2>2. total_campaigns'[a] = total_campaigns[a]
    BY <1>1, <1>2, <1>5
  <2> QED BY <2>1, <2>2 DEF CountersMatchIndex, Registered
<1> QED BY <1>4, <1>5

LEMMA CountersKept ==
    ASSUME CountersMatchIndex, UNCHANGED registry
    PROVE  CountersMatchIndex'
BY DEF CountersMatchIndex, registry, Registered, EntriesOf

LEMMA CountersStep ==
    ASSUME TypeOK, CountersMatchIndex, [Next]_vars
    PROVE  CountersMatchIndex'
<1>1. ASSUME NEW a \in Accounts, ~Registered(a), UNCHANGED <<earners, index>>,
             total_campaigns' = [total_campaigns EXCEPT ![a] = 0]
      PROVE  CountersMatchIndex'
  <2>1. \A b \in Accounts : EntriesOf(b)' = EntriesOf(b)
    BY <1>1 DEF EntriesOf
  <2>2. \A b \in Accounts :
           total_campaigns'[b] = IF b = a THEN 0 ELSE total_campaigns[b]
    BY <1>1 DEF TypeOK
  <2>3. EntriesOf(a) = {} /\ Cardinality(EntriesOf(a)) = 0
    BY <1>1, FS_EmptySet DEF CountersMatchIndex
  <2> QED BY <2>1, <2>2, <2>3 DEF CountersMatchIndex, Registered
<1>2. ASSUME NEW signers \in SUBSET Accounts, RegistryCall(signers)
      PROVE  CountersMatchIndex'
  <2>1. ASSUME NEW a \in Accounts, register_advertiser(signers, a)
        PROVE  CountersMatchIndex'
    BY <1>1, <2>1, CountersKept DEF register_advertiser, RejectedByRegistry
  <2>2. ASSUME NEW a \in EarnerAccounts, register_earner(signers, a)
        PROVE  CountersMatchIndex'
    BY <2>2 DEF register_earner, RejectedByRegistry, registry, CountersMatchIndex,
       Registered, EntriesOf
  <2>3. ASSUME NEW e \in DirectEntries, index_campaign(e)
        PROVE  CountersMatchIndex'
    BY <2>3, RegistryAssumption, CountersKept, IndexedCounts
       DEF index_campaign, RejectedByRegistry
  <2> QED BY <1>2, <2>1, <2>2, <2>3 DEF RegistryCall
<1>3. ASSUME NEW signers \in SUBSET Accounts, NEW cfg \in Configs, NEW vaultOk \in BOOLEAN,
             create_campaign(signers, cfg, vaultOk)
      PROVE  CountersMatchIndex'
  <2> DEFINE e == [campaign_id |-> cfg.id, advertiser |-> cfg.advertiser,
                   campaign_type |-> cfg.campaign_type]
  <2>1. CASE CreateChecks(signers, cfg, vaultOk) = "Ok"
    <3>1. Indexed(e) /\ Registered(e.advertiser)
      BY <1>3, <2>1 DEF create_campaign, CreateChecks
    <3>2. e \in IndexEntry
      BY ManagerAssumption DEF Config, IndexEntry
    <3> QED BY <3>1, <3>2, IndexedCounts
  <2>2. CASE CreateChecks(signers, cfg, vaultOk) # "Ok"
    BY <1>3, <2>2, CountersKept DEF create_campaign, Rejected
  <2> QED BY <2>1, <2>2
<1>4. ASSUME NEW signers \in SUBSET Accounts, ManagerCall(signers)
      PROVE  CountersMatchIndex'
  <2>1. CASE initialize
    BY <2>1, CountersKept DEF initialize, Rejected
  <2>2. ASSUME NEW c \in CampaignIds,
               \/ pause_campaign(signers, c) \/ resume_campaign(signers, c)
               \/ \E vaultOk \in BOOLEAN : drain_campaign(signers, c, vaultOk)
               \/ update_metadata(signers, c)
        PROVE  CountersMatchIndex'
    BY <2>2, CountersKept DEF pause_campaign, resume_campaign, drain_campaign,
       update_metadata, NotOwned, Moved, Rejected
  <2> QED BY <1>3, <1>4, <2>1, <2>2 DEF ManagerCall
<1>5. CASE Tick \/ UNCHANGED vars
  BY <1>5, CountersKept DEF Tick, vars
<1> QED BY <1>2, <1>4, <1>5 DEF Next

(* registry lib.rs:133-143.  The public counter of an advertiser is the    *)
(* number of its entries, with any number of campaigns and of entries that *)
(* were pushed past the manager.                                           *)
THEOREM CountersAreRight == Spec => []CountersMatchIndex
<1>1. Init => CountersMatchIndex
  BY DEF Init, RegistryInit, CountersMatchIndex, Registered, EntriesOf
<1>2. TypeOK /\ CountersMatchIndex /\ [Next]_vars => CountersMatchIndex'
  BY CountersStep
<1> QED BY <1>1, <1>2, TypeCorrect, PTL DEF Spec
=============================================================================
