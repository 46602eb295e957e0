CONSTANTS
    c1 = c1  c2 = c2
    adv = adv  bob = bob
    Social = Social  Referral = Referral
    Accounts = {adv, bob}
    EarnerAccounts = {bob}
    CampaignIds = {c1, c2}
    CampaignTypes = {Social, Referral}
    DirectEntries <- MCDirectEntries
    MaxIndex = 2
    Configs <- MCConfigs
    MaxTime = 2
    PageSize = 1
    U32Max = 3
    None = None
SPECIFICATION Spec
INVARIANTS TypeOK CreatedEverywhereOrNowhere DrainedIffWithdrawn CountersMatchIndex
    ActivePagesListAll IndexPagesListAll
PROPERTIES LifecycleSpec
CHECK_DEADLOCK FALSE
