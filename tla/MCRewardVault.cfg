CONSTANTS
    c1 = c1  c2 = c2  vault = vault
    usd = usd  xlm = xlm
    mgr = mgr  adv = adv
    k1 = k1  k2 = k2
    h1 = h1  h2 = h2
    Campaigns = {c1, c2}
    Assets = {usd, xlm}
    Accounts = {mgr, adv}
    Admins = {mgr}
    Treasuries = {mgr}
    Advertisers = {adv, vault}
    Earners = {adv}
    Vault = vault
    Oracles = {k1, k2}
    ActionHashes = {h1, h2}
    Timestamps = {t1, t2}
    FeeRates <- MCFeeRates
    Offers <- MCOffers
    Supply = 3
    I128Max = 25000
    None = None
SPECIFICATION Spec
VIEW state
SYMMETRY MCSymmetry
INVARIANTS TypeOK SpentIffPaid CampaignIsolation VaultSolvent
PROPERTIES StrandedOnlyByRedeposit PotsSpec
CHECK_DEADLOCK FALSE
