CONSTANTS
    c1 = c1  usd = usd  mgr = mgr  adv = adv  ear = ear  k1 = k1
    Campaigns = {c1}
    Assets = {usd}
    Accounts = {mgr, adv, ear}
    Admins = {mgr}
    Treasuries = {mgr}
    Advertisers = {adv}
    Earners = {ear}
    Vault = vault
    Oracles = {k1}
    ActionHashes = {h1, h2}
    Timestamps = {t1}
    FeeRates = {0}
    Offers <- MCOffers
    Supply = 5
    I128Max = 30000
    OracleKey = k1
    ZeroKey = zero
    None = None
SPECIFICATION PathSpec
INVARIANTS OracleProofIsAccepted
CHECK_DEADLOCK FALSE
