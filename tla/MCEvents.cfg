CONSTANTS
    e1 = e1  e2 = e2
    Earners = {e1, e2}
    Claims <- TwoClaims
    ClaimEvent <- ExpectedEvent
    Limit = 3
    MaxLedger = 3
    MaxPerLedger = 2
    MaxFaults = 2
    MaxRestarts = 1
    MaxEarned = 7
SPECIFICATION FairSpec
INVARIANTS TypeOK CountedOnceIfSpread NoClaimSkipped
PROPERTIES EveryClaimSeen
CHECK_DEADLOCK FALSE
