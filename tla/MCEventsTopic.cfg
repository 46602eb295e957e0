CONSTANTS
    e1 = e1  e2 = e2
    Earners = {e1, e2}
    Claims <- OneClaim
    ClaimEvent <- PublishedEvent
    Limit = 3
    MaxLedger = 2
    MaxPerLedger = 1
    MaxFaults = 0
    MaxRestarts = 0
    MaxEarned = 4
SPECIFICATION FairSpec
PROPERTY EveryClaimSeen
CHECK_DEADLOCK FALSE
