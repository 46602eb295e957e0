CONSTANTS
    e1 = e1  e2 = e2
    Earners = {e1, e2}
    Claims <- OneClaim
    ClaimEvent <- ExpectedEvent
    Limit = 3
    MaxLedger = 3
    MaxPerLedger = 1
    MaxFaults = 0
    MaxRestarts = 0
    MaxEarned = 9
SPECIFICATION Spec
INVARIANT EarnedAtMostClaimed
CHECK_DEADLOCK FALSE
