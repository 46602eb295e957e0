CONSTANTS
    p1 = p1  p2 = p2
    t1 = t1  t2 = t2  t3 = t3
    s1 = s1  s2 = s2
    Pairs = {p1}
    Tokens = {t1, t2}
    OwnerOf <- MCOwnerOf
    Required = 2
    MinInterval = 1
    Day = 2
    Signals = {s1}
    Claims = {g1, g2}
    MaxTime = 3
    MaxBeats = 3
    MaxVideos = 1
    None = None
SPECIFICATION Spec
INVARIANTS OneProofPerDay
CHECK_DEADLOCK FALSE
