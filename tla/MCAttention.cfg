CONSTANTS
    p1 = p1  p2 = p2
    t1 = t1  t2 = t2  t3 = t3
    s1 = s1  s2 = s2
    Pairs = {p1, p2}
    Tokens = {t1, t3}
    OwnerOf <- MCOwnerOf
    Required = 2
    MinInterval = 1
    Day = 1
    Signals = {s1, s2}
    Claims = {g1}
    MaxTime = 2
    MaxBeats = 2
    MaxVideos = 0
    None = None
SPECIFICATION Spec
SYMMETRY SlotSymmetry
INVARIANTS TypeOK AttentionIsReal ProofsAreEarned
PROPERTIES AttentionIssuance
CHECK_DEADLOCK FALSE
