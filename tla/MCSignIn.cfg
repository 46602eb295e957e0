CONSTANTS
    k1 = k1  k2 = k2  page = page  app = app
    Keys = {k1, k2}
    Pages = {page}
    Programs = {app}
    Own <- MCOwn
    Ttl = 1
    Life = 1
    MaxTime = 2
    MaxNonces = 3
    None = None
SPECIFICATION FairSpec
INVARIANTS TypeOK OneTokenPerChallenge ChallengeIsFresh RecentlySigned
PROPERTIES LoginEnds
CHECK_DEADLOCK FALSE
