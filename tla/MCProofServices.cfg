CONSTANTS
    pair = pair  lost = lost
    req1 = req1  req2 = req2  req3 = req3
    x1 = x1  x2 = x2  u1 = u1  u2 = u2
    ann = ann  bob = bob  cat = cat  slug1 = slug1  slug2 = slug2
    None = None
    Pairs = {pair, lost}
    Campaigns <- MCCampaigns
    LearnRequests = {req1, req2, req3}
    SocialRequests = {req1, req2}
    ReferralRequests = {req1, req2, req3}
    KeyOf <- MCKeyOf
    Percent <- MCPercent
    Unit = 1000
    Grades = {114, 115, 116}
    Posts = {x1, x2}
    Usernames = {u1, u2}
    Undated = {u2}
    Urls <- MCUrls
    ReferrerOf <- MCReferrerOf
    Accounts = {ann, bob, cat}
    Slugs = {slug1, slug2}
SPECIFICATION DrawnSpec
SYMMETRY SlotSymmetry
INVARIANTS
    TypeOK LearnMarkIsTrue VerifiedIsVetted SocialMarkIsTrue
     ConversionIsFinal ReferralMarkIsTrue
PROPERTIES LearnIssuance SocialIssuance ReferralIssuance
CHECK_DEADLOCK FALSE
