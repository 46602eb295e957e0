---------------------------- MODULE SocialService ----------------------------
(***************************************************************************)
(* backend/src/social: posts verified against the X API, one               *)
(* SocialVerification row per (campaign, earner), and the proofs issued    *)
(* from it.  An action is what happens between two awaits; four of them    *)
(* lie between a request and its row, and the world moves on meanwhile.    *)
(*                                                                         *)
(* External: X.  A post may be deleted; an account's age only grows, its   *)
(* followers come and go.  Any call to X may be refused.                   *)
(***************************************************************************)
EXTENDS ProofRequests, Integers

CONSTANTS
    Posts,
    Usernames,
    Undated,        \* accounts of which X gives no created_at that is a date
    Urls,           \* post URLs, [post, username]; a part is None if not parsed
    SocialRequests  \* slots for requests in flight

SocialRow == [postUrl: Urls, proofIssued: BOOLEAN]

ASSUME SocialAssumption ==
    /\ Urls \subseteq [post: Posts \cup {None}, username: Usernames \cup {None}]
    /\ Campaigns \in [Pairs -> BOOLEAN]
    /\ Undated \subseteq Usernames
    /\ None \notin SocialRow /\ None \notin Posts /\ None \notin Usernames

VARIABLES
    posts,            \* X: the posts that exist
    old,              \* X: accounts at least DEFAULT_MIN_ACCOUNT_AGE_DAYS old
    followed,         \* X: accounts with at least DEFAULT_MIN_FOLLOWERS followers
    verifications,    \* database: per pair, the SocialVerification row or None
    social_requests,  \* verifySocialPost and getProof requests in flight
    verified,         \* history: [pair, postUrl] of the verifications stored
    social_issued,    \* history: the proofs handed out
    social_spoiled    \* history: pairs whose last proof a crash or an overlap cost

X              == <<posts, old, followed>>
social_history == <<verified, social_issued, social_spoiled>>
social_vars    == <<X, verifications, social_requests, social_history>>

SocialInit ==
    /\ posts = Posts
    /\ old = {} /\ followed = {}
    /\ verifications = [p \in Pairs |-> None]
    /\ social_requests = [r \in SocialRequests |-> Idle]
    /\ verified = {} /\ social_issued = {} /\ social_spoiled = {}

SocialAction(p, url) == [pair |-> p, postUrl |-> url]

SocialHolding(p, pc) ==
    {r \in SocialRequests : social_requests[r].pc = pc /\ social_requests[r].pair = p}

-----------------------------------------------------------------------------
PostDeleted(x) ==
    /\ x \in posts
    /\ posts' = posts \ {x}
    /\ UNCHANGED <<old, followed, verifications, social_requests, social_history>>

AccountAges(u) ==
    /\ u \notin old
    /\ old' = old \cup {u}
    /\ UNCHANGED <<posts, followed, verifications, social_requests, social_history>>

FollowersChange(u) ==
    /\ followed' = IF u \in followed THEN followed \ {u} ELSE followed \cup {u}
    /\ UNCHANGED <<posts, old, verifications, social_requests, social_history>>

(* extractPostId and extractUsername both find something. *)
Parsed(url) == url.post # None /\ url.username # None

(* Mutant: the row is written before X was asked. *)
VerifyStartsEagerly(r, p, url) ==
    /\ social_requests[r] = Idle /\ Campaigns[p] /\ Parsed(url)
    /\ social_requests' =
           [social_requests EXCEPT ![r] = [pc |-> "post", pair |-> p, postUrl |-> url]]
    /\ verifications' =
           [verifications EXCEPT ![p] = [postUrl |-> url, proofIssued |-> FALSE]]
    /\ UNCHANGED <<X, social_history>>

(* verifySocialPost, up to the answer of campaign.findUnique; requests for *)
(* other platforms, unknown campaigns and unreadable URLs end here.        *)
VerifyStarts(r, p, url) ==
    /\ social_requests[r] = Idle /\ Campaigns[p] /\ Parsed(url)
    /\ social_requests' =
           [social_requests EXCEPT ![r] = [pc |-> "post", pair |-> p, postUrl |-> url]]
    /\ UNCHANGED <<X, verifications, social_history>>

(* getPost and getAccountInfo answer null for a refused call.  A request   *)
(* that was answered null is over, as one that got an exception.           *)
PostFetched(r) ==
    /\ social_requests[r].pc = "post"
    /\ social_requests[r].postUrl.post \in posts
    /\ social_requests' = [social_requests EXCEPT ![r].pc = "account"]
    /\ UNCHANGED <<X, verifications, social_history>>

(* The age of an undated account is NaN, which is not less than 30 days.   *)
TooYoung(u) == u \notin old /\ u \notin Undated

(* Mutant: one of the two account checks suffices. *)
TrustworthyEither(u) == ~TooYoung(u) \/ u \in followed

Trustworthy(u) == ~TooYoung(u) /\ u \in followed

AccountFetched(r) ==
    /\ social_requests[r].pc = "account"
    /\ Trustworthy(social_requests[r].postUrl.username)
    /\ social_requests' = [social_requests EXCEPT ![r].pc = "upsert"]
    /\ UNCHANGED <<X, verifications, social_history>>

NotVerified(r) ==
    /\ social_requests[r].pc \in {"post", "account"}
    /\ social_requests' = [social_requests EXCEPT ![r] = Idle]
    /\ UNCHANGED <<X, verifications, social_history>>

(* Mutant: a row verified again keeps its flag. *)
VerificationKeepsFlag(p, url) ==
    [postUrl |-> url,
     proofIssued |-> verifications[p] # None /\ verifications[p].proofIssued]

Verification(p, url) == [postUrl |-> url, proofIssued |-> FALSE]

VerifyUpserts(r) ==
    LET p == social_requests[r].pair
        url == social_requests[r].postUrl IN
    /\ social_requests[r].pc = "upsert"
    /\ verifications' = [verifications EXCEPT ![p] = Verification(p, url)]
    /\ verified' = verified \cup {SocialAction(p, url)}
    /\ social_spoiled' =
           IF SocialHolding(p, "update") = {} THEN social_spoiled \ {p}
           ELSE social_spoiled \cup {p}
    /\ social_requests' = [social_requests EXCEPT ![r] = Idle]
    /\ UNCHANGED <<X, social_issued>>

(* getProof: the row is read and checked, and the proof signed. *)
SocialProofReads(r, p) ==
    /\ social_requests[r] = Idle
    /\ verifications[p] # None /\ ~verifications[p].proofIssued
    /\ social_requests' = [social_requests EXCEPT ![r] =
           [pc |-> "update", pair |-> p, postUrl |-> verifications[p].postUrl]]
    /\ UNCHANGED <<X, verifications, social_history>>

SocialProofMarks(r) ==
    /\ social_requests[r].pc = "update"
    /\ verifications' =
           [verifications EXCEPT ![social_requests[r].pair].proofIssued = TRUE]
    /\ social_requests' = [social_requests EXCEPT ![r].pc = "answer"]
    /\ UNCHANGED <<X, social_history>>

SocialProofAnswers(r) ==
    /\ social_requests[r].pc = "answer"
    /\ social_issued' =
           social_issued \cup
               {SocialAction(social_requests[r].pair, social_requests[r].postUrl)}
    /\ social_requests' = [social_requests EXCEPT ![r] = Idle]
    /\ UNCHANGED <<X, verifications, verified, social_spoiled>>

(* An exception of the database ends a request before its write. *)
SocialRequestFails(r) ==
    /\ social_requests[r].pc \in {"upsert", "update"}
    /\ social_requests' = [social_requests EXCEPT ![r] = Idle]
    /\ UNCHANGED <<X, verifications, social_history>>

SocialCrash ==
    /\ social_requests' = [r \in SocialRequests |-> Idle]
    /\ social_spoiled' =
           social_spoiled \cup {p \in Pairs : SocialHolding(p, "answer") # {}}
    /\ UNCHANGED <<X, verifications, verified, social_issued>>

SocialRuns ==
    \/ \E x \in Posts : PostDeleted(x)
    \/ \E u \in Usernames : AccountAges(u) \/ FollowersChange(u)
    \/ \E r \in SocialRequests :
          \/ \E p \in Pairs, url \in Urls : VerifyStarts(r, p, url)
          \/ PostFetched(r)
          \/ AccountFetched(r)
          \/ NotVerified(r)
          \/ VerifyUpserts(r)
          \/ \E p \in Pairs : SocialProofReads(r, p)
          \/ SocialProofMarks(r)
          \/ SocialProofAnswers(r)
          \/ SocialRequestFails(r)

SocialNext == SocialRuns \/ SocialCrash

SocialSpec == SocialInit /\ [][SocialNext]_social_vars

-----------------------------------------------------------------------------
(* Type invariant. *)
SocialTypeOK ==
    /\ posts \subseteq Posts /\ old \subseteq Usernames /\ followed \subseteq Usernames
    /\ verifications \in [Pairs -> SocialRow \cup {None}]
    /\ \A r \in SocialRequests :
          \/ social_requests[r] = Idle
          \/ social_requests[r] \in
                [pc: {"post", "account", "upsert", "update", "answer"},
                 pair: Pairs, postUrl: Urls]
    /\ verified \subseteq [pair: Pairs, postUrl: Urls]
    /\ social_issued \subseteq [pair: Pairs, postUrl: Urls]
    /\ social_spoiled \subseteq Pairs

(* social.service.ts:95-169.  A proof is handed out only for a post that   *)
(* was verified for this very earner and campaign, however verifications   *)
(* of other posts and other proofs overtake it.                            *)
SocialPromise == INSTANCE ProofIssuance
                 WITH Actions <- [pair: Pairs, postUrl: Urls], earned <- verified,
                      issued <- social_issued

SocialIssuance == SocialPromise!Spec

(* social.service.ts:71-93.  The checks are steps of one request, apart in *)
(* time, and their results are used after later awaits: what was stored    *)
(* as verified, or handed out as proven, is of an account that is not      *)
(* known to be too young, in a campaign of the database, and at no time    *)
(* with an URL that could not be read.                                     *)
VerifiedIsVetted ==
    \A a \in verified \cup social_issued :
        Parsed(a.postUrl) /\ Campaigns[a.pair] /\ ~TooYoung(a.postUrl.username)

(* social.service.ts:136, "Proof already issued for this verification".    *)
(* The row says so only when the proof of the post it holds was handed out *)
(* or is about to be, except after a crash before the answer and after a   *)
(* verification that overtook the proof being signed.                      *)
SocialMarkIsTrue ==
    \A p \in Pairs \ social_spoiled :
        verifications[p] # None /\ verifications[p].proofIssued =>
            \/ SocialAction(p, verifications[p].postUrl) \in social_issued
            \/ \E r \in SocialHolding(p, "answer") :
                  social_requests[r].postUrl = verifications[p].postUrl
=============================================================================
