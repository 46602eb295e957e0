--------------------------- MODULE ReferralService ---------------------------
(***************************************************************************)
(* backend/src/referrals: links, conversions and proofs over the Referral  *)
(* table, whose only unique column is the slug.  An action is what happens *)
(* between two awaits; every handler reads a row and writes it after       *)
(* another await.                                                          *)
(***************************************************************************)
EXTENDS ProofRequests, Integers, FiniteSets

CONSTANTS
    ReferrerOf,       \* the account of each pair's referrer
    Accounts,         \* the accounts that follow links
    Slugs,            \* uuids, never drawn twice
    ReferralRequests  \* slots for requests in flight

ReferralRow == [pair: Pairs, referee: Accounts \cup {None}, proofIssued: BOOLEAN]

ASSUME ReferralAssumption ==
    /\ ReferrerOf \in [Pairs -> Accounts]
    /\ Campaigns \in [Pairs -> BOOLEAN]
    /\ None \notin Accounts /\ None \notin ReferralRow /\ None \notin Slugs

VARIABLES
    referrals,          \* database: per slug, the Referral row or None
    referral_requests,  \* requests in flight
    converted,          \* history: [pair, referee] of the conversions stored
    referral_issued,    \* history: the proofs handed out, with their slug
    doubled,            \* history: pairs with two link requests past their look-up
    contested,          \* history: slugs with two conversions past their look-up
    referral_spoiled    \* history: slugs whose proof was lost in a crash

referral_history == <<converted, doubled, contested, referral_spoiled>>
referral_vars    == <<referrals, referral_requests, referral_issued, referral_history>>

ReferralInit ==
    /\ referrals = [s \in Slugs |-> None]
    /\ referral_requests = [r \in ReferralRequests |-> Idle]
    /\ converted = {} /\ referral_issued = {}
    /\ doubled = {} /\ contested = {} /\ referral_spoiled = {}

LinksOf(p) == {s \in Slugs : referrals[s] # None /\ referrals[s].pair = p}

(* A slug drawn by a request is not drawn again, unless it came to nothing. *)
Unused == {s \in Slugs : referrals[s] = None /\
                         \A r \in ReferralRequests : referral_requests[r].pc = "create" =>
                             referral_requests[r].slug # s}

About(s, pc) ==
    {r \in ReferralRequests : referral_requests[r].pc = pc /\ referral_requests[r].slug = s}

-----------------------------------------------------------------------------
(* Mutant: a link that was used does not count. *)
NoUnusedLink(p) == \A s \in LinksOf(p) : referrals[s].referee # None

NoLink(p) == LinksOf(p) = {}

(* generateLink: no link of the pair was found; with one there is nothing  *)
(* to do but to answer it.                                                 *)
LinkReads(r, p, s) ==
    /\ referral_requests[r] = Idle /\ Campaigns[p]
    /\ NoLink(p) /\ s \in Unused
    /\ referral_requests' =
           [referral_requests EXCEPT ![r] = [pc |-> "create", pair |-> p, slug |-> s]]
    /\ doubled' =
           IF \E q \in ReferralRequests :
                 referral_requests[q].pc = "create" /\ referral_requests[q].pair = p
                  THEN doubled \cup {p} ELSE doubled
    /\ UNCHANGED <<referrals, referral_issued, converted, contested, referral_spoiled>>

LinkCreates(r) ==
    /\ referral_requests[r].pc = "create"
    /\ referrals' = [referrals EXCEPT ![referral_requests[r].slug] =
           [pair |-> referral_requests[r].pair, referee |-> None, proofIssued |-> FALSE]]
    /\ referral_requests' = [referral_requests EXCEPT ![r] = Idle]
    /\ UNCHANGED <<referral_issued, referral_history>>

-----------------------------------------------------------------------------
(* Mutants: a link may be converted again, or by the referrer. *)
ConvertibleAgain(s, account) ==
    referrals[s] # None /\ ReferrerOf[referrals[s].pair] # account
ConvertibleByAnyone(s, account) ==
    referrals[s] # None /\ referrals[s].referee = None

Convertible(s, account) ==
    /\ referrals[s] # None /\ referrals[s].referee = None
    /\ ReferrerOf[referrals[s].pair] # account

(* trackConversion: the link is read and found unconverted. *)
TrackReads(r, s, account) ==
    /\ referral_requests[r] = Idle /\ Convertible(s, account)
    /\ referral_requests' = [referral_requests EXCEPT ![r] =
           [pc |-> "convert", slug |-> s, account |-> account]]
    /\ contested' =
           IF About(s, "convert") # {} THEN contested \cup {s} ELSE contested
    /\ UNCHANGED <<referrals, referral_issued, converted, doubled, referral_spoiled>>

TrackWrites(r) ==
    LET s == referral_requests[r].slug
        account == referral_requests[r].account IN
    /\ referral_requests[r].pc = "convert"
    /\ referrals' = [referrals EXCEPT ![s].referee = account]
    /\ converted' =
           converted \cup {[pair |-> referrals[s].pair, referee |-> account]}
    /\ referral_requests' = [referral_requests EXCEPT ![r] = Idle]
    /\ UNCHANGED <<referral_issued, doubled, contested, referral_spoiled>>

-----------------------------------------------------------------------------
(* Mutant: links without a conversion are found too. *)
FoundAnyLink(p) == LinksOf(p)

(* getProof: findFirst answers any one of the converted links of the pair. *)
Found(p) == {s \in LinksOf(p) : referrals[s].referee # None}

(* If its proof was issued before, the request fails, even when another    *)
(* link of the pair has a proof to give.                                   *)
ReferralProofReads(r, p) ==
    /\ referral_requests[r] = Idle
    /\ \E s \in Found(p) :
          /\ ~referrals[s].proofIssued
          /\ referral_requests' = [referral_requests EXCEPT ![r] =
                 [pc |-> "update", slug |-> s, pair |-> p,
                  account |-> referrals[s].referee]]
    /\ UNCHANGED <<referrals, referral_issued, referral_history>>

(* Mutant: the mark goes to every link of the referrer. *)
MarkedByPair(r) ==
    [s \in Slugs |-> IF s \in LinksOf(referral_requests[r].pair)
                     THEN [referrals[s] EXCEPT !.proofIssued = TRUE] ELSE referrals[s]]

Marked(r) == [referrals EXCEPT ![referral_requests[r].slug].proofIssued = TRUE]

ReferralProofMarks(r) ==
    /\ referral_requests[r].pc = "update"
    /\ referrals' = Marked(r)
    /\ referral_requests' = [referral_requests EXCEPT ![r].pc = "answer"]
    /\ UNCHANGED <<referral_issued, referral_history>>

Proof(r) == [slug |-> referral_requests[r].slug, pair |-> referral_requests[r].pair,
             referee |-> referral_requests[r].account]

ReferralProofAnswers(r) ==
    /\ referral_requests[r].pc = "answer"
    /\ referral_issued' = referral_issued \cup {Proof(r)}
    /\ referral_requests' = [referral_requests EXCEPT ![r] = Idle]
    /\ UNCHANGED <<referrals, referral_history>>

-----------------------------------------------------------------------------
(* An exception of the database ends a request before its write. *)
ReferralRequestFails(r) ==
    /\ referral_requests[r].pc \in {"create", "convert", "update"}
    /\ referral_requests' = [referral_requests EXCEPT ![r] = Idle]
    /\ UNCHANGED <<referrals, referral_issued, referral_history>>

ReferralCrash ==
    /\ referral_requests' = [r \in ReferralRequests |-> Idle]
    /\ referral_spoiled' =
           referral_spoiled \cup {s \in Slugs : About(s, "answer") # {}}
    /\ UNCHANGED <<referrals, referral_issued, converted, doubled, contested>>

ReferralRuns ==
    \E r \in ReferralRequests :
      \/ \E p \in Pairs, s \in Slugs : LinkReads(r, p, s)
      \/ LinkCreates(r)
      \/ \E s \in Slugs, account \in Accounts : TrackReads(r, s, account)
      \/ TrackWrites(r)
      \/ \E p \in Pairs : ReferralProofReads(r, p)
      \/ ReferralProofMarks(r)
      \/ ReferralProofAnswers(r)
      \/ ReferralRequestFails(r)

ReferralNext == ReferralRuns \/ ReferralCrash

ReferralSpec == ReferralInit /\ [][ReferralNext]_referral_vars

-----------------------------------------------------------------------------
(* Type invariant. *)
ReferralTypeOK ==
    /\ referrals \in [Slugs -> ReferralRow \cup {None}]
    /\ \A r \in ReferralRequests :
          \/ referral_requests[r] = Idle
          \/ referral_requests[r] \in [pc: {"create"}, pair: Pairs, slug: Slugs]
          \/ referral_requests[r] \in [pc: {"convert"}, slug: Slugs, account: Accounts]
          \/ referral_requests[r] \in [pc: {"update", "answer"}, slug: Slugs, pair: Pairs,
                              account: Accounts]
    /\ converted \subseteq [pair: Pairs, referee: Accounts]
    /\ referral_issued \subseteq [slug: Slugs, pair: Pairs, referee: Accounts]
    /\ doubled \subseteq Pairs /\ contested \subseteq Slugs /\ referral_spoiled \subseteq Slugs

(* referrals.service.ts:94-142.  The action of a proof is the campaign,    *)
(* the referrer and the referee; one is handed out only for a conversion   *)
(* that was stored for a link of this referrer, even if the link's referee *)
(* was overwritten since, and never for the referrer as its own referee.   *)
ReferralPromise == INSTANCE ProofIssuance
                WITH Actions <- {a \in [pair: Pairs, referee: Accounts] :
                                     a.referee # ReferrerOf[a.pair]},
                     earned <- converted,
                     issued <- {[pair |-> i.pair, referee |-> i.referee] :
                                    i \in referral_issued}

ReferralIssuance == ReferralPromise!Spec

(* referrals.service.ts:35, "Check for an existing unused link first       *)
(* (idempotent)".  An earner has one link per campaign, unless two of its  *)
(* requests looked for one before either had created it.                   *)
OneLinkPerPair == \A p \in Pairs \ doubled : Cardinality(LinksOf(p)) <= 1

(* referrals.service.ts:67-78, "Already converted - idempotent OK".  A     *)
(* stored conversion is final, and no link is worth two proofs, unless two *)
(* conversions of it were in flight together.                              *)
ConversionIsFinal ==
    /\ \A i, j \in referral_issued : i.slug = j.slug /\ i.slug \notin contested => i = j
    /\ \A i \in referral_issued :
          i.slug \notin contested => referrals[i.slug].referee = i.referee

(* referrals.service.ts:108, "Proof already issued for this referral".     *)
(* Nothing takes the mark back, so it must not be set for nothing: the     *)
(* proof was handed out or is about to be, unless it was lost in a crash   *)
(* or the referee was overwritten.                                         *)
ReferralMarkIsTrue ==
    \A s \in Slugs \ (contested \cup referral_spoiled) :
        referrals[s] # None /\ referrals[s].proofIssued =>
            LET p == referrals[s].pair
                wanted == [slug |-> s, pair |-> p, referee |-> referrals[s].referee] IN
            wanted \in referral_issued \/ \E r \in About(s, "answer") : Proof(r) = wanted
=============================================================================
