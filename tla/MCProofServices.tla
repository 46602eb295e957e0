--------------------------- MODULE MCProofServices ---------------------------
(* Instances of the learn, social and referrals services for TLC.  No      *)
(* property relates two of them and they share no state, so each behaviour *)
(* is about one: service is drawn once, and the other two keep their       *)
(* initial state.                                                          *)
EXTENDS ProofServices, TLC

CONSTANTS pair, lost, req1, req2, req3, x1, x2, u1, u2, ann, bob, cat, slug1, slug2

(* One earner of one campaign, and of another that the database does not   *)
(* know: rows of different pairs share nothing.                            *)
MCCampaigns == [k \in Pairs |-> k = pair]

(* Learn: 57 percent of 200 questions are to be right.  In doubles 114 of  *)
(* 200 are 56.99999999999999, which fails and is rounded to 57, and 115    *)
(* are 57.49999999999999, which passes and is rounded to 57 as well; a     *)
(* unit of a thousandth is enough to tell them from 57 and 57.5.           *)
MCKeyOf ==
    [k \in Pairs |-> IF k = pair THEN [questions |-> 200, passThreshold |-> 57000] ELSE None]

MCPercent ==
    [x \in Grades \X {200} |->
        CASE x[1] = 114 -> 56999 [] x[1] = 115 -> 57499 [] x[1] = 116 -> 57999]

(* Social: two posts of two accounts, one of which shows no age, and an    *)
(* URL of which no account is read.                                        *)
MCUrls == {[post |-> x1, username |-> u1], [post |-> x2, username |-> u2],
           [post |-> x1, username |-> None]}

(* Referrals: the referrer is one of three accounts; slugs for two links. *)
MCReferrerOf == [k \in Pairs |-> ann]

VARIABLE service

DrawnInit == Init /\ service \in {"learn", "social", "referrals"}

DrawnNext ==
    /\ UNCHANGED service
    /\ \/ service = "learn" /\ LearnStep
       \/ service = "social" /\ SocialStep
       \/ service = "referrals" /\ ReferralStep
       \/ Crash

DrawnSpec == DrawnInit /\ [][DrawnNext]_<<service, vars>>

(* The slots of the requests are interchangeable. *)
SlotSymmetry == Permutations({req1, req2})
=============================================================================
