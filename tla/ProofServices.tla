---------------------------- MODULE ProofServices ----------------------------
(***************************************************************************)
(* The learn, social and referrals services side by side, as the backend   *)
(* process runs them: one event loop takes one step of one service at a    *)
(* time.  They have a database table each and share no request, so a step  *)
(* of one leaves the other two alone; a crash takes the requests of all.   *)
(***************************************************************************)
EXTENDS LearnService, SocialService, ReferralService

vars == <<learn_vars, social_vars, referral_vars>>

Init == LearnInit /\ SocialInit /\ ReferralInit

LearnStep    == LearnRuns /\ UNCHANGED <<social_vars, referral_vars>>
SocialStep   == SocialRuns /\ UNCHANGED <<learn_vars, referral_vars>>
ReferralStep == ReferralRuns /\ UNCHANGED <<learn_vars, social_vars>>

Crash == LearnCrash /\ SocialCrash /\ ReferralCrash

Next == LearnStep \/ SocialStep \/ ReferralStep \/ Crash

Spec == Init /\ [][Next]_vars

(* The type invariants of the three services. *)
TypeOK == LearnTypeOK /\ SocialTypeOK /\ ReferralTypeOK
=============================================================================
