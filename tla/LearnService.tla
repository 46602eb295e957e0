---------------------------- MODULE LearnService ----------------------------
(***************************************************************************)
(* backend/src/learn: quiz submissions, one LearnSubmission row per        *)
(* (campaign, earner), and the proofs issued from it.  As in               *)
(* AttentionService an action is what happens between two awaits.  The     *)
(* answer key of a campaign is written by no code of the repository and    *)
(* never changes here, so the await that reads it is not a step.           *)
(***************************************************************************)
EXTENDS ProofRequests, Integers

CONSTANTS
    KeyOf,         \* per pair, the campaign's answer key, or None
    Percent,       \* the double correct / questions * 100, in units
    Unit,          \* units per 1
    Grades,        \* bound: the numbers of correct answers that are submitted
    LearnRequests  \* slots for requests in flight

(* Scores and thresholds are doubles, which are multiples of a small       *)
(* enough unit.                                                            *)
AnswerKey == [questions: Nat, passThreshold: Int]
LearnRow  == [score: Nat, passed: BOOLEAN, proofIssued: BOOLEAN]

(* The answer key exists and is not empty. *)
Graded(p) == KeyOf[p] # None /\ KeyOf[p].questions > 0

(* The scores a submission may get. *)
Scores(p) ==
    {Percent[n, KeyOf[p].questions] : n \in {m \in Grades : m <= KeyOf[p].questions}}

ASSUME LearnAssumption ==
    /\ KeyOf \in [Pairs -> AnswerKey \cup {None}]
    /\ Unit \in Nat \ {0} /\ Grades \subseteq Nat
    /\ \A p \in Pairs : Graded(p) => Scores(p) \subseteq Nat
    /\ None \notin AnswerKey /\ None \notin LearnRow

VARIABLES
    submissions,     \* database: per pair, the LearnSubmission row or None
    learn_requests,  \* submitAnswers and getProof requests in flight
    submitted,       \* history: [pair, score] of the submissions stored
    learn_issued,    \* history: the proofs handed out
    learn_spoiled    \* history: pairs whose last proof a crash or an overlap cost

learn_vars == <<submissions, learn_requests, submitted, learn_issued, learn_spoiled>>

LearnInit ==
    /\ submissions = [p \in Pairs |-> None]
    /\ learn_requests = [r \in LearnRequests |-> Idle]
    /\ submitted = {} /\ learn_issued = {} /\ learn_spoiled = {}

Passed(p, score) == score >= KeyOf[p].passThreshold

(* Math.round, which is what the action hash binds. *)
Rounded(score) == (2 * score + Unit) \div (2 * Unit)

LearnAction(p, score) == [pair |-> p, score |-> Rounded(score)]

LearnHolding(p, pc) ==
    {r \in LearnRequests : learn_requests[r].pc = pc /\ learn_requests[r].pair = p}

-----------------------------------------------------------------------------
(* submitAnswers, up to the upsert. *)
SubmitGrades(r, p) ==
    /\ learn_requests[r] = Idle /\ Graded(p)
    /\ \E score \in Scores(p) :
          learn_requests' = [learn_requests EXCEPT ![r] =
              [pc |-> "upsert", pair |-> p, score |-> score]]
    /\ UNCHANGED <<submissions, submitted, learn_issued, learn_spoiled>>

(* Mutant: a row submitted again keeps its flag. *)
SubmissionKeepsFlag(p, score) ==
    [score |-> score, passed |-> Passed(p, score),
     proofIssued |-> submissions[p] # None /\ submissions[p].proofIssued]

Submission(p, score) ==
    [score |-> score, passed |-> Passed(p, score), proofIssued |-> FALSE]

(* A row is overwritten while a proof of it is between read and mark. *)
SubmitUpserts(r) ==
    LET p == learn_requests[r].pair
        score == learn_requests[r].score IN
    /\ learn_requests[r].pc = "upsert"
    /\ submissions' = [submissions EXCEPT ![p] = Submission(p, score)]
    /\ submitted' = submitted \cup {[pair |-> p, score |-> score]}
    /\ learn_spoiled' =
           IF LearnHolding(p, "update") = {} THEN learn_spoiled \ {p}
           ELSE learn_spoiled \cup {p}
    /\ learn_requests' = [learn_requests EXCEPT ![r] = Idle]
    /\ UNCHANGED learn_issued

(* Mutant: a submission that failed has a proof too. *)
ClaimableAnyScore(row) == row # None /\ ~row.proofIssued

Claimable(row) == row # None /\ row.passed /\ ~row.proofIssued

(* getProof: the row is read and checked, and the proof signed. *)
LearnProofReads(r, p) ==
    /\ learn_requests[r] = Idle /\ Claimable(submissions[p])
    /\ learn_requests' = [learn_requests EXCEPT ![r] =
           [pc |-> "update", pair |-> p, score |-> submissions[p].score]]
    /\ UNCHANGED <<submissions, submitted, learn_issued, learn_spoiled>>

(* The row of the pair is marked, whichever submission it holds by now. *)
LearnProofMarks(r) ==
    /\ learn_requests[r].pc = "update"
    /\ submissions' =
           [submissions EXCEPT ![learn_requests[r].pair].proofIssued = TRUE]
    /\ learn_requests' = [learn_requests EXCEPT ![r].pc = "answer"]
    /\ UNCHANGED <<submitted, learn_issued, learn_spoiled>>

LearnProofAnswers(r) ==
    /\ learn_requests[r].pc = "answer"
    /\ learn_issued' =
           learn_issued \cup {LearnAction(learn_requests[r].pair, learn_requests[r].score)}
    /\ learn_requests' = [learn_requests EXCEPT ![r] = Idle]
    /\ UNCHANGED <<submissions, submitted, learn_spoiled>>

(* An exception of the database ends a request before its write. *)
LearnRequestFails(r) ==
    /\ learn_requests[r].pc \in {"upsert", "update"}
    /\ learn_requests' = [learn_requests EXCEPT ![r] = Idle]
    /\ UNCHANGED <<submissions, submitted, learn_issued, learn_spoiled>>

(* A crash takes the requests with it, and the proofs not yet answered. *)
LearnCrash ==
    /\ learn_requests' = [r \in LearnRequests |-> Idle]
    /\ learn_spoiled' =
           learn_spoiled \cup {p \in Pairs : LearnHolding(p, "answer") # {}}
    /\ UNCHANGED <<submissions, submitted, learn_issued>>

LearnRuns ==
    \E r \in LearnRequests :
      \/ \E p \in Pairs :
            \/ SubmitGrades(r, p)
            \/ LearnProofReads(r, p)
      \/ SubmitUpserts(r)
      \/ LearnProofMarks(r)
      \/ LearnProofAnswers(r)
      \/ LearnRequestFails(r)

LearnNext == LearnRuns \/ LearnCrash

LearnSpec == LearnInit /\ [][LearnNext]_learn_vars

-----------------------------------------------------------------------------
(* Type invariant. *)
LearnTypeOK ==
    /\ submissions \in [Pairs -> LearnRow \cup {None}]
    /\ \A r \in LearnRequests :
          \/ learn_requests[r] = Idle
          \/ learn_requests[r] \in [pc: {"upsert", "update", "answer"}, pair: Pairs,
                                    score: Nat]
    /\ submitted \subseteq [pair: Pairs, score: Nat]
    /\ learn_issued \subseteq [pair: Pairs, score: Nat]
    /\ learn_spoiled \subseteq Pairs

(* Every action that a submission can stand for. *)
Gradable ==
    UNION {{LearnAction(p, n) : n \in Scores(p)} : p \in {k \in Pairs : Graded(k)}}

(* The actions of the submissions that really passed. *)
Earned ==
    {LearnAction(s.pair, s.score) :
        s \in {t \in submitted : Passed(t.pair, t.score)}}

(* learn.service.ts:67-142.  Submissions and proofs in flight may overtake *)
(* each other, and rows may be overwritten between a check and its mark;   *)
(* still a proof is handed out only for a score that this earner submitted *)
(* and that passed.                                                        *)
LearnPromise == INSTANCE ProofIssuance
                WITH Actions <- Gradable, earned <- Earned,
                     issued <- learn_issued

LearnIssuance == LearnPromise!Spec

(* learn.service.ts:105, "Proof already issued for this submission".  The  *)
(* row says so only when the proof of the submission it holds was handed   *)
(* out or is about to be.  The exceptions are an earner who submits again  *)
(* while the proof is signed, and a crash before the answer: their proof   *)
(* is withheld until the next submission.                                  *)
LearnMarkIsTrue ==
    \A p \in Pairs \ learn_spoiled :
        submissions[p] # None /\ submissions[p].proofIssued =>
            \/ LearnAction(p, submissions[p].score) \in learn_issued
            \/ \E r \in LearnHolding(p, "answer") :
                  LearnAction(p, learn_requests[r].score) = LearnAction(p, submissions[p].score)
=============================================================================
