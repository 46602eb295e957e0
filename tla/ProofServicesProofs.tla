------------------------- MODULE ProofServicesProofs -------------------------
(* Theorems about the learn, social and referrals services, each alone and *)
(* then side by side, for any number of earners, campaigns, answer keys,   *)
(* posts, accounts, links and requests in flight.                          *)
EXTENDS ProofServices, FiniteSetTheorems, TLAPS

-----------------------------------------------------------------------------
(* Part 1.  LearnService.                                                  *)

LearnDomains ==
    /\ submissions = [p \in Pairs |-> submissions[p]]
    /\ learn_requests = [r \in LearnRequests |-> learn_requests[r]]

(* A request carries a gradable answer; from its row on, one that was      *)
(* submitted and that passed.                                              *)
LearnRequestsBacked ==
    \A r \in LearnRequests :
        \/ learn_requests[r] = Idle
        \/ /\ learn_requests[r] \in [pc: {"upsert", "update", "answer"}, pair: Pairs, score: Nat]
           /\ Graded(learn_requests[r].pair)
           /\ learn_requests[r].score \in Scores(learn_requests[r].pair)
           /\ learn_requests[r].pc # "upsert" =>
                 /\ submissions[learn_requests[r].pair] # None
                 /\ [pair |-> learn_requests[r].pair, score |-> learn_requests[r].score] \in submitted
                 /\ Passed(learn_requests[r].pair, learn_requests[r].score)

(* A row is the last submission, and passed says whether it did.           *)
LearnRowsBacked ==
    \A p \in Pairs : submissions[p] # None =>
        /\ submissions[p] \in LearnRow
        /\ Graded(p) /\ submissions[p].score \in Scores(p)
        /\ [pair |-> p, score |-> submissions[p].score] \in submitted
        /\ submissions[p].passed <=> Passed(p, submissions[p].score)

LearnHistoryTyped ==
    /\ submitted \subseteq [pair: Pairs, score: Nat]
    /\ learn_issued \subseteq [pair: Pairs, score: Nat]
    /\ learn_issued \subseteq Earned
    /\ learn_spoiled \subseteq Pairs

(* The proof in the making is that of the row, unless the pair is spoiled: *)
(* without this the mark could be set on a row it is not about.            *)
LearnUpdatesMatch ==
    \A r \in LearnRequests :
        learn_requests[r].pc = "update" /\ learn_requests[r].pair \notin learn_spoiled =>
            submissions[learn_requests[r].pair].score = learn_requests[r].score

(* The inductive invariant.  A row changes hands between the reading and   *)
(* the marking of it, so what was submitted is followed through the rows   *)
(* and the requests separately.                                            *)
LearnInv ==
    /\ LearnDomains /\ LearnRequestsBacked /\ LearnRowsBacked /\ LearnHistoryTyped
    /\ LearnUpdatesMatch /\ LearnMarkIsTrue

-----------------------------------------------------------------------------
LEMMA LearnNoneIsNoRow == None \notin LearnRow
  BY LearnAssumption

LEMMA PassedIsBoolean == \A p, n : Passed(p, n) \in BOOLEAN
  BY DEF Passed

(* What a request on its way is known to carry. *)
LEMMA LearnInFlight ==
    ASSUME LearnRequestsBacked, NEW r \in LearnRequests, learn_requests[r].pc \in {"upsert", "update", "answer"}
    PROVE  /\ learn_requests[r].pair \in Pairs /\ learn_requests[r].score \in Nat
           /\ learn_requests[r] = [pc |-> learn_requests[r].pc, pair |-> learn_requests[r].pair,
                             score |-> learn_requests[r].score]
           /\ Graded(learn_requests[r].pair)
           /\ learn_requests[r].score \in Scores(learn_requests[r].pair)
           /\ learn_requests[r].pc # "upsert" =>
                 /\ submissions[learn_requests[r].pair] # None
                 /\ [pair |-> learn_requests[r].pair, score |-> learn_requests[r].score] \in submitted
                 /\ Passed(learn_requests[r].pair, learn_requests[r].score)
<1>1. learn_requests[r] # Idle
  BY DEF Idle
<1> QED BY <1>1 DEF LearnRequestsBacked

(* Math.round of a percentage is a natural number. *)
LEMMA ScoreType == ASSUME NEW n \in Nat PROVE Rounded(n) \in Nat
<1> DEFINE m == 2 * n + Unit
           d == 2 * Unit
<1>1. m \in Nat /\ d \in Nat /\ d > 0
  BY LearnAssumption
<1>2. m \div d \in Nat
  <2> HIDE DEF m, d
  <2> QED BY <1>1
<1> QED BY <1>2 DEF Rounded

(* What one more submission earns. *)
LEMMA EarnedGrows ==
    ASSUME NEW p \in Pairs, NEW n \in Nat,
           submitted' = submitted \cup {[pair |-> p, score |-> n]}
    PROVE  /\ Earned \subseteq Earned'
           /\ Earned' \subseteq Earned \cup {LearnAction(p, n)}
<1> DEFINE s == [pair |-> p, score |-> n]
<1>1. s.pair = p /\ s.score = n
  OBVIOUS
<1>2. submitted' = submitted \cup {s}
  OBVIOUS
<1> HIDE DEF s
<1> QED BY <1>1, <1>2 DEF Earned

LEMMA PassedIsEarned ==
    ASSUME NEW p \in Pairs, NEW n \in Nat, Passed(p, n),
           [pair |-> p, score |-> n] \in submitted
    PROVE  LearnAction(p, n) \in Earned
<1> DEFINE s == [pair |-> p, score |-> n]
<1>1. s.pair = p /\ s.score = n /\ s \in submitted
  OBVIOUS
<1> HIDE DEF s
<1> QED BY <1>1 DEF Earned

-----------------------------------------------------------------------------
LEMMA LearnInitIInv == LearnInit => LearnInv
<1> SUFFICES ASSUME LearnInit PROVE LearnInv
  OBVIOUS
<1>1. LearnDomains /\ LearnRequestsBacked /\ LearnRowsBacked
  BY DEF LearnInit, LearnDomains, LearnRequestsBacked, LearnRowsBacked
<1>2. LearnHistoryTyped
  BY DEF LearnInit, LearnHistoryTyped
<1>3. LearnUpdatesMatch /\ LearnMarkIsTrue
  BY DEF LearnInit, LearnUpdatesMatch, LearnMarkIsTrue, Idle
<1> QED BY <1>1, <1>2, <1>3 DEF LearnInv

(* A step that touches the requests alone, and only starts or drops them.  *)
LEMMA LearnOnlyRequests ==
    ASSUME LearnInv, UNCHANGED <<submissions, submitted, learn_issued, learn_spoiled>>,
           NEW r \in LearnRequests, learn_requests' = [learn_requests EXCEPT ![r] = learn_requests'[r]],
           learn_requests[r].pc # "answer", LearnRequestsBacked', LearnUpdatesMatch'
    PROVE  LearnInv'
<1>1. LearnDomains' /\ LearnRowsBacked' /\ LearnHistoryTyped'
  BY DEF LearnInv, LearnDomains, LearnRowsBacked, LearnHistoryTyped, Earned
<1>2. ASSUME NEW p \in Pairs \ learn_spoiled, submissions[p] # None, submissions[p].proofIssued,
             NEW q \in LearnHolding(p, "answer"),
             LearnAction(p, learn_requests[q].score) = LearnAction(p, submissions[p].score)
      PROVE  /\ q \in LearnHolding(p, "answer")'
             /\ learn_requests'[q] = learn_requests[q]
  BY <1>2 DEF LearnHolding, LearnInv, LearnDomains
<1>3. LearnMarkIsTrue'
  BY <1>2 DEF LearnInv, LearnMarkIsTrue
<1> QED BY <1>1, <1>3 DEF LearnInv

LEMMA GradesIInv ==
    ASSUME LearnInv, NEW r \in LearnRequests, NEW p \in Pairs, SubmitGrades(r, p)
    PROVE  LearnInv'
<1>1. PICK n \in Scores(p) :
          learn_requests' = [learn_requests EXCEPT ![r] = [pc |-> "upsert", pair |-> p, score |-> n]]
  BY DEF SubmitGrades
<1>2. /\ learn_requests[r] = Idle /\ Graded(p)
      /\ UNCHANGED <<submissions, submitted, learn_issued, learn_spoiled>>
  BY DEF SubmitGrades
<1>3. LearnRequestsBacked'
  <2>1. n \in Nat
    BY <1>1, <1>2, LearnAssumption
  <2> QED BY <1>1, <1>2, <2>1 DEF LearnInv, LearnDomains, LearnRequestsBacked, Graded
<1>4. LearnUpdatesMatch'
  BY <1>1, <1>2 DEF LearnInv, LearnDomains, LearnUpdatesMatch
<1> QED BY <1>1, <1>2, <1>3, <1>4, LearnOnlyRequests DEF Idle, LearnInv, LearnDomains

LEMMA LearnReadsIInv ==
    ASSUME LearnInv, NEW r \in LearnRequests, NEW p \in Pairs, LearnProofReads(r, p)
    PROVE  LearnInv'
<1>1. /\ learn_requests[r] = Idle /\ UNCHANGED <<submissions, submitted, learn_issued, learn_spoiled>>
      /\ learn_requests' = [learn_requests EXCEPT ![r] =
             [pc |-> "update", pair |-> p, score |-> submissions[p].score]]
      /\ submissions[p] # None /\ submissions[p].passed
  BY DEF LearnProofReads, Claimable
<1>2. /\ submissions[p] \in LearnRow /\ Graded(p) /\ submissions[p].score \in Scores(p)
      /\ [pair |-> p, score |-> submissions[p].score] \in submitted
      /\ Passed(p, submissions[p].score)
  BY <1>1 DEF LearnInv, LearnRowsBacked
<1>3. submissions[p].score \in Nat
  BY <1>2 DEF LearnRow
<1>4. LearnRequestsBacked'
  BY <1>1, <1>2, <1>3 DEF LearnInv, LearnDomains, LearnRequestsBacked, Graded, Passed
<1>5. LearnUpdatesMatch'
  BY <1>1 DEF LearnInv, LearnDomains, LearnUpdatesMatch
<1> QED BY <1>1, <1>4, <1>5, LearnOnlyRequests DEF Idle, LearnInv, LearnDomains

LEMMA LearnFailsIInv ==
    ASSUME LearnInv, NEW r \in LearnRequests, LearnRequestFails(r)
    PROVE  LearnInv'
<1>1. /\ learn_requests[r].pc # "answer" /\ UNCHANGED <<submissions, submitted, learn_issued, learn_spoiled>>
      /\ learn_requests' = [learn_requests EXCEPT ![r] = Idle]
  BY DEF LearnRequestFails
<1>2. LearnRequestsBacked'
  BY <1>1 DEF LearnInv, LearnDomains, LearnRequestsBacked, Graded, Passed
<1>3. LearnUpdatesMatch'
  BY <1>1 DEF LearnInv, LearnDomains, LearnUpdatesMatch, Idle
<1> QED BY <1>1, <1>2, <1>3, LearnOnlyRequests DEF LearnInv, LearnDomains

(* learn.service.ts:65-79.  The new row has no mark, and whoever was about *)
(* to mark the old one has the pair spoiled.                               *)
LEMMA LearnUpsertsIInv ==
    ASSUME LearnInv, NEW r \in LearnRequests, SubmitUpserts(r)
    PROVE  LearnInv'
<1> DEFINE p == learn_requests[r].pair
           n == learn_requests[r].score
<1>1. /\ learn_requests[r].pc = "upsert" /\ learn_requests[r].pair = p
      /\ p \in Pairs /\ n \in Nat
      /\ Graded(p) /\ n \in Scores(p)
  BY LearnInFlight DEF SubmitUpserts, LearnInv
<1>2. /\ submissions' = [submissions EXCEPT ![p] = Submission(p, n)]
      /\ submitted' = submitted \cup {[pair |-> p, score |-> n]}
      /\ learn_spoiled' = IF LearnHolding(p, "update") = {} THEN learn_spoiled \ {p} ELSE learn_spoiled \cup {p}
      /\ learn_requests' = [learn_requests EXCEPT ![r] = Idle]
      /\ UNCHANGED learn_issued
  BY DEF SubmitUpserts
<1> HIDE DEF p, n
<1>3. LearnDomains'
  BY <1>2 DEF LearnInv, LearnDomains
<1>4. /\ Submission(p, n) \in LearnRow /\ Submission(p, n).score = n
      /\ Submission(p, n).passed <=> Passed(p, n)
      /\ ~Submission(p, n).proofIssued
      /\ Submission(p, n) # None
  <2>1. PICK passed \in BOOLEAN : passed = Passed(p, n)
    BY PassedIsBoolean
  <2>2. Submission(p, n) = [score |-> n, passed |-> passed, proofIssued |-> FALSE]
    BY <2>1 DEF Submission
  <2>3. Submission(p, n) \in LearnRow
    BY <1>1, <2>2 DEF LearnRow
  <2>4. Submission(p, n) # None
    BY <2>3, LearnNoneIsNoRow
  <2>5. Submission(p, n).score = n /\ Submission(p, n).passed = passed
    BY <2>2
  <2>6. ~Submission(p, n).proofIssued
    BY <2>2
  <2>7. Submission(p, n).passed <=> Passed(p, n)
    BY <2>1, <2>5
  <2> QED BY <2>3, <2>4, <2>5, <2>6, <2>7
<1>5. /\ submissions'[p] = Submission(p, n)
      /\ \A k \in Pairs \ {p} : submissions'[k] = submissions[k]
      /\ \A q \in LearnRequests \ {r} : learn_requests'[q] = learn_requests[q]
      /\ learn_requests'[r] = Idle
  BY <1>1, <1>2 DEF LearnInv, LearnDomains
<1>6. LearnRequestsBacked'
  <2> SUFFICES ASSUME NEW q \in LearnRequests, learn_requests'[q] # Idle
               PROVE /\ learn_requests'[q] \in [pc: {"upsert", "update", "answer"}, pair: Pairs, score: Nat]
                     /\ Graded(learn_requests'[q].pair)
                     /\ learn_requests'[q].score \in Scores(learn_requests'[q].pair)
                     /\ learn_requests'[q].pc # "upsert" =>
                           /\ submissions'[learn_requests'[q].pair] # None
                           /\ [pair |-> learn_requests'[q].pair, score |-> learn_requests'[q].score]
                                 \in submitted'
                           /\ Passed(learn_requests'[q].pair, learn_requests'[q].score)
    BY DEF LearnRequestsBacked, Graded, Scores, Passed
  <2>1. learn_requests'[q] = learn_requests[q]
    BY <1>5
  <2>2. learn_requests[q].pair \in Pairs
    BY <2>1 DEF LearnInv, LearnRequestsBacked
  <2>3. submissions[learn_requests[q].pair] # None => submissions'[learn_requests[q].pair] # None
    BY <1>4, <1>5, <2>2
  <2> QED BY <1>2, <2>1, <2>3 DEF LearnInv, LearnRequestsBacked
<1>7. LearnRowsBacked'
  <2> SUFFICES ASSUME NEW k \in Pairs, submissions'[k] # None
               PROVE /\ submissions'[k] \in LearnRow
                     /\ Graded(k) /\ submissions'[k].score \in Scores(k)
                     /\ [pair |-> k, score |-> submissions'[k].score] \in submitted'
                     /\ submissions'[k].passed <=> Passed(k, submissions'[k].score)
    BY DEF LearnRowsBacked, Graded, Scores, Passed
  <2>1. CASE k = p
    BY <1>1, <1>2, <1>4, <1>5, <2>1
  <2>2. CASE k # p
    BY <1>2, <1>5, <2>2 DEF LearnInv, LearnRowsBacked
  <2> QED BY <2>1, <2>2
<1>8. LearnHistoryTyped'
  <2>1. Earned \subseteq Earned'
    BY <1>1, <1>2, EarnedGrows
  <2>2. [pair |-> p, score |-> n] \in [pair: Pairs, score: Nat]
    BY <1>1
  <2>3. submitted' \subseteq [pair: Pairs, score: Nat] /\ learn_spoiled' \subseteq Pairs
    BY <1>2, <2>2 DEF LearnInv, LearnHistoryTyped
  <2> QED BY <1>2, <2>1, <2>3 DEF LearnInv, LearnHistoryTyped
<1>9. LearnUpdatesMatch'
  <2> SUFFICES ASSUME NEW q \in LearnRequests, learn_requests'[q].pc = "update",
                      learn_requests'[q].pair \notin learn_spoiled'
               PROVE  submissions'[learn_requests'[q].pair].score = learn_requests'[q].score
    BY DEF LearnUpdatesMatch
  <2>1. learn_requests'[q] = learn_requests[q]
    BY <1>5 DEF Idle
  <2>2. learn_requests[q].pair # p
    BY <1>2, <2>1 DEF LearnHolding
  <2>3. learn_requests[q].pair \in Pairs /\ learn_requests[q].pair \notin learn_spoiled
    <3>1. learn_requests[q].pair \in Pairs
      BY <2>1, LearnInFlight DEF LearnInv
    <3> QED BY <1>2, <2>1, <2>2, <3>1
  <2> QED BY <1>5, <2>1, <2>2, <2>3 DEF LearnInv, LearnUpdatesMatch
<1>10. LearnMarkIsTrue'
  <2> SUFFICES ASSUME NEW k \in Pairs \ learn_spoiled', submissions'[k] # None, submissions'[k].proofIssued
               PROVE  \/ LearnAction(k, submissions'[k].score) \in learn_issued'
                      \/ \E q \in LearnHolding(k, "answer")' :
                            LearnAction(k, learn_requests'[q].score) = LearnAction(k, submissions'[k].score)
    BY DEF LearnMarkIsTrue, LearnAction, Rounded
  <2>1. k # p /\ submissions'[k] = submissions[k] /\ k \notin learn_spoiled
    BY <1>2, <1>4, <1>5
  <2>2. LearnHolding(k, "answer")' = LearnHolding(k, "answer")
    BY <1>1, <1>5 DEF LearnHolding, Idle
  <2>3. \A q \in LearnHolding(k, "answer") : learn_requests'[q] = learn_requests[q]
    BY <1>1, <1>5 DEF LearnHolding
  <2> QED BY <1>2, <2>1, <2>2, <2>3 DEF LearnInv, LearnMarkIsTrue
<1> QED BY <1>3, <1>6, <1>7, <1>8, <1>9, <1>10 DEF LearnInv

(* learn.service.ts:130-133.  The row that is marked is the one the proof  *)
(* was made of, or the pair is spoiled.                                    *)
LEMMA LearnMarksIInv ==
    ASSUME LearnInv, NEW r \in LearnRequests, LearnProofMarks(r)
    PROVE  LearnInv'
<1> DEFINE p == learn_requests[r].pair
           n == learn_requests[r].score
<1>1. /\ learn_requests[r] = [pc |-> "update", pair |-> p, score |-> n]
      /\ p \in Pairs /\ n \in Nat /\ submissions[p] # None
  BY LearnInFlight DEF LearnProofMarks, LearnInv
<1>2. /\ submissions' = [submissions EXCEPT ![p].proofIssued = TRUE]
      /\ learn_requests' = [learn_requests EXCEPT ![r] = [pc |-> "answer", pair |-> p, score |-> n]]
      /\ UNCHANGED <<submitted, learn_issued, learn_spoiled>>
  <2>1. [learn_requests[r] EXCEPT !.pc = "answer"] = [pc |-> "answer", pair |-> p, score |-> n]
    BY <1>1
  <2> QED BY <2>1 DEF LearnProofMarks
<1> HIDE DEF p, n
<1>3. LearnDomains'
  BY <1>2 DEF LearnInv, LearnDomains
<1>4. submissions[p] \in LearnRow
  BY <1>1 DEF LearnInv, LearnRowsBacked
<1>5. /\ submissions'[p] \in LearnRow /\ submissions'[p].score = submissions[p].score
      /\ submissions'[p].passed = submissions[p].passed /\ submissions'[p].proofIssued
      /\ \A k \in Pairs \ {p} : submissions'[k] = submissions[k]
      /\ \A q \in LearnRequests \ {r} : learn_requests'[q] = learn_requests[q]
      /\ learn_requests'[r] = [pc |-> "answer", pair |-> p, score |-> n]
  BY <1>1, <1>2, <1>4 DEF LearnInv, LearnDomains, LearnRow
<1>6. LearnRequestsBacked'
  <2>1. submissions'[p] # None
    BY <1>5, LearnNoneIsNoRow
  <2> QED BY <1>1, <1>2, <1>5, <2>1 DEF LearnInv, LearnRequestsBacked, Graded, Passed, Idle
<1>7. LearnRowsBacked'
  <2> SUFFICES ASSUME NEW k \in Pairs, submissions'[k] # None
               PROVE /\ submissions'[k] \in LearnRow
                     /\ Graded(k) /\ submissions'[k].score \in Scores(k)
                     /\ [pair |-> k, score |-> submissions'[k].score] \in submitted'
                     /\ submissions'[k].passed <=> Passed(k, submissions'[k].score)
    BY DEF LearnRowsBacked, Graded, Scores, Passed
  <2>1. /\ submissions[k] # None /\ submissions'[k].score = submissions[k].score
        /\ submissions'[k].passed = submissions[k].passed /\ (submissions[k] \in LearnRow => submissions'[k] \in LearnRow)
    BY <1>1, <1>5
  <2> QED BY <1>2, <2>1 DEF LearnInv, LearnRowsBacked
<1>8. LearnHistoryTyped'
  BY <1>2 DEF LearnInv, LearnHistoryTyped, Earned
<1>9. LearnUpdatesMatch'
  <2> SUFFICES ASSUME NEW q \in LearnRequests, learn_requests'[q].pc = "update",
                      learn_requests'[q].pair \notin learn_spoiled'
               PROVE  submissions'[learn_requests'[q].pair].score = learn_requests'[q].score
    BY DEF LearnUpdatesMatch
  <2>1. learn_requests'[q] = learn_requests[q]
    BY <1>5
  <2>2. learn_requests[q].pair \in Pairs
    BY <2>1, LearnInFlight DEF LearnInv
  <2> QED BY <1>2, <1>5, <2>1, <2>2 DEF LearnInv, LearnUpdatesMatch
<1>10. LearnMarkIsTrue'
  <2> SUFFICES ASSUME NEW k \in Pairs \ learn_spoiled', submissions'[k] # None, submissions'[k].proofIssued
               PROVE  \/ LearnAction(k, submissions'[k].score) \in learn_issued'
                      \/ \E q \in LearnHolding(k, "answer")' :
                            LearnAction(k, learn_requests'[q].score) = LearnAction(k, submissions'[k].score)
    BY DEF LearnMarkIsTrue, LearnAction, Rounded
  <2>1. CASE k = p
    <3>1. submissions[p].score = n
      BY <1>1, <1>2, <2>1 DEF LearnInv, LearnUpdatesMatch
    <3>2. r \in LearnHolding(k, "answer")' /\ learn_requests'[r].score = n
      BY <1>5, <2>1 DEF LearnHolding
    <3> QED BY <1>5, <2>1, <3>1, <3>2
  <2>2. CASE k # p
    <3>1. \A q \in LearnHolding(k, "answer") : q \in LearnHolding(k, "answer")' /\ learn_requests'[q] = learn_requests[q]
      BY <1>1, <1>5 DEF LearnHolding
    <3>2. submissions'[k] = submissions[k] /\ k \notin learn_spoiled
      BY <1>2, <1>5, <2>2
    <3>3. \/ LearnAction(k, submissions[k].score) \in learn_issued
          \/ \E q \in LearnHolding(k, "answer") :
                LearnAction(k, learn_requests[q].score) = LearnAction(k, submissions[k].score)
      BY <3>2 DEF LearnInv, LearnMarkIsTrue
    <3> QED BY <1>2, <3>1, <3>2, <3>3
  <2> QED BY <2>1, <2>2
<1> QED BY <1>3, <1>6, <1>7, <1>8, <1>9, <1>10 DEF LearnInv

LEMMA LearnAnswersIInv ==
    ASSUME LearnInv, NEW r \in LearnRequests, LearnProofAnswers(r)
    PROVE  /\ LearnInv'
           /\ UNCHANGED submitted
           /\ \E p \in Pairs, n \in Nat :
                 /\ Graded(p) /\ n \in Scores(p) /\ LearnAction(p, n) \in Earned
                 /\ learn_issued' = learn_issued \cup {LearnAction(p, n)}
<1> DEFINE p == learn_requests[r].pair
           n == learn_requests[r].score
<1>1. /\ learn_requests[r] = [pc |-> "answer", pair |-> p, score |-> n]
      /\ p \in Pairs /\ n \in Nat
      /\ Graded(p) /\ n \in Scores(p)
      /\ [pair |-> p, score |-> n] \in submitted /\ Passed(p, n)
  BY LearnInFlight DEF LearnProofAnswers, LearnInv
<1>2. /\ learn_issued' = learn_issued \cup {LearnAction(p, n)}
      /\ learn_requests' = [learn_requests EXCEPT ![r] = Idle]
      /\ UNCHANGED <<submissions, submitted, learn_spoiled>>
  BY DEF LearnProofAnswers
<1> HIDE DEF p, n
<1>3. LearnAction(p, n) \in Earned
  BY <1>1, PassedIsEarned
<1>4. LearnDomains' /\ LearnRowsBacked'
  BY <1>2 DEF LearnInv, LearnDomains, LearnRowsBacked
<1>5. LearnRequestsBacked' /\ LearnUpdatesMatch'
  BY <1>2 DEF LearnInv, LearnDomains, LearnRequestsBacked, LearnUpdatesMatch, Idle
<1>6. LearnHistoryTyped'
  <2>1. LearnAction(p, n) \in [pair: Pairs, score: Nat]
    BY <1>1, ScoreType DEF LearnAction
  <2> QED BY <1>2, <1>3, <2>1 DEF LearnInv, LearnHistoryTyped, Earned
<1>7. LearnMarkIsTrue'
  <2> SUFFICES ASSUME NEW k \in Pairs \ learn_spoiled', submissions'[k] # None, submissions'[k].proofIssued
               PROVE  \/ LearnAction(k, submissions'[k].score) \in learn_issued'
                      \/ \E q \in LearnHolding(k, "answer")' :
                            LearnAction(k, learn_requests'[q].score) = LearnAction(k, submissions'[k].score)
    BY DEF LearnMarkIsTrue, LearnAction, Rounded
  <2> k \in Pairs \ learn_spoiled /\ submissions[k] # None /\ submissions[k].proofIssued /\ submissions' = submissions
    BY <1>2
  <2>1. CASE LearnAction(k, submissions[k].score) \in learn_issued
    BY <1>2, <2>1
  <2>2. ASSUME NEW q \in LearnHolding(k, "answer"),
               LearnAction(k, learn_requests[q].score) = LearnAction(k, submissions[k].score)
        PROVE  \/ LearnAction(k, submissions[k].score) \in learn_issued'
               \/ \E s \in LearnHolding(k, "answer")' :
                     LearnAction(k, learn_requests'[s].score) = LearnAction(k, submissions[k].score)
    <3>1. CASE q = r
      BY <1>1, <1>2, <2>2, <3>1 DEF LearnHolding
    <3>2. CASE q # r
      <4>1. q \in LearnHolding(k, "answer")' /\ learn_requests'[q] = learn_requests[q]
        BY <1>2, <3>2 DEF LearnHolding, LearnInv, LearnDomains
      <4> QED BY <2>2, <4>1
    <3> QED BY <3>1, <3>2
  <2>3. \/ LearnAction(k, submissions[k].score) \in learn_issued
        \/ \E q \in LearnHolding(k, "answer") :
              LearnAction(k, learn_requests[q].score) = LearnAction(k, submissions[k].score)
    BY DEF LearnInv, LearnMarkIsTrue
  <2> QED BY <2>1, <2>2, <2>3
<1>8. LearnInv'
  BY <1>4, <1>5, <1>6, <1>7 DEF LearnInv
<1> QED BY <1>1, <1>2, <1>3, <1>8

LEMMA LearnCrashIInv == LearnInv /\ LearnCrash => LearnInv'
<1> SUFFICES ASSUME LearnInv, LearnCrash PROVE LearnInv'
  OBVIOUS
<1>1. LearnDomains' /\ LearnRequestsBacked' /\ LearnRowsBacked'
  BY DEF LearnInv, LearnDomains, LearnRequestsBacked, LearnRowsBacked, LearnCrash
<1>2. LearnHistoryTyped'
  BY DEF LearnInv, LearnHistoryTyped, Earned, LearnCrash
<1>3. LearnUpdatesMatch'
  BY DEF LearnUpdatesMatch, LearnCrash, Idle
<1>4. LearnMarkIsTrue'
  <2> SUFFICES ASSUME NEW k \in Pairs \ learn_spoiled', submissions[k] # None, submissions[k].proofIssued
               PROVE  LearnAction(k, submissions[k].score) \in learn_issued
    BY DEF LearnMarkIsTrue, LearnAction, Rounded, LearnCrash
  <2>1. k \notin learn_spoiled /\ LearnHolding(k, "answer") = {}
    BY DEF LearnCrash
  <2> QED BY <2>1 DEF LearnInv, LearnMarkIsTrue
<1> QED BY <1>1, <1>2, <1>3, <1>4 DEF LearnInv

LEMMA LearnNextIInv == LearnInv /\ [LearnNext]_learn_vars => LearnInv'
<1> SUFFICES ASSUME LearnInv, [LearnNext]_learn_vars PROVE LearnInv'
  OBVIOUS
<1>1. CASE LearnCrash
  BY <1>1, LearnCrashIInv
<1>2. ASSUME NEW r \in LearnRequests, NEW p \in Pairs, SubmitGrades(r, p) PROVE LearnInv'
  BY <1>2, GradesIInv
<1>3. ASSUME NEW r \in LearnRequests, NEW p \in Pairs, LearnProofReads(r, p) PROVE LearnInv'
  BY <1>3, LearnReadsIInv
<1>4. ASSUME NEW r \in LearnRequests, SubmitUpserts(r) PROVE LearnInv'
  BY <1>4, LearnUpsertsIInv
<1>5. ASSUME NEW r \in LearnRequests, LearnProofMarks(r) PROVE LearnInv'
  BY <1>5, LearnMarksIInv
<1>6. ASSUME NEW r \in LearnRequests, LearnProofAnswers(r) PROVE LearnInv'
  BY <1>6, LearnAnswersIInv
<1>7. ASSUME NEW r \in LearnRequests, LearnRequestFails(r) PROVE LearnInv'
  BY <1>7, LearnFailsIInv
<1>8. CASE UNCHANGED learn_vars
  <2>1. LearnDomains' /\ LearnRequestsBacked' /\ LearnRowsBacked' /\ LearnUpdatesMatch'
    BY <1>8 DEF LearnInv, learn_vars, LearnDomains, LearnRequestsBacked, LearnRowsBacked, LearnUpdatesMatch
  <2>2. LearnHistoryTyped' /\ LearnMarkIsTrue'
    BY <1>8 DEF LearnInv, learn_vars, LearnHistoryTyped, Earned, LearnMarkIsTrue, LearnHolding, LearnAction, Rounded
  <2> QED BY <2>1, <2>2 DEF LearnInv
<1> QED BY <1>1, <1>2, <1>3, <1>4, <1>5, <1>6, <1>7, <1>8 DEF LearnNext, LearnRuns

THEOREM LearnInvariance == LearnSpec => []LearnInv
<1>1. LearnInit => LearnInv
  BY LearnInitIInv
<1>2. LearnInv /\ [LearnNext]_learn_vars => LearnInv'
  BY LearnNextIInv
<1> QED BY <1>1, <1>2, PTL DEF LearnSpec

(* Type correctness: learn.service.ts keeps one row of the right shape per *)
(* campaign and earner.                                                    *)
THEOREM LearnTypeCorrect == LearnSpec => []LearnTypeOK
<1>1. LearnInv => LearnTypeOK
  BY DEF LearnInv, LearnDomains, LearnRequestsBacked, LearnRowsBacked, LearnHistoryTyped, LearnTypeOK
<1> QED BY <1>1, LearnInvariance, PTL

(* learn.service.ts:105.  The mark "proof already issued" is on a row only *)
(* when the proof of that submission was handed out or is about to be,     *)
(* unless a crash or an overlapping submission cost it.                    *)
THEOREM LearnMarkTrue == LearnSpec => []LearnMarkIsTrue
<1>1. LearnInv => LearnMarkIsTrue
  BY DEF LearnInv
<1> QED BY <1>1, LearnInvariance, PTL

-----------------------------------------------------------------------------
LEMMA LearnInitIssuance == LearnInit => LearnPromise!Init
  BY DEF LearnInit, LearnPromise!Init, Earned

LEMMA ActionGradable ==
    ASSUME NEW p \in Pairs, Graded(p), NEW n \in Scores(p)
    PROVE  LearnAction(p, n) \in Gradable
<1> DEFINE actions(k) == {LearnAction(k, m) : m \in Scores(k)}
<1>1. p \in {k \in Pairs : Graded(k)}
  OBVIOUS
<1>2. LearnAction(p, n) \in actions(p)
  OBVIOUS
<1>3. actions(p) \in {actions(k) : k \in {j \in Pairs : Graded(j)}}
  BY <1>1
<1> QED BY <1>2, <1>3 DEF Gradable

(* A step of a stored submission earns its action, unless it was earned    *)
(* before or the submission failed; only an answer issues.                 *)
LEMMA LearnNextIssuance ==
    LearnInv /\ [LearnNext]_learn_vars => [LearnPromise!Next]_(LearnPromise!vars)
<1> SUFFICES ASSUME LearnInv, [LearnNext]_learn_vars
             PROVE  [LearnPromise!Next]_(LearnPromise!vars)
  OBVIOUS
<1>1. ASSUME UNCHANGED <<submitted, learn_issued>> PROVE UNCHANGED LearnPromise!vars
  BY <1>1 DEF LearnPromise!vars, Earned
<1>2. ASSUME NEW r \in LearnRequests, SubmitUpserts(r) PROVE [LearnPromise!Next]_(LearnPromise!vars)
  <2> DEFINE p == learn_requests[r].pair
             n == learn_requests[r].score
  <2>1. /\ p \in Pairs /\ n \in Nat /\ Graded(p) /\ n \in Scores(p)
        /\ submitted' = submitted \cup {[pair |-> p, score |-> n]} /\ UNCHANGED learn_issued
    BY <1>2, LearnInFlight DEF SubmitUpserts, LearnInv
  <2> HIDE DEF p, n
  <2>2. Earned \subseteq Earned' /\ Earned' \subseteq Earned \cup {LearnAction(p, n)}
    BY <2>1, EarnedGrows
  <2>3. LearnAction(p, n) \in Gradable
    BY <2>1, ActionGradable
  <2>4. CASE Earned' = Earned
    BY <2>1, <2>4 DEF LearnPromise!vars
  <2>5. CASE Earned' # Earned
    <3>1. LearnAction(p, n) \notin Earned /\ Earned' = Earned \cup {LearnAction(p, n)}
      BY <2>2, <2>5
    <3>2. LearnPromise!Earn(LearnAction(p, n))
      BY <2>1, <3>1 DEF LearnPromise!Earn
    <3> QED BY <2>3, <3>2 DEF LearnPromise!Next
  <2> QED BY <2>4, <2>5
<1>3. ASSUME NEW r \in LearnRequests, LearnProofAnswers(r) PROVE [LearnPromise!Next]_(LearnPromise!vars)
  <2>1. PICK p \in Pairs, n \in Nat :
           /\ Graded(p) /\ n \in Scores(p) /\ LearnAction(p, n) \in Earned
           /\ learn_issued' = learn_issued \cup {LearnAction(p, n)}
    BY <1>3, LearnAnswersIInv
  <2>2. UNCHANGED submitted
    BY <1>3, LearnAnswersIInv
  <2>3. Earned' = Earned
    BY <2>2 DEF Earned
  <2>4. LearnAction(p, n) \in Gradable
    BY <2>1, ActionGradable
  <2>5. CASE LearnAction(p, n) \in learn_issued
    BY <2>1, <2>3, <2>5 DEF LearnPromise!vars
  <2>6. CASE LearnAction(p, n) \notin learn_issued
    <3>1. LearnPromise!Issue(LearnAction(p, n))
      BY <2>1, <2>3, <2>6 DEF LearnPromise!Issue
    <3> QED BY <2>4, <3>1 DEF LearnPromise!Next
  <2> QED BY <2>5, <2>6
<1>4. CASE LearnCrash \/ UNCHANGED learn_vars
  BY <1>1, <1>4 DEF LearnCrash, learn_vars
<1>5. ASSUME NEW r \in LearnRequests, NEW p \in Pairs,
             SubmitGrades(r, p) \/ LearnProofReads(r, p)
      PROVE  UNCHANGED LearnPromise!vars
  BY <1>1, <1>5 DEF SubmitGrades, LearnProofReads
<1>6. ASSUME NEW r \in LearnRequests, LearnProofMarks(r) \/ LearnRequestFails(r)
      PROVE  UNCHANGED LearnPromise!vars
  BY <1>1, <1>6 DEF LearnProofMarks, LearnRequestFails
<1> QED BY <1>2, <1>3, <1>4, <1>5, <1>6 DEF LearnNext, LearnRuns

(* learn.service.ts:67-142.  Whatever overtakes what, a proof is handed    *)
(* out only for a score that its earner submitted and that passed.         *)
THEOREM LearnImplementsIssuance == LearnSpec => LearnIssuance
<1>1. LearnInv /\ [LearnNext]_learn_vars => [LearnPromise!Next]_(LearnPromise!vars)
  BY LearnNextIssuance
<1>2. LearnSpec => LearnPromise!Init /\ [][LearnPromise!Next]_(LearnPromise!vars)
  BY <1>1, LearnInitIssuance, LearnInvariance, PTL DEF LearnSpec
<1> QED BY <1>2 DEF LearnIssuance, LearnPromise!Spec

-----------------------------------------------------------------------------
(* Part 2.  SocialService.                                                 *)

SocialDomains ==
    /\ verifications = [p \in Pairs |-> verifications[p]]
    /\ social_requests = [r \in SocialRequests |-> social_requests[r]]

(* What has been checked of a request grows with its position. *)
SocialRequestsBacked ==
    \A r \in SocialRequests :
        \/ social_requests[r] = Idle
        \/ /\ social_requests[r] \in [pc: {"post", "account", "upsert", "update", "answer"},
                               pair: Pairs, postUrl: Urls]
           /\ social_requests[r].pc \in {"post", "account", "upsert"} =>
                 Parsed(social_requests[r].postUrl) /\ Campaigns[social_requests[r].pair]
           /\ social_requests[r].pc = "upsert" => social_requests[r].postUrl.username \in old \cup Undated
           /\ social_requests[r].pc \in {"update", "answer"} =>
                 /\ verifications[social_requests[r].pair] # None
                 /\ SocialAction(social_requests[r].pair, social_requests[r].postUrl) \in verified

(* A row is a verification that was stored. *)
SocialRowsBacked ==
    \A p \in Pairs : verifications[p] # None =>
        verifications[p] \in SocialRow /\ SocialAction(p, verifications[p].postUrl) \in verified

SocialHistoryTyped ==
    /\ posts \subseteq Posts /\ old \subseteq Usernames /\ followed \subseteq Usernames
    /\ verified \subseteq [pair: Pairs, postUrl: Urls]
    /\ social_issued \subseteq verified
    /\ social_spoiled \subseteq Pairs

(* The proof in the making is that of the row, unless the pair is spoiled. *)
SocialUpdatesMatch ==
    \A r \in SocialRequests :
        social_requests[r].pc = "update" /\ social_requests[r].pair \notin social_spoiled =>
            verifications[social_requests[r].pair].postUrl = social_requests[r].postUrl

(* The inductive invariant.  The checks of a verification are made at      *)
(* different times, so they are followed through the request that made     *)
(* them; that an account is not too young is the one that stays true.      *)
SocialInv ==
    /\ SocialDomains /\ SocialRequestsBacked /\ SocialRowsBacked /\ SocialHistoryTyped
    /\ VerifiedIsVetted /\ SocialUpdatesMatch /\ SocialMarkIsTrue

-----------------------------------------------------------------------------
LEMMA SocialNoneIsNoRow == None \notin SocialRow
  BY SocialAssumption

(* What a request on its way is known to carry. *)
LEMMA SocialInFlight ==
    ASSUME SocialRequestsBacked, NEW r \in SocialRequests,
           social_requests[r].pc \in {"post", "account", "upsert", "update", "answer"}
    PROVE  /\ social_requests[r].pair \in Pairs /\ social_requests[r].postUrl \in Urls
           /\ social_requests[r] = [pc |-> social_requests[r].pc, pair |-> social_requests[r].pair,
                             postUrl |-> social_requests[r].postUrl]
           /\ social_requests[r].pc \in {"post", "account", "upsert"} =>
                 Parsed(social_requests[r].postUrl) /\ Campaigns[social_requests[r].pair]
           /\ social_requests[r].pc = "upsert" => social_requests[r].postUrl.username \in old \cup Undated
           /\ social_requests[r].pc \in {"update", "answer"} =>
                 /\ verifications[social_requests[r].pair] # None
                 /\ SocialAction(social_requests[r].pair, social_requests[r].postUrl) \in verified
<1>1. social_requests[r] # Idle
  BY DEF Idle
<1> QED BY <1>1 DEF SocialRequestsBacked

LEMMA SocialInitIInv == SocialInit => SocialInv
<1> SUFFICES ASSUME SocialInit PROVE SocialInv
  OBVIOUS
<1>1. SocialDomains /\ SocialRequestsBacked /\ SocialRowsBacked
  BY DEF SocialInit, SocialDomains, SocialRequestsBacked, SocialRowsBacked
<1>2. SocialHistoryTyped /\ VerifiedIsVetted
  BY DEF SocialInit, SocialHistoryTyped, VerifiedIsVetted, TooYoung
<1>3. SocialUpdatesMatch /\ SocialMarkIsTrue
  BY DEF SocialInit, SocialUpdatesMatch, SocialMarkIsTrue, Idle
<1> QED BY <1>1, <1>2, <1>3 DEF SocialInv

-----------------------------------------------------------------------------
(* The world moves: accounts age, and nothing recorded depends on the rest. *)
LEMMA WorldIInv ==
    ASSUME SocialInv, UNCHANGED <<verifications, social_requests, verified, social_issued, social_spoiled>>,
           old \subseteq old',
           posts' \subseteq Posts, old' \subseteq Usernames, followed' \subseteq Usernames
    PROVE  SocialInv'
<1>1. SocialDomains' /\ SocialRequestsBacked'
  BY DEF SocialInv, SocialDomains, SocialRequestsBacked
<1>2. SocialRowsBacked' /\ SocialHistoryTyped' /\ VerifiedIsVetted'
  BY DEF SocialInv, SocialRowsBacked, SocialHistoryTyped, VerifiedIsVetted, TooYoung
<1>3. SocialUpdatesMatch' /\ SocialMarkIsTrue'
  BY DEF SocialInv, SocialUpdatesMatch, SocialMarkIsTrue, SocialHolding
<1> QED BY <1>1, <1>2, <1>3 DEF SocialInv

(* A step that touches one request alone, and holds no answer. *)
LEMMA SocialOnlyRequests ==
    ASSUME SocialInv, UNCHANGED <<X, verifications, verified, social_issued, social_spoiled>>,
           NEW r \in SocialRequests, social_requests' = [social_requests EXCEPT ![r] = social_requests'[r]],
           social_requests[r].pc # "answer", SocialRequestsBacked', SocialUpdatesMatch'
    PROVE  SocialInv'
<1>1. SocialDomains' /\ SocialRowsBacked' /\ SocialHistoryTyped' /\ VerifiedIsVetted'
  BY DEF SocialInv, SocialDomains, SocialRowsBacked, SocialHistoryTyped, VerifiedIsVetted, TooYoung, X
<1>2. ASSUME NEW p \in Pairs, NEW q \in SocialHolding(p, "answer")
      PROVE  q \in SocialHolding(p, "answer")' /\ social_requests'[q] = social_requests[q]
  BY <1>2 DEF SocialHolding, SocialInv, SocialDomains
<1>3. SocialMarkIsTrue'
  <2> SUFFICES ASSUME NEW p \in Pairs \ social_spoiled', verifications'[p] # None, verifications'[p].proofIssued
               PROVE  \/ SocialAction(p, verifications'[p].postUrl) \in social_issued'
                      \/ \E q \in SocialHolding(p, "answer")' : social_requests'[q].postUrl = verifications'[p].postUrl
    BY DEF SocialMarkIsTrue, SocialAction
  <2>1. \/ SocialAction(p, verifications[p].postUrl) \in social_issued
        \/ \E q \in SocialHolding(p, "answer") : social_requests[q].postUrl = verifications[p].postUrl
    BY DEF SocialInv, SocialMarkIsTrue
  <2> QED BY <2>1, <1>2
<1> QED BY <1>1, <1>3 DEF SocialInv

LEMMA StartsIInv ==
    ASSUME SocialInv, NEW r \in SocialRequests, NEW p \in Pairs, NEW url \in Urls, VerifyStarts(r, p, url)
    PROVE  SocialInv'
<1>1. /\ social_requests[r] = Idle /\ UNCHANGED <<X, verifications, verified, social_issued, social_spoiled>>
      /\ social_requests' = [social_requests EXCEPT ![r] = [pc |-> "post", pair |-> p, postUrl |-> url]]
      /\ Parsed(url) /\ Campaigns[p]
  BY DEF social_history, VerifyStarts
<1>2. SocialRequestsBacked'
  BY <1>1 DEF SocialInv, SocialDomains, SocialRequestsBacked, Parsed, SocialAction, X
<1>3. SocialUpdatesMatch'
  BY <1>1 DEF SocialInv, SocialDomains, SocialUpdatesMatch
<1> QED BY <1>1, <1>2, <1>3, SocialOnlyRequests DEF Idle, SocialInv, SocialDomains

LEMMA ChecksIInv ==
    ASSUME SocialInv, NEW r \in SocialRequests, PostFetched(r) \/ AccountFetched(r)
    PROVE  SocialInv'
<1> DEFINE p == social_requests[r].pair
           url == social_requests[r].postUrl
<1>1. PICK pc \in {"account", "upsert"} :
         /\ social_requests' = [social_requests EXCEPT ![r].pc = pc]
         /\ social_requests[r].pc \in {"post", "account"}
         /\ pc = "upsert" => url.username \in old \cup Undated
  BY DEF PostFetched, AccountFetched, Trustworthy, TooYoung
<1>2. /\ social_requests[r] = [pc |-> social_requests[r].pc, pair |-> p, postUrl |-> url]
      /\ p \in Pairs /\ url \in Urls /\ Parsed(url) /\ Campaigns[p]
  BY <1>1, SocialInFlight DEF SocialInv
<1>3. [social_requests[r] EXCEPT !.pc = pc] = [pc |-> pc, pair |-> p, postUrl |-> url]
  BY <1>2
<1>4. /\ social_requests' = [social_requests EXCEPT ![r] = [pc |-> pc, pair |-> p, postUrl |-> url]]
      /\ UNCHANGED <<X, verifications, verified, social_issued, social_spoiled>>
  BY <1>1, <1>3 DEF social_history, PostFetched, AccountFetched
<1> HIDE DEF p, url
<1>5. SocialRequestsBacked'
  BY <1>1, <1>2, <1>4 DEF SocialInv, SocialDomains, SocialRequestsBacked, Parsed, SocialAction, X
<1>6. SocialUpdatesMatch'
  BY <1>4 DEF SocialInv, SocialDomains, SocialUpdatesMatch
<1> QED BY <1>1, <1>4, <1>5, <1>6, SocialOnlyRequests DEF SocialInv, SocialDomains

LEMMA EndsIInv ==
    ASSUME SocialInv, NEW r \in SocialRequests, NotVerified(r) \/ SocialRequestFails(r)
    PROVE  SocialInv'
<1>1. /\ social_requests[r].pc # "answer" /\ UNCHANGED <<X, verifications, verified, social_issued, social_spoiled>>
      /\ social_requests' = [social_requests EXCEPT ![r] = Idle]
  BY DEF social_history, NotVerified, SocialRequestFails
<1>2. SocialRequestsBacked'
  BY <1>1 DEF SocialInv, SocialDomains, SocialRequestsBacked, Parsed, SocialAction, X
<1>3. SocialUpdatesMatch'
  BY <1>1 DEF SocialInv, SocialDomains, SocialUpdatesMatch, Idle
<1> QED BY <1>1, <1>2, <1>3, SocialOnlyRequests DEF SocialInv, SocialDomains

LEMMA SocialReadsIInv ==
    ASSUME SocialInv, NEW r \in SocialRequests, NEW p \in Pairs, SocialProofReads(r, p)
    PROVE  SocialInv'
<1>1. /\ social_requests[r] = Idle /\ UNCHANGED <<X, verifications, verified, social_issued, social_spoiled>>
      /\ social_requests' = [social_requests EXCEPT ![r] =
             [pc |-> "update", pair |-> p, postUrl |-> verifications[p].postUrl]]
      /\ verifications[p] # None
  BY DEF social_history, SocialProofReads
<1>2. verifications[p] \in SocialRow /\ SocialAction(p, verifications[p].postUrl) \in verified
  BY <1>1 DEF SocialInv, SocialRowsBacked
<1>3. verifications[p].postUrl \in Urls
  BY <1>2 DEF SocialRow
<1>4. SocialRequestsBacked'
  BY <1>1, <1>2, <1>3 DEF SocialInv, SocialDomains, SocialRequestsBacked, Parsed, SocialAction, X
<1>5. SocialUpdatesMatch'
  BY <1>1 DEF SocialInv, SocialDomains, SocialUpdatesMatch
<1> QED BY <1>1, <1>4, <1>5, SocialOnlyRequests DEF Idle, SocialInv, SocialDomains

(* social.service.ts:98-112.  The new row has no mark, and whoever was     *)
(* about to mark the old one has the pair spoiled.                         *)
LEMMA SocialUpsertsIInv ==
    ASSUME SocialInv, NEW r \in SocialRequests, VerifyUpserts(r)
    PROVE  SocialInv'
<1> DEFINE p == social_requests[r].pair
           url == social_requests[r].postUrl
<1>1. /\ social_requests[r].pc = "upsert" /\ social_requests[r].pair = p
      /\ p \in Pairs /\ url \in Urls
      /\ Parsed(url) /\ Campaigns[p] /\ url.username \in old \cup Undated
  BY SocialInFlight DEF VerifyUpserts, SocialInv
<1>2. /\ verifications' = [verifications EXCEPT ![p] = Verification(p, url)]
      /\ verified' = verified \cup {SocialAction(p, url)}
      /\ social_spoiled' = IF SocialHolding(p, "update") = {} THEN social_spoiled \ {p} ELSE social_spoiled \cup {p}
      /\ social_requests' = [social_requests EXCEPT ![r] = Idle]
      /\ UNCHANGED <<X, social_issued>>
  BY DEF VerifyUpserts
<1> HIDE DEF p, url
<1>3. SocialDomains'
  BY <1>2 DEF SocialInv, SocialDomains
<1>4. /\ Verification(p, url) \in SocialRow /\ Verification(p, url) # None
      /\ Verification(p, url).postUrl = url /\ ~Verification(p, url).proofIssued
  <2>1. Verification(p, url) \in SocialRow
    BY <1>1 DEF Verification, SocialRow
  <2>2. Verification(p, url).postUrl = url /\ ~Verification(p, url).proofIssued
    BY DEF Verification
  <2> QED BY <2>1, <2>2, SocialNoneIsNoRow
<1>5. /\ verifications'[p] = Verification(p, url)
      /\ \A k \in Pairs \ {p} : verifications'[k] = verifications[k]
      /\ \A q \in SocialRequests \ {r} : social_requests'[q] = social_requests[q]
      /\ social_requests'[r] = Idle
  BY <1>1, <1>2 DEF SocialInv, SocialDomains
<1>6. SocialRequestsBacked'
  <2> SUFFICES ASSUME NEW q \in SocialRequests, social_requests'[q] # Idle
               PROVE /\ social_requests'[q] \in
                          [pc: {"post", "account", "upsert", "update", "answer"},
                           pair: Pairs, postUrl: Urls]
                     /\ social_requests'[q].pc \in {"post", "account", "upsert"} =>
                           Parsed(social_requests'[q].postUrl) /\ Campaigns[social_requests'[q].pair]
                     /\ social_requests'[q].pc = "upsert" => social_requests'[q].postUrl.username \in old' \cup Undated
                     /\ social_requests'[q].pc \in {"update", "answer"} =>
                           /\ verifications'[social_requests'[q].pair] # None
                           /\ SocialAction(social_requests'[q].pair, social_requests'[q].postUrl) \in verified'
    BY DEF SocialRequestsBacked, Parsed, SocialAction
  <2>1. social_requests'[q] = social_requests[q] /\ old' = old
    BY <1>2, <1>5 DEF X
  <2>2. social_requests[q].pair \in Pairs
    BY <2>1 DEF SocialInv, SocialRequestsBacked
  <2>3. verifications[social_requests[q].pair] # None => verifications'[social_requests[q].pair] # None
    BY <1>4, <1>5, <2>2
  <2> QED BY <1>2, <2>1, <2>3 DEF SocialInv, SocialRequestsBacked
<1>7. SocialRowsBacked'
  <2> SUFFICES ASSUME NEW k \in Pairs, verifications'[k] # None
               PROVE  verifications'[k] \in SocialRow /\ SocialAction(k, verifications'[k].postUrl) \in verified'
    BY DEF SocialRowsBacked, SocialAction
  <2>1. CASE k = p
    BY <1>2, <1>4, <1>5, <2>1
  <2>2. CASE k # p
    BY <1>2, <1>5, <2>2 DEF SocialInv, SocialRowsBacked
  <2> QED BY <2>1, <2>2
<1>8. SocialHistoryTyped'
  <2>1. SocialAction(p, url) \in [pair: Pairs, postUrl: Urls]
    BY <1>1 DEF SocialAction
  <2> QED BY <1>1, <1>2, <2>1 DEF SocialInv, SocialHistoryTyped, X
<1>9. VerifiedIsVetted'
  <2>1. SocialAction(p, url).postUrl = url /\ SocialAction(p, url).pair = p
    BY DEF SocialAction
  <2> QED BY <1>1, <1>2, <2>1 DEF SocialInv, SocialHistoryTyped, VerifiedIsVetted, TooYoung, X
<1>10. SocialUpdatesMatch'
  <2> SUFFICES ASSUME NEW q \in SocialRequests, social_requests'[q].pc = "update",
                      social_requests'[q].pair \notin social_spoiled'
               PROVE  verifications'[social_requests'[q].pair].postUrl = social_requests'[q].postUrl
    BY DEF SocialUpdatesMatch
  <2>1. social_requests'[q] = social_requests[q]
    BY <1>5 DEF Idle
  <2>2. social_requests[q].pair # p
    BY <1>2, <2>1 DEF SocialHolding
  <2>3. social_requests[q].pair \in Pairs /\ social_requests[q].pair \notin social_spoiled
    <3>1. social_requests[q].pair \in Pairs
      BY <2>1, SocialInFlight DEF SocialInv
    <3> QED BY <1>2, <2>1, <2>2, <3>1
  <2> QED BY <1>5, <2>1, <2>2, <2>3 DEF SocialInv, SocialUpdatesMatch
<1>11. SocialMarkIsTrue'
  <2> SUFFICES ASSUME NEW k \in Pairs \ social_spoiled', verifications'[k] # None, verifications'[k].proofIssued
               PROVE  \/ SocialAction(k, verifications'[k].postUrl) \in social_issued'
                      \/ \E q \in SocialHolding(k, "answer")' : social_requests'[q].postUrl = verifications'[k].postUrl
    BY DEF SocialMarkIsTrue, SocialAction
  <2>1. k # p /\ verifications'[k] = verifications[k] /\ k \notin social_spoiled
    BY <1>2, <1>4, <1>5
  <2>2. SocialHolding(k, "answer")' = SocialHolding(k, "answer")
    BY <1>1, <1>5 DEF SocialHolding, Idle
  <2>3. \A q \in SocialHolding(k, "answer") : social_requests'[q] = social_requests[q]
    BY <1>1, <1>5 DEF SocialHolding
  <2> QED BY <1>2, <2>1, <2>2, <2>3 DEF SocialInv, SocialMarkIsTrue
<1> QED BY <1>3, <1>6, <1>7, <1>8, <1>9, <1>10, <1>11 DEF SocialInv

(* social.service.ts:157-160.  The row that is marked is the one the proof *)
(* was made of, or the pair is spoiled.                                    *)
LEMMA SocialMarksIInv ==
    ASSUME SocialInv, NEW r \in SocialRequests, SocialProofMarks(r)
    PROVE  SocialInv'
<1> DEFINE p == social_requests[r].pair
           url == social_requests[r].postUrl
<1>1. /\ social_requests[r] = [pc |-> "update", pair |-> p, postUrl |-> url]
      /\ p \in Pairs /\ url \in Urls /\ verifications[p] # None
      /\ SocialAction(p, url) \in verified
  BY SocialInFlight DEF SocialProofMarks, SocialInv
<1>2. /\ verifications' = [verifications EXCEPT ![p].proofIssued = TRUE]
      /\ social_requests' = [social_requests EXCEPT ![r] = [pc |-> "answer", pair |-> p, postUrl |-> url]]
      /\ UNCHANGED <<X, verified, social_issued, social_spoiled>>
  <2>1. [social_requests[r] EXCEPT !.pc = "answer"] = [pc |-> "answer", pair |-> p, postUrl |-> url]
    BY <1>1
  <2> QED BY <2>1 DEF social_history, SocialProofMarks
<1> HIDE DEF p, url
<1>3. SocialDomains'
  BY <1>2 DEF SocialInv, SocialDomains
<1>4. verifications[p] \in SocialRow
  BY <1>1 DEF SocialInv, SocialRowsBacked
<1>5. /\ verifications'[p] \in SocialRow /\ verifications'[p].postUrl = verifications[p].postUrl /\ verifications'[p].proofIssued
      /\ \A k \in Pairs \ {p} : verifications'[k] = verifications[k]
      /\ \A q \in SocialRequests \ {r} : social_requests'[q] = social_requests[q]
      /\ social_requests'[r] = [pc |-> "answer", pair |-> p, postUrl |-> url]
  BY <1>1, <1>2, <1>4 DEF SocialInv, SocialDomains, SocialRow
<1>6. SocialRequestsBacked'
  <2>1. verifications'[p] # None
    BY <1>5, SocialNoneIsNoRow
  <2> QED BY <1>1, <1>2, <1>5, <2>1 DEF SocialInv, SocialRequestsBacked, Parsed, SocialAction, Idle, X
<1>7. SocialRowsBacked'
  <2> SUFFICES ASSUME NEW k \in Pairs, verifications'[k] # None
               PROVE  verifications'[k] \in SocialRow /\ SocialAction(k, verifications'[k].postUrl) \in verified'
    BY DEF SocialRowsBacked, SocialAction
  <2>1. /\ verifications[k] # None /\ verifications'[k].postUrl = verifications[k].postUrl
        /\ verifications[k] \in SocialRow => verifications'[k] \in SocialRow
    BY <1>1, <1>5
  <2> QED BY <1>2, <2>1 DEF SocialInv, SocialRowsBacked
<1>8. SocialHistoryTyped' /\ VerifiedIsVetted'
  BY <1>2 DEF SocialInv, SocialHistoryTyped, VerifiedIsVetted, TooYoung, X
<1>9. SocialUpdatesMatch'
  <2> SUFFICES ASSUME NEW q \in SocialRequests, social_requests'[q].pc = "update",
                      social_requests'[q].pair \notin social_spoiled'
               PROVE  verifications'[social_requests'[q].pair].postUrl = social_requests'[q].postUrl
    BY DEF SocialUpdatesMatch
  <2>1. social_requests'[q] = social_requests[q]
    BY <1>5
  <2>2. social_requests[q].pair \in Pairs
    BY <2>1, SocialInFlight DEF SocialInv
  <2> QED BY <1>2, <1>5, <2>1, <2>2 DEF SocialInv, SocialUpdatesMatch
<1>10. SocialMarkIsTrue'
  <2> SUFFICES ASSUME NEW k \in Pairs \ social_spoiled', verifications'[k] # None, verifications'[k].proofIssued
               PROVE  \/ SocialAction(k, verifications'[k].postUrl) \in social_issued'
                      \/ \E q \in SocialHolding(k, "answer")' : social_requests'[q].postUrl = verifications'[k].postUrl
    BY DEF SocialMarkIsTrue, SocialAction
  <2>1. CASE k = p
    <3>1. verifications[p].postUrl = url
      BY <1>1, <1>2, <2>1 DEF SocialInv, SocialUpdatesMatch
    <3>2. r \in SocialHolding(k, "answer")' /\ social_requests'[r].postUrl = url
      BY <1>5, <2>1 DEF SocialHolding
    <3> QED BY <1>5, <2>1, <3>1, <3>2
  <2>2. CASE k # p
    <3>1. \A q \in SocialHolding(k, "answer") : q \in SocialHolding(k, "answer")' /\ social_requests'[q] = social_requests[q]
      BY <1>1, <1>5 DEF SocialHolding
    <3>2. verifications'[k] = verifications[k] /\ k \notin social_spoiled
      BY <1>2, <1>5, <2>2
    <3>3. \/ SocialAction(k, verifications[k].postUrl) \in social_issued
          \/ \E q \in SocialHolding(k, "answer") : social_requests[q].postUrl = verifications[k].postUrl
      BY <3>2 DEF SocialInv, SocialMarkIsTrue
    <3> QED BY <1>2, <3>1, <3>2, <3>3
  <2> QED BY <2>1, <2>2
<1> QED BY <1>3, <1>6, <1>7, <1>8, <1>9, <1>10 DEF SocialInv

LEMMA SocialAnswersIInv ==
    ASSUME SocialInv, NEW r \in SocialRequests, SocialProofAnswers(r)
    PROVE  /\ SocialInv'
           /\ UNCHANGED verified
           /\ \E a \in verified : social_issued' = social_issued \cup {a}
<1> DEFINE p == social_requests[r].pair
           url == social_requests[r].postUrl
<1>1. /\ social_requests[r] = [pc |-> "answer", pair |-> p, postUrl |-> url]
      /\ p \in Pairs /\ SocialAction(p, url) \in verified
  BY SocialInFlight DEF SocialProofAnswers, SocialInv
<1>2. /\ social_issued' = social_issued \cup {SocialAction(p, url)}
      /\ social_requests' = [social_requests EXCEPT ![r] = Idle]
      /\ UNCHANGED <<X, verifications, verified, social_spoiled>>
  BY DEF SocialProofAnswers
<1> HIDE DEF p, url
<1>3. SocialDomains' /\ SocialRowsBacked'
  BY <1>2 DEF SocialInv, SocialDomains, SocialRowsBacked
<1>4. SocialRequestsBacked' /\ SocialUpdatesMatch'
  BY <1>2 DEF SocialInv, SocialDomains, SocialRequestsBacked, SocialUpdatesMatch, Idle, X
<1>5. SocialHistoryTyped' /\ VerifiedIsVetted'
  BY <1>1, <1>2 DEF SocialInv, SocialHistoryTyped, VerifiedIsVetted, TooYoung, X
<1>6. SocialMarkIsTrue'
  <2> SUFFICES ASSUME NEW k \in Pairs \ social_spoiled', verifications'[k] # None, verifications'[k].proofIssued
               PROVE  \/ SocialAction(k, verifications'[k].postUrl) \in social_issued'
                      \/ \E q \in SocialHolding(k, "answer")' : social_requests'[q].postUrl = verifications'[k].postUrl
    BY DEF SocialMarkIsTrue, SocialAction
  <2> k \in Pairs \ social_spoiled /\ verifications[k] # None /\ verifications[k].proofIssued /\ verifications' = verifications
    BY <1>2
  <2>1. CASE SocialAction(k, verifications[k].postUrl) \in social_issued
    BY <1>2, <2>1
  <2>2. ASSUME NEW q \in SocialHolding(k, "answer"), social_requests[q].postUrl = verifications[k].postUrl
        PROVE  \/ SocialAction(k, verifications[k].postUrl) \in social_issued'
               \/ \E s \in SocialHolding(k, "answer")' : social_requests'[s].postUrl = verifications[k].postUrl
    <3>1. CASE q = r
      BY <1>1, <1>2, <2>2, <3>1 DEF SocialHolding
    <3>2. CASE q # r
      <4>1. q \in SocialHolding(k, "answer")' /\ social_requests'[q] = social_requests[q]
        BY <1>2, <3>2 DEF SocialHolding, SocialInv, SocialDomains
      <4> QED BY <2>2, <4>1
    <3> QED BY <3>1, <3>2
  <2>3. \/ SocialAction(k, verifications[k].postUrl) \in social_issued
        \/ \E q \in SocialHolding(k, "answer") : social_requests[q].postUrl = verifications[k].postUrl
    BY DEF SocialInv, SocialMarkIsTrue
  <2> QED BY <2>1, <2>2, <2>3
<1>7. SocialInv'
  BY <1>3, <1>4, <1>5, <1>6 DEF SocialInv
<1> QED BY <1>1, <1>2, <1>7

LEMMA SocialCrashIInv == SocialInv /\ SocialCrash => SocialInv'
<1> SUFFICES ASSUME SocialInv, SocialCrash PROVE SocialInv'
  OBVIOUS
<1>1. SocialDomains' /\ SocialRequestsBacked' /\ SocialRowsBacked'
  BY DEF SocialInv, SocialDomains, SocialRequestsBacked, SocialRowsBacked, SocialCrash
<1>2. SocialHistoryTyped' /\ VerifiedIsVetted'
  BY DEF SocialInv, SocialHistoryTyped, VerifiedIsVetted, TooYoung, SocialCrash, X
<1>3. SocialUpdatesMatch'
  BY DEF SocialUpdatesMatch, SocialCrash, Idle
<1>4. SocialMarkIsTrue'
  <2> SUFFICES ASSUME NEW k \in Pairs \ social_spoiled', verifications[k] # None, verifications[k].proofIssued
               PROVE  SocialAction(k, verifications[k].postUrl) \in social_issued
    BY DEF SocialMarkIsTrue, SocialAction, SocialCrash
  <2>1. k \notin social_spoiled /\ SocialHolding(k, "answer") = {}
    BY DEF SocialCrash
  <2> QED BY <2>1 DEF SocialInv, SocialMarkIsTrue
<1> QED BY <1>1, <1>2, <1>3, <1>4 DEF SocialInv

LEMMA SocialNextIInv == SocialInv /\ [SocialNext]_social_vars => SocialInv'
<1> SUFFICES ASSUME SocialInv, [SocialNext]_social_vars PROVE SocialInv'
  OBVIOUS
<1>1. CASE SocialCrash
  BY <1>1, SocialCrashIInv
<1>2. ASSUME NEW x \in Posts, PostDeleted(x) PROVE SocialInv'
  <2>1. /\ UNCHANGED <<verifications, social_requests, verified, social_issued, social_spoiled>>
        /\ old' = old /\ followed' = followed /\ posts' \subseteq posts
    BY <1>2 DEF social_history, PostDeleted
  <2> QED BY <2>1, WorldIInv DEF SocialInv, SocialHistoryTyped
<1>3. ASSUME NEW u \in Usernames, AccountAges(u) \/ FollowersChange(u) PROVE SocialInv'
  <2>1. /\ UNCHANGED <<verifications, social_requests, verified, social_issued, social_spoiled>>
        /\ posts' = posts /\ old \subseteq old' /\ old' \subseteq old \cup {u}
        /\ followed' \subseteq followed \cup {u}
    BY <1>3 DEF social_history, AccountAges, FollowersChange
  <2> QED BY <2>1, WorldIInv DEF SocialInv, SocialHistoryTyped
<1>4. ASSUME NEW r \in SocialRequests, NEW p \in Pairs, NEW url \in Urls, VerifyStarts(r, p, url)
      PROVE  SocialInv'
  BY <1>4, StartsIInv
<1>5. ASSUME NEW r \in SocialRequests, PostFetched(r) \/ AccountFetched(r) PROVE SocialInv'
  BY <1>5, ChecksIInv
<1>6. ASSUME NEW r \in SocialRequests, NotVerified(r) \/ SocialRequestFails(r) PROVE SocialInv'
  BY <1>6, EndsIInv
<1>7. ASSUME NEW r \in SocialRequests, VerifyUpserts(r) PROVE SocialInv'
  BY <1>7, SocialUpsertsIInv
<1>8. ASSUME NEW r \in SocialRequests, NEW p \in Pairs, SocialProofReads(r, p) PROVE SocialInv'
  BY <1>8, SocialReadsIInv
<1>9. ASSUME NEW r \in SocialRequests, SocialProofMarks(r) PROVE SocialInv'
  BY <1>9, SocialMarksIInv
<1>10. ASSUME NEW r \in SocialRequests, SocialProofAnswers(r) PROVE SocialInv'
  BY <1>10, SocialAnswersIInv
<1>11. CASE UNCHANGED social_vars
  BY <1>11, WorldIInv DEF social_history, social_vars, X, SocialInv, SocialHistoryTyped
<1> QED BY <1>1, <1>2, <1>3, <1>4, <1>5, <1>6, <1>7, <1>8, <1>9, <1>10, <1>11 DEF SocialNext, SocialRuns

THEOREM SocialInvariance == SocialSpec => []SocialInv
<1>1. SocialInit => SocialInv
  BY SocialInitIInv
<1>2. SocialInv /\ [SocialNext]_social_vars => SocialInv'
  BY SocialNextIInv
<1> QED BY <1>1, <1>2, PTL DEF SocialSpec

(* Type correctness: social.service.ts keeps one row of the right shape    *)
(* per campaign and earner.                                                *)
THEOREM SocialTypeCorrect == SocialSpec => []SocialTypeOK
<1>1. SocialInv => SocialTypeOK
  BY DEF SocialInv, SocialDomains, SocialRequestsBacked, SocialRowsBacked, SocialHistoryTyped, SocialTypeOK
<1> QED BY <1>1, SocialInvariance, PTL

(* social.service.ts:71-93.  However the world changes between the checks  *)
(* of a post and the use of their results, what is stored or proven was    *)
(* readable, of a known campaign and of an account not known as too young. *)
THEOREM Vetted == SocialSpec => []VerifiedIsVetted
<1>1. SocialInv => VerifiedIsVetted
  BY DEF SocialInv
<1> QED BY <1>1, SocialInvariance, PTL

(* social.service.ts:136.  The mark "proof already issued" is on a row     *)
(* only when the proof of that post was handed out or is about to be,      *)
(* unless a crash or an overlapping verification cost it.                  *)
THEOREM SocialMarkTrue == SocialSpec => []SocialMarkIsTrue
<1>1. SocialInv => SocialMarkIsTrue
  BY DEF SocialInv
<1> QED BY <1>1, SocialInvariance, PTL

-----------------------------------------------------------------------------
LEMMA SocialInitIssuance == SocialInit => SocialPromise!Init
  BY DEF SocialInit, SocialPromise!Init

(* Storing a post earns its action, an answer hands one out. *)
LEMMA SocialNextIssuance ==
    SocialInv /\ [SocialNext]_social_vars => [SocialPromise!Next]_(SocialPromise!vars)
<1> SUFFICES ASSUME SocialInv, [SocialNext]_social_vars
             PROVE  [SocialPromise!Next]_(SocialPromise!vars)
  OBVIOUS
<1>1. ASSUME UNCHANGED <<verified, social_issued>> PROVE UNCHANGED SocialPromise!vars
  BY <1>1 DEF SocialPromise!vars
<1>2. ASSUME NEW r \in SocialRequests, VerifyUpserts(r) PROVE [SocialPromise!Next]_(SocialPromise!vars)
  <2> DEFINE a == SocialAction(social_requests[r].pair, social_requests[r].postUrl)
  <2>1. a \in [pair: Pairs, postUrl: Urls]
    BY <1>2, SocialInFlight DEF VerifyUpserts, SocialInv, SocialAction
  <2>2. verified' = verified \cup {a} /\ UNCHANGED social_issued
    BY <1>2 DEF VerifyUpserts
  <2> HIDE DEF a
  <2>3. CASE a \in verified
    BY <1>1, <2>2, <2>3
  <2>4. CASE a \notin verified
    <3>1. SocialPromise!Earn(a)
      BY <2>2, <2>4 DEF SocialPromise!Earn
    <3> QED BY <2>1, <3>1 DEF SocialPromise!Next
  <2> QED BY <2>3, <2>4
<1>3. ASSUME NEW r \in SocialRequests, SocialProofAnswers(r) PROVE [SocialPromise!Next]_(SocialPromise!vars)
  <2>1. PICK a \in verified : social_issued' = social_issued \cup {a}
    BY <1>3, SocialAnswersIInv
  <2>2. UNCHANGED verified
    BY <1>3, SocialAnswersIInv
  <2>3. a \in [pair: Pairs, postUrl: Urls]
    BY DEF SocialInv, SocialHistoryTyped
  <2>4. CASE a \in social_issued
    BY <1>1, <2>1, <2>2, <2>4
  <2>5. CASE a \notin social_issued
    <3>1. SocialPromise!Issue(a)
      BY <2>1, <2>2, <2>5 DEF SocialPromise!Issue
    <3> QED BY <2>3, <3>1 DEF SocialPromise!Next
  <2> QED BY <2>4, <2>5
<1>4. CASE SocialCrash \/ UNCHANGED social_vars
  BY <1>1, <1>4 DEF social_history, SocialCrash, social_vars
<1>5. ASSUME \/ \E x \in Posts : PostDeleted(x)
             \/ \E u \in Usernames : AccountAges(u) \/ FollowersChange(u)
      PROVE  UNCHANGED SocialPromise!vars
  BY <1>1, <1>5 DEF social_history, PostDeleted, AccountAges, FollowersChange
<1>6. ASSUME NEW r \in SocialRequests,
             \/ \E p \in Pairs, url \in Urls : VerifyStarts(r, p, url)
             \/ PostFetched(r) \/ AccountFetched(r) \/ NotVerified(r)
             \/ \E p \in Pairs : SocialProofReads(r, p)
             \/ SocialProofMarks(r) \/ SocialRequestFails(r)
      PROVE  UNCHANGED SocialPromise!vars
  BY <1>1, <1>6 DEF social_history, VerifyStarts, PostFetched, AccountFetched, NotVerified, SocialProofReads,
     SocialProofMarks, SocialRequestFails
<1> QED BY <1>2, <1>3, <1>4, <1>5, <1>6 DEF SocialNext, SocialRuns

(* social.service.ts:95-169.  A proof is handed out only for a post that   *)
(* was verified for this earner and campaign.                              *)
THEOREM SocialImplementsIssuance == SocialSpec => SocialIssuance
<1>1. SocialInv /\ [SocialNext]_social_vars => [SocialPromise!Next]_(SocialPromise!vars)
  BY SocialNextIssuance
<1>2. SocialSpec => SocialPromise!Init /\ [][SocialPromise!Next]_(SocialPromise!vars)
  BY <1>1, SocialInitIssuance, SocialInvariance, PTL DEF SocialSpec
<1> QED BY <1>2 DEF SocialIssuance, SocialPromise!Spec

-----------------------------------------------------------------------------
(* Part 3.  ReferralService.                                               *)

Conversion(p, account) == [pair |-> p, referee |-> account]

ReferralDomains ==
    /\ referrals = [s \in Slugs |-> referrals[s]]
    /\ referral_requests = [r \in ReferralRequests |-> referral_requests[r]]

(* A row with a referee is a conversion that was stored; only such a row   *)
(* is ever marked.                                                         *)
ReferralRowsBacked ==
    \A s \in Slugs : referrals[s] # None =>
        /\ referrals[s] \in ReferralRow
        /\ referrals[s].referee # None => Conversion(referrals[s].pair, referrals[s].referee) \in converted
        /\ referrals[s].proofIssued => referrals[s].referee # None

RequestsTyped ==
    \A r \in ReferralRequests :
        \/ referral_requests[r] = Idle
        \/ referral_requests[r] \in [pc: {"create"}, pair: Pairs, slug: Slugs]
        \/ referral_requests[r] \in [pc: {"convert"}, slug: Slugs, account: Accounts]
        \/ referral_requests[r] \in [pc: {"update", "answer"}, slug: Slugs, pair: Pairs,
                            account: Accounts]

(* The slug of a link to be created is nobody else's. *)
CreatesBacked ==
    \A r \in ReferralRequests : referral_requests[r].pc = "create" =>
        /\ referrals[referral_requests[r].slug] = None
        /\ \A q \in ReferralRequests :
              referral_requests[q].pc = "create" /\ referral_requests[q].slug = referral_requests[r].slug => q = r

ConvertsBacked ==
    \A r \in ReferralRequests : referral_requests[r].pc = "convert" =>
        /\ referrals[referral_requests[r].slug] # None
        /\ ReferrerOf[referrals[referral_requests[r].slug].pair] # referral_requests[r].account

ProofsBacked ==
    \A r \in ReferralRequests : referral_requests[r].pc \in {"update", "answer"} =>
        /\ referrals[referral_requests[r].slug] # None
        /\ referrals[referral_requests[r].slug].pair = referral_requests[r].pair
        /\ referrals[referral_requests[r].slug].referee # None
        /\ Conversion(referral_requests[r].pair, referral_requests[r].account) \in converted

ReferralHistoryTyped ==
    /\ converted \subseteq {a \in [pair: Pairs, referee: Accounts] :
                                a.referee # ReferrerOf[a.pair]}
    /\ referral_issued \subseteq [slug: Slugs, pair: Pairs, referee: Accounts]
    /\ \A i \in referral_issued :
          /\ Conversion(i.pair, i.referee) \in converted
          /\ referrals[i.slug] # None /\ referrals[i.slug].pair = i.pair
    /\ doubled \subseteq Pairs /\ contested \subseteq Slugs /\ referral_spoiled \subseteq Slugs

Creating(p) == {r \in ReferralRequests : referral_requests[r].pc = "create" /\ referral_requests[r].pair = p}

(* A link to be created is the only one of its pair. *)
LinksAlone ==
    \A p \in Pairs \ doubled :
        /\ \A s, t \in LinksOf(p) : s = t
        /\ \A q, r \in Creating(p) : q = r
        /\ Creating(p) # {} => LinksOf(p) = {}

(* A conversion on its way is the only one of its link. *)
ConversionsAlone ==
    \A s \in Slugs \ contested :
        /\ \A q, r \in About(s, "convert") : q = r
        /\ About(s, "convert") # {} => referrals[s].referee = None

(* The referee of a proof is the one of the row. *)
ProofsMatch ==
    \A s \in Slugs \ contested :
        /\ \A r \in About(s, "update") \cup About(s, "answer") :
              referrals[s].referee = referral_requests[r].account
        /\ \A i \in referral_issued : i.slug = s => referrals[s].referee = i.referee

(* The inductive invariant.  Whether a handler is alone with its row is    *)
(* decided when it reads, so what is excluded later is written down for    *)
(* the handlers past their look-up.                                        *)
ReferralInv ==
    /\ ReferralDomains /\ ReferralRowsBacked /\ RequestsTyped
    /\ CreatesBacked /\ ConvertsBacked /\ ProofsBacked /\ ReferralHistoryTyped
    /\ LinksAlone /\ ConversionsAlone /\ ProofsMatch /\ ReferralMarkIsTrue

-----------------------------------------------------------------------------
LEMMA ReferralNoneIsNoRow == None \notin ReferralRow /\ None \notin Accounts
  BY ReferralAssumption

LEMMA IdleIsIdle ==
    /\ Idle.pc # "create" /\ Idle.pc # "convert" /\ Idle.pc # "update" /\ Idle.pc # "answer"
  BY DEF Idle

(* What a request past its look-up carries. *)
LEMMA ReferralInFlight ==
    ASSUME RequestsTyped, NEW r \in ReferralRequests
    PROVE  /\ referral_requests[r].pc = "create" =>
                 /\ referral_requests[r].pair \in Pairs /\ referral_requests[r].slug \in Slugs
           /\ referral_requests[r].pc = "convert" =>
                 /\ referral_requests[r].account \in Accounts /\ referral_requests[r].slug \in Slugs
           /\ referral_requests[r].pc \in {"update", "answer"} =>
                 /\ referral_requests[r].pair \in Pairs /\ referral_requests[r].slug \in Slugs
                 /\ referral_requests[r].account \in Accounts
                 /\ referral_requests[r] = [pc |-> referral_requests[r].pc, slug |-> referral_requests[r].slug,
                                   pair |-> referral_requests[r].pair,
                                   account |-> referral_requests[r].account]
  BY IdleIsIdle DEF RequestsTyped

LEMMA ReferralInitIInv == ReferralInit => ReferralInv
<1> SUFFICES ASSUME ReferralInit PROVE ReferralInv
  OBVIOUS
<1>1. ReferralDomains /\ ReferralRowsBacked /\ RequestsTyped /\ ReferralHistoryTyped
  BY DEF ReferralInit, ReferralDomains, ReferralRowsBacked, RequestsTyped, ReferralHistoryTyped
<1>2. \A r \in ReferralRequests : referral_requests[r] = Idle
  BY DEF ReferralInit
<1>3. CreatesBacked /\ ConvertsBacked /\ ProofsBacked
  BY <1>2, IdleIsIdle DEF CreatesBacked, ConvertsBacked, ProofsBacked
<1>4. LinksAlone
  BY <1>2, IdleIsIdle DEF ReferralInit, LinksAlone, LinksOf, Creating
<1>5. ConversionsAlone /\ ProofsMatch
  BY <1>2, IdleIsIdle DEF ReferralInit, ConversionsAlone, ProofsMatch, About
<1>6. ReferralMarkIsTrue
  BY DEF ReferralInit, ReferralMarkIsTrue
<1> QED BY <1>1, <1>3, <1>4, <1>5, <1>6 DEF ReferralInv

-----------------------------------------------------------------------------
(* Dropping requests that hold no answer, or starting one that holds none, *)
(* leaves the mark as true as it was.                                      *)
LEMMA MarkStays ==
    ASSUME ReferralMarkIsTrue, UNCHANGED <<referrals, referral_issued>>, contested \subseteq contested',
           referral_spoiled \subseteq referral_spoiled', NEW r \in ReferralRequests,
           \A q \in ReferralRequests \ {r} : referral_requests'[q] = referral_requests[q],
           referral_requests[r].pc # "answer"
    PROVE  ReferralMarkIsTrue'
<1> SUFFICES ASSUME NEW s \in Slugs \ (contested' \cup referral_spoiled'),
                    referrals'[s] # None, referrals'[s].proofIssued
             PROVE  LET wanted == [slug |-> s, pair |-> referrals'[s].pair,
                                   referee |-> referrals'[s].referee] IN
                    wanted \in referral_issued' \/ \E q \in About(s, "answer")' : Proof(q)' = wanted
  BY DEF ReferralMarkIsTrue
<1> DEFINE wanted == [slug |-> s, pair |-> referrals[s].pair, referee |-> referrals[s].referee]
<1>1. wanted \in referral_issued \/ \E q \in About(s, "answer") : Proof(q) = wanted
  BY DEF ReferralMarkIsTrue
<1>2. \A q \in About(s, "answer") : q \in About(s, "answer")' /\ Proof(q)' = Proof(q)
  BY DEF About, Proof
<1> QED BY <1>1, <1>2

LEMMA LinkReadsIInv ==
    ASSUME ReferralInv, NEW r \in ReferralRequests, NEW p \in Pairs, NEW s \in Slugs,
           LinkReads(r, p, s)
    PROVE  ReferralInv'
<1>1. /\ referral_requests[r] = Idle /\ LinksOf(p) = {} /\ s \in Unused
      /\ referral_requests' = [referral_requests EXCEPT ![r] = [pc |-> "create", pair |-> p, slug |-> s]]
      /\ doubled' = IF Creating(p) # {} THEN doubled \cup {p} ELSE doubled
      /\ UNCHANGED <<referrals, referral_issued, converted, contested, referral_spoiled>>
  BY DEF LinkReads, NoLink, Creating
<1>2. /\ referral_requests'[r] = [pc |-> "create", pair |-> p, slug |-> s]
      /\ \A q \in ReferralRequests \ {r} : referral_requests'[q] = referral_requests[q]
  BY <1>1 DEF ReferralInv, ReferralDomains
<1>3. ReferralDomains' /\ ReferralRowsBacked' /\ ReferralHistoryTyped'
  BY <1>1 DEF ReferralInv, ReferralDomains, ReferralRowsBacked, ReferralHistoryTyped, Conversion
<1>4. RequestsTyped'
  BY <1>1, <1>2 DEF ReferralInv, RequestsTyped, Idle
<1>5. CreatesBacked'
  <2>1. referrals[s] = None /\ \A q \in ReferralRequests : referral_requests[q].pc = "create" => referral_requests[q].slug # s
    BY <1>1 DEF Unused
  <2> QED BY <1>1, <1>2, <2>1 DEF ReferralInv, CreatesBacked
<1>6. ConvertsBacked' /\ ProofsBacked'
  BY <1>1, <1>2 DEF ReferralInv, ConvertsBacked, ProofsBacked, Conversion
<1>7. LinksAlone'
  <2> SUFFICES ASSUME NEW k \in Pairs \ doubled'
               PROVE  /\ \A t, u \in LinksOf(k)' : t = u
                      /\ \A q, u \in Creating(k)' : q = u
                      /\ Creating(k)' # {} => LinksOf(k)' = {}
    BY DEF LinksAlone
  <2>1. LinksOf(k)' = LinksOf(k) /\ k \notin doubled
    BY <1>1 DEF LinksOf
  <2>2. CASE k = p
    <3>1. Creating(p) = {}
      BY <1>1, <2>2
    <3>2. Creating(p)' \subseteq {r}
      BY <1>2, <3>1 DEF Creating
    <3> QED BY <1>1, <2>1, <2>2, <3>2
  <2>3. CASE k # p
    <3>1. Creating(k)' = Creating(k)
      BY <1>1, <1>2, <2>3, IdleIsIdle DEF Creating
    <3> QED BY <2>1, <3>1 DEF ReferralInv, LinksAlone
  <2> QED BY <2>2, <2>3
<1>8. \A t \in Slugs : \A pc \in {"convert", "update", "answer"} : About(t, pc)' = About(t, pc)
  BY <1>1, <1>2, IdleIsIdle DEF About
<1>9. ConversionsAlone' /\ ProofsMatch'
  <2>1. \A t \in Slugs : \A q \in About(t, "update") \cup About(t, "answer") :
           referral_requests'[q] = referral_requests[q]
    BY <1>1, <1>2, IdleIsIdle DEF About
  <2> QED BY <1>1, <1>8, <2>1 DEF ReferralInv, ConversionsAlone, ProofsMatch
<1>10. ReferralMarkIsTrue'
  BY <1>1, <1>2, IdleIsIdle, MarkStays DEF ReferralInv
<1> QED BY <1>3, <1>4, <1>5, <1>6, <1>7, <1>9, <1>10 DEF ReferralInv

(* referrals.service.ts:43-50.  The slug was unused, so no other request   *)
(* knows it; the pair was without a link, unless it is doubled.            *)
LEMMA LinkCreatesIInv ==
    ASSUME ReferralInv, NEW r \in ReferralRequests, LinkCreates(r)
    PROVE  ReferralInv'
<1> DEFINE p == referral_requests[r].pair
           s == referral_requests[r].slug
           row == [pair |-> p, referee |-> None, proofIssued |-> FALSE]
<1>1. /\ referral_requests[r].pc = "create" /\ referral_requests[r].pair = p /\ referral_requests[r].slug = s
      /\ p \in Pairs /\ s \in Slugs /\ referrals[s] = None
  BY ReferralInFlight DEF LinkCreates, ReferralInv, CreatesBacked
<1>2. /\ referrals' = [referrals EXCEPT ![s] = row]
      /\ referral_requests' = [referral_requests EXCEPT ![r] = Idle]
      /\ UNCHANGED <<referral_issued, converted, doubled, contested, referral_spoiled>>
  BY DEF LinkCreates, referral_history
<1>3. /\ row \in ReferralRow /\ row # None /\ row.pair = p /\ row.referee = None /\ ~row.proofIssued
  <2>1. row \in ReferralRow
    BY <1>1 DEF ReferralRow
  <2> QED BY <2>1, ReferralNoneIsNoRow
<1> HIDE DEF p, s, row
<1>4. /\ referrals'[s] = row
      /\ \A t \in Slugs \ {s} : referrals'[t] = referrals[t]
      /\ referral_requests'[r] = Idle
      /\ \A q \in ReferralRequests \ {r} : referral_requests'[q] = referral_requests[q]
  BY <1>1, <1>2 DEF ReferralInv, ReferralDomains
<1>5. ReferralDomains' /\ ReferralRowsBacked'
  BY <1>1, <1>2, <1>3, <1>4 DEF ReferralInv, ReferralDomains, ReferralRowsBacked, Conversion
<1>6. RequestsTyped'
  BY <1>4 DEF ReferralInv, RequestsTyped
<1>7. CreatesBacked'
  <2>1. ASSUME NEW q \in ReferralRequests, referral_requests'[q].pc = "create"
        PROVE  /\ referral_requests'[q] = referral_requests[q] /\ referral_requests[q].slug \in Slugs
               /\ referral_requests[q].slug # s
    <3>1. q # r
      BY <1>4, <2>1, IdleIsIdle
    <3>2. referral_requests'[q] = referral_requests[q]
      BY <1>4, <3>1
    <3> QED BY <1>1, <2>1, <3>1, <3>2, ReferralInFlight DEF ReferralInv, CreatesBacked
  <2> QED BY <1>4, <2>1 DEF ReferralInv, CreatesBacked
<1>8. ConvertsBacked'
  <2>1. ASSUME NEW q \in ReferralRequests, referral_requests'[q].pc = "convert"
        PROVE  /\ referral_requests'[q] = referral_requests[q] /\ referral_requests[q].slug \in Slugs
               /\ referral_requests[q].slug # s
    <3>1. referral_requests'[q] = referral_requests[q]
      BY <1>4, <2>1, IdleIsIdle
    <3> QED BY <1>1, <2>1, <3>1, ReferralInFlight DEF ReferralInv, ConvertsBacked
  <2> QED BY <1>4, <2>1 DEF ReferralInv, ConvertsBacked
<1>9. ProofsBacked'
  <2>1. ASSUME NEW q \in ReferralRequests, referral_requests'[q].pc \in {"update", "answer"}
        PROVE  /\ referral_requests'[q] = referral_requests[q] /\ referral_requests[q].slug \in Slugs
               /\ referral_requests[q].slug # s
    <3>1. referral_requests'[q] = referral_requests[q]
      BY <1>4, <2>1, IdleIsIdle
    <3> QED BY <1>1, <2>1, <3>1, ReferralInFlight DEF ReferralInv, ProofsBacked
  <2> QED BY <1>2, <1>4, <2>1 DEF ReferralInv, ProofsBacked, Conversion
<1>10. ReferralHistoryTyped'
  <2>1. \A i \in referral_issued : i.slug \in Slugs /\ i.slug # s
    BY <1>1 DEF ReferralInv, ReferralHistoryTyped
  <2> QED BY <1>2, <1>4, <2>1 DEF ReferralInv, ReferralHistoryTyped, Conversion
<1>11. LinksAlone'
  <2> SUFFICES ASSUME NEW k \in Pairs \ doubled'
               PROVE  /\ \A t, u \in LinksOf(k)' : t = u
                      /\ \A q, u \in Creating(k)' : q = u
                      /\ Creating(k)' # {} => LinksOf(k)' = {}
    BY DEF LinksAlone
  <2>1. k \in Pairs \ doubled
    BY <1>2
  <2>2. CASE k = p
    <3>1. r \in Creating(p) /\ LinksOf(p) = {} /\ \A q \in Creating(p) : q = r
      BY <1>1, <2>1, <2>2 DEF ReferralInv, LinksAlone, Creating
    <3>2. \A t \in LinksOf(k)' : t = s
      BY <1>4, <2>2, <3>1 DEF LinksOf
    <3>3. Creating(k)' = {}
      BY <1>4, <2>2, <3>1, IdleIsIdle DEF Creating
    <3> QED BY <3>2, <3>3
  <2>3. CASE k # p
    <3>1. LinksOf(k)' = LinksOf(k)
      BY <1>1, <1>3, <1>4, <2>3 DEF LinksOf
    <3>2. Creating(k)' = Creating(k)
      BY <1>1, <1>4, <2>3, IdleIsIdle DEF Creating
    <3> QED BY <2>1, <3>1, <3>2 DEF ReferralInv, LinksAlone
  <2> QED BY <2>2, <2>3
<1>12. \A t \in Slugs : \A pc \in {"convert", "update", "answer"} : About(t, pc)' = About(t, pc)
  BY <1>1, <1>4, IdleIsIdle DEF About
<1>13. \A t \in Slugs : \A q \in About(t, "update") \cup About(t, "answer") :
          referral_requests'[q] = referral_requests[q]
  BY <1>1, <1>4 DEF About
<1>14. ConversionsAlone'
  <2>1. \A t \in Slugs : About(t, "convert") # {} => referrals'[t] = referrals[t]
    BY <1>1, <1>4 DEF ReferralInv, ConvertsBacked, About
  <2> QED BY <1>2, <1>12, <2>1 DEF ReferralInv, ConversionsAlone
<1>15. ProofsMatch'
  <2>1. \A t \in Slugs : About(t, "update") \cup About(t, "answer") # {} => referrals'[t] = referrals[t]
    BY <1>1, <1>4 DEF ReferralInv, ProofsBacked, About
  <2>2. \A i \in referral_issued : i.slug \in Slugs /\ referrals'[i.slug] = referrals[i.slug]
    BY <1>1, <1>4 DEF ReferralInv, ReferralHistoryTyped
  <2> QED BY <1>2, <1>12, <1>13, <2>1, <2>2 DEF ReferralInv, ProofsMatch
<1>16. ReferralMarkIsTrue'
  <2> SUFFICES ASSUME NEW t \in Slugs \ (contested' \cup referral_spoiled'),
                      referrals'[t] # None, referrals'[t].proofIssued
               PROVE  LET wanted == [slug |-> t, pair |-> referrals'[t].pair,
                                     referee |-> referrals'[t].referee] IN
                      wanted \in referral_issued' \/ \E q \in About(t, "answer")' : Proof(q)' = wanted
    BY DEF ReferralMarkIsTrue
  <2> DEFINE wanted == [slug |-> t, pair |-> referrals[t].pair, referee |-> referrals[t].referee]
  <2>1. t # s /\ referrals'[t] = referrals[t]
    BY <1>3, <1>4
  <2>2. wanted \in referral_issued \/ \E q \in About(t, "answer") : Proof(q) = wanted
    BY <1>2, <2>1 DEF ReferralInv, ReferralMarkIsTrue
  <2>3. \A q \in About(t, "answer") : q \in About(t, "answer")' /\ Proof(q)' = Proof(q)
    BY <1>12, <1>13 DEF Proof
  <2> QED BY <1>2, <2>1, <2>2, <2>3
<1> QED BY <1>5, <1>6, <1>7, <1>8, <1>9, <1>10, <1>11, <1>14, <1>15, <1>16 DEF ReferralInv

LEMMA TrackReadsIInv ==
    ASSUME ReferralInv, NEW r \in ReferralRequests, NEW s \in Slugs,
           NEW account \in Accounts, TrackReads(r, s, account)
    PROVE  ReferralInv'
<1>1. /\ referral_requests[r] = Idle /\ referrals[s] # None /\ referrals[s].referee = None
      /\ ReferrerOf[referrals[s].pair] # account
      /\ referral_requests' = [referral_requests EXCEPT ![r] = [pc |-> "convert", slug |-> s, account |-> account]]
      /\ contested' = IF About(s, "convert") # {} THEN contested \cup {s} ELSE contested
      /\ UNCHANGED <<referrals, referral_issued, converted, doubled, referral_spoiled>>
  BY DEF TrackReads, Convertible
<1>2. /\ referral_requests'[r] = [pc |-> "convert", slug |-> s, account |-> account]
      /\ \A q \in ReferralRequests \ {r} : referral_requests'[q] = referral_requests[q]
  BY <1>1 DEF ReferralInv, ReferralDomains
<1>3. ReferralDomains' /\ ReferralRowsBacked' /\ ReferralHistoryTyped'
  BY <1>1 DEF ReferralInv, ReferralDomains, ReferralRowsBacked, ReferralHistoryTyped, Conversion
<1>4. RequestsTyped'
  BY <1>1, <1>2 DEF ReferralInv, RequestsTyped, Idle
<1>5. CreatesBacked' /\ ConvertsBacked' /\ ProofsBacked'
  BY <1>1, <1>2 DEF ReferralInv, CreatesBacked, ConvertsBacked, ProofsBacked, Conversion
<1>6. LinksAlone'
  <2>1. \A k \in Pairs : LinksOf(k)' = LinksOf(k) /\ Creating(k)' = Creating(k)
    BY <1>1, <1>2, IdleIsIdle DEF LinksOf, Creating
  <2> QED BY <1>1, <2>1 DEF ReferralInv, LinksAlone
<1>7. \A t \in Slugs : \A pc \in {"update", "answer"} : About(t, pc)' = About(t, pc)
  BY <1>1, <1>2, IdleIsIdle DEF About
<1>8. \A t \in Slugs : About(t, "convert")' \subseteq About(t, "convert") \cup {r}
  BY <1>2 DEF About
<1>9. \A t \in Slugs \ {s} : About(t, "convert")' = About(t, "convert")
  BY <1>1, <1>2, IdleIsIdle DEF About
<1>10. ConversionsAlone'
  <2> SUFFICES ASSUME NEW t \in Slugs \ contested'
               PROVE  /\ \A q, u \in About(t, "convert")' : q = u
                      /\ About(t, "convert")' # {} => referrals'[t].referee = None
    BY DEF ConversionsAlone
  <2>1. CASE t = s
    <3>1. About(s, "convert") = {}
      BY <1>1, <2>1
    <3> QED BY <1>1, <1>8, <2>1, <3>1
  <2>2. CASE t # s
    BY <1>1, <1>9, <2>2 DEF ReferralInv, ConversionsAlone
  <2> QED BY <2>1, <2>2
<1>11. ProofsMatch'
  <2>1. \A t \in Slugs : \A q \in About(t, "update") \cup About(t, "answer") :
           referral_requests'[q] = referral_requests[q]
    BY <1>1, <1>2, IdleIsIdle DEF About
  <2>2. \A t \in Slugs \ contested' : t \notin contested
    BY <1>1
  <2> QED BY <1>1, <1>7, <2>1, <2>2 DEF ReferralInv, ProofsMatch
<1>12. ReferralMarkIsTrue'
  BY <1>1, <1>2, IdleIsIdle, MarkStays DEF ReferralInv
<1> QED BY <1>3, <1>4, <1>5, <1>6, <1>10, <1>11, <1>12 DEF ReferralInv

(* referrals.service.ts:75-81.  If the link is not contested, it had no    *)
(* referee and hence no proof on its way.                                  *)
LEMMA TrackWritesIInv ==
    ASSUME ReferralInv, NEW r \in ReferralRequests, TrackWrites(r)
    PROVE  /\ ReferralInv'
           /\ UNCHANGED referral_issued
           /\ \E a \in {b \in [pair: Pairs, referee: Accounts] : b.referee # ReferrerOf[b.pair]} :
                 converted' = converted \cup {a}
<1> DEFINE s == referral_requests[r].slug
           account == referral_requests[r].account
           p == referrals[s].pair
<1>1. /\ referral_requests[r].pc = "convert" /\ referral_requests[r].slug = s /\ referral_requests[r].account = account
      /\ s \in Slugs /\ account \in Accounts
      /\ referrals[s] # None /\ ReferrerOf[p] # account /\ referrals[s].pair = p
  BY ReferralInFlight DEF TrackWrites, ReferralInv, ConvertsBacked
<1>2. /\ referrals' = [referrals EXCEPT ![s].referee = account]
      /\ converted' = converted \cup {Conversion(p, account)}
      /\ referral_requests' = [referral_requests EXCEPT ![r] = Idle]
      /\ UNCHANGED <<referral_issued, doubled, contested, referral_spoiled>>
  BY DEF TrackWrites, Conversion
<1> HIDE DEF s, account, p
<1>3. referrals[s] \in ReferralRow /\ p \in Pairs
  <2>1. referrals[s] \in ReferralRow
    BY <1>1 DEF ReferralInv, ReferralRowsBacked
  <2> QED BY <1>1, <2>1 DEF ReferralRow
<1>4. /\ referrals'[s] \in ReferralRow /\ referrals'[s] # None
      /\ referrals'[s].referee = account /\ referrals'[s].pair = p
      /\ referrals'[s].proofIssued = referrals[s].proofIssued
      /\ account # None
  <2>1. referrals'[s] = [referrals[s] EXCEPT !.referee = account]
    BY <1>1, <1>2 DEF ReferralInv, ReferralDomains
  <2>2. referrals'[s] \in ReferralRow /\ referrals'[s].referee = account /\ referrals'[s].pair = p
        /\ referrals'[s].proofIssued = referrals[s].proofIssued
    BY <1>1, <1>3, <2>1 DEF ReferralRow
  <2> QED BY <1>1, <2>2, ReferralNoneIsNoRow
<1>5. /\ \A t \in Slugs \ {s} : referrals'[t] = referrals[t]
      /\ referral_requests'[r] = Idle
      /\ \A q \in ReferralRequests \ {r} : referral_requests'[q] = referral_requests[q]
  BY <1>1, <1>2 DEF ReferralInv, ReferralDomains
<1>6. \A t \in Slugs : (referrals'[t] # None <=> referrals[t] # None)
                       /\ (referrals[t] # None => referrals'[t].pair = referrals[t].pair)
  BY <1>1, <1>4, <1>5
<1>7. /\ Conversion(p, account) \in {b \in [pair: Pairs, referee: Accounts] :
                                        b.referee # ReferrerOf[b.pair]}
      /\ Conversion(p, account) \in converted'
  <2>1. /\ Conversion(p, account).referee = account /\ Conversion(p, account).pair = p
        /\ Conversion(p, account) \in [pair: Pairs, referee: Accounts]
    BY <1>1, <1>3 DEF Conversion
  <2> QED BY <1>1, <1>2, <2>1
<1>8. ReferralDomains'
  BY <1>2 DEF ReferralInv, ReferralDomains
<1>9. ReferralRowsBacked'
  <2> SUFFICES ASSUME NEW t \in Slugs, referrals'[t] # None
               PROVE  /\ referrals'[t] \in ReferralRow
                      /\ referrals'[t].referee # None =>
                            Conversion(referrals'[t].pair, referrals'[t].referee) \in converted'
                      /\ referrals'[t].proofIssued => referrals'[t].referee # None
    BY DEF ReferralRowsBacked, Conversion
  <2>1. CASE t = s
    BY <1>4, <1>7, <2>1
  <2>2. CASE t # s
    BY <1>2, <1>5, <2>2 DEF ReferralInv, ReferralRowsBacked
  <2> QED BY <2>1, <2>2
<1>10. RequestsTyped'
  BY <1>5 DEF ReferralInv, RequestsTyped
<1>11. CreatesBacked'
  <2>1. ASSUME NEW q \in ReferralRequests, referral_requests'[q].pc = "create"
        PROVE  /\ referral_requests'[q] = referral_requests[q] /\ referral_requests[q].slug \in Slugs
    <3>1. referral_requests'[q] = referral_requests[q]
      BY <1>5, <2>1, IdleIsIdle
    <3> QED BY <2>1, <3>1, ReferralInFlight DEF ReferralInv
  <2> QED BY <1>6, <2>1 DEF ReferralInv, CreatesBacked
<1>12. ConvertsBacked'
  <2>1. ASSUME NEW q \in ReferralRequests, referral_requests'[q].pc = "convert"
        PROVE  /\ referral_requests'[q] = referral_requests[q] /\ referral_requests[q].slug \in Slugs
    <3>1. referral_requests'[q] = referral_requests[q]
      BY <1>5, <2>1, IdleIsIdle
    <3> QED BY <2>1, <3>1, ReferralInFlight DEF ReferralInv
  <2> QED BY <1>6, <2>1 DEF ReferralInv, ConvertsBacked
<1>13. ProofsBacked'
  <2> SUFFICES ASSUME NEW q \in ReferralRequests, referral_requests'[q].pc \in {"update", "answer"}
               PROVE  /\ referrals'[referral_requests'[q].slug] # None
                      /\ referrals'[referral_requests'[q].slug].pair = referral_requests'[q].pair
                      /\ referrals'[referral_requests'[q].slug].referee # None
                      /\ Conversion(referral_requests'[q].pair, referral_requests'[q].account) \in converted'
    BY DEF ProofsBacked, Conversion
  <2>1. referral_requests'[q] = referral_requests[q]
    BY <1>5, IdleIsIdle
  <2>2. referral_requests[q].slug \in Slugs
    BY <2>1, ReferralInFlight DEF ReferralInv
  <2>3. referrals[referral_requests[q].slug].referee # None => referrals'[referral_requests[q].slug].referee # None
    BY <1>4, <1>5, <2>2
  <2> QED BY <1>2, <1>6, <2>1, <2>2, <2>3 DEF ReferralInv, ProofsBacked
<1>14. ReferralHistoryTyped'
  <2>1. \A i \in referral_issued : i.slug \in Slugs
    BY DEF ReferralInv, ReferralHistoryTyped
  <2>2. \A i \in referral_issued : referrals'[i.slug] # None /\ referrals'[i.slug].pair = i.pair
    BY <1>6, <2>1 DEF ReferralInv, ReferralHistoryTyped
  <2>3. \A i \in referral_issued : Conversion(i.pair, i.referee) \in converted'
    BY <1>2 DEF ReferralInv, ReferralHistoryTyped
  <2>4. converted' \subseteq {b \in [pair: Pairs, referee: Accounts] :
                                b.referee # ReferrerOf[b.pair]}
    BY <1>2, <1>7 DEF ReferralInv, ReferralHistoryTyped
  <2> QED BY <1>2, <2>2, <2>3, <2>4 DEF ReferralInv, ReferralHistoryTyped, Conversion
<1>15. LinksAlone'
  <2>1. \A k \in Pairs : LinksOf(k)' = LinksOf(k)
    BY <1>6 DEF LinksOf
  <2>2. \A k \in Pairs : Creating(k)' = Creating(k)
    BY <1>1, <1>5, IdleIsIdle DEF Creating
  <2> QED BY <1>2, <2>1, <2>2 DEF ReferralInv, LinksAlone
<1>16. \A t \in Slugs : /\ \A pc \in {"update", "answer"} : About(t, pc)' = About(t, pc)
                        /\ About(t, "convert")' = About(t, "convert") \ {r}
  BY <1>1, <1>5, IdleIsIdle DEF About
<1>17. r \in About(s, "convert")
  BY <1>1 DEF About
<1>18. ConversionsAlone'
  <2> SUFFICES ASSUME NEW t \in Slugs \ contested
               PROVE  /\ \A q, u \in About(t, "convert")' : q = u
                      /\ About(t, "convert")' # {} => referrals'[t].referee = None
    BY <1>2 DEF ConversionsAlone
  <2>1. CASE t = s
    <3>1. About(t, "convert")' = {}
      BY <1>1, <1>16, <1>17, <2>1 DEF ReferralInv, ConversionsAlone
    <3> QED BY <3>1
  <2>2. CASE t # s
    BY <1>5, <1>16, <2>2 DEF ReferralInv, ConversionsAlone
  <2> QED BY <2>1, <2>2
<1>19. ASSUME s \notin contested
       PROVE  /\ About(s, "update") \cup About(s, "answer") = {}
              /\ \A i \in referral_issued : i.slug # s
              /\ ~referrals[s].proofIssued
  <2>1. referrals[s].referee = None
    BY <1>1, <1>17, <1>19 DEF ReferralInv, ConversionsAlone
  <2>2. About(s, "update") \cup About(s, "answer") = {}
    BY <2>1 DEF ReferralInv, ProofsBacked, About
  <2>3. ASSUME NEW i \in referral_issued PROVE i.slug # s
    <3>1. i.referee \in Accounts
      BY DEF ReferralInv, ReferralHistoryTyped
    <3>2. i.slug = s => referrals[s].referee = i.referee
      BY <1>1, <1>19 DEF ReferralInv, ProofsMatch
    <3> QED BY <2>1, <3>1, <3>2, ReferralNoneIsNoRow
  <2>4. ~referrals[s].proofIssued
    BY <1>1, <2>1 DEF ReferralInv, ReferralRowsBacked
  <2> QED BY <2>2, <2>3, <2>4
<1>20. ProofsMatch'
  <2>1. \A t \in Slugs : \A q \in About(t, "update") \cup About(t, "answer") :
           referral_requests'[q] = referral_requests[q]
    BY <1>1, <1>5 DEF About
  <2>2. ASSUME NEW t \in Slugs \ contested
        PROVE  /\ \A q \in About(t, "update")' \cup About(t, "answer")' :
                     referrals'[t].referee = referral_requests'[q].account
               /\ \A i \in referral_issued' : i.slug = t => referrals'[t].referee = i.referee
    <3>1. CASE t = s
      BY <1>2, <1>16, <1>19, <3>1
    <3>2. CASE t # s
      BY <1>2, <1>5, <1>16, <2>1, <3>2 DEF ReferralInv, ProofsMatch
    <3> QED BY <3>1, <3>2
  <2> QED BY <1>2, <2>2 DEF ProofsMatch
<1>21. ReferralMarkIsTrue'
  <2> SUFFICES ASSUME NEW t \in Slugs \ (contested' \cup referral_spoiled'),
                      referrals'[t] # None, referrals'[t].proofIssued
               PROVE  LET wanted == [slug |-> t, pair |-> referrals'[t].pair,
                                     referee |-> referrals'[t].referee] IN
                      wanted \in referral_issued' \/ \E q \in About(t, "answer")' : Proof(q)' = wanted
    BY DEF ReferralMarkIsTrue
  <2> DEFINE wanted == [slug |-> t, pair |-> referrals[t].pair, referee |-> referrals[t].referee]
  <2>1. t # s /\ referrals'[t] = referrals[t]
    BY <1>2, <1>4, <1>5, <1>19
  <2>2. wanted \in referral_issued \/ \E q \in About(t, "answer") : Proof(q) = wanted
    BY <1>2, <2>1 DEF ReferralInv, ReferralMarkIsTrue
  <2>3. \A q \in About(t, "answer") : q \in About(t, "answer")' /\ Proof(q)' = Proof(q)
    BY <1>1, <1>5, <1>16 DEF Proof, About
  <2> QED BY <1>2, <2>1, <2>2, <2>3
<1>22. ReferralInv'
  BY <1>8, <1>9, <1>10, <1>11, <1>12, <1>13, <1>14, <1>15, <1>18, <1>20, <1>21 DEF ReferralInv
<1> QED BY <1>2, <1>7, <1>22

-----------------------------------------------------------------------------
LEMMA ProofReadsIInv ==
    ASSUME ReferralInv, NEW r \in ReferralRequests, NEW p \in Pairs, ReferralProofReads(r, p)
    PROVE  ReferralInv'
<1>1. PICK s \in Found(p) :
         /\ ~referrals[s].proofIssued
         /\ referral_requests' = [referral_requests EXCEPT ![r] =
                [pc |-> "update", slug |-> s, pair |-> p, account |-> referrals[s].referee]]
  BY DEF ReferralProofReads
<1>2. referral_requests[r] = Idle /\ UNCHANGED <<referrals, referral_issued, converted, doubled, contested, referral_spoiled>>
  BY DEF ReferralProofReads, referral_history
<1>3. s \in Slugs /\ referrals[s] # None /\ referrals[s].pair = p /\ referrals[s].referee # None
  BY <1>1 DEF Found, LinksOf
<1>4. referrals[s].referee \in Accounts /\ Conversion(p, referrals[s].referee) \in converted
  <2>1. referrals[s] \in ReferralRow /\ Conversion(p, referrals[s].referee) \in converted
    BY <1>3 DEF ReferralInv, ReferralRowsBacked
  <2> QED BY <1>3, <2>1 DEF ReferralRow
<1>5. /\ referral_requests'[r] = [pc |-> "update", slug |-> s, pair |-> p, account |-> referrals[s].referee]
      /\ \A q \in ReferralRequests \ {r} : referral_requests'[q] = referral_requests[q]
  BY <1>1 DEF ReferralInv, ReferralDomains
<1>6. ReferralDomains' /\ ReferralRowsBacked' /\ ReferralHistoryTyped'
  BY <1>1, <1>2 DEF ReferralInv, ReferralDomains, ReferralRowsBacked, ReferralHistoryTyped, Conversion
<1>7. RequestsTyped'
  BY <1>3, <1>4, <1>5 DEF ReferralInv, RequestsTyped, Idle
<1>8. CreatesBacked' /\ ConvertsBacked'
  BY <1>2, <1>5 DEF ReferralInv, CreatesBacked, ConvertsBacked
<1>9. ProofsBacked'
  BY <1>2, <1>3, <1>4, <1>5 DEF ReferralInv, ProofsBacked, Conversion
<1>10. LinksAlone'
  <2>1. \A k \in Pairs : LinksOf(k)' = LinksOf(k) /\ Creating(k)' = Creating(k)
    BY <1>2, <1>5, IdleIsIdle DEF LinksOf, Creating
  <2> QED BY <1>2, <2>1 DEF ReferralInv, LinksAlone
<1>11. ConversionsAlone'
  <2>1. \A t \in Slugs : About(t, "convert")' = About(t, "convert")
    BY <1>2, <1>5, IdleIsIdle DEF About
  <2> QED BY <1>2, <2>1 DEF ReferralInv, ConversionsAlone
<1>12. ProofsMatch'
  <2>1. ASSUME NEW t \in Slugs \ contested, NEW q \in About(t, "update")' \cup About(t, "answer")'
        PROVE  referrals[t].referee = referral_requests'[q].account
    <3>1. CASE q = r
      BY <1>5, <2>1, <3>1 DEF About
    <3>2. CASE q # r
      BY <1>5, <2>1, <3>2 DEF ReferralInv, ProofsMatch, About
    <3> QED BY <3>1, <3>2
  <2> QED BY <1>2, <2>1 DEF ReferralInv, ProofsMatch
<1>13. ReferralMarkIsTrue'
  BY <1>2, <1>5, IdleIsIdle, MarkStays DEF ReferralInv
<1> QED BY <1>6, <1>7, <1>8, <1>9, <1>10, <1>11, <1>12, <1>13 DEF ReferralInv

(* referrals.service.ts:131-134.  The row that is marked is the one the    *)
(* proof was made of: links change neither their slug nor their pair.      *)
LEMMA ProofMarksIInv ==
    ASSUME ReferralInv, NEW r \in ReferralRequests, ReferralProofMarks(r)
    PROVE  ReferralInv'
<1> DEFINE s == referral_requests[r].slug
           p == referral_requests[r].pair
           account == referral_requests[r].account
<1>1. /\ referral_requests[r] = [pc |-> "update", slug |-> s, pair |-> p, account |-> account]
      /\ s \in Slugs /\ p \in Pairs /\ account \in Accounts
      /\ referrals[s] # None /\ referrals[s].pair = p /\ referrals[s].referee # None
      /\ Conversion(p, account) \in converted
  BY ReferralInFlight DEF ReferralProofMarks, ReferralInv, ProofsBacked
<1>2. /\ referrals' = [referrals EXCEPT ![s].proofIssued = TRUE]
      /\ referral_requests' = [referral_requests EXCEPT ![r] =
             [pc |-> "answer", slug |-> s, pair |-> p, account |-> account]]
      /\ UNCHANGED <<referral_issued, converted, doubled, contested, referral_spoiled>>
  <2>1. [referral_requests[r] EXCEPT !.pc = "answer"]
            = [pc |-> "answer", slug |-> s, pair |-> p, account |-> account]
    BY <1>1
  <2> QED BY <2>1 DEF ReferralProofMarks, Marked, referral_history
<1> HIDE DEF s, p, account
<1>3. referrals[s] \in ReferralRow
  BY <1>1 DEF ReferralInv, ReferralRowsBacked
<1>4. /\ referrals'[s] \in ReferralRow /\ referrals'[s] # None /\ referrals'[s].proofIssued
      /\ referrals'[s].referee = referrals[s].referee /\ referrals'[s].pair = referrals[s].pair
  <2>1. referrals'[s] = [referrals[s] EXCEPT !.proofIssued = TRUE]
    BY <1>1, <1>2 DEF ReferralInv, ReferralDomains
  <2>2. referrals'[s] \in ReferralRow /\ referrals'[s].proofIssued
        /\ referrals'[s].referee = referrals[s].referee /\ referrals'[s].pair = referrals[s].pair
    BY <1>3, <2>1 DEF ReferralRow
  <2> QED BY <2>2, ReferralNoneIsNoRow
<1>5. /\ \A t \in Slugs \ {s} : referrals'[t] = referrals[t]
      /\ \A q \in ReferralRequests \ {r} : referral_requests'[q] = referral_requests[q]
      /\ referral_requests'[r] = [pc |-> "answer", slug |-> s, pair |-> p, account |-> account]
  BY <1>1, <1>2 DEF ReferralInv, ReferralDomains
<1>6. \A t \in Slugs : /\ referrals'[t] # None <=> referrals[t] # None
                       /\ referrals[t] # None => /\ referrals'[t].pair = referrals[t].pair
                                            /\ referrals'[t].referee = referrals[t].referee
  BY <1>1, <1>4, <1>5
<1>7. ReferralDomains' /\ RequestsTyped'
  BY <1>1, <1>2, <1>5 DEF ReferralInv, ReferralDomains, RequestsTyped
<1>8. ReferralRowsBacked'
  <2> SUFFICES ASSUME NEW t \in Slugs, referrals'[t] # None
               PROVE  /\ referrals'[t] \in ReferralRow
                      /\ referrals'[t].referee # None =>
                            Conversion(referrals'[t].pair, referrals'[t].referee) \in converted'
                      /\ referrals'[t].proofIssued => referrals'[t].referee # None
    BY DEF ReferralRowsBacked, Conversion
  <2>1. CASE t = s
    BY <1>1, <1>2, <1>4, <2>1 DEF ReferralInv, ReferralRowsBacked
  <2>2. CASE t # s
    BY <1>2, <1>5, <2>2 DEF ReferralInv, ReferralRowsBacked
  <2> QED BY <2>1, <2>2
<1>9. CreatesBacked'
  <2>1. ASSUME NEW q \in ReferralRequests, referral_requests'[q].pc = "create"
        PROVE  referral_requests'[q] = referral_requests[q] /\ referral_requests[q].slug \in Slugs
    <3>1. referral_requests'[q] = referral_requests[q]
      BY <1>5, <2>1
    <3> QED BY <2>1, <3>1, ReferralInFlight DEF ReferralInv
  <2> QED BY <1>6, <2>1 DEF ReferralInv, CreatesBacked
<1>10. ConvertsBacked'
  <2>1. ASSUME NEW q \in ReferralRequests, referral_requests'[q].pc = "convert"
        PROVE  referral_requests'[q] = referral_requests[q] /\ referral_requests[q].slug \in Slugs
    <3>1. referral_requests'[q] = referral_requests[q]
      BY <1>5, <2>1
    <3> QED BY <2>1, <3>1, ReferralInFlight DEF ReferralInv
  <2> QED BY <1>6, <2>1 DEF ReferralInv, ConvertsBacked
<1>11. ProofsBacked'
  <2> SUFFICES ASSUME NEW q \in ReferralRequests, referral_requests'[q].pc \in {"update", "answer"}
               PROVE  /\ referrals'[referral_requests'[q].slug] # None
                      /\ referrals'[referral_requests'[q].slug].pair = referral_requests'[q].pair
                      /\ referrals'[referral_requests'[q].slug].referee # None
                      /\ Conversion(referral_requests'[q].pair, referral_requests'[q].account) \in converted'
    BY DEF ProofsBacked, Conversion
  <2>1. CASE q = r
    BY <1>1, <1>2, <1>4, <1>5, <2>1
  <2>2. CASE q # r
    <3>1. referral_requests'[q] = referral_requests[q] /\ referral_requests[q].slug \in Slugs
      BY <1>5, <2>2, ReferralInFlight DEF ReferralInv
    <3> QED BY <1>2, <1>6, <3>1 DEF ReferralInv, ProofsBacked
  <2> QED BY <2>1, <2>2
<1>12. ReferralHistoryTyped'
  <2>1. \A i \in referral_issued : i.slug \in Slugs
    BY DEF ReferralInv, ReferralHistoryTyped
  <2> QED BY <1>2, <1>6, <2>1 DEF ReferralInv, ReferralHistoryTyped, Conversion
<1>13. LinksAlone'
  <2>1. \A k \in Pairs : LinksOf(k)' = LinksOf(k)
    BY <1>6 DEF LinksOf
  <2>2. \A k \in Pairs : Creating(k)' = Creating(k)
    BY <1>1, <1>5 DEF Creating
  <2> QED BY <1>2, <2>1, <2>2 DEF ReferralInv, LinksAlone
<1>14. ConversionsAlone'
  <2>1. \A t \in Slugs : About(t, "convert")' = About(t, "convert")
    BY <1>1, <1>5 DEF About
  <2>2. \A t \in Slugs : About(t, "convert") # {} => referrals[t] # None
    BY DEF ReferralInv, ConvertsBacked, About
  <2> QED BY <1>2, <1>6, <2>1, <2>2 DEF ReferralInv, ConversionsAlone
<1>15. \A t \in Slugs : \A q \in About(t, "update")' \cup About(t, "answer")' :
          /\ q \in About(t, "update") \cup About(t, "answer")
          /\ referral_requests'[q].account = referral_requests[q].account
          /\ referrals[t] # None
  <2> SUFFICES ASSUME NEW t \in Slugs, NEW q \in About(t, "update")' \cup About(t, "answer")'
               PROVE  /\ q \in About(t, "update") \cup About(t, "answer")
                      /\ referral_requests'[q].account = referral_requests[q].account
                      /\ referrals[t] # None
    OBVIOUS
  <2>1. CASE q = r
    BY <1>1, <1>5, <2>1 DEF About
  <2>2. CASE q # r
    BY <1>5, <2>2 DEF About, ReferralInv, ProofsBacked
  <2> QED BY <2>1, <2>2
<1>16. ProofsMatch'
  <2>1. \A i \in referral_issued : i.slug \in Slugs /\ referrals[i.slug] # None
    BY DEF ReferralInv, ReferralHistoryTyped
  <2> QED BY <1>2, <1>6, <1>15, <2>1 DEF ReferralInv, ProofsMatch
<1>17. ReferralMarkIsTrue'
  <2> SUFFICES ASSUME NEW t \in Slugs \ (contested' \cup referral_spoiled'),
                      referrals'[t] # None, referrals'[t].proofIssued
               PROVE  LET wanted == [slug |-> t, pair |-> referrals'[t].pair,
                                     referee |-> referrals'[t].referee] IN
                      wanted \in referral_issued' \/ \E q \in About(t, "answer")' : Proof(q)' = wanted
    BY DEF ReferralMarkIsTrue
  <2> DEFINE wanted == [slug |-> t, pair |-> referrals[t].pair, referee |-> referrals[t].referee]
  <2>1. referrals'[t].pair = referrals[t].pair /\ referrals'[t].referee = referrals[t].referee /\ referrals[t] # None
    BY <1>6
  <2>2. CASE t = s
    <3>1. r \in About(t, "answer")' /\ Proof(r)' = [slug |-> s, pair |-> p, referee |-> account]
      BY <1>5, <2>2 DEF About, Proof
    <3>2. referrals[t].referee = account
      BY <1>1, <1>2, <2>2 DEF ReferralInv, ProofsMatch, About
    <3> QED BY <1>1, <2>1, <2>2, <3>1, <3>2
  <2>3. CASE t # s
    <3>1. wanted \in referral_issued \/ \E q \in About(t, "answer") : Proof(q) = wanted
      BY <1>2, <1>5, <2>1, <2>3 DEF ReferralInv, ReferralMarkIsTrue
    <3>2. \A q \in About(t, "answer") : q \in About(t, "answer")' /\ Proof(q)' = Proof(q)
      BY <1>1, <1>5 DEF About, Proof
    <3> QED BY <1>2, <2>1, <3>1, <3>2
  <2> QED BY <2>2, <2>3
<1> QED BY <1>7, <1>8, <1>9, <1>10, <1>11, <1>12, <1>13, <1>14, <1>16, <1>17 DEF ReferralInv

LEMMA ProofAnswersIInv ==
    ASSUME ReferralInv, NEW r \in ReferralRequests, ReferralProofAnswers(r)
    PROVE  /\ ReferralInv'
           /\ UNCHANGED converted
           /\ referral_issued' = referral_issued \cup {Proof(r)}
           /\ Conversion(Proof(r).pair, Proof(r).referee) \in converted
<1> DEFINE s == referral_requests[r].slug
           p == referral_requests[r].pair
           account == referral_requests[r].account
<1>1. /\ referral_requests[r] = [pc |-> "answer", slug |-> s, pair |-> p, account |-> account]
      /\ s \in Slugs /\ p \in Pairs /\ account \in Accounts
      /\ referrals[s] # None /\ referrals[s].pair = p
      /\ Conversion(p, account) \in converted
      /\ Proof(r) = [slug |-> s, pair |-> p, referee |-> account]
  BY ReferralInFlight DEF ReferralProofAnswers, ReferralInv, ProofsBacked, Proof
<1>2. /\ referral_issued' = referral_issued \cup {Proof(r)}
      /\ referral_requests' = [referral_requests EXCEPT ![r] = Idle]
      /\ UNCHANGED <<referrals, converted, doubled, contested, referral_spoiled>>
  BY DEF ReferralProofAnswers, referral_history
<1> DEFINE proof == Proof(r)
<1>3. /\ proof \in [slug: Slugs, pair: Pairs, referee: Accounts]
      /\ proof.slug = s /\ proof.pair = p /\ proof.referee = account
      /\ referral_issued' = referral_issued \cup {proof}
  BY <1>1, <1>2
<1> HIDE DEF s, p, account, proof
<1>4. /\ referral_requests'[r] = Idle
      /\ \A q \in ReferralRequests \ {r} : referral_requests'[q] = referral_requests[q]
  BY <1>2 DEF ReferralInv, ReferralDomains
<1>5. ReferralDomains' /\ ReferralRowsBacked' /\ RequestsTyped'
  BY <1>2, <1>4 DEF ReferralInv, ReferralDomains, ReferralRowsBacked, RequestsTyped, Conversion
<1>6. CreatesBacked' /\ ConvertsBacked' /\ ProofsBacked'
  BY <1>2, <1>4, IdleIsIdle DEF ReferralInv, CreatesBacked, ConvertsBacked, ProofsBacked, Conversion
<1>7. ReferralHistoryTyped'
  BY <1>1, <1>2, <1>3 DEF ReferralInv, ReferralHistoryTyped, Conversion
<1>8. LinksAlone'
  <2>1. \A k \in Pairs : LinksOf(k)' = LinksOf(k) /\ Creating(k)' = Creating(k)
    BY <1>1, <1>2, <1>4, IdleIsIdle DEF LinksOf, Creating
  <2> QED BY <1>2, <2>1 DEF ReferralInv, LinksAlone
<1>9. ConversionsAlone'
  <2>1. \A t \in Slugs : About(t, "convert")' = About(t, "convert")
    BY <1>1, <1>4, IdleIsIdle DEF About
  <2> QED BY <1>2, <2>1 DEF ReferralInv, ConversionsAlone
<1>10. ProofsMatch'
  <2>1. \A t \in Slugs : \A q \in About(t, "update")' \cup About(t, "answer")' :
           q \in About(t, "update") \cup About(t, "answer") /\ referral_requests'[q] = referral_requests[q]
    BY <1>4, IdleIsIdle DEF About
  <2>2. s \notin contested => referrals[s].referee = account
    <3>1. r \in About(s, "answer") /\ referral_requests[r].account = account
      BY <1>1 DEF About
    <3> QED BY <1>1, <3>1 DEF ReferralInv, ProofsMatch
  <2> QED BY <1>2, <1>3, <2>1, <2>2 DEF ReferralInv, ProofsMatch
<1>11. ReferralMarkIsTrue'
  <2> SUFFICES ASSUME NEW t \in Slugs \ (contested' \cup referral_spoiled'),
                      referrals'[t] # None, referrals'[t].proofIssued
               PROVE  LET wanted == [slug |-> t, pair |-> referrals'[t].pair,
                                     referee |-> referrals'[t].referee] IN
                      wanted \in referral_issued' \/ \E q \in About(t, "answer")' : Proof(q)' = wanted
    BY DEF ReferralMarkIsTrue
  <2> DEFINE wanted == [slug |-> t, pair |-> referrals[t].pair, referee |-> referrals[t].referee]
  <2>1. wanted \in referral_issued \/ \E q \in About(t, "answer") : Proof(q) = wanted
    BY <1>2 DEF ReferralInv, ReferralMarkIsTrue
  <2>2. \A q \in About(t, "answer") \ {r} : q \in About(t, "answer")' /\ Proof(q)' = Proof(q)
    BY <1>4 DEF About, Proof
  <2> QED BY <1>2, <2>1, <2>2
<1>12. ReferralInv'
  BY <1>5, <1>6, <1>7, <1>8, <1>9, <1>10, <1>11 DEF ReferralInv
<1>13. Conversion(Proof(r).pair, Proof(r).referee) \in converted
  BY <1>1
<1> QED BY <1>2, <1>12, <1>13

LEMMA ReferralFailsIInv ==
    ASSUME ReferralInv, NEW r \in ReferralRequests, ReferralRequestFails(r)
    PROVE  ReferralInv'
<1>1. /\ referral_requests[r].pc \in {"create", "convert", "update"}
      /\ referral_requests' = [referral_requests EXCEPT ![r] = Idle]
      /\ UNCHANGED <<referrals, referral_issued, converted, doubled, contested, referral_spoiled>>
  BY DEF ReferralRequestFails, referral_history
<1>2. referral_requests'[r] = Idle /\ \A q \in ReferralRequests \ {r} : referral_requests'[q] = referral_requests[q]
  BY <1>1 DEF ReferralInv, ReferralDomains
<1>3. ReferralDomains' /\ ReferralRowsBacked' /\ RequestsTyped' /\ ReferralHistoryTyped'
  BY <1>1, <1>2 DEF ReferralInv, ReferralDomains, ReferralRowsBacked, RequestsTyped, ReferralHistoryTyped, Conversion
<1>4. CreatesBacked' /\ ConvertsBacked' /\ ProofsBacked'
  BY <1>1, <1>2, IdleIsIdle DEF ReferralInv, CreatesBacked, ConvertsBacked, ProofsBacked, Conversion
<1>5. LinksAlone'
  <2>1. \A k \in Pairs : LinksOf(k)' = LinksOf(k) /\ Creating(k)' \subseteq Creating(k)
    BY <1>1, <1>2, IdleIsIdle DEF LinksOf, Creating
  <2> QED BY <1>1, <2>1 DEF ReferralInv, LinksAlone
<1>6. \A t \in Slugs : \A pc \in {"convert", "update", "answer"} :
         \A q \in About(t, pc)' : q \in About(t, pc) /\ referral_requests'[q] = referral_requests[q]
  BY <1>2, IdleIsIdle DEF About
<1>7. ConversionsAlone' /\ ProofsMatch'
  BY <1>1, <1>6 DEF ReferralInv, ConversionsAlone, ProofsMatch
<1>8. ReferralMarkIsTrue'
  BY <1>1, <1>2, MarkStays DEF ReferralInv
<1> QED BY <1>3, <1>4, <1>5, <1>7, <1>8 DEF ReferralInv

LEMMA ReferralCrashIInv == ReferralInv /\ ReferralCrash => ReferralInv'
<1> SUFFICES ASSUME ReferralInv, ReferralCrash PROVE ReferralInv'
  OBVIOUS
<1>1. \A r \in ReferralRequests : referral_requests'[r] = Idle
  BY DEF ReferralCrash
<1>2. ReferralDomains' /\ ReferralRowsBacked' /\ RequestsTyped' /\ ReferralHistoryTyped'
  BY DEF ReferralInv, ReferralDomains, ReferralRowsBacked, RequestsTyped, ReferralHistoryTyped, Conversion, ReferralCrash
<1>3. CreatesBacked' /\ ConvertsBacked' /\ ProofsBacked'
  BY <1>1, IdleIsIdle DEF CreatesBacked, ConvertsBacked, ProofsBacked
<1>4. LinksAlone'
  <2>1. \A k \in Pairs : LinksOf(k)' = LinksOf(k) /\ Creating(k)' = {}
    BY <1>1, IdleIsIdle DEF LinksOf, Creating, ReferralCrash
  <2> QED BY <2>1 DEF ReferralInv, LinksAlone, ReferralCrash
<1>5. \A t \in Slugs : \A pc \in {"convert", "update", "answer"} : About(t, pc)' = {}
  BY <1>1, IdleIsIdle DEF About
<1>6. ConversionsAlone' /\ ProofsMatch'
  BY <1>5 DEF ReferralInv, ConversionsAlone, ProofsMatch, ReferralCrash
<1>7. ReferralMarkIsTrue'
  <2> SUFFICES ASSUME NEW t \in Slugs \ (contested' \cup referral_spoiled'), referrals[t] # None,
                      referrals[t].proofIssued
               PROVE  [slug |-> t, pair |-> referrals[t].pair, referee |-> referrals[t].referee] \in referral_issued
    BY DEF ReferralMarkIsTrue, ReferralCrash
  <2>1. About(t, "answer") = {} /\ t \notin contested /\ t \notin referral_spoiled
    BY DEF ReferralCrash
  <2> QED BY <2>1 DEF ReferralInv, ReferralMarkIsTrue
<1> QED BY <1>2, <1>3, <1>4, <1>6, <1>7 DEF ReferralInv

LEMMA ReferralNextIInv == ReferralInv /\ [ReferralNext]_referral_vars => ReferralInv'
<1> SUFFICES ASSUME ReferralInv, [ReferralNext]_referral_vars PROVE ReferralInv'
  OBVIOUS
<1>1. CASE ReferralCrash
  BY <1>1, ReferralCrashIInv
<1>2. ASSUME NEW r \in ReferralRequests, NEW p \in Pairs, NEW s \in Slugs, LinkReads(r, p, s)
      PROVE  ReferralInv'
  BY <1>2, LinkReadsIInv
<1>3. ASSUME NEW r \in ReferralRequests, LinkCreates(r) PROVE ReferralInv'
  BY <1>3, LinkCreatesIInv
<1>4. ASSUME NEW r \in ReferralRequests, NEW s \in Slugs, NEW account \in Accounts,
             TrackReads(r, s, account)
      PROVE  ReferralInv'
  BY <1>4, TrackReadsIInv
<1>5. ASSUME NEW r \in ReferralRequests, TrackWrites(r) PROVE ReferralInv'
  BY <1>5, TrackWritesIInv
<1>6. ASSUME NEW r \in ReferralRequests, NEW p \in Pairs, ReferralProofReads(r, p) PROVE ReferralInv'
  BY <1>6, ProofReadsIInv
<1>7. ASSUME NEW r \in ReferralRequests, ReferralProofMarks(r) PROVE ReferralInv'
  BY <1>7, ProofMarksIInv
<1>8. ASSUME NEW r \in ReferralRequests, ReferralProofAnswers(r) PROVE ReferralInv'
  BY <1>8, ProofAnswersIInv
<1>9. ASSUME NEW r \in ReferralRequests, ReferralRequestFails(r) PROVE ReferralInv'
  BY <1>9, ReferralFailsIInv
<1>10. CASE UNCHANGED referral_vars
  <2>1. UNCHANGED <<referrals, referral_requests, referral_issued, converted, doubled, contested, referral_spoiled>>
    BY <1>10 DEF referral_vars, referral_history
  <2>2. ReferralDomains' /\ ReferralRowsBacked' /\ RequestsTyped' /\ ReferralHistoryTyped'
    BY <2>1 DEF ReferralInv, ReferralDomains, ReferralRowsBacked, RequestsTyped, ReferralHistoryTyped, Conversion
  <2>3. CreatesBacked' /\ ConvertsBacked' /\ ProofsBacked'
    BY <2>1 DEF ReferralInv, CreatesBacked, ConvertsBacked, ProofsBacked, Conversion
  <2>4. LinksAlone' /\ ConversionsAlone' /\ ProofsMatch'
    BY <2>1 DEF ReferralInv, LinksAlone, LinksOf, Creating, ConversionsAlone, ProofsMatch, About
  <2>5. ReferralMarkIsTrue'
    BY <2>1 DEF ReferralInv, ReferralMarkIsTrue, About, Proof
  <2> QED BY <2>2, <2>3, <2>4, <2>5 DEF ReferralInv
<1> QED BY <1>1, <1>2, <1>3, <1>4, <1>5, <1>6, <1>7, <1>8, <1>9, <1>10 DEF ReferralNext, ReferralRuns

THEOREM ReferralInvariance == ReferralSpec => []ReferralInv
<1>1. ReferralInv /\ [ReferralNext]_referral_vars => ReferralInv'
  BY ReferralNextIInv
<1> QED BY <1>1, ReferralInitIInv, PTL DEF ReferralSpec

(* Type correctness: the Referral table and the requests of                *)
(* referrals.service.ts keep their shapes.                                 *)
THEOREM ReferralTypeCorrect == ReferralSpec => []ReferralTypeOK
<1>1. ReferralInv => ReferralTypeOK
  <2> SUFFICES ASSUME ReferralInv PROVE ReferralTypeOK
    OBVIOUS
  <2>1. referrals \in [Slugs -> ReferralRow \cup {None}]
    BY DEF ReferralInv, ReferralDomains, ReferralRowsBacked
  <2>2. converted \subseteq [pair: Pairs, referee: Accounts]
    BY DEF ReferralInv, ReferralHistoryTyped
  <2> QED BY <2>1, <2>2 DEF ReferralInv, RequestsTyped, ReferralHistoryTyped, ReferralTypeOK
<1> QED BY <1>1, ReferralInvariance, PTL

(* referrals.service.ts:35-50.  An earner has at most one link of a        *)
(* campaign, unless two of its requests looked for one before either had   *)
(* created it.                                                             *)
THEOREM OneLink == ReferralSpec => []OneLinkPerPair
<1>1. ReferralInv => OneLinkPerPair
  <2> SUFFICES ASSUME ReferralInv, NEW p \in Pairs \ doubled PROVE Cardinality(LinksOf(p)) <= 1
    BY DEF OneLinkPerPair
  <2>1. \A s, t \in LinksOf(p) : s = t
    BY DEF ReferralInv, LinksAlone
  <2>2. CASE LinksOf(p) = {}
    BY <2>2, FS_EmptySet
  <2>3. ASSUME NEW s \in LinksOf(p) PROVE Cardinality(LinksOf(p)) <= 1
    <3>1. LinksOf(p) = {s}
      BY <2>1
    <3>2. Cardinality({s}) = 1
      BY FS_Singleton
    <3> QED BY <3>1, <3>2
  <2> QED BY <2>2, <2>3
<1> QED BY <1>1, ReferralInvariance, PTL

(* referrals.service.ts:67-81.  A stored conversion is final and worth one *)
(* proof, unless two conversions of the link were in flight together.      *)
THEOREM ConversionsFinal == ReferralSpec => []ConversionIsFinal
<1>1. ReferralInv => ConversionIsFinal
  <2> SUFFICES ASSUME ReferralInv PROVE ConversionIsFinal
    OBVIOUS
  <2>1. ASSUME NEW i \in referral_issued, i.slug \notin contested
        PROVE  referrals[i.slug].referee = i.referee
    BY <2>1 DEF ReferralInv, ReferralHistoryTyped, ProofsMatch
  <2>2. ASSUME NEW i \in referral_issued, NEW j \in referral_issued, i.slug = j.slug, i.slug \notin contested
        PROVE  i = j
    <3>1. i.referee = j.referee /\ i.pair = j.pair
      BY <2>1, <2>2 DEF ReferralInv, ReferralHistoryTyped
    <3>2. i \in [slug: Slugs, pair: Pairs, referee: Accounts]
          /\ j \in [slug: Slugs, pair: Pairs, referee: Accounts]
      BY DEF ReferralInv, ReferralHistoryTyped
    <3> QED BY <2>2, <3>1, <3>2
  <2> QED BY <2>1, <2>2 DEF ConversionIsFinal
<1> QED BY <1>1, ReferralInvariance, PTL

(* referrals.service.ts:108.  The mark "proof already issued" is set only  *)
(* for a proof that was handed out or is about to be, unless it was lost   *)
(* in a crash or its referee was overwritten.                              *)
THEOREM ReferralMarkTrue == ReferralSpec => []ReferralMarkIsTrue
<1>1. ReferralInv => ReferralMarkIsTrue
  BY DEF ReferralInv
<1> QED BY <1>1, ReferralInvariance, PTL

-----------------------------------------------------------------------------
(* The actions a proof was handed out for. *)
ReferralActions == {a \in [pair: Pairs, referee: Accounts] : a.referee # ReferrerOf[a.pair]}
Proven  == {Conversion(i.pair, i.referee) : i \in referral_issued}

LEMMA ReferralNextIssuance ==
    ReferralInv /\ [ReferralNext]_referral_vars => [ReferralPromise!Next]_(ReferralPromise!vars)
<1> SUFFICES ASSUME ReferralInv, [ReferralNext]_referral_vars
             PROVE  \/ UNCHANGED <<converted, Proven>>
                    \/ \E a \in ReferralActions : ReferralPromise!Earn(a) \/ ReferralPromise!Issue(a)
  BY DEF ReferralPromise!Next, ReferralPromise!vars, Proven, ReferralActions, Conversion
<1>1. ASSUME UNCHANGED <<converted, referral_issued>> PROVE UNCHANGED <<converted, Proven>>
  BY <1>1 DEF Proven, Conversion
<1>2. ASSUME NEW r \in ReferralRequests, TrackWrites(r)
      PROVE  \/ UNCHANGED <<converted, Proven>>
             \/ \E a \in ReferralActions : ReferralPromise!Earn(a)
  <2>1. PICK a \in ReferralActions : converted' = converted \cup {a}
    BY <1>2, TrackWritesIInv DEF ReferralActions
  <2>2. UNCHANGED referral_issued
    BY <1>2, TrackWritesIInv
  <2>3. CASE a \in converted
    BY <1>1, <2>1, <2>2, <2>3
  <2>4. CASE a \notin converted
    <3>1. ReferralPromise!Earn(a)
      BY <2>1, <2>2, <2>4 DEF ReferralPromise!Earn
    <3> QED BY <3>1
  <2> QED BY <2>3, <2>4
<1>3. ASSUME NEW r \in ReferralRequests, ReferralProofAnswers(r)
      PROVE  \/ UNCHANGED <<converted, Proven>>
             \/ \E a \in ReferralActions : ReferralPromise!Issue(a)
  <2> DEFINE proof == Proof(r)
             a == Conversion(proof.pair, proof.referee)
  <2>1. UNCHANGED converted /\ referral_issued' = referral_issued \cup {proof} /\ a \in converted
    BY <1>3, ProofAnswersIInv
  <2>2. a \in ReferralActions
    BY <2>1 DEF ReferralInv, ReferralHistoryTyped, ReferralActions
  <2>3. Proven' = Proven \cup {a}
    <3> HIDE DEF proof
    <3> QED BY <2>1 DEF Proven, Conversion
  <2>4. PICK b \in ReferralActions : b \in converted /\ Proven' = Proven \cup {b}
    <3> HIDE DEF a
    <3> QED BY <2>1, <2>2, <2>3
  <2>5. CASE b \in Proven
    BY <2>1, <2>4, <2>5
  <2>6. CASE b \notin Proven
    <3>1. ReferralPromise!Issue(b)
      BY <2>1, <2>4, <2>6 DEF ReferralPromise!Issue, Proven, Conversion
    <3> QED BY <3>1
  <2> QED BY <2>5, <2>6
<1>4. CASE ReferralCrash \/ UNCHANGED referral_vars
  BY <1>1, <1>4 DEF ReferralCrash, referral_vars, referral_history
<1>5. ASSUME NEW r \in ReferralRequests,
             \/ \E p \in Pairs, s \in Slugs : LinkReads(r, p, s)
             \/ LinkCreates(r)
             \/ \E s \in Slugs, account \in Accounts : TrackReads(r, s, account)
             \/ \E p \in Pairs : ReferralProofReads(r, p)
             \/ ReferralProofMarks(r) \/ ReferralRequestFails(r)
      PROVE  UNCHANGED <<converted, Proven>>
  BY <1>1, <1>5 DEF LinkReads, LinkCreates, TrackReads, ReferralProofReads, ReferralProofMarks, ReferralRequestFails,
     referral_history
<1> QED BY <1>2, <1>3, <1>4, <1>5 DEF ReferralNext, ReferralRuns

(* referrals.service.ts:94-142.  A proof is handed out only for a          *)
(* conversion that was stored for a link of its referrer, and never for    *)
(* the referrer as its own referee.                                        *)
THEOREM ReferralImplementsIssuance == ReferralSpec => ReferralIssuance
<1>1. ReferralInit => ReferralPromise!Init
  BY DEF ReferralInit, ReferralPromise!Init
<1>2. ReferralInv /\ [ReferralNext]_referral_vars => [ReferralPromise!Next]_(ReferralPromise!vars)
  BY ReferralNextIssuance
<1>3. ReferralSpec => ReferralPromise!Init /\ [][ReferralPromise!Next]_(ReferralPromise!vars)
  BY <1>1, <1>2, ReferralInvariance, PTL DEF ReferralSpec
<1> QED BY <1>3 DEF ReferralIssuance, ReferralPromise!Spec

-----------------------------------------------------------------------------
(* Part 4.  ProofServices.                                                 *)

(* Whatever the other two do, each service behaves as it does alone.       *)
THEOREM ServicesApart == Spec => LearnSpec /\ SocialSpec /\ ReferralSpec
<1>1. Init => LearnInit /\ SocialInit /\ ReferralInit
  BY DEF Init
<1>2. [Next]_vars => [LearnNext]_learn_vars
  BY DEF Next, vars, LearnStep, SocialStep, ReferralStep, Crash, LearnNext
<1>3. [Next]_vars => [SocialNext]_social_vars
  BY DEF Next, vars, LearnStep, SocialStep, ReferralStep, Crash, SocialNext
<1>4. [Next]_vars => [ReferralNext]_referral_vars
  BY DEF Next, vars, LearnStep, SocialStep, ReferralStep, Crash, ReferralNext
<1> QED BY <1>1, <1>2, <1>3, <1>4, PTL DEF Spec, LearnSpec, SocialSpec, ReferralSpec

(* backend/src/learn, social and referrals.  Type correctness: the tables  *)
(* and the requests of the three services keep their shapes while the      *)
(* event loop runs them together.                                          *)
THEOREM TypeCorrect == Spec => []TypeOK
<1>1. LearnTypeOK /\ SocialTypeOK /\ ReferralTypeOK => TypeOK
  BY DEF TypeOK
<1> QED BY <1>1, ServicesApart, LearnTypeCorrect, SocialTypeCorrect, ReferralTypeCorrect, PTL

(* backend/src/learn, social and referrals.  So in one process, with one   *)
(* crash for all, no service hands out a proof that was not earned, and    *)
(* marks, links and conversions are true of each.                          *)
THEOREM SideBySide ==
    Spec => /\ [](LearnMarkIsTrue /\ SocialMarkIsTrue /\ ReferralMarkIsTrue)
            /\ [](VerifiedIsVetted /\ OneLinkPerPair /\ ConversionIsFinal)
            /\ LearnIssuance /\ SocialIssuance /\ ReferralIssuance
<1>1. LearnSpec => []LearnMarkIsTrue /\ LearnIssuance
  BY LearnMarkTrue, LearnImplementsIssuance, PTL
<1>2. SocialSpec => []VerifiedIsVetted /\ []SocialMarkIsTrue /\ SocialIssuance
  BY Vetted, SocialMarkTrue, SocialImplementsIssuance, PTL
<1>3. ReferralSpec => /\ []OneLinkPerPair /\ []ReferralMarkIsTrue
                      /\ []ConversionIsFinal /\ ReferralIssuance
  BY OneLink, ConversionsFinal, ReferralMarkTrue, ReferralImplementsIssuance, PTL
<1> QED BY <1>1, <1>2, <1>3, ServicesApart, PTL
=============================================================================
