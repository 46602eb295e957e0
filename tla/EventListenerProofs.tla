------------------------- MODULE EventListenerProofs -------------------------
(* Theorems about EventListener: any number of claims, ledgers, faults and  *)
(* restarts, and any limit of an answer.                                    *)
EXTENDS EventListener, SumLemmas, SequenceTheorems, TLAPS

Event == UNION {Published(l) : l \in Nat}

VaultEvents == DOMAIN log

(* Ledgers close one after the other, and events are logged in that order. *)
Logged ==
    /\ ledger \in 0 .. MaxLedger /\ log \in Seq(Event)
    /\ \A i \in DOMAIN log : log[i].ledger \in 1 .. ledger
    /\ \A i, j \in DOMAIN log : i <= j => log[i].ledger <= log[j].ledger

Polling ==
    /\ startLedger \in 0 .. ledger + 1
    /\ pc \in {"asleep", "vault"}
    /\ pc = "asleep" => batch = {}
    /\ batch \subseteq VaultEvents
    /\ \A i \in batch : Cardinality({j \in batch : j < i}) < Limit

Stored ==
    /\ totalEarned \in [Earners -> 0 .. MaxEarned]
    /\ faults \in 0 .. MaxFaults /\ restarts \in 0 .. MaxRestarts
    /\ taken \subseteq VaultEvents /\ cut \in BOOLEAN

(* A claim that was neither taken nor answered is not behind the cursor,   *)
(* and will not be when the events of the current answer have moved it:    *)
(* its ledger comes after all of theirs.                                   *)
Ahead(i) ==
    /\ startLedger <= log[i].ledger
    /\ pc = "vault" => \A k \in batch : log[k].ledger < log[i].ledger

Unskipped ==
    ~cut =>
        \A i \in VaultEvents \ taken : (pc = "vault" /\ i \in batch) \/ Ahead(i)

(* The inductive invariant.  NoClaimSkipped does not imply itself: it      *)
(* speaks of the cursor as it is, Ahead of where the answer will move it.  *)
IInv == Logged /\ Polling /\ Stored /\ Unskipped

-----------------------------------------------------------------------------
(* What an event is known to carry. *)
LEMMA EventFacts ==
    ASSUME NEW l, NEW e \in Published(l)
    PROVE  e.ledger = l /\ e.earner \in Earners /\ e.amount \in Nat
BY ListenerAssumption DEF Published

LEMMA LoggedFacts ==
    ASSUME Logged, NEW i \in DOMAIN log
    PROVE  /\ log[i] \in Published(log[i].ledger)
           /\ log[i].earner \in Earners /\ log[i].amount \in Nat
<1>1. PICK l \in Nat : log[i] \in Published(l)
  BY DEF Logged, Event
<1> QED BY <1>1, EventFacts

(* An answer is a beginning of what was asked for, and no longer than the  *)
(* limit.                                                                  *)
LEMMA FirstOfFacts ==
    ASSUME NEW m \in Nat, NEW S \in SUBSET (1 .. m), NEW n \in Nat
    PROVE  /\ FirstOf(n, S) \subseteq S
           /\ \A i \in S \ FirstOf(n, S), k \in FirstOf(n, S) : k < i
           /\ \A i \in FirstOf(n, S) : Cardinality({j \in FirstOf(n, S) : j < i}) < n
<1> DEFINE Before(i) == {j \in S : j < i}
<1>1. IsFiniteSet(S)
  <2>1. IsFiniteSet(1 .. m)
    BY FS_Interval
  <2> QED BY <2>1, FS_Subset
<1>2. \A i : IsFiniteSet(Before(i)) /\ Cardinality(Before(i)) \in Nat
  BY <1>1, FS_Subset, FS_CardinalityType
<1>3. FirstOf(n, S) \subseteq S
  BY DEF FirstOf
<1>4. ASSUME NEW i \in S \ FirstOf(n, S), NEW k \in FirstOf(n, S) PROVE k < i
  <2>1. k \in S /\ Cardinality(Before(k)) < n /\ ~(Cardinality(Before(i)) < n)
    BY <1>4 DEF FirstOf
  <2>2. CASE i <= k
    <3>1. i \in Nat /\ k \in Nat /\ \A j \in S : j \in Nat
      BY <2>1
    <3>2. \A j \in S : j < i => j < k
      BY <2>2, <3>1
    <3>3. Before(i) \subseteq Before(k)
      BY <3>2
    <3>4. Cardinality(Before(i)) <= Cardinality(Before(k))
      BY <3>3, <1>2, FS_Subset
    <3> HIDE DEF Before
    <3> QED BY <3>4, <2>1, <1>2
  <2> QED BY <2>1, <2>2
<1>5. ASSUME NEW i \in FirstOf(n, S)
      PROVE  Cardinality({j \in FirstOf(n, S) : j < i}) < n
  <2> DEFINE T == {j \in FirstOf(n, S) : j < i}
  <2>1. Cardinality(Before(i)) < n
    BY DEF FirstOf
  <2>2. T \subseteq Before(i)
    BY <1>3
  <2>3. Cardinality(T) <= Cardinality(Before(i)) /\ IsFiniteSet(T)
    BY <2>2, <1>2, FS_Subset
  <2>4. Cardinality(T) \in Nat
    BY <2>3, FS_CardinalityType
  <2> HIDE DEF T, Before
  <2>5. Cardinality(T) < n
    BY <2>1, <2>3, <2>4, <1>2
  <2> QED BY <2>5 DEF T
<1> QED BY <1>3, <1>4, <1>5

LEMMA AnswerFacts ==
    ASSUME Logged
    PROVE  /\ Response \subseteq {i \in DOMAIN log : log[i].ledger >= startLedger}
           /\ \A i \in DOMAIN log \ Response, k \in Response :
                 log[i].ledger >= startLedger => k < i
           /\ \A i \in Response : Cardinality({j \in Response : j < i}) < Limit
<1> DEFINE S == {i \in DOMAIN log : log[i].ledger >= startLedger}
<1>1. Len(log) \in Nat /\ S \in SUBSET (1 .. Len(log)) /\ Limit \in Nat
  BY ListenerAssumption DEF Logged
<1>2. Response = FirstOf(Limit, S)
  BY DEF Response
<1>3. /\ FirstOf(Limit, S) \subseteq S
      /\ \A i \in S \ FirstOf(Limit, S), k \in FirstOf(Limit, S) : k < i
      /\ \A i \in FirstOf(Limit, S) : Cardinality({j \in FirstOf(Limit, S) : j < i}) < Limit
  <2> HIDE DEF S
  <2> QED BY <1>1, FirstOfFacts
<1> DEFINE R == FirstOf(Limit, S)
<1>4. /\ R \subseteq S /\ \A i \in S \ R, k \in R : k < i
      /\ \A i \in R : Cardinality({j \in R : j < i}) < Limit
      /\ Response = R
  BY <1>2, <1>3
<1> HIDE DEF R
<1> QED BY <1>4

(* The answer shrinks from its front. *)
LEMMA ShorterAnswer ==
    ASSUME Logged, batch \subseteq DOMAIN log, NEW B \in SUBSET batch,
           \A i \in batch : Cardinality({j \in batch : j < i}) < Limit
    PROVE  \A i \in B : Cardinality({j \in B : j < i}) < Limit
<1> SUFFICES ASSUME NEW i \in B PROVE Cardinality({j \in B : j < i}) < Limit
  OBVIOUS
<1> DEFINE T == {j \in B : j < i}
           U == {j \in batch : j < i}
<1>1. Len(log) \in Nat /\ DOMAIN log = 1 .. Len(log)
  BY DEF Logged
<1>2. IsFiniteSet(1 .. Len(log)) /\ U \subseteq 1 .. Len(log)
  BY <1>1, FS_Interval
<1>3. IsFiniteSet(U) /\ T \subseteq U /\ Cardinality(U) < Limit
  BY <1>2, FS_Subset
<1>4. IsFiniteSet(T) /\ Cardinality(T) <= Cardinality(U)
  BY <1>3, FS_Subset
<1>5. Cardinality(T) \in Nat /\ Cardinality(U) \in Nat /\ Limit \in Nat
  BY <1>3, <1>4, FS_CardinalityType, ListenerAssumption
<1> HIDE DEF T, U
<1>6. Cardinality(T) < Limit
  BY <1>3, <1>4, <1>5
<1> QED BY <1>6 DEF T

-----------------------------------------------------------------------------
LEMMA InitIInv == Init => IInv
<1> SUFFICES ASSUME Init PROVE IInv
  OBVIOUS
<1>1. log \in Seq(Event) /\ DOMAIN log = {}
  BY DEF Init
<1>2. VaultEvents = {}
  BY <1>1 DEF VaultEvents
<1>3. Logged
  BY <1>1, ListenerAssumption DEF Init, Logged
<1>4. Polling
  BY DEF Init, Polling
<1>5. Stored
  <2>1. 0 \in 0 .. MaxEarned /\ 0 \in 0 .. MaxFaults /\ 0 \in 0 .. MaxRestarts
    BY ListenerAssumption
  <2> QED BY <2>1 DEF Init, Stored
<1>6. Unskipped
  BY <1>2 DEF Unskipped
<1> QED BY <1>3, <1>4, <1>5, <1>6 DEF IInv

(* A ledger that closes leaves what was logged before it alone.            *)
LEMMA LogGrows ==
    ASSUME IInv, CloseLedger
    PROVE  /\ ledger \in Nat /\ ledger' = ledger + 1 /\ ledger' \in 0 .. MaxLedger
           /\ log' \in Seq(Event) /\ DOMAIN log \subseteq DOMAIN log'
           /\ \A i \in DOMAIN log : log'[i] = log[i]
           /\ \A i \in DOMAIN log' \ DOMAIN log : log'[i].ledger = ledger'
           /\ \A i \in DOMAIN log' \ DOMAIN log, j \in DOMAIN log : j < i
           /\ VaultEvents \subseteq VaultEvents'
           /\ VaultEvents' \ VaultEvents \subseteq DOMAIN log' \ DOMAIN log
<1>1. PICK n \in 0 .. MaxPerLedger : \E events \in [1 .. n -> Published(ledger')] :
          log' = log \o events
  BY DEF CloseLedger
<1>2. PICK events \in [1 .. n -> Published(ledger')] : log' = log \o events
  BY <1>1
<1>3. ledger \in Nat /\ ledger' = ledger + 1 /\ ledger' \in 0 .. MaxLedger
  BY ListenerAssumption DEF CloseLedger, IInv, Logged
<1>4. n \in Nat
  BY ListenerAssumption
<1>5. events \in Seq(Event) /\ Len(events) = n
  <2>1. \A k \in 1 .. n : events[k] \in Event
    BY <1>2, <1>3 DEF Event
  <2>2. events \in [1 .. n -> Event]
    BY <2>1, <1>2
  <2> QED BY <2>2, <1>4
<1>6. /\ log' \in Seq(Event) /\ DOMAIN log \subseteq DOMAIN log'
      /\ \A i \in DOMAIN log : log'[i] = log[i]
      /\ \A i \in DOMAIN log' \ DOMAIN log : log'[i].ledger = ledger'
      /\ \A i \in DOMAIN log' \ DOMAIN log, j \in DOMAIN log : j < i
  <2>1. log \in Seq(Event) /\ Len(log) \in Nat
    BY DEF IInv, Logged
  <2>2. /\ log' \in Seq(Event) /\ Len(log') = Len(log) + n
        /\ \A i \in 1 .. Len(log) + n :
              log'[i] = IF i <= Len(log) THEN log[i] ELSE events[i - Len(log)]
    BY <1>2, <1>5, <2>1, ConcatProperties, Zenon
  <2>3. DOMAIN log' = 1 .. Len(log) + n /\ DOMAIN log = 1 .. Len(log)
    BY <2>1, <2>2
  <2>4. ASSUME NEW i \in DOMAIN log' \ DOMAIN log PROVE log'[i].ledger = ledger'
    <3>1. i - Len(log) \in 1 .. n /\ log'[i] = events[i - Len(log)]
      BY <2>1, <2>2, <2>3, <2>4, <1>4
    <3>2. log'[i] \in Published(ledger')
      BY <1>2, <3>1
    <3> QED BY <3>2, EventFacts
  <2> QED BY <2>1, <2>2, <2>3, <2>4, <1>4
<1>7. VaultEvents \subseteq VaultEvents'
      /\ VaultEvents' \ VaultEvents \subseteq DOMAIN log' \ DOMAIN log
  BY <1>6 DEF VaultEvents
<1> QED BY <1>3, <1>6, <1>7

LEMMA ClosingIInv ==
    ASSUME IInv, CloseLedger
    PROVE  IInv'
<1>1. ledger \in Nat /\ ledger' = ledger + 1 /\ ledger' \in 0 .. MaxLedger
  BY LogGrows
<1>2. /\ log' \in Seq(Event) /\ DOMAIN log \subseteq DOMAIN log'
      /\ \A i \in DOMAIN log : log'[i] = log[i]
      /\ \A i \in DOMAIN log' \ DOMAIN log : log'[i].ledger = ledger'
      /\ \A i \in DOMAIN log' \ DOMAIN log, j \in DOMAIN log : j < i
  BY LogGrows
<1>3. Logged'
  <2>1. \A i \in DOMAIN log' : log'[i].ledger \in 1 .. ledger'
    BY <1>1, <1>2 DEF IInv, Logged
  <2>2. ASSUME NEW i \in DOMAIN log', NEW j \in DOMAIN log', i <= j
        PROVE  log'[i].ledger <= log'[j].ledger
    <3>1. CASE j \in DOMAIN log /\ i \in DOMAIN log
      BY <2>2, <3>1, <1>2 DEF IInv, Logged
    <3>2. CASE j \in DOMAIN log /\ i \notin DOMAIN log
      <4>1. i \in Nat /\ j \in Nat /\ j < i
        BY <1>2, <3>2, <2>2
      <4> QED BY <4>1, <2>2
    <3>3. CASE j \notin DOMAIN log
      BY <3>3, <2>1, <1>1, <1>2
    <3> QED BY <3>1, <3>2, <3>3
  <2> QED BY <1>1, <1>2, <2>1, <2>2 DEF Logged
<1>4. VaultEvents \subseteq VaultEvents'
      /\ VaultEvents' \ VaultEvents \subseteq DOMAIN log' \ DOMAIN log
  BY LogGrows
<1>5. Polling'
  BY <1>1, <1>4 DEF CloseLedger, IInv, Polling
<1>6. Stored'
  BY <1>4 DEF CloseLedger, IInv, Stored
<1>7. Unskipped'
  <2> SUFFICES ASSUME ~cut, NEW i \in VaultEvents' \ taken
               PROVE  (pc = "vault" /\ i \in batch) \/ Ahead(i)'
    BY DEF CloseLedger, Unskipped
  <2>1. UNCHANGED <<startLedger, pc, batch>>
    BY DEF CloseLedger
  <2>2. pc = "vault" => batch \subseteq DOMAIN log
    BY DEF IInv, Polling, VaultEvents
  <2>3. CASE i \in VaultEvents
    BY <2>1, <2>2, <2>3, <1>2 DEF IInv, Unskipped, Ahead, VaultEvents
  <2>4. CASE i \notin VaultEvents
    <3>1. log'[i].ledger = ledger'
      BY <2>4, <1>2, <1>4
    <3>2. pc = "vault" => \A k \in batch : log'[k].ledger \in 1 .. ledger
      BY <2>2, <1>2 DEF IInv, Logged
    <3> QED BY <2>1, <3>1, <3>2, <1>1 DEF Ahead, IInv, Polling
  <2> QED BY <2>3, <2>4
<1> QED BY <1>3, <1>5, <1>6, <1>7 DEF IInv

LEMMA FetchingIInv ==
    ASSUME IInv, fetchRewardVaultEvents
    PROVE  IInv'
<1>1. /\ pc = "asleep" /\ pc' = "vault" /\ batch' = Response
      /\ cut' = (cut \/ CutInside(batch'))
      /\ UNCHANGED <<ledger, log, startLedger, totalEarned, faults, restarts, taken>>
  BY DEF fetchRewardVaultEvents, chain
<1>2. Logged' /\ VaultEvents' = VaultEvents
  BY <1>1 DEF IInv, Logged, VaultEvents
<1>3. /\ batch' \subseteq VaultEvents
      /\ \A i \in VaultEvents \ batch', k \in batch' : log[i].ledger >= startLedger => k < i
      /\ \A i \in batch' : Cardinality({j \in batch' : j < i}) < Limit
  BY <1>1, AnswerFacts DEF IInv, VaultEvents
<1>4. Polling'
  BY <1>1, <1>2, <1>3 DEF IInv, Polling
<1>5. Stored'
  BY <1>1, <1>2 DEF IInv, Stored, CutInside
<1>6. Unskipped'
  <2> SUFFICES ASSUME ~cut, ~CutInside(batch'),
                      NEW i \in VaultEvents \ taken, i \notin batch'
               PROVE  Ahead(i)'
    BY <1>1, <1>2 DEF Unskipped
  <2>1. startLedger <= log[i].ledger /\ startLedger \in Nat
    BY <1>1 DEF IInv, Unskipped, Ahead, Polling
  <2>2. log[i].ledger >= startLedger
    BY <2>1 DEF IInv, Logged, VaultEvents
  <2>3. \A k \in batch' : k < i
    BY <1>3, <2>2
  <2>4. \A k \in batch' : log[k].ledger # log[i].ledger
    BY <2>3 DEF CutInside, VaultEvents
  <2>5. ASSUME NEW k \in batch' PROVE log[k].ledger < log[i].ledger
    <3>1. k \in DOMAIN log /\ i \in DOMAIN log /\ k < i
      BY <1>3, <2>3 DEF VaultEvents
    <3>2. log[k].ledger <= log[i].ledger /\ log[k].ledger \in Nat /\ log[i].ledger \in Nat
      BY <3>1 DEF IInv, Logged
    <3> QED BY <3>2, <2>4
  <2> QED BY <1>1, <2>1, <2>5 DEF Ahead
<1> QED BY <1>2, <1>4, <1>5, <1>6 DEF IInv

(* Whatever the handler does keeps the totals and faults within bounds. *)
LEMMA HandlerEffect ==
    ASSUME Logged, Stored, NEW i \in VaultEvents, handleRewardClaimed(i)
    PROVE  /\ totalEarned' \in [Earners -> 0 .. MaxEarned]
           /\ faults' \in 0 .. MaxFaults
<1>1. log[i].earner \in Earners /\ log[i].amount \in Nat /\ MaxEarned \in Nat
  BY LoggedFacts, ListenerAssumption DEF VaultEvents
<1> DEFINE sum == totalEarned[log[i].earner] + log[i].amount
           capped == IF sum < MaxEarned THEN sum ELSE MaxEarned
<1>2. capped \in 0 .. MaxEarned
  BY <1>1 DEF Stored
<1>3. CASE totalEarned' = [totalEarned EXCEPT ![log[i].earner] = capped]
           /\ UNCHANGED faults
  <2> HIDE DEF capped
  <2> QED BY <1>1, <1>2, <1>3 DEF handleRewardClaimed, Stored
<1>4. CASE Fails /\ UNCHANGED totalEarned
  BY <1>4, ListenerAssumption DEF Fails, Stored
<1>5. CASE UNCHANGED <<totalEarned, faults>>
  BY <1>5 DEF Stored
<1> QED BY <1>3, <1>4, <1>5 DEF handleRewardClaimed

LEMMA VaultEventIInv ==
    ASSUME IInv, VaultEvent
    PROVE  IInv'
<1>1. PICK i \in batch :
          /\ Handles(i)
          /\ taken' = taken \cup {i}
          /\ IF topicMatches("RewardClaimed") THEN handleRewardClaimed(i)
             ELSE UNCHANGED <<totalEarned, faults>>
          /\ startLedger' = Advanced(log[i].ledger)
  BY DEF VaultEvent
<1>2. pc = "vault" /\ UNCHANGED <<ledger, log, pc, restarts, cut>>
  BY DEF VaultEvent, chain
<1>3. i \in VaultEvents /\ i \in DOMAIN log /\ batch \subseteq VaultEvents
  BY <1>2 DEF IInv, Polling, VaultEvents
<1>5. /\ taken' = taken \cup {i}
      /\ totalEarned' \in [Earners -> 0 .. MaxEarned]
      /\ faults' \in 0 .. MaxFaults
  <2>1. CASE topicMatches("RewardClaimed")
    BY <1>1, <1>3, <2>1, HandlerEffect DEF IInv
  <2>2. CASE ~topicMatches("RewardClaimed")
    BY <1>1, <2>2 DEF IInv, Stored
  <2> QED BY <1>1, <2>1, <2>2
<1>6. batch' = batch \ {i}
  BY <1>1 DEF Handles
<1>7. Logged' /\ VaultEvents' = VaultEvents
  BY <1>2 DEF IInv, Logged, VaultEvents
<1>8. log[i].ledger \in 1 .. ledger /\ ledger \in Nat /\ startLedger \in Nat
  BY <1>3, ListenerAssumption DEF IInv, Logged, Polling
<1>9. startLedger' \in 0 .. ledger + 1 /\ startLedger' \in {startLedger, log[i].ledger + 1}
  BY <1>1, <1>8 DEF Advanced, IInv, Polling
<1>10. Polling'
  <2>1. \A k \in batch' : Cardinality({j \in batch' : j < k}) < Limit
    BY <1>3, <1>6, ShorterAnswer DEF IInv, Polling, VaultEvents
  <2> QED BY <1>2, <1>3, <1>6, <1>7, <1>9, <2>1 DEF IInv, Polling
<1>11. Stored'
  BY <1>2, <1>3, <1>5, <1>7 DEF IInv, Stored
<1>12. Unskipped'
  <2> SUFFICES ASSUME ~cut,
                      NEW j \in VaultEvents \ taken', j \notin batch'
               PROVE  Ahead(j)'
    BY <1>2, <1>7 DEF Unskipped
  <2>1. j \notin taken /\ j \notin batch
    BY <1>5, <1>6
  <2>2. Ahead(j) /\ log[j].ledger \in Nat
    BY <2>1 DEF IInv, Unskipped, Logged, VaultEvents
  <2>3. log[i].ledger < log[j].ledger /\ \A k \in batch' : log[k].ledger < log[j].ledger
    BY <1>2, <1>6, <2>2 DEF Ahead
  <2>4. startLedger' <= log[j].ledger
    BY <1>8, <1>9, <2>2, <2>3 DEF Ahead
  <2> QED BY <1>2, <2>3, <2>4 DEF Ahead
<1> QED BY <1>7, <1>10, <1>11, <1>12 DEF IInv

(* Steps that leave the chain, the cursor and what was taken alone, outside *)
(* or at the end of the vault's answer.                                    *)
LEMMA OtherIInv ==
    ASSUME IInv, UNCHANGED <<ledger, log, startLedger, taken, cut, totalEarned, restarts>>,
           batch = {}, batch' = {}, pc' = "asleep", faults' \in 0 .. MaxFaults
    PROVE  IInv'
<1>1. Logged' /\ VaultEvents' = VaultEvents
  BY DEF IInv, Logged, VaultEvents
<1>2. Polling'
  BY <1>1 DEF IInv, Polling
<1>3. Stored'
  BY <1>1 DEF IInv, Stored
<1>4. Unskipped'
  BY <1>1 DEF IInv, Unskipped, Ahead
<1> QED BY <1>1, <1>2, <1>3, <1>4 DEF IInv

LEMMA FailureCounts ==
    ASSUME Stored, Fails PROVE faults' \in 0 .. MaxFaults
  BY ListenerAssumption DEF Stored, Fails

LEMMA ManagerSteps ==
    ASSUME IInv, PollFails \/ fetchCampaignManagerEvents
    PROVE  IInv'
<1>1. batch = {} /\ batch' = {} /\ pc' = "asleep"
  BY DEF PollFails, fetchCampaignManagerEvents, IInv, Polling
<1>2. CASE PollFails
  BY <1>1, <1>2, OtherIInv, FailureCounts DEF PollFails, chain, IInv, Stored
<1>3. CASE fetchCampaignManagerEvents
  BY <1>1, <1>3, OtherIInv DEF fetchCampaignManagerEvents, chain, IInv, Stored
<1> QED BY <1>2, <1>3

LEMMA RestartIInv ==
    ASSUME IInv, Restart
    PROVE  IInv'
<1>1. /\ restarts' \in 0 .. MaxRestarts /\ startLedger' = 0 /\ pc' = "asleep" /\ batch' = {}
      /\ UNCHANGED <<ledger, log, totalEarned, faults, taken, cut>>
  BY ListenerAssumption DEF Restart, chain, IInv, Stored
<1>2. Logged' /\ VaultEvents' = VaultEvents
  BY <1>1 DEF IInv, Logged, VaultEvents
<1>3. Polling'
  BY <1>1, ListenerAssumption DEF IInv, Logged, Polling
<1>4. Stored'
  BY <1>1, <1>2 DEF IInv, Stored
<1>5. Unskipped'
  BY <1>1, <1>2 DEF IInv, Unskipped, Ahead, Logged, VaultEvents
<1> QED BY <1>2, <1>3, <1>4, <1>5 DEF IInv

LEMMA NextIInv ==
    ASSUME IInv, [Next]_vars
    PROVE  IInv'
<1>1. CASE UNCHANGED vars
  BY <1>1 DEF vars, chain, IInv, Logged, Polling, Stored, Unskipped, Ahead,
     VaultEvents
<1> QED BY <1>1, ClosingIInv, FetchingIInv, VaultEventIInv, ManagerSteps, RestartIInv
       DEF Next, Listener

LEMMA Invariance == Spec => []IInv
<1>1. IInv /\ [Next]_vars => IInv'
  BY NextIInv
<1> QED BY <1>1, InitIInv, PTL DEF Spec

(* Type correctness: an answer is part of the log and no longer than the   *)
(* limit, and the cursor is never beyond the next ledger.                  *)
THEOREM TypeCorrect == Spec => []TypeOK
<1>1. IInv => TypeOK
  <2> SUFFICES ASSUME IInv PROVE TypeOK
    OBVIOUS
  <2>1. \A i \in DOMAIN log : log[i] \in UNION {Published(l) : l \in 1 .. ledger}
    BY LoggedFacts DEF IInv, Logged
  <2>2. batch \subseteq DOMAIN log
    BY DEF IInv, Polling, VaultEvents
  <2> QED BY <2>1, <2>2 DEF IInv, Logged, Polling, Stored, TypeOK, VaultEvents
<1> QED BY <1>1, Invariance, PTL

(* events.service.ts:77-100.  The cursor never passes a claim that the     *)
(* loop has not been through, across failed polls and restarts, at any     *)
(* limit and whatever the vault publishes of a claim, unless an answer was *)
(* cut inside a ledger.                                                    *)
THEOREM ClaimsNotSkipped == Spec => []NoClaimSkipped
<1>1. IInv => NoClaimSkipped
  <2> SUFFICES ASSUME IInv, ~cut, NEW i \in VaultEvents, log[i].ledger < startLedger,
                      i \notin taken
               PROVE  pc = "vault" /\ i \in batch
    BY DEF NoClaimSkipped, VaultEvents
  <2>1. log[i].ledger \in Nat /\ startLedger \in Nat
    BY DEF IInv, Logged, Polling, VaultEvents
  <2> QED BY <2>1 DEF IInv, Unskipped, Ahead
<1> QED BY <1>1, Invariance, PTL

-----------------------------------------------------------------------------
(* What an earner's total may be made of: the claims that were taken.      *)
Counted(e) == SumFunctionOnSet(AmountOf, {i \in taken : log[i].earner = e})

Spread ==
    restarts = 0 /\ \A i, j \in VaultEvents : log[j].ledger # log[i].ledger + 1

(* Until the process restarts, a cursor that moved is one past the ledger  *)
(* of a claim: while claims are spread it is at no claim's own ledger.     *)
CursorAfterClaim ==
    startLedger = 0 \/ \E k \in VaultEvents : startLedger = log[k].ledger + 1

(* So no claim taken is answered again, and each was added at most once.   *)
HandledOnce ==
    Spread =>
        /\ \A i \in taken : log[i].ledger < startLedger
        /\ pc = "vault" => \A i \in batch : i \notin taken
        /\ \A e \in Earners : totalEarned[e] <= Counted(e)

(* The inductive invariant of the count, on top of IInv.                   *)
CountInv == CursorAfterClaim /\ HandledOnce

LEMMA AmountFacts ==
    ASSUME IInv
    PROVE  /\ IsFiniteSet(VaultEvents) /\ taken \subseteq VaultEvents
           /\ \A i \in VaultEvents : AmountOf[i] \in Nat /\ AmountOf[i] = log[i].amount
           /\ \A i \in VaultEvents : log[i].ledger \in Nat /\ log[i].ledger > 0
           /\ \A S \in SUBSET VaultEvents : IsFiniteSet(S)
<1>1. Len(log) \in Nat /\ DOMAIN log = 1 .. Len(log) /\ VaultEvents \subseteq DOMAIN log
  BY DEF IInv, Logged, VaultEvents
<1>2. IsFiniteSet(VaultEvents)
  <2>1. IsFiniteSet(1 .. Len(log))
    BY <1>1, FS_Interval
  <2> QED BY <1>1, <2>1, FS_Subset
<1>3. \A S \in SUBSET VaultEvents : IsFiniteSet(S)
  BY <1>2, FS_Subset
<1>4. \A i \in VaultEvents : AmountOf[i] \in Nat /\ AmountOf[i] = log[i].amount
  BY LoggedFacts DEF AmountOf, VaultEvents, IInv
<1>5. \A i \in VaultEvents : log[i].ledger \in Nat /\ log[i].ledger > 0
  BY <1>1 DEF IInv, Logged
<1> QED BY <1>2, <1>3, <1>4, <1>5 DEF IInv, Stored

LEMMA InitCount == Init => CountInv
<1> SUFFICES ASSUME Init, NEW e \in Earners PROVE totalEarned[e] <= Counted(e)
  BY DEF Init, CountInv, CursorAfterClaim, HandledOnce
<1>1. {i \in taken : log[i].earner = e} = {}
  BY DEF Init
<1>2. Counted(e) = 0
  BY <1>1, SumEmpty DEF Counted
<1> QED BY <1>2 DEF Init

(* More claims on the chain add nothing to what was counted.               *)
LEMMA ClosingCount ==
    ASSUME IInv, IInv', CountInv, CloseLedger
    PROVE  CountInv'
<1>1. /\ \A i \in VaultEvents : i \in VaultEvents' /\ log'[i] = log[i]
      /\ UNCHANGED <<startLedger, pc, batch, totalEarned, restarts, taken>>
  BY LogGrows DEF CloseLedger, VaultEvents
<1>2. CursorAfterClaim'
  BY <1>1 DEF CountInv, CursorAfterClaim
<1>3. ASSUME NEW e \in Earners PROVE Counted(e)' = Counted(e)
  <2> DEFINE S == {i \in taken : log[i].earner = e}
             f == AmountOf
             g == AmountOf'
  <2>1. S \subseteq VaultEvents /\ IsFiniteSet(S)
    BY AmountFacts
  <2>2. \A i \in S : f[i] = g[i]
    BY <1>1, <2>1 DEF AmountOf, VaultEvents
  <2>3. {i \in taken' : log'[i].earner = e} = S
    BY <1>1, AmountFacts
  <2>4. Counted(e) = SumFunctionOnSet(f, S) /\ Counted(e)' = SumFunctionOnSet(g, S)
    BY <2>3 DEF Counted
  <2> HIDE DEF S, f, g
  <2> QED BY <2>1, <2>2, <2>4, SumAgrees
<1>4. Spread' => Spread
  BY <1>1 DEF Spread
<1>5. HandledOnce'
  <2> SUFFICES ASSUME Spread' PROVE HandledOnce'
    BY DEF HandledOnce
  <2>1. \A i \in taken : log'[i] = log[i]
    BY <1>1, AmountFacts
  <2>2. /\ \A i \in taken : log[i].ledger < startLedger
        /\ pc = "vault" => \A i \in batch : i \notin taken
        /\ \A e \in Earners : totalEarned[e] <= Counted(e)
    BY <1>4 DEF CountInv, HandledOnce
  <2> QED BY <1>1, <1>3, <2>1, <2>2 DEF HandledOnce
<1> QED BY <1>2, <1>5 DEF CountInv

(* Steps that leave the chain, the cursor, and what was taken and added    *)
(* alone, and hand no claim taken to the loop again.                       *)
LEMMA QuietCount ==
    ASSUME IInv, CountInv,
           UNCHANGED <<ledger, log, startLedger, taken, totalEarned, restarts>>,
           Spread /\ pc' = "vault" => \A i \in batch' : i \notin taken
    PROVE  CountInv'
<1>1. UNCHANGED <<VaultEvents, AmountOf>>
  BY DEF VaultEvents, AmountOf
<1>2. CursorAfterClaim' /\ (Spread' <=> Spread)
  BY <1>1 DEF CountInv, CursorAfterClaim, Spread
<1>3. \A e \in Earners : Counted(e)' = Counted(e)
  BY <1>1 DEF Counted
<1>4. HandledOnce'
  BY <1>2, <1>3 DEF CountInv, HandledOnce
<1> QED BY <1>2, <1>4 DEF CountInv

(* events.service.ts:85-100, 137-178. *)
LEMMA VaultEventCount ==
    ASSUME IInv, IInv', CountInv, VaultEvent
    PROVE  CountInv'
<1>1. PICK i \in batch :
          /\ Handles(i)
          /\ taken' = taken \cup {i}
          /\ IF topicMatches("RewardClaimed") THEN handleRewardClaimed(i)
             ELSE UNCHANGED <<totalEarned, faults>>
          /\ startLedger' = Advanced(log[i].ledger)
  BY DEF VaultEvent
<1>2. pc = "vault" /\ UNCHANGED <<ledger, log, pc, restarts>> /\ batch' = batch \ {i}
  BY <1>1 DEF VaultEvent, chain, Handles
<1>3. i \in VaultEvents /\ UNCHANGED <<VaultEvents, AmountOf>>
  BY <1>2 DEF IInv, Polling, VaultEvents, AmountOf
<1>4. /\ log[i].ledger \in Nat /\ log[i].ledger > 0 /\ AmountOf[i] \in Nat
      /\ AmountOf[i] = log[i].amount /\ startLedger \in Nat
      /\ log[i].earner \in Earners
  BY <1>3, AmountFacts, LoggedFacts DEF IInv, Logged, Polling, VaultEvents
<1>5. /\ startLedger' \in Nat /\ startLedger <= startLedger'
      /\ startLedger' = startLedger \/ startLedger' = log[i].ledger + 1
      /\ startLedger' = startLedger => log[i].ledger <= startLedger
  BY <1>1, <1>4 DEF Advanced
<1>6. CursorAfterClaim'
  BY <1>2, <1>3, <1>5 DEF CountInv, CursorAfterClaim
<1>7. CASE ~Spread
  BY <1>2, <1>3, <1>6, <1>7 DEF CountInv, HandledOnce, Spread
<1>8. CASE Spread
  <2>1. /\ \A k \in taken : log[k].ledger < startLedger
        /\ \A k \in batch : k \notin taken
        /\ \A e \in Earners : totalEarned[e] <= Counted(e)
    BY <1>2, <1>8 DEF CountInv, HandledOnce
  <2>2. log[i].ledger < startLedger'
    <3>1. ASSUME startLedger' = startLedger, log[i].ledger = startLedger PROVE FALSE
      <4>1. PICK k \in VaultEvents : startLedger = log[k].ledger + 1
        BY <1>4, <3>1 DEF CountInv, CursorAfterClaim
      <4> QED BY <1>3, <1>8, <3>1, <4>1 DEF Spread
    <3> QED BY <1>4, <1>5, <3>1
  <2>3. taken' \subseteq taken \cup {i} /\ taken \subseteq VaultEvents
    BY <1>1, AmountFacts DEF handleRewardClaimed
  <2>4. \A k \in taken' : log[k].ledger < startLedger'
    <3>1. \A k \in taken : log[k].ledger \in Nat
      BY AmountFacts
    <3> QED BY <1>4, <1>5, <2>1, <2>2, <2>3, <3>1
  <2>5. \A k \in batch' : k \notin taken'
    BY <1>2, <2>1, <2>3
  <2>6. ASSUME NEW e \in Earners PROVE totalEarned'[e] <= Counted(e)'
    <3> DEFINE S == {k \in taken : log[k].earner = e}
               T == {k \in taken' : log[k].earner = e}
               f == AmountOf
    <3>1. Counted(e) = SumFunctionOnSet(f, S) /\ Counted(e)' = SumFunctionOnSet(f, T)
      BY <1>2, <1>3 DEF Counted
    <3>2. /\ S \subseteq VaultEvents /\ T \subseteq VaultEvents
          /\ IsFiniteSet(S) /\ IsFiniteSet(T)
      BY <1>3, <2>3, AmountFacts
    <3>3. \A k \in VaultEvents : f[k] \in Nat /\ f[k] \in Int
      BY AmountFacts
    <3> HIDE DEF f
    <3>4. SumFunctionOnSet(f, S) \in Nat /\ SumFunctionOnSet(f, T) \in Nat
      BY <3>2, <3>3, SumNat
    <3>5. totalEarned[e] \in Nat /\ totalEarned'[e] \in Nat /\ MaxEarned \in Nat
      BY ListenerAssumption DEF IInv, Stored
    <3>6. CASE e # log[i].earner
      <4>1. T = S
        BY <1>1, <3>6
      <4>2. totalEarned'[e] = totalEarned[e]
        BY <1>1, <3>6 DEF handleRewardClaimed, IInv, Stored
      <4> QED BY <2>1, <3>1, <4>1, <4>2
    <3>7. CASE e = log[i].earner
      <4>1. i \in batch /\ i \notin S /\ i \in T /\ T \ {i} = S
        BY <1>1, <2>1, <3>7
      <4>2. SumFunctionOnSet(f, T) = f[i] + SumFunctionOnSet(f, T \ {i})
        BY <3>2, <3>3, <4>1, SumRemove
      <4>3. totalEarned'[e] <= totalEarned[e] + f[i]
        <5>1. totalEarned \in [Earners -> Nat] /\ f[i] = log[i].amount /\ f[i] \in Nat
          BY <1>4, ListenerAssumption DEF f, IInv, Stored
        <5> DEFINE sum == totalEarned[e] + log[i].amount
                   capped == IF sum < MaxEarned THEN sum ELSE MaxEarned
        <5>2. capped <= sum /\ sum = totalEarned[e] + f[i]
          BY <3>5, <5>1
        <5>3. totalEarned' = [totalEarned EXCEPT ![e] = capped] \/ totalEarned' = totalEarned
          BY <1>1, <3>7 DEF handleRewardClaimed
        <5> HIDE DEF capped, sum
        <5> QED BY <3>5, <5>1, <5>2, <5>3
      <4>4. totalEarned[e] <= SumFunctionOnSet(f, S)
        BY <2>1, <3>1
      <4>5. SumFunctionOnSet(f, T) = f[i] + SumFunctionOnSet(f, S) /\ f[i] \in Nat
        BY <1>3, <3>3, <4>1, <4>2
      <4> HIDE DEF S, T
      <4> QED BY <3>1, <3>4, <3>5, <4>3, <4>4, <4>5
    <3> QED BY <3>6, <3>7
  <2> QED BY <1>2, <1>6, <2>4, <2>5, <2>6 DEF CountInv, HandledOnce
<1> QED BY <1>7, <1>8

LEMMA NextCount == IInv /\ IInv' /\ CountInv /\ [Next]_vars => CountInv'
<1> SUFFICES ASSUME IInv, IInv', CountInv, [Next]_vars PROVE CountInv'
  OBVIOUS
<1>1. CASE fetchRewardVaultEvents
  <2>1. batch' = Response
        /\ UNCHANGED <<ledger, log, startLedger, taken, totalEarned, restarts>>
    BY <1>1 DEF fetchRewardVaultEvents, chain
  <2>2. \A i \in batch' : i \in VaultEvents /\ log[i].ledger >= startLedger
    BY <2>1, AnswerFacts DEF IInv, VaultEvents
  <2>3. Spread => \A i \in batch' : i \notin taken
    <3>1. startLedger \in Nat
      BY DEF IInv, Logged, Polling
    <3> QED BY <2>2, <3>1, AmountFacts DEF CountInv, HandledOnce
  <2> QED BY <2>1, <2>3, QuietCount
<1>2. CASE PollFails \/ fetchCampaignManagerEvents
  BY <1>2, QuietCount DEF PollFails, fetchCampaignManagerEvents, chain
<1>4. CASE Restart
  <2>1. restarts' # 0 /\ startLedger' = 0
    BY <1>4 DEF Restart, IInv, Stored
  <2> QED BY <2>1 DEF CountInv, CursorAfterClaim, HandledOnce, Spread
<1>5. CASE UNCHANGED vars
  <2>1. Spread /\ pc' = "vault" => \A i \in batch' : i \notin taken
    BY <1>5 DEF vars, CountInv, HandledOnce
  <2> QED BY <1>5, <2>1, QuietCount DEF vars, chain
<1> QED BY <1>1, <1>2, <1>4, <1>5, ClosingCount, VaultEventCount DEF Next, Listener

(* docs/oracle-spec.md:314, events.service.ts:95-98.  While the process    *)
(* has not restarted and no two consecutive ledgers both have claims,      *)
(* nobody's totalEarned exceeds what the chain paid: for any limit of an   *)
(* answer, any faults and any ledgers that close meanwhile.                *)
THEOREM SpreadClaimsCountedOnce == Spec => []CountedOnceIfSpread
<1>1. IInv /\ CountInv => CountedOnceIfSpread
  <2> SUFFICES ASSUME IInv, CountInv, Spread, NEW e \in Earners
               PROVE  totalEarned[e] <= Claimed(e)
    BY DEF CountedOnceIfSpread, EarnedAtMostClaimed, Spread, VaultEvents
  <2> DEFINE S == {i \in taken : log[i].earner = e}
             f == AmountOf
  <2>1. /\ totalEarned[e] <= SumFunctionOnSet(f, S)
        /\ Claimed(e) = SumFunctionOnSet(f, ClaimsOf(e))
    BY DEF CountInv, HandledOnce, Counted, Claimed
  <2>2. /\ S \subseteq ClaimsOf(e) /\ ClaimsOf(e) \subseteq VaultEvents
        /\ IsFiniteSet(S) /\ IsFiniteSet(ClaimsOf(e))
    BY AmountFacts DEF ClaimsOf, VaultEvents
  <2>3. \A i \in VaultEvents : f[i] \in Nat
    BY AmountFacts
  <2> HIDE DEF f, S
  <2>4. SumFunctionOnSet(f, S) <= SumFunctionOnSet(f, ClaimsOf(e))
    BY <2>2, <2>3, SumSubset
  <2>5. /\ SumFunctionOnSet(f, S) \in Nat /\ SumFunctionOnSet(f, ClaimsOf(e)) \in Nat
    BY <2>2, <2>3, SumNat
  <2>6. totalEarned[e] \in Nat
    BY ListenerAssumption DEF IInv, Stored
  <2> QED BY <2>1, <2>4, <2>5, <2>6
<1>2. Spec => []CountInv
  BY InitCount, NextCount, Invariance, PTL DEF Spec
<1> QED BY <1>1, <1>2, Invariance, PTL
=============================================================================
