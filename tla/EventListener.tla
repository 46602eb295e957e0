---------------------------- MODULE EventListener ----------------------------
(***************************************************************************)
(* backend/src/events: the poll loop that copies contract events into the  *)
(* database.  A poll asks the RPC server for the vault's events, handles   *)
(* them one by one, then asks for the campaign manager's.  The steps below *)
(* are what happens between two awaits; ledgers close, and the process may *)
(* restart, between any two of them.                                       *)
(*                                                                         *)
(* contracts/campaign_manager publishes no event, so its request is always *)
(* answered with none: handleCampaignStateChange is never called, and      *)
(* Campaign.status is not a variable here.                                 *)
(*                                                                         *)
(* External: the chain and its RPC server.  A request without startLedger  *)
(* (the cursor is 0) is answered from the first ledger on, and events are  *)
(* answered in ledger order, at most EVENTS_LIMIT of them.                 *)
(***************************************************************************)
EXTENDS Integers, Sequences, FiniteSetsExt

CONSTANTS
    Earners,
    Claims,      \* claims the vault pays, [earner, amount]
    ClaimEvent,  \* what the vault publishes of a claim: [topics, value]
    Limit,       \* EVENTS_LIMIT
    MaxLedger,   \* bound on the ledgers that close
    MaxPerLedger, \* bound on the events of one ledger
    MaxFaults,   \* bound on failed requests to the RPC server or database
    MaxRestarts, \* bound on restarts of the process
    MaxEarned    \* totalEarned is counted up to here

(* reward_vault/src/lib.rs:188-191, and what events.service.ts:141-142     *)
(* expects instead.  A topic that is not a name stands for what it holds.  *)
PublishedEvent == [topics |-> <<"reward", "claimed">>,
                   value |-> <<"campaign_id", "earner", "amount">>]
ExpectedEvent  == [topics |-> <<"RewardClaimed", "campaign_id", "earner">>,
                   value |-> <<"amount">>]

ASSUME ListenerAssumption ==
    /\ Claims \subseteq [earner: Earners, amount: Nat \ {0}]
    /\ ClaimEvent \in [topics: Seq(STRING) \ {<<>>}, value: Seq(STRING)]
    /\ {Limit, MaxLedger, MaxPerLedger, MaxFaults, MaxRestarts,
        MaxEarned} \subseteq Nat
    /\ Limit > 0

VARIABLES
    ledger,       \* sequence number of the last closed ledger
    log,          \* every event of the vault so far, in order
    startLedger,  \* the cursor, in memory
    pc,           \* what the loop is doing: "asleep", "vault"
    batch,        \* positions in log of the answered events still to handle, in order
    totalEarned,  \* database: Earner.totalEarned
    faults, restarts,
    taken,        \* history: positions the loop over an answer has been through
    cut           \* history: an answer ended inside a ledger

chain == <<ledger, log>>
vars  == <<chain, startLedger, pc, batch, totalEarned, faults, restarts, taken, cut>>

Init ==
    /\ ledger = 0 /\ log = <<>>
    /\ startLedger = 0 /\ pc = "asleep" /\ batch = {}
    /\ totalEarned = [e \in Earners |-> 0]
    /\ faults = 0 /\ restarts = 0
    /\ taken = {} /\ cut = FALSE

-----------------------------------------------------------------------------
Published(l) ==
    {[ledger |-> l, earner |-> e.earner, amount |-> e.amount] : e \in Claims}

(* A ledger closes with a few events. *)
CloseLedger ==
    /\ ledger < MaxLedger
    /\ ledger' = ledger + 1
    /\ \E n \in 0 .. MaxPerLedger : \E events \in [1 .. n -> Published(ledger')] :
          log' = log \o events
    /\ UNCHANGED <<startLedger, pc, batch, totalEarned, faults, restarts, taken, cut>>

(* The first n of a set of positions, in the order of the log. *)
FirstOf(n, S) == {i \in S : Cardinality({j \in S : j < i}) < n}

(* Mutants: an answer without a limit, and one without the first ledger.   *)
ResponseUnlimited == {i \in DOMAIN log : log[i].ledger >= startLedger}
ResponseExclusive == FirstOf(Limit, {i \in DOMAIN log : log[i].ledger > startLedger})

(* getEvents: the vault's events from the cursor on. *)
Response == FirstOf(Limit, {i \in DOMAIN log : log[i].ledger >= startLedger})

(* The answer leaves out an event of the ledger of its last one. *)
CutInside(answer) ==
    \E i \in answer, j \in DOMAIN log :
        (\A k \in answer : k < j) /\ log[i].ledger = log[j].ledger

(* Mutants: a cursor at the event, and one at the head of the chain. *)
AdvancedTo(l) == IF l > startLedger THEN l ELSE startLedger
AdvancedToHead(l) == IF l > startLedger THEN ledger + 1 ELSE startLedger

(* The cursor after an event of ledger l. *)
Advanced(l) == IF l > startLedger THEN l + 1 ELSE startLedger

topicMatches(name) == ClaimEvent.topics[1] = name

Fails == faults < MaxFaults /\ faults' = faults + 1

(* An exception of getEvents ends the poll; the next one is scheduled.     *)
PollFails ==
    /\ pc = "asleep" \/ (pc = "vault" /\ batch = {})
    /\ Fails
    /\ pc' = "asleep"
    /\ UNCHANGED <<chain, startLedger, batch, totalEarned, restarts, taken, cut>>

fetchRewardVaultEvents ==
    /\ pc = "asleep"
    /\ pc' = "vault" /\ batch' = Response
    /\ cut' = (cut \/ CutInside(batch'))
    /\ UNCHANGED <<chain, startLedger, totalEarned, faults, restarts, taken>>

(* The early returns of the handler, and BigInt of a value that is not an  *)
(* amount, which throws: the event is dropped.                             *)
Readable ==
    /\ Len(ClaimEvent.topics) >= 3
    /\ ClaimEvent.topics[3] = "earner"
    /\ ClaimEvent.value = <<"amount">>

(* The handler catches its own exceptions: a failed upsert is only logged. *)
handleRewardClaimed(i) ==
    LET e == log[i].earner
        sum == totalEarned[e] + log[i].amount IN
    IF Readable
    THEN \/ /\ totalEarned' = [totalEarned EXCEPT ![e] = IF sum < MaxEarned THEN sum ELSE MaxEarned]
            /\ UNCHANGED faults
         \/ Fails /\ UNCHANGED totalEarned
    ELSE UNCHANGED <<totalEarned, faults>>

(* The next event of the answer. *)
Handles(i) ==
    /\ i \in batch /\ \A j \in batch : i <= j
    /\ batch' = batch \ {i}

VaultEvent ==
    /\ pc = "vault"
    /\ \E i \in batch :
       /\ Handles(i)
       /\ taken' = taken \cup {i}
       /\ IF topicMatches("RewardClaimed") THEN handleRewardClaimed(i)
          ELSE UNCHANGED <<totalEarned, faults>>
       /\ startLedger' = Advanced(log[i].ledger)
    /\ UNCHANGED <<chain, pc, restarts, cut>>

(* The manager's answer is empty, and the poll ends. *)
fetchCampaignManagerEvents ==
    /\ pc = "vault" /\ batch = {}
    /\ pc' = "asleep"
    /\ UNCHANGED <<chain, startLedger, batch, totalEarned, faults, restarts, taken, cut>>

(* The cursor is not persisted. *)
Restart ==
    /\ restarts < MaxRestarts
    /\ restarts' = restarts + 1
    /\ startLedger' = 0 /\ pc' = "asleep" /\ batch' = {}
    /\ UNCHANGED <<chain, totalEarned, faults, taken, cut>>

Listener == fetchRewardVaultEvents \/ VaultEvent \/ fetchCampaignManagerEvents

Next == CloseLedger \/ Listener \/ PollFails \/ Restart

Spec == Init /\ [][Next]_vars

(* poll() never throws and its `finally` schedules the next one, so the    *)
(* loop takes every step it can.                                           *)
FairSpec == Spec /\ WF_vars(Listener)

-----------------------------------------------------------------------------
(* Type invariant. *)
TypeOK ==
    /\ ledger \in 0 .. MaxLedger
    /\ \A i \in DOMAIN log : log[i] \in UNION {Published(l) : l \in 1 .. ledger}
    /\ startLedger \in 0 .. ledger + 1
    /\ pc \in {"asleep", "vault"}
    /\ batch \subseteq DOMAIN log
    /\ \A i \in batch : Cardinality({j \in batch : j < i}) < Limit
    /\ totalEarned \in [Earners -> 0 .. MaxEarned]
    /\ faults \in 0 .. MaxFaults /\ restarts \in 0 .. MaxRestarts
    /\ taken \subseteq DOMAIN log /\ cut \in BOOLEAN

(* What the chain paid an earner. *)
AmountOf == [i \in DOMAIN log |-> log[i].amount]

ClaimsOf(e) == {i \in DOMAIN log : log[i].earner = e}

Claimed(e) == SumFunctionOnSet(AmountOf, ClaimsOf(e))

(* docs/oracle-spec.md:314, events.service.ts:95-98.  A RewardClaimed      *)
(* event updates totalEarned, and the cursor then moves past its ledger:   *)
(* nobody's total exceeds what the chain paid.                             *)
EarnedAtMostClaimed == \A e \in Earners : totalEarned[e] <= Claimed(e)

(* The cases in which the code keeps that promise: as long as the process  *)
(* has not restarted, and no two consecutive ledgers both have claims,     *)
(* every claim is added at most once, however polls and ledgers interleave *)
(* and wherever answers are cut.                                           *)
CountedOnceIfSpread ==
    restarts = 0 /\ (\A i, j \in DOMAIN log : log[j].ledger # log[i].ledger + 1)
        => EarnedAtMostClaimed

(* events.service.ts:85-98.  The loop has been through every claim that    *)
(* the cursor has passed, or it is in the answer being gone through,       *)
(* unless EVENTS_LIMIT cut an answer inside a ledger.  It holds for the    *)
(* topics the vault publishes as for those the listener waits for.         *)
NoClaimSkipped ==
    ~cut => \A i \in DOMAIN log : log[i].ledger < startLedger =>
        i \in taken \/ (pc = "vault" /\ i \in batch)

(* The claims handed to handleRewardClaimed. *)
Seen == {i \in taken : topicMatches("RewardClaimed")}

(* events.service.ts:58-71, docs/oracle-spec.md:314.  Every claim on chain *)
(* is picked up, across failed polls and restarts, if no answer is cut     *)
(* inside a ledger (and if the vault's events are what is expected).       *)
EveryClaimSeen ==
    []~cut => \A i \in 1 .. MaxLedger * MaxPerLedger : (i \in DOMAIN log) ~> (i \in Seen)
=============================================================================
