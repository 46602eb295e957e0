-------------------------- MODULE AttentionService --------------------------
(***************************************************************************)
(* backend/src/attention: sessions in Redis, one AttentionSession row per  *)
(* (campaign, earner) in the database, and the proofs issued from it.      *)
(*                                                                         *)
(* The service is one Node.js process: a handler runs without interruption *)
(* up to its next await, and any number of requests may be waiting at one. *)
(* Each action below is what happens between two awaits.  A crash loses    *)
(* the requests in flight; Redis and the database keep what they have.     *)
(***************************************************************************)
EXTENDS Integers

CONSTANTS
    Pairs,       \* (campaign, earner) keys of the AttentionSession table
    Tokens,      \* session tokens (uuids, never drawn twice)
    OwnerOf,     \* the pair each token's session is started for
    Required,    \* REQUIRED_ATTENTION_SECONDS, in heartbeats
    MinInterval, \* MIN_SIGNAL_INTERVAL_MS
    Day,         \* RATE_LIMIT_TTL_SECONDS
    Signals,     \* slots for POST /attention/signal requests
    Claims,      \* slots for GET /attention/proof requests
    MaxTime,     \* bound on the clock
    MaxBeats,    \* bound on the heartbeats accepted for a session
    MaxVideos,   \* bound on the video_complete signals accepted for a session
    None

Session == [beats: Nat, completed: BOOLEAN, lastSignalAt: Nat]
Row     == [token: Tokens, completed: BOOLEAN, proofIssued: BOOLEAN]

ASSUME AttentionAssumption ==
    /\ OwnerOf \in [Tokens -> Pairs]
    /\ {Required, MinInterval, Day, MaxTime, MaxBeats, MaxVideos} \subseteq Nat
    /\ Required > 0
    /\ None \notin Session /\ None \notin Row

VARIABLES
    now,        \* the process's clock
    sessions,   \* Redis: per token, the session data or None
    rows,       \* database: per pair, the AttentionSession row or None
    limits,     \* Redis: per pair, when its rate-limit key expires
    signals,    \* recordSignal requests in flight
    claims,     \* getProof requests in flight
    accepted,   \* history: per token, the signals accepted so far
    issued,     \* history: proofs handed out
    spoiled     \* history: pairs whose last proof a crash, a failed write or an overlap cost

redis == <<sessions, limits>>
vars  == <<now, redis, rows, signals, claims, accepted, issued, spoiled>>

(* "other" stands for scroll and video_play, which count for nothing. *)
Kinds   == {"heartbeat", "video_complete", "other"}
Proof   == [pair: Pairs, token: Tokens, at: Nat]
Idle    == [pc |-> "idle"]
Fresh   == [beats |-> 0, completed |-> FALSE, lastSignalAt |-> 0]
NoneYet == [started |-> FALSE, beats |-> 0, videos |-> 0, last |-> 0]

Init ==
    /\ now = 1
    /\ sessions = [t \in Tokens |-> None]
    /\ rows = [p \in Pairs |-> None]
    /\ limits = [p \in Pairs |-> 0]
    /\ signals = [s \in Signals |-> Idle]
    /\ claims = [g \in Claims |-> Idle]
    /\ accepted = [t \in Tokens |-> NoneYet]
    /\ issued = {} /\ spoiled = {}

-----------------------------------------------------------------------------
(* startSession: the session of a new token is written to Redis. *)
startSession(t) ==
    /\ ~accepted[t].started
    /\ sessions' = [sessions EXCEPT ![t] = Fresh]
    /\ accepted' = [accepted EXCEPT ![t].started = TRUE]
    /\ UNCHANGED <<now, limits, rows, signals, claims, issued, spoiled>>

(* The session's TTL of two hours runs out; the clock of the model is too  *)
(* short for it, so it may happen at any time.                             *)
SessionExpires(t) ==
    /\ sessions[t] # None
    /\ sessions' = [sessions EXCEPT ![t] = None]
    /\ UNCHANGED <<now, limits, rows, signals, claims, accepted, issued, spoiled>>

(* recordSignal, up to the answer of redis.get. *)
SignalReads(s, t, kind) ==
    /\ signals[s] = Idle /\ sessions[t] # None
    /\ signals' = [signals EXCEPT ![s] =
           [pc |-> "read", token |-> t, kind |-> kind, session |-> sessions[t]]]
    /\ UNCHANGED <<now, redis, rows, claims, accepted, issued, spoiled>>

(* Mutant: an interval one tick too short. *)
TooFastByLess(session) ==
    session.lastSignalAt # 0 /\ now - session.lastSignalAt < MinInterval - 1

TooFast(session) ==
    session.lastSignalAt # 0 /\ now - session.lastSignalAt < MinInterval

(* Mutant: a session complete one heartbeat early. *)
RecordedEarly(session, kind) ==
    LET beats == session.beats + (IF kind = "heartbeat" THEN 1 ELSE 0) IN
    [beats |-> beats,
     completed |-> session.completed \/ kind = "video_complete" \/ beats + 1 >= Required,
     lastSignalAt |-> now]

(* The session after a signal, computed from what redis.get answered. *)
Recorded(session, kind) ==
    LET beats == session.beats + (IF kind = "heartbeat" THEN 1 ELSE 0) IN
    [beats |-> beats,
     completed |-> session.completed \/ kind = "video_complete" \/ beats >= Required,
     lastSignalAt |-> now]

(* The signal came too fast, or redis.set rejects. *)
SignalRejected(s) ==
    /\ signals[s].pc = "read"
    /\ signals' = [signals EXCEPT ![s] = Idle]
    /\ UNCHANGED <<now, redis, rows, claims, accepted, issued, spoiled>>

(* Mutant: every signal writes the row. *)
AlwaysPersisted(session) == TRUE

(* The row is written when the session is completed, not when this signal  *)
(* completes it.                                                           *)
Persisted(session) == session.completed

(* From there to the answer of redis.set, which writes the whole session.  *)
SignalWrites(s) ==
    LET r == signals[s]
        t == r.token
        session == Recorded(r.session, r.kind) IN
    /\ r.pc = "read" /\ ~TooFast(r.session)
    /\ accepted[t].beats < MaxBeats \/ r.kind # "heartbeat"
    /\ accepted[t].videos < MaxVideos \/ r.kind # "video_complete"
    /\ sessions' = [sessions EXCEPT ![t] = session]
    /\ accepted' = [accepted EXCEPT
           ![t] = [started |-> TRUE, last |-> now,
                   beats  |-> @.beats + (IF r.kind = "heartbeat" THEN 1 ELSE 0),
                   videos |-> @.videos + (IF r.kind = "video_complete" THEN 1 ELSE 0)]]
    /\ signals' = [signals EXCEPT ![s] =
           IF Persisted(session) THEN [pc |-> "upsert", token |-> t] ELSE Idle]
    /\ UNCHANGED <<now, limits, rows, claims, issued, spoiled>>

(* Mutants: a row without its flag, and one that keeps it. *)
ArmedWithoutFlag(t) == [token |-> t, completed |-> TRUE]
ArmedKeepsFlag(t) ==
    LET row == rows[OwnerOf[t]] IN
    [token |-> t, completed |-> TRUE, proofIssued |-> row # None /\ row.proofIssued]

Armed(t) == [token |-> t, completed |-> TRUE, proofIssued |-> FALSE]

(* The claims of a pair between two given awaits. *)
Holding(p, pc) == {g \in Claims : claims[g].pc = pc /\ claims[g].pair = p}

(* The upsert, whose failure is caught and logged.  It may fall between    *)
(* the reading and the marking of the row by a claim.                      *)
SignalUpserts(s) ==
    /\ signals[s].pc = "upsert"
    /\ LET t == signals[s].token IN
       \/ /\ rows' = [rows EXCEPT ![OwnerOf[t]] = Armed(t)]
          /\ spoiled' = IF Holding(OwnerOf[t], "update") = {} THEN spoiled \ {OwnerOf[t]}
                        ELSE spoiled \cup {OwnerOf[t]}
       \/ UNCHANGED <<rows, spoiled>>
    /\ signals' = [signals EXCEPT ![s] = Idle]
    /\ UNCHANGED <<now, redis, claims, accepted, issued>>

-----------------------------------------------------------------------------
(* getProof: the rate-limit key is absent. *)
ClaimPassesLimit(g, p) ==
    /\ claims[g] = Idle /\ limits[p] <= now
    /\ claims' = [claims EXCEPT ![g] = [pc |-> "row", pair |-> p]]
    /\ UNCHANGED <<now, redis, rows, signals, accepted, issued, spoiled>>

HasProofToIssue(row) == row # None /\ row.completed /\ ~row.proofIssued

(* The row is read, checked, and the proof signed. *)
ClaimSigns(g) ==
    LET row == rows[claims[g].pair] IN
    /\ claims[g].pc = "row"
    /\ claims' = [claims EXCEPT ![g] =
           IF HasProofToIssue(row)
           THEN [pc |-> "update", pair |-> claims[g].pair, token |-> row.token]
           ELSE Idle]
    /\ UNCHANGED <<now, redis, rows, signals, accepted, issued, spoiled>>

(* The row of the pair is marked, whichever session it is about by now. *)
ClaimMarksRow(g) ==
    /\ claims[g].pc = "update"
    /\ rows' = [rows EXCEPT ![claims[g].pair].proofIssued = TRUE]
    /\ claims' = [claims EXCEPT ![g].pc = "limit"]
    /\ UNCHANGED <<now, redis, signals, accepted, issued, spoiled>>

(* findUnique, the signing or update rejects: this request fails alone.    *)
ClaimFails(g) ==
    /\ claims[g].pc \in {"row", "update"}
    /\ claims' = [claims EXCEPT ![g] = Idle]
    /\ UNCHANGED <<now, redis, rows, signals, accepted, issued, spoiled>>

(* Mutant: a key that expires one tick early. *)
LimitExpiresEarly == now + Day - 1

LimitExpires == now + Day

(* The rate-limit key is set and the proof returned. *)
ClaimReturns(g) ==
    LET p == claims[g].pair IN
    /\ claims[g].pc = "limit"
    /\ limits' = [limits EXCEPT ![p] = LimitExpires]
    /\ issued' = issued \cup {[pair |-> p, token |-> claims[g].token, at |-> now]}
    /\ claims' = [claims EXCEPT ![g] = Idle]
    /\ UNCHANGED <<now, sessions, rows, signals, accepted, spoiled>>

(* redis.set rejects, whether Redis wrote the key or not: the row stays    *)
(* marked, and nobody gets the proof.                                      *)
ClaimLost(g) ==
    LET p == claims[g].pair IN
    /\ claims[g].pc = "limit"
    /\ limits' \in {limits, [limits EXCEPT ![p] = LimitExpires]}
    /\ claims' = [claims EXCEPT ![g] = Idle]
    /\ spoiled' = spoiled \cup {p}
    /\ UNCHANGED <<now, sessions, rows, signals, accepted, issued>>

-----------------------------------------------------------------------------
Tick ==
    /\ now < MaxTime
    /\ now' = now + 1
    /\ UNCHANGED <<redis, rows, signals, claims, accepted, issued, spoiled>>

Crash ==
    /\ signals' = [s \in Signals |-> Idle]
    /\ claims' = [g \in Claims |-> Idle]
    /\ spoiled' = spoiled \cup {p \in Pairs : Holding(p, "limit") # {}}
    /\ UNCHANGED <<now, redis, rows, accepted, issued>>

Next ==
    \/ Tick
    \/ Crash
    \/ \E t \in Tokens : startSession(t) \/ SessionExpires(t)
    \/ \E s \in Signals :
          \/ \E t \in Tokens, kind \in Kinds : SignalReads(s, t, kind)
          \/ SignalRejected(s)
          \/ SignalWrites(s)
          \/ SignalUpserts(s)
    \/ \E g \in Claims :
          \/ \E p \in Pairs : ClaimPassesLimit(g, p)
          \/ ClaimSigns(g)
          \/ ClaimMarksRow(g)
          \/ ClaimReturns(g)
          \/ ClaimFails(g)
          \/ ClaimLost(g)

Spec == Init /\ [][Next]_vars

-----------------------------------------------------------------------------
(* Type invariant. *)
TypeOK ==
    /\ now \in Nat
    /\ sessions \in [Tokens -> Session \cup {None}]
    /\ rows \in [Pairs -> Row \cup {None}]
    /\ limits \in [Pairs -> Nat]
    /\ issued \subseteq Proof /\ spoiled \subseteq Pairs
    /\ \A s \in Signals :
          \/ signals[s] = Idle
          \/ signals[s] \in [pc: {"read"}, token: Tokens, kind: Kinds, session: Session]
          \/ signals[s] \in [pc: {"upsert"}, token: Tokens]
    /\ \A g \in Claims :
          \/ claims[g] = Idle
          \/ claims[g] \in [pc: {"row"}, pair: Pairs]
          \/ claims[g] \in [pc: {"update", "limit"}, pair: Pairs, token: Tokens]
    /\ accepted \in [Tokens -> [started: BOOLEAN, beats: Nat, videos: Nat, last: Nat]]

(* The signals accepted for a session suffice to complete it. *)
Earned(t) == accepted[t].videos > 0 \/ accepted[t].beats >= Required

(* attention.service.ts:104-173.  Concurrent signals overwrite each        *)
(* other's session, and expired sessions are brought back by a late write, *)
(* but no interleaving invents attention: what Redis holds or a request    *)
(* carries never exceeds the signals accepted for that very session.       *)
AttentionIsReal ==
    LET Backed(t, session) ==
            /\ session.beats <= accepted[t].beats
            /\ session.completed => Earned(t) IN
    /\ \A t \in Tokens : sessions[t] # None => Backed(t, sessions[t])
    /\ \A s \in Signals :
          /\ signals[s].pc = "read" => Backed(signals[s].token, signals[s].session)
          /\ signals[s].pc = "upsert" => Earned(signals[s].token)

(* attention.service.ts:190-249.  A proof is only ever signed for a        *)
(* session of the same (campaign, earner) that was really completed, even  *)
(* if the row changed hands between the checks and the answer.             *)
ProofsAreEarned ==
    /\ \A p \in Pairs : rows[p] # None =>
          OwnerOf[rows[p].token] = p /\ Earned(rows[p].token)
    /\ \A i \in issued : OwnerOf[i.token] = i.pair /\ Earned(i.token)

(* attention.service.ts:191, "1 claim per wallet per campaign per day":    *)
(* proofs of different sessions, which the vault would pay both, are at    *)
(* least a day apart.                                                      *)
OneProofPerDay ==
    \A i, j \in issued :
        i.pair = j.pair /\ i.token # j.token /\ i.at <= j.at => j.at - i.at >= Day

(* attention.service.ts:33, "Anti-bot: reject signals less than 100 ms     *)
(* apart".                                                                 *)
SignalsAreSpaced ==
    [][\A t \in Tokens :
          accepted'[t] # accepted[t] /\ accepted[t].last # 0 =>
              now - accepted[t].last >= MinInterval]_vars

(* attention.service.ts:190-249.  Proofs are handed out for sessions that  *)
(* were completed, by any interleaving of signals and claims; the same     *)
(* proof may be handed out again, whose action hash the vault knows.       *)
Issuance == INSTANCE ProofIssuance
                WITH Actions <- Tokens,
                     earned <- {t \in Tokens : Earned(t)},
                     issued <- {i.token : i \in issued}

AttentionIssuance == Issuance!Spec

(* attention.service.ts:213, "Proof already issued for this session".  The *)
(* row says so only when the proof of the session it is about was handed   *)
(* out or is about to be, except after a crash or a failed redis.set       *)
(* between the mark and the answer, and after a signal that overtook the   *)
(* proof being signed; the next signal of a completed session clears it.   *)
AttentionMarkIsTrue ==
    \A p \in Pairs \ spoiled :
        rows[p] # None /\ rows[p].proofIssued =>
            \/ \E i \in issued : i.pair = p /\ i.token = rows[p].token
            \/ \E g \in Holding(p, "limit") : claims[g].token = rows[p].token
=============================================================================
