--------------------------- MODULE AttentionProofs ---------------------------
(* Theorems about AttentionService, for every value of its constants: any  *)
(* number of sessions, earners, campaigns and requests in flight.          *)
EXTENDS AttentionService, TLAPS

-----------------------------------------------------------------------------
(* What Redis holds, or a request carries, for session t. *)
Backed(t, session) ==
    /\ session \in Session
    /\ session.beats <= accepted[t].beats
    /\ session.completed => Earned(t)

Counted == accepted \in [Tokens -> [started: BOOLEAN, beats: Nat, videos: Nat, last: Nat]]

SessionsBacked == \A t \in Tokens : sessions[t] # None => Backed(t, sessions[t])

SignalsBacked ==
    \A s \in Signals :
        \/ signals[s] = Idle
        \/ /\ signals[s] \in [pc: {"read"}, token: Tokens, kind: Kinds, session: Session]
           /\ Backed(signals[s].token, signals[s].session)
        \/ /\ signals[s] \in [pc: {"upsert"}, token: Tokens]
           /\ Earned(signals[s].token)

RowsEarned ==
    \A p \in Pairs : rows[p] # None =>
        /\ rows[p] \in Row
        /\ OwnerOf[rows[p].token] = p /\ Earned(rows[p].token)

(* A claim past its checks carries the session it signed for. *)
ClaimsEarned ==
    \A g \in Claims :
        \/ claims[g] = Idle
        \/ claims[g] \in [pc: {"row"}, pair: Pairs]
        \/ /\ claims[g] \in [pc: {"update", "limit"}, pair: Pairs, token: Tokens]
           /\ OwnerOf[claims[g].token] = claims[g].pair /\ Earned(claims[g].token)
           /\ rows[claims[g].pair] # None

IssuedEarned ==
    \A i \in issued : /\ i.token \in Tokens
                      /\ OwnerOf[i.token] = i.pair /\ Earned(i.token)

Domains ==
    /\ now \in Nat
    /\ sessions = [t \in Tokens |-> sessions[t]] /\ rows = [p \in Pairs |-> rows[p]]
    /\ signals = [s \in Signals |-> signals[s]] /\ claims = [g \in Claims |-> claims[g]]

(* The inductive invariant: attention is followed from the accepted        *)
(* signals through Redis, the requests, the rows and the claims in flight  *)
(* to the proofs, because any of these may be stale when it is used.       *)
IInv ==
    /\ Domains /\ Counted /\ SessionsBacked /\ SignalsBacked
    /\ RowsEarned /\ ClaimsEarned /\ IssuedEarned

(* The counts of a session never go down, so what was earned or backed     *)
(* stays so, however late it is used.                                      *)
CountsGrow ==
    /\ Counted'
    /\ \A t \in Tokens : /\ accepted[t].beats <= accepted'[t].beats
                         /\ accepted[t].videos <= accepted'[t].videos

LEMMA StaysBacked ==
    ASSUME Counted, CountsGrow, NEW t \in Tokens
    PROVE  /\ Earned(t) => Earned(t)'
           /\ \A session : Backed(t, session) =>
                 /\ session \in Session
                 /\ session.beats <= accepted'[t].beats
                 /\ session.completed => Earned(t)'
<1>1. /\ accepted[t].beats \in Nat /\ accepted'[t].beats \in Nat
      /\ accepted[t].videos \in Nat /\ accepted'[t].videos \in Nat
      /\ accepted[t].beats <= accepted'[t].beats
      /\ accepted[t].videos <= accepted'[t].videos
      /\ Required \in Nat
  BY AttentionAssumption DEF Counted, CountsGrow
<1>2. Earned(t) => Earned(t)'
  BY <1>1 DEF Earned
<1>3. ASSUME NEW session, Backed(t, session)
      PROVE  session.beats <= accepted'[t].beats
  <2>1. session.beats \in Nat /\ session.beats <= accepted[t].beats
    BY <1>3 DEF Backed, Session
  <2> QED BY <1>1, <2>1
<1> QED BY <1>2, <1>3 DEF Backed

(* A part of the invariant outlives a step that leaves its holders alone   *)
(* or drops some of them.                                                  *)
LEMMA Carried ==
    ASSUME IInv, CountsGrow
    PROVE  /\ (\A t \in Tokens : sessions'[t] \in {None, sessions[t]}) => SessionsBacked'
           /\ (\A s \in Signals : signals'[s] \in {Idle, signals[s]}) => SignalsBacked'
           /\ UNCHANGED rows => RowsEarned'
           /\ /\ \A g \in Claims : claims'[g] \in {Idle, claims[g]}
              /\ \A p \in Pairs : rows[p] # None => rows'[p] # None
              => ClaimsEarned'
           /\ UNCHANGED issued => IssuedEarned'
<1>1. Counted /\ Counted'
  BY DEF IInv, CountsGrow
<1>2. ASSUME \A t \in Tokens : sessions'[t] \in {None, sessions[t]} PROVE SessionsBacked'
  BY <1>1, <1>2, StaysBacked DEF IInv, SessionsBacked, Backed
<1>3. ASSUME \A s \in Signals : signals'[s] \in {Idle, signals[s]} PROVE SignalsBacked'
  BY <1>1, <1>3, StaysBacked DEF IInv, SignalsBacked, Backed
<1>4. UNCHANGED rows => RowsEarned'
  BY <1>1, StaysBacked DEF IInv, RowsEarned, Row
<1>5. ASSUME \A g \in Claims : claims'[g] \in {Idle, claims[g]},
             \A p \in Pairs : rows[p] # None => rows'[p] # None
      PROVE  ClaimsEarned'
  BY <1>1, <1>5, StaysBacked DEF IInv, ClaimsEarned
<1>6. UNCHANGED issued => IssuedEarned'
  BY <1>1, StaysBacked DEF IInv, IssuedEarned
<1> QED BY <1>2, <1>3, <1>4, <1>5, <1>6

(* Steps other than an accepted signal count nothing. *)
LEMMA CountsStay ==
    ASSUME IInv,
           \/ UNCHANGED accepted
           \/ \E t \in Tokens : accepted' = [accepted EXCEPT ![t].started = TRUE]
    PROVE  CountsGrow
<1>1. Counted
  BY DEF IInv
<1>2. CASE UNCHANGED accepted
  BY <1>1, <1>2 DEF CountsGrow, Counted
<1>3. ASSUME NEW t \in Tokens, accepted' = [accepted EXCEPT ![t].started = TRUE]
      PROVE  CountsGrow
  <2>1. Counted'
    BY <1>1, <1>3 DEF Counted
  <2>2. \A u \in Tokens : accepted'[u].beats = accepted[u].beats
                         /\ accepted'[u].videos = accepted[u].videos
    BY <1>1, <1>3 DEF Counted
  <2>3. \A u \in Tokens : accepted[u].beats \in Nat /\ accepted[u].videos \in Nat
    BY <1>1 DEF Counted
  <2> QED BY <2>1, <2>2, <2>3 DEF CountsGrow
<1> QED BY <1>2, <1>3

(* Ticks, crashes, expiries, rejections and failed claims. *)
LEMMA DroppedIInv ==
    ASSUME IInv,
           \/ Tick \/ Crash
           \/ \E t \in Tokens : SessionExpires(t)
           \/ \E s \in Signals : SignalRejected(s)
           \/ \E g \in Claims : ClaimFails(g) \/ ClaimLost(g)
           \/ UNCHANGED vars
    PROVE  IInv'
<1>1. UNCHANGED accepted
  BY DEF Tick, Crash, SessionExpires, SignalRejected, ClaimFails, ClaimLost, vars
<1>2. CountsGrow
  BY <1>1, CountsStay
<1>3. /\ \A t \in Tokens : sessions'[t] \in {None, sessions[t]}
      /\ \A s \in Signals : signals'[s] \in {Idle, signals[s]}
      /\ UNCHANGED rows
      /\ \A g \in Claims : claims'[g] \in {Idle, claims[g]}
      /\ UNCHANGED issued
  BY DEF IInv, Domains, Tick, Crash, SessionExpires, SignalRejected, ClaimFails, ClaimLost,
     vars, redis
<1>4. Domains'
  BY DEF IInv, Domains, Tick, Crash, SessionExpires, SignalRejected, ClaimFails, ClaimLost,
     vars, redis
<1> QED BY <1>2, <1>3, <1>4, Carried DEF IInv, CountsGrow

(* attention.service.ts:61-93. *)
LEMMA StartIInv ==
    ASSUME IInv, NEW t \in Tokens, startSession(t)
    PROVE  IInv'
<1>1. CountsGrow
  BY CountsStay DEF startSession
<1>2. Domains' /\ UNCHANGED <<signals, rows, claims, issued>>
  BY DEF startSession, IInv, Domains
<1>3. SessionsBacked'
  <2> SUFFICES ASSUME NEW u \in Tokens, sessions'[u] # None PROVE Backed(u, sessions[u])'
    BY DEF SessionsBacked
  <2>1. CASE u = t
    <3>1. sessions'[u] = Fresh
      BY <2>1 DEF startSession, IInv, Domains
    <3>2. Fresh \in Session /\ Fresh.beats = 0 /\ ~Fresh.completed
      BY DEF Fresh, Session
    <3>3. accepted'[u].beats \in Nat
      BY <1>1 DEF CountsGrow, Counted
    <3> QED BY <3>1, <3>2, <3>3 DEF Backed
  <2>2. CASE u # t
    <3>1. sessions'[u] = sessions[u]
      BY <2>2 DEF startSession, IInv, Domains
    <3> QED BY <1>1, <3>1, StaysBacked DEF IInv, SessionsBacked, Backed
  <2> QED BY <2>1, <2>2
<1> QED BY <1>1, <1>2, <1>3, Carried DEF IInv, CountsGrow

(* attention.service.ts:99-109. *)
LEMMA ReadsIInv ==
    ASSUME IInv, NEW s \in Signals, NEW t \in Tokens, NEW kind \in Kinds,
           SignalReads(s, t, kind)
    PROVE  IInv'
<1>1. CountsGrow
  BY CountsStay DEF SignalReads
<1>2. Domains' /\ UNCHANGED <<sessions, rows, claims, issued, accepted>>
  BY DEF SignalReads, redis, IInv, Domains
<1>3. SignalsBacked'
  <2>1. Backed(t, sessions[t])'
    BY <1>2 DEF SignalReads, IInv, SessionsBacked, Backed, Earned
  <2> SUFFICES ASSUME NEW r \in Signals
               PROVE  \/ signals'[r] = Idle
                      \/ /\ signals'[r] \in [pc: {"read"}, token: Tokens, kind: Kinds,
                                             session: Session]
                         /\ Backed(signals[r].token, signals[r].session)'
                      \/ /\ signals'[r] \in [pc: {"upsert"}, token: Tokens]
                         /\ Earned(signals[r].token)'
    BY DEF SignalsBacked
  <2>2. CASE r = s
    <3>1. signals'[r] = [pc |-> "read", token |-> t, kind |-> kind, session |-> sessions[t]]
      BY <2>2 DEF SignalReads, IInv, Domains
    <3>2. sessions[t] \in Session
      BY <1>2, <2>1 DEF Backed
    <3> QED BY <1>2, <2>1, <3>1, <3>2
  <2>3. CASE r # s
    <3>1. signals'[r] = signals[r]
      BY <2>3 DEF SignalReads, IInv, Domains
    <3> QED BY <1>2, <3>1 DEF IInv, SignalsBacked, Backed, Earned
  <2> QED BY <2>2, <2>3
<1> QED BY <1>1, <1>2, <1>3, Carried DEF IInv, CountsGrow

(* attention.service.ts:119-146.  The session written may be older than    *)
(* the counts, never ahead of them: this signal adds one to both.          *)
LEMMA WritesIInv ==
    ASSUME IInv, NEW s \in Signals, SignalWrites(s)
    PROVE  IInv'
<1>1. /\ signals[s].pc = "read" /\ signals[s].token \in Tokens
      /\ signals[s].kind \in Kinds /\ Backed(signals[s].token, signals[s].session)
  <2>1. signals[s].pc = "read"
    BY DEF SignalWrites
  <2>2. signals[s] # Idle
    BY <2>1 DEF Idle
  <2> QED BY <2>1, <2>2 DEF IInv, SignalsBacked
<1>2. PICK t \in Tokens, kind \in Kinds, old \in Session :
         /\ signals[s].token = t /\ signals[s].kind = kind /\ signals[s].session = old
         /\ old.beats <= accepted[t].beats /\ (old.completed => Earned(t))
  BY <1>1 DEF Backed
<1>3. Recorded(old, kind) \in Session
  BY AttentionAssumption DEF IInv, Domains, Recorded, Session
<1>4. PICK new \in Session : new = Recorded(old, kind)
  BY <1>3
<1>5. /\ sessions' = [sessions EXCEPT ![t] = new]
      /\ signals' = [signals EXCEPT ![s] =
             IF Persisted(new) THEN [pc |-> "upsert", token |-> t] ELSE Idle]
      /\ UNCHANGED <<now, rows, claims, issued>>
  BY <1>2, <1>4 DEF SignalWrites
<1>6. accepted' = [accepted EXCEPT
         ![t] = [started |-> TRUE, last |-> now,
                 beats  |-> accepted[t].beats + (IF kind = "heartbeat" THEN 1 ELSE 0),
                 videos |-> accepted[t].videos + (IF kind = "video_complete" THEN 1 ELSE 0)]]
  BY <1>2 DEF SignalWrites
<1>7. accepted[t].beats \in Nat /\ accepted[t].videos \in Nat /\ now \in Nat
  BY DEF IInv, Counted, Domains
<1>8. /\ accepted'[t].beats = accepted[t].beats + (IF kind = "heartbeat" THEN 1 ELSE 0)
      /\ accepted'[t].videos = accepted[t].videos + (IF kind = "video_complete" THEN 1 ELSE 0)
      /\ \A u \in Tokens \ {t} : accepted'[u] = accepted[u]
  BY <1>6 DEF IInv, Counted
<1>9. CountsGrow
  <2>1. Counted'
    BY <1>6, <1>7 DEF IInv, Counted
  <2>2. \A u \in Tokens : accepted[u].beats \in Nat /\ accepted[u].videos \in Nat
    BY DEF IInv, Counted
  <2> QED BY <1>7, <1>8, <2>1, <2>2 DEF CountsGrow
<1>10. new.beats <= accepted'[t].beats /\ (new.completed => Earned(t)')
  <2>1. /\ old.beats \in Nat /\ new.beats \in Nat
        /\ new.beats = old.beats + (IF kind = "heartbeat" THEN 1 ELSE 0)
        /\ new.completed => \/ old.completed \/ kind = "video_complete"
                            \/ new.beats >= Required
    BY <1>4 DEF Recorded, Session
  <2>2. new.beats <= accepted'[t].beats
    BY <1>2, <1>7, <1>8, <2>1
  <2>3. accepted'[t].beats \in Nat /\ Required \in Nat
    BY <1>9, AttentionAssumption DEF CountsGrow, Counted
  <2>4. old.completed => Earned(t)'
    BY <1>2, <1>9, StaysBacked DEF IInv
  <2>5. kind = "video_complete" => Earned(t)'
    BY <1>7, <1>8 DEF Earned
  <2>6. new.beats >= Required => Earned(t)'
    BY <2>1, <2>2, <2>3 DEF Earned
  <2> QED BY <2>1, <2>2, <2>4, <2>5, <2>6
<1>11. SessionsBacked'
  <2> SUFFICES ASSUME NEW u \in Tokens, sessions'[u] # None PROVE Backed(u, sessions[u])'
    BY DEF SessionsBacked
  <2>1. CASE u = t
    <3>1. sessions'[u] = new
      BY <1>5, <2>1 DEF IInv, Domains
    <3> QED BY <1>10, <2>1, <3>1 DEF Backed
  <2>2. CASE u # t
    <3>1. sessions'[u] = sessions[u]
      BY <1>5, <2>2 DEF IInv, Domains
    <3> QED BY <1>9, <3>1, StaysBacked DEF IInv, SessionsBacked, Backed
  <2> QED BY <2>1, <2>2
<1>12. SignalsBacked'
  <2> SUFFICES ASSUME NEW r \in Signals
               PROVE  \/ signals'[r] = Idle
                      \/ /\ signals'[r] \in [pc: {"read"}, token: Tokens, kind: Kinds,
                                             session: Session]
                         /\ Backed(signals[r].token, signals[r].session)'
                      \/ /\ signals'[r] \in [pc: {"upsert"}, token: Tokens]
                         /\ Earned(signals[r].token)'
    BY DEF SignalsBacked
  <2>1. CASE r = s
    <3>1. signals'[r] = IF Persisted(new) THEN [pc |-> "upsert", token |-> t] ELSE Idle
      BY <1>5, <2>1 DEF IInv, Domains
    <3> QED BY <1>10, <3>1 DEF Persisted
  <2>2. CASE r # s
    <3>1. signals'[r] = signals[r]
      BY <1>5, <2>2 DEF IInv, Domains
    <3> QED BY <1>9, <3>1, StaysBacked DEF IInv, SignalsBacked, Backed
  <2> QED BY <2>1, <2>2
<1>13. Domains'
  BY <1>5 DEF IInv, Domains
<1> QED BY <1>5, <1>9, <1>11, <1>12, <1>13, Carried DEF IInv, CountsGrow

(* attention.service.ts:145-173.  The row written is about the pair the    *)
(* session was started for.                                                *)
LEMMA UpsertsIInv ==
    ASSUME IInv, NEW s \in Signals, SignalUpserts(s)
    PROVE  IInv'
<1>1. CountsGrow
  BY CountsStay DEF SignalUpserts
<1>2. signals[s].pc = "upsert"
  BY DEF SignalUpserts
<1>3. signals[s].token \in Tokens /\ Earned(signals[s].token)
  <2>1. signals[s] # Idle
    BY <1>2 DEF Idle
  <2> QED BY <1>2, <2>1 DEF IInv, SignalsBacked
<1>4. PICK t \in Tokens : signals[s].token = t /\ Earned(t)
  BY <1>3
<1>5. PICK row \in Row : row = Armed(t)
  BY DEF Armed, Row
<1>6. row # None /\ row.token = t
  BY <1>5, AttentionAssumption DEF Armed
<1>7. /\ rows' = [rows EXCEPT ![OwnerOf[t]] = row] \/ UNCHANGED rows
      /\ UNCHANGED <<sessions, claims, issued, accepted>>
      /\ \A r \in Signals : signals'[r] \in {Idle, signals[r]}
      /\ Domains'
  BY <1>4, <1>5 DEF SignalUpserts, redis, IInv, Domains
<1>8. \A p \in Pairs : rows'[p] = rows[p] \/ (p = OwnerOf[t] /\ rows'[p] = row)
  BY <1>7 DEF IInv, Domains
<1>9. RowsEarned'
  BY <1>1, <1>4, <1>6, <1>7, <1>8 DEF IInv, RowsEarned, Earned
<1>10. \A p \in Pairs : rows[p] # None => rows'[p] # None
  BY <1>6, <1>8
<1> QED BY <1>1, <1>7, <1>9, <1>10, Carried DEF IInv, CountsGrow

(* The claims other than g stay earned when g moves on to an earned state. *)
LEMMA ClaimMoves ==
    ASSUME IInv, UNCHANGED accepted, NEW g \in Claims,
           \A h \in Claims \ {g} : claims'[h] = claims[h],
           \A p \in Pairs : rows[p] # None => rows'[p] # None,
           \/ claims'[g] = Idle
           \/ claims'[g] \in [pc: {"row"}, pair: Pairs]
           \/ /\ claims'[g] \in [pc: {"update", "limit"}, pair: Pairs, token: Tokens]
              /\ OwnerOf[claims'[g].token] = claims'[g].pair /\ Earned(claims'[g].token)
              /\ rows[claims'[g].pair] # None
    PROVE  ClaimsEarned'
<1>1. \A t : Earned(t) => Earned(t)'
  BY DEF Earned
<1> SUFFICES ASSUME NEW h \in Claims
             PROVE  \/ claims'[h] = Idle
                    \/ claims'[h] \in [pc: {"row"}, pair: Pairs]
                    \/ /\ claims'[h] \in [pc: {"update", "limit"}, pair: Pairs, token: Tokens]
                       /\ OwnerOf[claims'[h].token] = claims'[h].pair
                       /\ Earned(claims[h].token)'
                       /\ rows'[claims'[h].pair] # None
  BY DEF ClaimsEarned
<1>2. CASE h = g
  BY <1>2 DEF Earned
<1>3. CASE h # g
  <2>1. claims'[h] = claims[h]
    BY <1>3
  <2> QED BY <2>1 DEF IInv, ClaimsEarned, Earned
<1> QED BY <1>2, <1>3

(* attention.service.ts:190-201. *)
LEMMA PassesIInv ==
    ASSUME IInv, NEW g \in Claims, NEW p \in Pairs, ClaimPassesLimit(g, p)
    PROVE  IInv'
<1>1. /\ UNCHANGED <<now, sessions, rows, signals, issued, accepted>>
      /\ Domains' /\ CountsGrow
      /\ \A h \in Claims \ {g} : claims'[h] = claims[h]
      /\ claims'[g] = [pc |-> "row", pair |-> p]
  BY CountsStay DEF ClaimPassesLimit, redis, IInv, Domains
<1>2. ClaimsEarned'
  BY <1>1, ClaimMoves
<1> QED BY <1>1, <1>2, Carried DEF IInv, CountsGrow

(* attention.service.ts:203-236.  What the claim carries from here on was  *)
(* earned when the row was read.                                           *)
LEMMA SignsIInv ==
    ASSUME IInv, NEW g \in Claims, ClaimSigns(g)
    PROVE  IInv'
<1>1. /\ UNCHANGED <<now, sessions, rows, signals, issued, accepted>>
      /\ Domains' /\ CountsGrow
      /\ \A h \in Claims \ {g} : claims'[h] = claims[h]
      /\ claims[g].pc = "row"
      /\ claims'[g] = IF HasProofToIssue(rows[claims[g].pair])
                      THEN [pc |-> "update", pair |-> claims[g].pair,
                            token |-> rows[claims[g].pair].token]
                      ELSE Idle
  BY CountsStay DEF ClaimSigns, redis, IInv, Domains
<1>2. claims[g].pair \in Pairs
  <2>1. claims[g] # Idle
    BY <1>1 DEF Idle
  <2> QED BY <1>1, <2>1 DEF IInv, ClaimsEarned
<1>3. CASE ~HasProofToIssue(rows[claims[g].pair])
  <2>1. ClaimsEarned'
    BY <1>1, <1>3, ClaimMoves
  <2> QED BY <1>1, <2>1, Carried DEF IInv, CountsGrow
<1>4. CASE HasProofToIssue(rows[claims[g].pair])
  <2>1. rows[claims[g].pair] # None
    BY <1>4 DEF HasProofToIssue
  <2>2. /\ rows[claims[g].pair].token \in Tokens
        /\ OwnerOf[rows[claims[g].pair].token] = claims[g].pair
        /\ Earned(rows[claims[g].pair].token)
    BY <1>2, <2>1 DEF IInv, RowsEarned, Row
  <2>3. /\ claims'[g] \in [pc: {"update", "limit"}, pair: Pairs, token: Tokens]
        /\ claims'[g].pair = claims[g].pair
        /\ claims'[g].token = rows[claims[g].pair].token
    BY <1>1, <1>2, <1>4, <2>2
  <2>4. Earned(claims'[g].token)
    BY <2>2, <2>3 DEF Earned
  <2>5. ClaimsEarned'
    BY <1>1, <1>2, <2>1, <2>2, <2>3, <2>4, ClaimMoves
  <2> QED BY <1>1, <2>5, Carried DEF IInv, CountsGrow
<1> QED BY <1>3, <1>4

(* A claim past its checks is about an earned session. *)
LEMMA ClaimPastChecks ==
    ASSUME IInv, NEW g \in Claims, claims[g].pc \in {"update", "limit"}
    PROVE  /\ claims[g] \in [pc: {"update", "limit"}, pair: Pairs, token: Tokens]
           /\ OwnerOf[claims[g].token] = claims[g].pair /\ Earned(claims[g].token)
           /\ rows[claims[g].pair] # None
<1>1. claims[g] # Idle /\ claims[g].pc # "row"
  BY DEF Idle
<1> QED BY <1>1 DEF IInv, ClaimsEarned

(* attention.service.ts:238-241.  The row marked may be about a later      *)
(* session than the one signed for; either was earned.                     *)
LEMMA MarksIInv ==
    ASSUME IInv, NEW g \in Claims, ClaimMarksRow(g)
    PROVE  IInv'
<1>1. /\ UNCHANGED <<now, sessions, signals, issued, accepted>>
      /\ CountsGrow /\ claims[g].pc = "update"
      /\ rows' = [rows EXCEPT ![claims[g].pair].proofIssued = TRUE]
      /\ claims' = [claims EXCEPT ![g].pc = "limit"]
  BY CountsStay DEF ClaimMarksRow, redis
<1>2. /\ claims[g] \in [pc: {"update", "limit"}, pair: Pairs, token: Tokens]
      /\ OwnerOf[claims[g].token] = claims[g].pair /\ Earned(claims[g].token)
      /\ rows[claims[g].pair] # None
  BY <1>1, ClaimPastChecks
<1>3. PICK p \in Pairs : p = claims[g].pair
  BY <1>2
<1>4. rows[p] \in Row
  BY <1>2, <1>3 DEF IInv, RowsEarned
<1>5. PICK row \in Row : row = [rows[p] EXCEPT !.proofIssued = TRUE]
  BY <1>4 DEF Row
<1>6. row # None /\ row.token = rows[p].token
  BY <1>4, <1>5, AttentionAssumption DEF Row
<1>7. \A q \in Pairs : rows'[q] = IF q = p THEN row ELSE rows[q]
  BY <1>1, <1>3, <1>5 DEF IInv, Domains
<1>8. Domains'
  BY <1>1 DEF IInv, Domains
<1>9. RowsEarned'
  <2>1. OwnerOf[rows[p].token] = p /\ Earned(rows[p].token)
    BY <1>2, <1>3 DEF IInv, RowsEarned
  <2> SUFFICES ASSUME NEW q \in Pairs, rows'[q] # None
               PROVE  /\ rows'[q] \in Row /\ OwnerOf[rows'[q].token] = q
                      /\ Earned(rows[q].token)'
    BY DEF RowsEarned
  <2>2. CASE q = p
    <3>1. rows'[q] \in Row /\ rows'[q].token = rows[p].token
      BY <1>6, <1>7, <2>2
    <3> QED BY <1>1, <2>1, <2>2, <3>1 DEF Earned
  <2>3. CASE q # p
    <3>1. rows'[q] = rows[q]
      BY <1>7, <2>3
    <3> QED BY <1>1, <3>1 DEF IInv, RowsEarned, Earned
  <2> QED BY <2>2, <2>3
<1>10. ClaimsEarned'
  <2>1. \A h \in Claims \ {g} : claims'[h] = claims[h]
    BY <1>1 DEF IInv, Domains
  <2>2. claims'[g] = [claims[g] EXCEPT !.pc = "limit"]
    BY <1>1 DEF IInv, Domains
  <2>3. claims'[g].pair = claims[g].pair /\ claims'[g].token = claims[g].token
    BY <1>2, <2>2
  <2>4. claims'[g] \in [pc: {"update", "limit"}, pair: Pairs, token: Tokens]
    BY <1>2, <2>2
  <2>5. \A q \in Pairs : rows[q] # None => rows'[q] # None
    BY <1>6, <1>7
  <2>6. Earned(claims'[g].token)
    BY <1>2, <2>3 DEF Earned
  <2> QED BY <1>1, <1>2, <2>1, <2>3, <2>4, <2>5, <2>6, ClaimMoves
<1> QED BY <1>1, <1>8, <1>9, <1>10, Carried DEF IInv, CountsGrow

(* attention.service.ts:243-249. *)
LEMMA ReturnsIInv ==
    ASSUME IInv, NEW g \in Claims, ClaimReturns(g)
    PROVE  IInv'
<1>1. /\ UNCHANGED <<now, sessions, rows, signals, accepted>>
      /\ Domains' /\ CountsGrow /\ claims[g].pc = "limit"
      /\ \A h \in Claims : claims'[h] \in {Idle, claims[h]}
      /\ issued' = issued \cup {[pair |-> claims[g].pair, token |-> claims[g].token, at |-> now]}
  BY CountsStay DEF ClaimReturns, IInv, Domains
<1>2. /\ claims[g].token \in Tokens /\ OwnerOf[claims[g].token] = claims[g].pair
      /\ Earned(claims[g].token)
  BY <1>1, ClaimPastChecks
<1>3. IssuedEarned'
  BY <1>1, <1>2 DEF IInv, IssuedEarned, Earned
<1> QED BY <1>1, <1>3, Carried DEF IInv, CountsGrow

-----------------------------------------------------------------------------
LEMMA InitIInv == Init => IInv
  BY AttentionAssumption DEF Init, IInv, Domains, Counted, SessionsBacked, SignalsBacked,
     RowsEarned, ClaimsEarned, IssuedEarned, NoneYet, Idle

LEMMA NextIInv == IInv /\ [Next]_vars => IInv'
<1> SUFFICES ASSUME IInv, [Next]_vars PROVE IInv'
  OBVIOUS
<1>1. CASE Tick
  BY <1>1, DroppedIInv
<1>2. CASE Crash
  BY <1>2, DroppedIInv
<1>3. ASSUME NEW t \in Tokens, startSession(t) PROVE IInv'
  BY <1>3, StartIInv
<1>4. ASSUME NEW t \in Tokens, SessionExpires(t) PROVE IInv'
  BY <1>4, DroppedIInv
<1>5. ASSUME NEW s \in Signals, NEW t \in Tokens, NEW kind \in Kinds,
             SignalReads(s, t, kind)
      PROVE  IInv'
  BY <1>5, ReadsIInv
<1>6. ASSUME NEW s \in Signals, SignalRejected(s) PROVE IInv'
  BY <1>6, DroppedIInv
<1>7. ASSUME NEW s \in Signals, SignalWrites(s) PROVE IInv'
  BY <1>7, WritesIInv
<1>8. ASSUME NEW s \in Signals, SignalUpserts(s) PROVE IInv'
  BY <1>8, UpsertsIInv
<1>9. ASSUME NEW g \in Claims, NEW p \in Pairs, ClaimPassesLimit(g, p) PROVE IInv'
  BY <1>9, PassesIInv
<1>10. ASSUME NEW g \in Claims, ClaimSigns(g) PROVE IInv'
  BY <1>10, SignsIInv
<1>11. ASSUME NEW g \in Claims, ClaimMarksRow(g) PROVE IInv'
  BY <1>11, MarksIInv
<1>12. ASSUME NEW g \in Claims, ClaimReturns(g) PROVE IInv'
  BY <1>12, ReturnsIInv
<1>13. ASSUME NEW g \in Claims, ClaimFails(g) \/ ClaimLost(g) PROVE IInv'
  BY <1>13, DroppedIInv
<1>14. CASE UNCHANGED vars
  BY <1>14, DroppedIInv
<1> QED BY <1>1, <1>2, <1>3, <1>4, <1>5, <1>6, <1>7, <1>8, <1>9, <1>10, <1>11, <1>12,
           <1>13, <1>14 DEF Next

LEMMA Invariance == Spec => []IInv
  BY InitIInv, NextIInv, PTL DEF Spec

(* recordSignal never invents attention, however its reads and writes of   *)
(* Redis interleave with those of other requests, expiries and crashes.    *)
THEOREM RealAttention == Spec => []AttentionIsReal
<1>1. IInv => AttentionIsReal
  BY DEF IInv, SessionsBacked, SignalsBacked, Backed, AttentionIsReal, Idle
<1> QED BY <1>1, Invariance, PTL

(* getProof never signs for attention that was not earned by that very     *)
(* earner on that very campaign, though it marks and signs in two steps.   *)
THEOREM EarnedProofs == Spec => []ProofsAreEarned
<1>1. IInv => ProofsAreEarned
  BY DEF IInv, RowsEarned, IssuedEarned, ProofsAreEarned
<1> QED BY <1>1, Invariance, PTL

-----------------------------------------------------------------------------
EarnedTokens == {t \in Tokens : Earned(t)}
IssuedTokens == {i.token : i \in issued}

(* What is earned is a matter of the accepted signals alone. *)
LEMMA SameEarned == UNCHANGED accepted => EarnedTokens' = EarnedTokens
  BY DEF EarnedTokens, Earned

(* A step that changes neither the counts nor the proofs is no step of the *)
(* abstract specification.                                                 *)
LEMMA NoStep ==
    ASSUME UNCHANGED <<accepted, issued>>
    PROVE  UNCHANGED <<EarnedTokens, IssuedTokens>>
  BY SameEarned DEF IssuedTokens

(* Starting a session earns nothing. *)
LEMMA StartEarnsNothing ==
    ASSUME IInv, NEW t \in Tokens, startSession(t)
    PROVE  UNCHANGED <<EarnedTokens, IssuedTokens>>
<1>1. accepted' = [accepted EXCEPT ![t].started = TRUE] /\ UNCHANGED issued
  BY DEF startSession
<1>2. \A u \in Tokens : /\ accepted'[u].beats = accepted[u].beats
                        /\ accepted'[u].videos = accepted[u].videos
  BY <1>1 DEF IInv, Counted
<1>3. EarnedTokens' = EarnedTokens
  BY <1>2 DEF EarnedTokens, Earned
<1> QED BY <1>1, <1>3 DEF IssuedTokens

(* attention.service.ts:118-143.  A signal earns at most its own session. *)
LEMMA SignalEarns ==
    ASSUME IInv, NEW s \in Signals, SignalWrites(s)
    PROVE  \/ UNCHANGED <<EarnedTokens, IssuedTokens>>
           \/ \E t \in Tokens : Issuance!Earn(t)
<1>1. signals[s].token \in Tokens
  <2>1. signals[s].pc = "read" /\ signals[s] # Idle
    BY DEF SignalWrites, Idle
  <2> QED BY <2>1 DEF IInv, SignalsBacked
<1>2. PICK t \in Tokens : signals[s].token = t
  BY <1>1
<1>3. UNCHANGED issued
  BY DEF SignalWrites
<1>4. IInv'
  BY WritesIInv
<1>5. \A u \in Tokens \ {t} : accepted'[u] = accepted[u]
  BY <1>2 DEF SignalWrites, IInv, Counted
<1>6. \A u \in Tokens \ {t} : Earned(u)' <=> Earned(u)
  BY <1>5 DEF Earned
<1>7. Earned(t) => Earned(t)'
  <2>1. /\ accepted'[t].beats >= accepted[t].beats
        /\ accepted'[t].videos >= accepted[t].videos
    BY <1>2 DEF SignalWrites, IInv, Counted
  <2>2. /\ accepted[t].beats \in Nat /\ accepted'[t].beats \in Nat
        /\ accepted[t].videos \in Nat /\ accepted'[t].videos \in Nat
        /\ Required \in Nat
    BY <1>4, AttentionAssumption DEF IInv, Counted
  <2> QED BY <2>1, <2>2 DEF Earned
<1>8. UNCHANGED IssuedTokens
  BY <1>3 DEF IssuedTokens
<1>9. CASE Earned(t) <=> Earned(t)'
  <2>1. EarnedTokens' = EarnedTokens
    BY <1>6, <1>9 DEF EarnedTokens
  <2> QED BY <1>8, <2>1
<1>10. CASE ~Earned(t) /\ Earned(t)'
  <2>1. EarnedTokens' = EarnedTokens \cup {t} /\ t \notin EarnedTokens
    BY <1>6, <1>10 DEF EarnedTokens
  <2>2. Issuance!Earn(t)
    BY <1>8, <2>1 DEF Issuance!Earn, EarnedTokens, IssuedTokens
  <2> QED BY <2>2
<1> QED BY <1>7, <1>9, <1>10

(* attention.service.ts:243-249.  The answer hands out a proof for the     *)
(* earned session the claim carries, or one that was handed out before.    *)
LEMMA AnswerIssues ==
    ASSUME IInv, NEW g \in Claims, ClaimReturns(g)
    PROVE  \/ UNCHANGED <<EarnedTokens, IssuedTokens>>
           \/ \E t \in Tokens : Issuance!Issue(t)
<1>1. /\ UNCHANGED accepted /\ claims[g].pc = "limit"
      /\ issued' = issued \cup {[pair |-> claims[g].pair, token |-> claims[g].token, at |-> now]}
  BY DEF ClaimReturns
<1>2. PICK t \in Tokens : claims[g].token = t /\ Earned(t)
  BY <1>1, ClaimPastChecks DEF Earned
<1>3. UNCHANGED EarnedTokens /\ t \in EarnedTokens
  BY <1>1, <1>2, SameEarned DEF EarnedTokens
<1>4. IssuedTokens' = IssuedTokens \cup {t}
  <2> DEFINE proof == [pair |-> claims[g].pair, token |-> claims[g].token, at |-> now]
  <2>1. proof.token = t
    BY <1>2
  <2>2. issued' = issued \cup {proof}
    BY <1>1
  <2> HIDE DEF proof
  <2> QED BY <2>1, <2>2 DEF IssuedTokens
<1>5. CASE t \in IssuedTokens
  <2>1. IssuedTokens' = IssuedTokens
    BY <1>4, <1>5
  <2> QED BY <1>3, <2>1
<1>6. CASE t \notin IssuedTokens
  <2>1. Issuance!Issue(t)
    BY <1>3, <1>4, <1>6 DEF Issuance!Issue, EarnedTokens, IssuedTokens
  <2> QED BY <2>1
<1> QED BY <1>5, <1>6

LEMMA InitIssuance == Init => Issuance!Init
<1> SUFFICES ASSUME Init PROVE Issuance!Init
  OBVIOUS
<1>1. \A t \in Tokens : ~Earned(t)
  BY AttentionAssumption DEF Init, Earned, NoneYet
<1>2. issued = {}
  BY DEF Init
<1> QED BY <1>1, <1>2 DEF Issuance!Init

LEMMA NextIssuance == IInv /\ [Next]_vars => [Issuance!Next]_(Issuance!vars)
<1> SUFFICES ASSUME IInv, [Next]_vars
             PROVE  \/ UNCHANGED <<EarnedTokens, IssuedTokens>>
                    \/ \E t \in Tokens : Issuance!Earn(t) \/ Issuance!Issue(t)
  BY DEF Issuance!Next, Issuance!vars, EarnedTokens, IssuedTokens
<1>1. CASE UNCHANGED <<accepted, issued>>
  BY <1>1, NoStep
<1>2. ASSUME NEW t \in Tokens, startSession(t) PROVE UNCHANGED <<EarnedTokens, IssuedTokens>>
  BY <1>2, StartEarnsNothing
<1>3. ASSUME NEW s \in Signals, SignalWrites(s)
      PROVE  \/ UNCHANGED <<EarnedTokens, IssuedTokens>>
             \/ \E t \in Tokens : Issuance!Earn(t)
  BY <1>3, SignalEarns
<1>4. ASSUME NEW g \in Claims, ClaimReturns(g)
      PROVE  \/ UNCHANGED <<EarnedTokens, IssuedTokens>>
             \/ \E t \in Tokens : Issuance!Issue(t)
  BY <1>4, AnswerIssues
<1>5. \/ UNCHANGED <<accepted, issued>>
      \/ \E t \in Tokens : startSession(t)
      \/ \E s \in Signals : SignalWrites(s)
      \/ \E g \in Claims : ClaimReturns(g)
  BY DEF Next, vars, Tick, Crash, SessionExpires, SignalReads, SignalRejected,
     SignalUpserts, ClaimPassesLimit, ClaimSigns, ClaimMarksRow, ClaimFails, ClaimLost
<1> QED BY <1>1, <1>2, <1>3, <1>4, <1>5

(* The attention service implements ProofIssuance: whatever interleaving   *)
(* of signals, claims, expiries and crashes happens, a step earns one      *)
(* session's proof, hands out an earned one, or does neither.              *)
THEOREM ImplementsIssuance == Spec => AttentionIssuance
<1>1. Spec => Issuance!Init /\ [][Issuance!Next]_(Issuance!vars)
  BY InitIssuance, NextIssuance, Invariance, PTL DEF Spec
<1> QED BY <1>1 DEF AttentionIssuance, Issuance!Spec

-----------------------------------------------------------------------------
(* The rate limit: a proof keeps its pair's key for a day. *)
IssuedLimited ==
    \A i \in issued :
        /\ i \in Proof /\ i.at <= now
        /\ i.at + Day <= limits[i.pair]

Limited == limits \in [Pairs -> Nat] /\ spoiled \subseteq Pairs /\ IssuedLimited

LEMMA LimitedStep ==
    ASSUME IInv, Limited, [Next]_vars
    PROVE  Limited'
<1>1. now \in Nat /\ Day \in Nat
  BY AttentionAssumption DEF IInv, Domains
<1>2. ASSUME limits' = limits, issued' = issued, now' = now \/ now' = now + 1
      PROVE  limits' \in [Pairs -> Nat] /\ IssuedLimited'
  <2>1. now' \in Nat /\ now <= now'
    BY <1>1, <1>2
  <2>2. ASSUME NEW i \in issued PROVE i.at <= now'
    <3>1. i.at \in Nat /\ i.at <= now
      BY DEF Limited, IssuedLimited, Proof
    <3> QED BY <1>1, <2>1, <3>1
  <2> QED BY <1>2, <2>2 DEF Limited, IssuedLimited
<1>3. ASSUME NEW g \in Claims, ClaimReturns(g)
      PROVE  limits' \in [Pairs -> Nat] /\ IssuedLimited'
  <2> DEFINE p == claims[g].pair
             proof == [pair |-> p, token |-> claims[g].token, at |-> now]
  <2>1. p \in Pairs /\ claims[g].token \in Tokens
    BY <1>3, ClaimPastChecks DEF ClaimReturns
  <2>2. /\ limits' = [limits EXCEPT ![p] = now + Day] /\ now' = now
        /\ issued' = issued \cup {proof}
    BY <1>3 DEF ClaimReturns, LimitExpires
  <2>3. proof \in Proof /\ proof.pair = p /\ proof.at = now
    BY <1>1, <2>1 DEF Proof
  <2> HIDE DEF p, proof
  <2>4. limits' \in [Pairs -> Nat] /\ limits'[p] = now + Day
    BY <1>1, <2>1, <2>2 DEF Limited
  <2>5. ASSUME NEW i \in issued'
        PROVE  i \in Proof /\ i.at <= now /\ i.at + Day <= limits'[i.pair]
    <3>1. CASE i = proof
      BY <1>1, <2>3, <2>4, <3>1
    <3>2. CASE i \in issued
      <4>1. /\ i \in Proof /\ i.at \in Nat /\ i.pair \in Pairs /\ i.at <= now
            /\ i.at + Day <= limits[i.pair]
        BY <3>2 DEF Limited, IssuedLimited, Proof
      <4>2. CASE i.pair = p
        BY <1>1, <2>4, <4>1, <4>2
      <4>3. CASE i.pair # p
        BY <2>2, <4>1, <4>3 DEF Limited
      <4> QED BY <4>1, <4>2, <4>3
    <3> QED BY <2>2, <3>1, <3>2
  <2> QED BY <2>2, <2>4, <2>5 DEF IssuedLimited
<1>4. ASSUME NEW g \in Claims, ClaimLost(g)
      PROVE  /\ limits' \in [Pairs -> Nat] /\ IssuedLimited'
             /\ spoiled' \subseteq Pairs
  <2>1. claims[g].pair \in Pairs
    BY <1>4, ClaimPastChecks DEF ClaimLost
  <2>2. PICK p \in Pairs : p = claims[g].pair
    BY <2>1
  <2>3. /\ limits' = limits \/ limits' = [limits EXCEPT ![p] = now + Day]
        /\ now' = now /\ issued' = issued /\ spoiled' = spoiled \cup {p}
    BY <1>4, <2>2 DEF ClaimLost, LimitExpires
  <2>4. limits' \in [Pairs -> Nat]
    BY <1>1, <2>3 DEF Limited
  <2>5. ASSUME NEW i \in issued PROVE i.at + Day <= limits'[i.pair]
    <3>1. /\ i.at \in Nat /\ i.pair \in Pairs /\ i.at <= now
          /\ i.at + Day <= limits[i.pair]
      BY DEF Limited, IssuedLimited, Proof
    <3>2. limits'[i.pair] = limits[i.pair] \/ limits'[i.pair] = now + Day
      BY <2>3, <3>1 DEF Limited
    <3> QED BY <1>1, <3>1, <3>2
  <2>6. IssuedLimited'
    BY <2>3, <2>5 DEF Limited, IssuedLimited
  <2> QED BY <2>3, <2>4, <2>6 DEF Limited
<1>5. ASSUME NEW s \in Signals, SignalUpserts(s) PROVE spoiled' \subseteq Pairs
  <2>1. signals[s].pc = "upsert" /\ signals[s] # Idle
    BY <1>5 DEF SignalUpserts, Idle
  <2>2. OwnerOf[signals[s].token] \in Pairs
    BY <2>1, AttentionAssumption DEF IInv, SignalsBacked
  <2> QED BY <1>5, <2>2 DEF SignalUpserts, Limited
<1>6. spoiled' \subseteq Pairs
  BY <1>4, <1>5 DEF Limited, Next, vars, Tick, Crash, startSession, SessionExpires, SignalReads,
     SignalRejected, SignalWrites, ClaimPassesLimit, ClaimSigns, ClaimMarksRow,
     ClaimReturns, ClaimFails
<1>7. \/ limits' = limits /\ issued' = issued /\ (now' = now \/ now' = now + 1)
      \/ \E g \in Claims : ClaimReturns(g) \/ ClaimLost(g)
  BY DEF Next, vars, redis, Tick, Crash, startSession, SessionExpires, SignalReads,
     SignalRejected, SignalWrites, SignalUpserts, ClaimPassesLimit, ClaimSigns,
     ClaimMarksRow, ClaimFails
<1> QED BY <1>2, <1>3, <1>4, <1>6, <1>7 DEF Limited

LEMMA InitLimited == Init => Limited
  BY DEF Init, Limited, IssuedLimited

LEMMA AlwaysLimited == Spec => []Limited
<1>1. IInv /\ Limited /\ [Next]_vars => Limited'
  BY LimitedStep
<1> QED BY <1>1, InitLimited, Invariance, PTL DEF Spec

(* Type correctness: Redis, the rows and the requests of the attention     *)
(* service keep their shapes.                                              *)
THEOREM TypeCorrect == Spec => []TypeOK
<1>1. IInv /\ Limited => TypeOK
  <2> SUFFICES ASSUME IInv, Limited PROVE TypeOK
    OBVIOUS
  <2>1. sessions \in [Tokens -> Session \cup {None}] /\ rows \in [Pairs -> Row \cup {None}]
    BY DEF IInv, Domains, SessionsBacked, Backed, RowsEarned
  <2>2. issued \subseteq Proof /\ spoiled \subseteq Pairs /\ limits \in [Pairs -> Nat]
    BY DEF Limited, IssuedLimited
  <2>3. now \in Nat
        /\ accepted \in [Tokens -> [started: BOOLEAN, beats: Nat, videos: Nat, last: Nat]]
    BY DEF IInv, Domains, Counted
  <2> QED BY <2>1, <2>2, <2>3 DEF IInv, TypeOK, SignalsBacked, ClaimsEarned, Backed
<1> QED BY <1>1, Invariance, AlwaysLimited, PTL

-----------------------------------------------------------------------------
(* One claim in flight at a time.  Then the key a claim found absent stays *)
(* absent until it is answered; with two, the second may have looked       *)
(* before the first one set it.                                            *)
OneClaim == \A g, h \in Claims : g = h

ClaimsInTime == \A g \in Claims : claims[g] # Idle => limits[claims[g].pair] <= now

LEMMA InTimeStep ==
    ASSUME OneClaim, IInv, Limited, ClaimsInTime, [Next]_vars
    PROVE  ClaimsInTime'
<1>1. now \in Nat /\ limits \in [Pairs -> Nat]
  BY DEF IInv, Domains, Limited
<1>2. \A g \in Claims : claims[g] # Idle => claims[g].pair \in Pairs
  BY DEF IInv, ClaimsEarned
<1>3. CASE /\ limits' = limits /\ (now' = now \/ now' = now + 1)
           /\ \A g \in Claims : claims'[g] \in {Idle, claims[g]}
  <2> SUFFICES ASSUME NEW g \in Claims, claims'[g] # Idle
               PROVE  limits'[claims'[g].pair] <= now'
    BY DEF ClaimsInTime
  <2>1. claims'[g] = claims[g] /\ limits[claims[g].pair] <= now
    BY <1>3 DEF ClaimsInTime
  <2>2. limits[claims[g].pair] \in Nat
    BY <1>1, <1>2, <2>1
  <2> QED BY <1>1, <1>3, <2>1, <2>2
<1>4. ASSUME NEW g \in Claims, NEW p \in Pairs, ClaimPassesLimit(g, p)
      PROVE  ClaimsInTime'
  <2>1. limits' = limits /\ now' = now /\ limits[p] <= now
        /\ \A h \in Claims : h = g /\ claims'[h] = [pc |-> "row", pair |-> p]
    BY <1>4 DEF ClaimPassesLimit, redis, OneClaim, IInv, Domains
  <2> QED BY <2>1 DEF ClaimsInTime
<1>5. ASSUME NEW g \in Claims, ClaimSigns(g) \/ ClaimMarksRow(g)
      PROVE  ClaimsInTime'
  <2>1. limits' = limits /\ now' = now
    BY <1>5 DEF ClaimSigns, ClaimMarksRow, redis
  <2>2. claims[g] # Idle
    BY <1>5 DEF ClaimSigns, ClaimMarksRow, Idle
  <2>3. claims'[g] = Idle \/ claims'[g].pair = claims[g].pair
    <3>1. CASE ClaimSigns(g)
      BY <3>1 DEF ClaimSigns, IInv, Domains
    <3>2. CASE ClaimMarksRow(g)
      <4>1. claims[g] \in [pc: {"update", "limit"}, pair: Pairs, token: Tokens]
        BY <2>2, <3>2 DEF ClaimMarksRow, IInv, ClaimsEarned
      <4> QED BY <3>2, <4>1 DEF ClaimMarksRow, IInv, Domains
    <3> QED BY <1>5, <3>1, <3>2
  <2> QED BY <2>1, <2>2, <2>3 DEF ClaimsInTime, OneClaim
<1>6. ASSUME NEW g \in Claims, ClaimReturns(g) \/ ClaimLost(g)
      PROVE  ClaimsInTime'
  <2>1. \A h \in Claims : claims'[h] = Idle
    BY <1>6 DEF ClaimReturns, ClaimLost, OneClaim, IInv, Domains
  <2> QED BY <2>1 DEF ClaimsInTime
<1>7. \/ /\ limits' = limits /\ (now' = now \/ now' = now + 1)
         /\ \A g \in Claims : claims'[g] \in {Idle, claims[g]}
      \/ \E g \in Claims : \/ \E p \in Pairs : ClaimPassesLimit(g, p)
                           \/ ClaimSigns(g) \/ ClaimMarksRow(g) \/ ClaimReturns(g)
                           \/ ClaimLost(g)
  BY DEF Next, vars, redis, Tick, Crash, startSession, SessionExpires, SignalReads,
     SignalRejected, SignalWrites, SignalUpserts, ClaimFails, IInv, Domains
<1> QED BY <1>3, <1>4, <1>5, <1>6, <1>7

LEMMA DayStep ==
    ASSUME IInv, Limited, ClaimsInTime, OneProofPerDay, [Next]_vars
    PROVE  OneProofPerDay'
<1>1. ASSUME NEW g \in Claims, ClaimReturns(g) PROVE OneProofPerDay'
  <2> DEFINE proof == [pair |-> claims[g].pair, token |-> claims[g].token, at |-> now]
  <2>1. /\ issued' = issued \cup {proof} /\ claims[g] # Idle /\ claims[g].pair \in Pairs
        /\ proof.pair = claims[g].pair /\ proof.at = now
    BY <1>1, ClaimPastChecks DEF ClaimReturns, Idle
  <2>2. now \in Nat /\ Day \in Nat /\ limits[claims[g].pair] \in Nat
    BY <2>1, AttentionAssumption DEF IInv, Domains, Limited
  <2>3. ASSUME NEW i \in issued, i.pair = proof.pair
        PROVE  i.at \in Nat /\ i.at <= now /\ now - i.at >= Day
    <3>1. i.at \in Nat /\ i.at <= now /\ i.at + Day <= limits[i.pair]
      BY DEF Limited, IssuedLimited, Proof
    <3>2. limits[i.pair] <= now
      BY <2>1, <2>3 DEF ClaimsInTime
    <3> QED BY <2>1, <2>2, <2>3, <3>1, <3>2
  <2> HIDE DEF proof
  <2> SUFFICES ASSUME NEW i \in issued', NEW j \in issued',
                      i.pair = j.pair, i.token # j.token, i.at <= j.at
               PROVE  j.at - i.at >= Day
    BY DEF OneProofPerDay
  <2>4. CASE i \in issued /\ j \in issued
    BY <2>4 DEF OneProofPerDay
  <2>5. CASE i \in issued /\ j = proof
    BY <2>1, <2>3, <2>5
  <2>6. CASE i = proof /\ j \in issued
    BY <2>1, <2>2, <2>3, <2>6
  <2> QED BY <2>1, <2>4, <2>5, <2>6
<1>2. CASE UNCHANGED issued
  BY <1>2 DEF OneProofPerDay
<1>3. UNCHANGED issued \/ \E g \in Claims : ClaimReturns(g)
  BY DEF Next, vars, Tick, Crash, startSession, SessionExpires, SignalReads,
     SignalRejected, SignalWrites, SignalUpserts, ClaimPassesLimit, ClaimSigns,
     ClaimMarksRow, ClaimFails, ClaimLost
<1> QED BY <1>1, <1>2, <1>3

(* attention.service.ts:191-249.  As long as claims do not overlap, no     *)
(* earner gets proofs of two sessions within a day, whatever signals,      *)
(* expiries and crashes happen between the steps of a claim.               *)
THEOREM OnePerDay == OneClaim /\ Spec => []OneProofPerDay
<1>1. Init => ClaimsInTime /\ OneProofPerDay
  BY DEF Init, ClaimsInTime, OneProofPerDay
<1>2. ASSUME OneClaim
      PROVE  IInv /\ Limited /\ ClaimsInTime /\ OneProofPerDay /\ [Next]_vars
                 => ClaimsInTime' /\ OneProofPerDay'
  BY <1>2, InTimeStep, DayStep
<1>3. ASSUME OneClaim PROVE Spec => []OneProofPerDay
  BY <1>1, <1>2, <1>3, Invariance, AlwaysLimited, PTL DEF Spec
<1> QED BY <1>3

-----------------------------------------------------------------------------
(* One signal in flight at a time.  Then a session never lags behind the   *)
(* signals accepted for it, not even one that a late write brought back.   *)
OneSignal == \A r, s \in Signals : r = s

LastIsKnown ==
    /\ \A t \in Tokens : ~accepted[t].started => accepted[t].last = 0
    /\ \A t \in Tokens : sessions[t] # None => sessions[t].lastSignalAt = accepted[t].last
    /\ \A s \in Signals : signals[s].pc = "read" =>
          signals[s].session.lastSignalAt = accepted[signals[s].token].last

LEMMA SignalRead ==
    ASSUME IInv, NEW s \in Signals, signals[s].pc = "read"
    PROVE  signals[s] \in [pc: {"read"}, token: Tokens, kind: Kinds, session: Session]
<1>1. signals[s] # Idle
  BY DEF Idle
<1> QED BY <1>1 DEF IInv, SignalsBacked

LEMMA LastIsKnownStep ==
    ASSUME OneSignal, IInv, LastIsKnown, [Next]_vars
    PROVE  LastIsKnown'
<1>1. CASE /\ accepted' = accepted
           /\ \A t \in Tokens : sessions'[t] \in {None, sessions[t]}
           /\ \A s \in Signals : signals'[s] \in {Idle, signals[s]}
  BY <1>1 DEF LastIsKnown, Idle
<1>2. ASSUME NEW t \in Tokens, startSession(t) PROVE LastIsKnown'
  <2>1. /\ \A u \in Tokens : accepted'[u].last = accepted[u].last
        /\ \A u \in Tokens : accepted'[u].started = (u = t \/ accepted[u].started)
    BY <1>2 DEF startSession, IInv, Counted
  <2>2. accepted[t].last = 0 /\ signals' = signals
    BY <1>2 DEF startSession, LastIsKnown
  <2>3. \A u \in Tokens : sessions'[u] = IF u = t THEN Fresh ELSE sessions[u]
    BY <1>2 DEF startSession, IInv, Domains
  <2>4. \A s \in Signals : signals[s].pc = "read" => signals[s].token \in Tokens
    BY SignalRead
  <2>5. \A u \in Tokens : ~accepted'[u].started => accepted'[u].last = 0
    BY <2>1 DEF LastIsKnown
  <2>6. \A u \in Tokens : sessions'[u] # None => sessions'[u].lastSignalAt = accepted'[u].last
    <3> SUFFICES ASSUME NEW u \in Tokens, sessions'[u] # None
                 PROVE  sessions'[u].lastSignalAt = accepted'[u].last
      OBVIOUS
    <3>1. CASE u = t
      BY <3>1, <2>1, <2>2, <2>3 DEF Fresh
    <3>2. CASE u # t
      BY <3>2, <2>1, <2>3 DEF LastIsKnown
    <3> QED BY <3>1, <3>2
  <2>7. \A s \in Signals : signals'[s].pc = "read" =>
           signals'[s].session.lastSignalAt = accepted'[signals'[s].token].last
    BY <2>1, <2>2, <2>4 DEF LastIsKnown
  <2> QED BY <2>5, <2>6, <2>7 DEF LastIsKnown
<1>3. ASSUME NEW s \in Signals, NEW t \in Tokens, NEW kind \in Kinds,
             SignalReads(s, t, kind)
      PROVE  LastIsKnown'
  <2>1. sessions' = sessions /\ accepted' = accepted /\ sessions[t] # None
    BY <1>3 DEF SignalReads, redis
  <2>2. \A r \in Signals : signals'[r] =
           [pc |-> "read", token |-> t, kind |-> kind, session |-> sessions[t]]
    BY <1>3 DEF SignalReads, OneSignal, IInv, Domains
  <2> QED BY <2>1, <2>2 DEF LastIsKnown
<1>4. ASSUME NEW s \in Signals, SignalWrites(s) PROVE LastIsKnown'
  <2> DEFINE t == signals[s].token
             new == Recorded(signals[s].session, signals[s].kind)
  <2>1. t \in Tokens
    BY <1>4, SignalRead DEF SignalWrites
  <2>2. /\ \A u \in Tokens \ {t} : sessions'[u] = sessions[u] /\ accepted'[u] = accepted[u]
        /\ sessions'[t] = new /\ accepted'[t].last = now /\ accepted'[t].started
    BY <1>4, <2>1 DEF SignalWrites, IInv, Domains, Counted
  <2>3. new.lastSignalAt = now
    BY DEF Recorded
  <2>4. \A r \in Signals : signals'[r].pc # "read"
    BY <1>4 DEF SignalWrites, OneSignal, IInv, Domains, Idle
  <2> HIDE DEF t, new
  <2> QED BY <2>2, <2>3, <2>4 DEF LastIsKnown
<1>5. \/ /\ accepted' = accepted
         /\ \A t \in Tokens : sessions'[t] \in {None, sessions[t]}
         /\ \A s \in Signals : signals'[s] \in {Idle, signals[s]}
      \/ \E t \in Tokens : startSession(t)
      \/ \E s \in Signals : \/ \E t \in Tokens, kind \in Kinds : SignalReads(s, t, kind)
                            \/ SignalWrites(s)
  BY DEF Next, vars, redis, Tick, Crash, SessionExpires, SignalRejected, SignalUpserts,
     ClaimPassesLimit, ClaimSigns, ClaimMarksRow, ClaimReturns, ClaimFails, ClaimLost,
     IInv, Domains
<1> QED BY <1>1, <1>2, <1>3, <1>4, <1>5

LEMMA SpacedStep ==
    ASSUME IInv, LastIsKnown, [Next]_vars, NEW t \in Tokens,
           accepted'[t] # accepted[t], accepted[t].last # 0
    PROVE  now - accepted[t].last >= MinInterval
<1>1. ASSUME NEW u \in Tokens, startSession(u) PROVE FALSE
  <2>1. u # t => accepted'[t] = accepted[t]
    BY <1>1 DEF startSession, IInv, Counted
  <2>2. u = t => accepted[t].last = 0
    BY <1>1 DEF startSession, LastIsKnown
  <2> QED BY <2>1, <2>2
<1>2. ASSUME NEW s \in Signals, SignalWrites(s)
      PROVE  now - accepted[t].last >= MinInterval
  <2>1. signals[s] \in [pc: {"read"}, token: Tokens, kind: Kinds, session: Session]
    BY <1>2, SignalRead DEF SignalWrites
  <2>2. signals[s].token = t
    BY <1>2 DEF SignalWrites, IInv, Counted
  <2>3. signals[s].session.lastSignalAt = accepted[t].last
    BY <1>2, <2>2 DEF SignalWrites, LastIsKnown
  <2>4. ~TooFast(signals[s].session)
    BY <1>2 DEF SignalWrites
  <2>5. now \in Nat /\ accepted[t].last \in Nat /\ MinInterval \in Nat
    BY AttentionAssumption DEF IInv, Domains, Counted
  <2> QED BY <2>3, <2>4, <2>5 DEF TooFast
<1>3. \/ \E u \in Tokens : startSession(u)
      \/ \E s \in Signals : SignalWrites(s)
  BY DEF Next, vars, Tick, Crash, SessionExpires, SignalReads, SignalRejected,
     SignalUpserts, ClaimPassesLimit, ClaimSigns, ClaimMarksRow, ClaimReturns, ClaimFails,
     ClaimLost
<1> QED BY <1>1, <1>2, <1>3

(* attention.service.ts:112-116.  As long as signals do not overlap, two   *)
(* accepted signals of a session are at least the minimal interval apart,  *)
(* also when the session expired and was brought back in between.          *)
THEOREM SpacedSignals == OneSignal /\ Spec => SignalsAreSpaced
<1>1. Init => LastIsKnown
  BY DEF Init, LastIsKnown, NoneYet, Idle
<1>2. ASSUME OneSignal
      PROVE  IInv /\ LastIsKnown /\ [Next]_vars => LastIsKnown'
  BY <1>2, LastIsKnownStep
<1>3. IInv /\ LastIsKnown /\ [Next]_vars =>
         [\A t \in Tokens :
             accepted'[t] # accepted[t] /\ accepted[t].last # 0 =>
                 now - accepted[t].last >= MinInterval]_vars
  BY SpacedStep
<1>4. ASSUME OneSignal PROVE Spec => SignalsAreSpaced
  BY <1>1, <1>2, <1>3, <1>4, Invariance, PTL DEF Spec, SignalsAreSpaced
<1> QED BY <1>4

-----------------------------------------------------------------------------
(* A claim that is about to mark the row signed for the session it is      *)
(* about, unless a signal got in between, which spoils the pair.           *)
UpdatesMatch ==
    \A g \in Claims : claims[g].pc = "update" /\ claims[g].pair \notin spoiled =>
        rows[claims[g].pair].token = claims[g].token

LEMMA InitMarks == Init => UpdatesMatch /\ AttentionMarkIsTrue
  BY DEF Init, UpdatesMatch, AttentionMarkIsTrue, Idle

(* Steps that keep the rows, the marks' claims and the proofs. *)
LEMMA MarksKept ==
    ASSUME UpdatesMatch, AttentionMarkIsTrue, UNCHANGED <<rows, spoiled, issued>>,
           \A g \in Claims : \/ claims'[g] = claims[g]
                             \/ claims[g].pc # "limit" /\ claims'[g].pc # "update"
    PROVE  UpdatesMatch' /\ AttentionMarkIsTrue'
<1>1. UpdatesMatch'
  BY DEF UpdatesMatch
<1>2. \A g \in Claims : claims[g].pc = "limit" => claims'[g] = claims[g]
  OBVIOUS
<1>3. AttentionMarkIsTrue'
  BY <1>2 DEF AttentionMarkIsTrue, Holding
<1> QED BY <1>1, <1>3

LEMMA CrashMarks ==
    ASSUME IInv, UpdatesMatch, AttentionMarkIsTrue, Crash
    PROVE  UpdatesMatch' /\ AttentionMarkIsTrue'
<1>1. UpdatesMatch'
  BY DEF Crash, UpdatesMatch, Idle
<1>2. ASSUME NEW p \in Pairs, p \notin spoiled' PROVE p \notin spoiled /\ Holding(p, "limit") = {}
  BY <1>2 DEF Crash
<1>3. AttentionMarkIsTrue'
  BY <1>2 DEF Crash, AttentionMarkIsTrue
<1> QED BY <1>1, <1>3

LEMMA UpsertMarks ==
    ASSUME IInv, UpdatesMatch, AttentionMarkIsTrue, NEW s \in Signals, SignalUpserts(s)
    PROVE  UpdatesMatch' /\ AttentionMarkIsTrue'
<1> DEFINE t == signals[s].token
           p == OwnerOf[t]
<1>1. claims' = claims /\ issued' = issued
  BY DEF SignalUpserts
<1>2. CASE UNCHANGED <<rows, spoiled>>
  BY <1>1, <1>2, MarksKept
<1>3. CASE /\ rows' = [rows EXCEPT ![p] = Armed(t)]
           /\ spoiled' = IF Holding(p, "update") = {} THEN spoiled \ {p}
                         ELSE spoiled \cup {p}
  <2>1. /\ \A q \in Pairs : rows'[q] = IF q = p THEN Armed(t) ELSE rows[q]
        /\ \A q \in Pairs \ {p} : q \in spoiled' <=> q \in spoiled
    BY <1>3 DEF IInv, Domains
  <2>2. ~Armed(t).proofIssued
    BY DEF Armed
  <2> HIDE DEF p, t
  <2>3. \A g \in Claims : claims[g].pc = "update" /\ claims[g].pair = p => p \in spoiled'
    BY <1>3 DEF Holding
  <2>4. \A g \in Claims : claims[g].pc = "update" => claims[g].pair \in Pairs
    BY DEF IInv, ClaimsEarned, Idle
  <2>5. UpdatesMatch'
    BY <1>1, <2>1, <2>3, <2>4 DEF UpdatesMatch
  <2>6. AttentionMarkIsTrue'
    <3> SUFFICES ASSUME NEW q \in Pairs, q \notin spoiled', rows'[q] # None,
                        rows'[q].proofIssued
                 PROVE  \/ \E i \in issued' : i.pair = q /\ i.token = rows'[q].token
                        \/ \E g \in Holding(q, "limit")' : claims'[g].token = rows'[q].token
      BY DEF AttentionMarkIsTrue
    <3>1. q # p /\ rows'[q] = rows[q] /\ q \notin spoiled
      BY <2>1, <2>2
    <3> QED BY <1>1, <3>1 DEF AttentionMarkIsTrue, Holding
  <2> QED BY <2>5, <2>6
<1> QED BY <1>2, <1>3 DEF SignalUpserts

LEMMA SignMarks ==
    ASSUME IInv, UpdatesMatch, AttentionMarkIsTrue, NEW g \in Claims, ClaimSigns(g)
    PROVE  UpdatesMatch' /\ AttentionMarkIsTrue'
<1>1. /\ claims[g].pc = "row" /\ UNCHANGED <<rows, spoiled, issued>>
      /\ \A h \in Claims \ {g} : claims'[h] = claims[h]
      /\ \/ claims'[g] = Idle
         \/ claims'[g] = [pc |-> "update", pair |-> claims[g].pair,
                          token |-> rows[claims[g].pair].token]
  BY DEF ClaimSigns, IInv, Domains
<1>2. UpdatesMatch'
  BY <1>1 DEF UpdatesMatch, Idle
<1>3. \A h \in Claims : claims[h].pc = "limit" => claims'[h] = claims[h]
  BY <1>1
<1>4. AttentionMarkIsTrue'
  BY <1>1, <1>3 DEF AttentionMarkIsTrue, Holding
<1> QED BY <1>2, <1>4

(* attention.service.ts:238-241. *)
LEMMA MarkMarks ==
    ASSUME IInv, UpdatesMatch, AttentionMarkIsTrue, NEW g \in Claims, ClaimMarksRow(g)
    PROVE  UpdatesMatch' /\ AttentionMarkIsTrue'
<1> DEFINE p == claims[g].pair
<1>1. /\ claims[g] \in [pc: {"update", "limit"}, pair: Pairs, token: Tokens]
      /\ claims[g].pc = "update" /\ rows[p] # None /\ rows[p] \in Row
  <2>1. claims[g].pc = "update" /\ claims[g] # Idle
    BY DEF ClaimMarksRow, Idle
  <2> QED BY <2>1 DEF IInv, ClaimsEarned, RowsEarned
<1>2. /\ UNCHANGED <<spoiled, issued>>
      /\ \A h \in Claims \ {g} : claims'[h] = claims[h]
      /\ claims'[g].pc = "limit" /\ claims'[g].pair = p /\ claims'[g].token = claims[g].token
      /\ \A q \in Pairs \ {p} : rows'[q] = rows[q]
      /\ rows'[p].token = rows[p].token
  BY <1>1 DEF ClaimMarksRow, IInv, Domains, Row
<1> HIDE DEF p
<1>3. UpdatesMatch'
  <2>1. \A h \in Claims : claims[h].pc = "update" => claims[h].pair \in Pairs
    BY DEF IInv, ClaimsEarned, Idle
  <2> QED BY <1>1, <1>2, <2>1 DEF UpdatesMatch
<1>4. AttentionMarkIsTrue'
  <2> SUFFICES ASSUME NEW q \in Pairs, q \notin spoiled', rows'[q] # None,
                      rows'[q].proofIssued
               PROVE  \/ \E i \in issued' : i.pair = q /\ i.token = rows'[q].token
                      \/ \E h \in Holding(q, "limit")' : claims'[h].token = rows'[q].token
    BY DEF AttentionMarkIsTrue
  <2>1. CASE q = p
    <3>1. claims'[g].token = rows'[q].token
      BY <1>1, <1>2, <2>1 DEF UpdatesMatch, p
    <3>2. g \in Holding(q, "limit")'
      BY <1>2, <2>1 DEF Holding
    <3> QED BY <3>1, <3>2
  <2>2. CASE q # p
    <3>1. rows'[q] = rows[q] /\ q \notin spoiled
      BY <1>2, <2>2
    <3>2. \A h \in Holding(q, "limit") : h \in Holding(q, "limit")' /\ claims'[h] = claims[h]
      BY <1>1, <1>2 DEF Holding
    <3> QED BY <1>2, <3>1, <3>2 DEF AttentionMarkIsTrue
  <2> QED BY <2>1, <2>2
<1> QED BY <1>3, <1>4

LEMMA ReturnMarks ==
    ASSUME IInv, UpdatesMatch, AttentionMarkIsTrue, NEW g \in Claims, ClaimReturns(g)
    PROVE  UpdatesMatch' /\ AttentionMarkIsTrue'
<1> DEFINE proof == [pair |-> claims[g].pair, token |-> claims[g].token, at |-> now]
<1>1. /\ UNCHANGED <<rows, spoiled>> /\ issued' = issued \cup {proof}
      /\ \A h \in Claims \ {g} : claims'[h] = claims[h]
      /\ claims'[g] = Idle
      /\ proof.pair = claims[g].pair /\ proof.token = claims[g].token
  BY DEF ClaimReturns, IInv, Domains
<1> HIDE DEF proof
<1>2. UpdatesMatch'
  BY <1>1 DEF UpdatesMatch, Idle
<1>3. AttentionMarkIsTrue'
  <2> SUFFICES ASSUME NEW q \in Pairs, q \notin spoiled, rows[q] # None,
                      rows[q].proofIssued
               PROVE  \/ \E i \in issued' : i.pair = q /\ i.token = rows[q].token
                      \/ \E h \in Holding(q, "limit")' : claims'[h].token = rows[q].token
    BY <1>1 DEF AttentionMarkIsTrue
  <2>1. CASE \E i \in issued : i.pair = q /\ i.token = rows[q].token
    BY <1>1, <2>1
  <2>2. ASSUME NEW h \in Holding(q, "limit"), claims[h].token = rows[q].token
        PROVE  \/ \E i \in issued' : i.pair = q /\ i.token = rows[q].token
               \/ \E k \in Holding(q, "limit")' : claims'[k].token = rows[q].token
    BY <1>1, <2>2 DEF Holding
  <2> QED BY <2>1, <2>2 DEF AttentionMarkIsTrue
<1> QED BY <1>2, <1>3

(* attention.service.ts:240.  A failed redis.set spoils the pair. *)
LEMMA LostMarks ==
    ASSUME IInv, UpdatesMatch, AttentionMarkIsTrue, NEW g \in Claims, ClaimLost(g)
    PROVE  UpdatesMatch' /\ AttentionMarkIsTrue'
<1>1. /\ UNCHANGED <<rows, issued>> /\ spoiled' = spoiled \cup {claims[g].pair}
      /\ \A h \in Claims \ {g} : claims'[h] = claims[h]
      /\ claims'[g] = Idle
  BY DEF ClaimLost, IInv, Domains
<1>2. UpdatesMatch'
  BY <1>1 DEF UpdatesMatch, Idle
<1>3. ASSUME NEW q \in Pairs, q \notin spoiled'
      PROVE  q \notin spoiled /\ \A h \in Holding(q, "limit") : h \in Holding(q, "limit")'
                                                             /\ claims'[h] = claims[h]
  BY <1>1, <1>3 DEF Holding
<1>4. AttentionMarkIsTrue'
  BY <1>1, <1>3 DEF AttentionMarkIsTrue
<1> QED BY <1>2, <1>4

LEMMA MarksStep ==
    ASSUME IInv, UpdatesMatch, AttentionMarkIsTrue, [Next]_vars
    PROVE  UpdatesMatch' /\ AttentionMarkIsTrue'
<1>1. CASE UNCHANGED <<rows, spoiled, issued, claims>>
  BY <1>1, MarksKept
<1>2. ASSUME NEW g \in Claims, NEW p \in Pairs, ClaimPassesLimit(g, p)
      PROVE  UpdatesMatch' /\ AttentionMarkIsTrue'
  <2>1. /\ UNCHANGED <<rows, spoiled, issued>> /\ claims[g].pc = "idle"
        /\ \A h \in Claims \ {g} : claims'[h] = claims[h]
        /\ claims'[g].pc = "row"
    BY <1>2 DEF ClaimPassesLimit, IInv, Domains, Idle
  <2> QED BY <2>1, MarksKept
<1>3. ASSUME NEW g \in Claims, ClaimFails(g)
      PROVE  UpdatesMatch' /\ AttentionMarkIsTrue'
  <2>1. /\ UNCHANGED <<rows, spoiled, issued>> /\ claims[g].pc # "limit"
        /\ \A h \in Claims \ {g} : claims'[h] = claims[h]
        /\ claims'[g].pc = "idle"
    BY <1>3 DEF ClaimFails, IInv, Domains, Idle
  <2> QED BY <2>1, MarksKept
<1>4. \/ UNCHANGED <<rows, spoiled, issued, claims>> \/ Crash
      \/ \E s \in Signals : SignalUpserts(s)
      \/ \E g \in Claims : \/ \E p \in Pairs : ClaimPassesLimit(g, p)
                           \/ ClaimSigns(g) \/ ClaimMarksRow(g) \/ ClaimReturns(g)
                           \/ ClaimFails(g) \/ ClaimLost(g)
  BY DEF Next, vars, Tick, startSession, SessionExpires, SignalReads, SignalRejected,
     SignalWrites
<1> QED BY <1>1, <1>2, <1>3, <1>4, CrashMarks, UpsertMarks, SignMarks, MarkMarks, ReturnMarks,
           LostMarks

(* attention.service.ts:213.  With any number of claims and signals in     *)
(* flight, an earner is told that the proof was issued only when it was or *)
(* is about to be, but for a crash or a failed redis.set before the answer *)
(* and the overtaking signal.                                              *)
THEOREM MarkIsTrue == Spec => []AttentionMarkIsTrue
<1>1. IInv /\ UpdatesMatch /\ AttentionMarkIsTrue /\ [Next]_vars
         => UpdatesMatch' /\ AttentionMarkIsTrue'
  BY MarksStep
<1> QED BY <1>1, InitMarks, Invariance, PTL DEF Spec
=============================================================================
