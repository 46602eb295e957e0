---------------------------- MODULE SignInProofs ----------------------------
(* Theorems about SignIn, for any number of accounts, tabs, programs and   *)
(* challenges, any lives of challenges and JWTs, and any clock.            *)
EXTENDS SignIn, TLAPS

-----------------------------------------------------------------------------
Nonces == 1 .. Len(challenges)

Domains == clients = [c \in Clients |-> clients[c]]

(* A client past its challenge holds a nonce of the account it names, and  *)
(* one past signing, if it holds a signature, that of its signer.          *)
Backed(x, asked, made) ==
    /\ x.nonce \in 1 .. Len(asked) /\ asked[x.nonce].key = x.key
    /\ x.pc = "verify" /\ x.signer # None =>
          \E s \in made : s.key = x.signer /\ s.nonce = x.nonce

ClientsBacked ==
    \A c \in Clients :
        clients[c].pc \in {"sign", "verify"} => Backed(clients[c], challenges, signed)

(* A signature is not older than what it signs. *)
SignedBacked ==
    /\ \A n \in Nonces : challenges[n].at <= now
    /\ \A s \in signed :
          s.nonce \in Nonces /\ challenges[s.nonce].at <= s.at /\ s.at <= now

(* A pending record is the last challenge of its account, and unused. *)
Pending(k) ==
    /\ nonceStore[k].nonce \in Nonces /\ challenges[nonceStore[k].nonce].key = k
    /\ nonceStore[k].expiresAt = challenges[nonceStore[k].nonce].at + Ttl
    /\ \A n \in nonceStore[k].nonce + 1 .. Len(challenges) : challenges[n].key # k
    /\ \A t \in tokens : t.nonce # nonceStore[k].nonce

StoreBacked == \A k \in Keys : nonceStore[k] # None => Pending(k)

TokensBacked == \A t \in tokens : t.nonce \in Nonces /\ t.iat <= now

(* What clients show and the guard let through was once issued. *)
StoredIssued == \A c \in Clients : stored[c] # None => stored[c] \in tokens

ServedIssued ==
    served # None => served.token \in tokens /\ served.at < served.token.iat + Life

(* The inductive invariant.  That no JWT is for a superseded challenge     *)
(* follows only because the store never holds one, and that none is the    *)
(* second of its challenge because no pending record was ever used.        *)
IInv ==
    /\ TypeOK /\ Domains /\ ClientsBacked /\ SignedBacked
    /\ StoreBacked /\ TokensBacked /\ StoredIssued /\ ServedIssued
    /\ OneTokenPerChallenge /\ ChallengeIsFresh

-----------------------------------------------------------------------------
ClientTyped(x) ==
    \/ x = Idle
    \/ x \in [pc: {"connect", "key"}]
    \/ x \in [pc: {"challenge"}, key: Keys]
    \/ x \in [pc: {"sign"}, key: Keys, nonce: Nat]
    \/ x \in [pc: {"verify"}, key: Keys, nonce: Nat, signer: Keys \cup {None}]

LEMMA ChallengeType ==
    ASSUME TypeOK
    PROVE  /\ Len(challenges) \in Nat
           /\ \A n \in Nonces : challenges[n] \in [key: Keys, at: Nat]
<1> DEFINE Challenge == [key: Keys, at: Nat]
<1>1. challenges \in Seq(Challenge)
  BY DEF TypeOK
<1> HIDE DEF Challenge
<1>2. Len(challenges) \in Nat /\ \A n \in Nonces : challenges[n] \in Challenge
  BY <1>1 DEF Nonces
<1> QED BY <1>2 DEF Challenge

(* What a client holds at each wait. *)
LEMMA ClientShape ==
    ASSUME TypeOK, NEW c \in Clients
    PROVE  /\ ClientTyped(clients[c])
           /\ clients[c].pc = "challenge" => clients[c].key \in Keys
           /\ clients[c].pc \in {"sign", "verify"} =>
                 clients[c].key \in Keys /\ clients[c].nonce \in Nat
<1>1. ClientTyped(clients[c])
  BY DEF TypeOK, ClientTyped
<1> DEFINE x == clients[c]
<1>2. CASE x = Idle
  BY <1>1, <1>2 DEF Idle
<1>3. CASE x \in [pc: {"connect", "key"}]
  BY <1>1, <1>3
<1>4. CASE x \in [pc: {"challenge"}, key: Keys]
  BY <1>1, <1>4
<1>5. CASE x \in [pc: {"sign"}, key: Keys, nonce: Nat]
  BY <1>1, <1>5
<1>6. CASE x \in [pc: {"verify"}, key: Keys, nonce: Nat, signer: Keys \cup {None}]
  BY <1>1, <1>6
<1> QED BY <1>1, <1>2, <1>3, <1>4, <1>5, <1>6 DEF ClientTyped

LEMMA InitIInv == Init => IInv
<1> SUFFICES ASSUME Init PROVE IInv
  OBVIOUS
<1>1. TypeOK
  BY SignInAssumption DEF Init, TypeOK
<1>2. Domains /\ ClientsBacked
  BY DEF Init, Domains, ClientsBacked, Idle
<1>3. SignedBacked /\ StoreBacked /\ TokensBacked
  BY DEF Init, SignedBacked, StoreBacked, TokensBacked, Nonces
<1>4. StoredIssued /\ ServedIssued /\ OneTokenPerChallenge /\ ChallengeIsFresh
  BY DEF Init, StoredIssued, ServedIssued, OneTokenPerChallenge, ChallengeIsFresh
<1> QED BY <1>1, <1>2, <1>3, <1>4 DEF IInv

(* One client moves on. *)
LEMMA ClientMoves ==
    ASSUME IInv, NEW c \in Clients, NEW x, ClientTyped(x),
           clients' = [clients EXCEPT ![c] = x], UNCHANGED challenges,
           signed \subseteq signed',
           x.pc \in {"sign", "verify"} => Backed(x, challenges, signed')
    PROVE  Domains' /\ ClientsBacked' /\ \A d \in Clients : ClientTyped(clients'[d])
<1>1. \A d \in Clients : clients'[d] = IF d = c THEN x ELSE clients[d]
  BY DEF IInv, Domains
<1>2. Domains'
  BY DEF IInv, Domains
<1>3. ClientsBacked'
  <2>1. ASSUME NEW d \in Clients, clients'[d].pc \in {"sign", "verify"}
        PROVE  Backed(clients'[d], challenges', signed')
    <3>1. CASE d = c
      BY <1>1, <2>1, <3>1
    <3>2. CASE d # c
      <4>1. clients'[d] = clients[d] /\ Backed(clients[d], challenges, signed)
        BY <1>1, <2>1, <3>2 DEF IInv, ClientsBacked
      <4> QED BY <4>1 DEF Backed, Nonces
    <3> QED BY <3>1, <3>2
  <2> QED BY <2>1 DEF ClientsBacked
<1>4. \A d \in Clients : ClientTyped(clients'[d])
  BY <1>1 DEF IInv, TypeOK, ClientTyped
<1> QED BY <1>2, <1>3, <1>4

(* Every step that takes no challenge, signature or JWT into the world     *)
(* keeps what is known of those there are; records may be dropped.         *)
LEMMA QuietIInv ==
    ASSUME IInv, TypeOK', Domains', ClientsBacked', StoredIssued', ServedIssued',
           UNCHANGED <<challenges, signed, tokens>>, now' >= now,
           \A k \in Keys : nonceStore'[k] \in {nonceStore[k], None}
    PROVE  IInv'
<1>1. SignedBacked'
  <2>1. now \in Nat /\ now' \in Nat /\ \A s \in signed : s.at \in Nat
    BY DEF IInv, TypeOK
  <2>2. challenges' = challenges /\ signed' = signed /\ Nonces' = Nonces
    BY DEF Nonces
  <2>3. \A n \in Nonces : challenges[n].at \in Nat
    BY ChallengeType DEF IInv
  <2>4. SignedBacked
    BY DEF IInv
  <2>5. ASSUME NEW n \in Nonces' PROVE challenges'[n].at <= now'
    <3>1. challenges[n].at \in Nat /\ challenges[n].at <= now
      BY <2>2, <2>3, <2>4 DEF SignedBacked
    <3> QED BY <3>1, <2>1, <2>2
  <2>6. ASSUME NEW s \in signed'
        PROVE  s.nonce \in Nonces' /\ challenges'[s.nonce].at <= s.at /\ s.at <= now'
    <3>1. s.nonce \in Nonces /\ challenges[s.nonce].at <= s.at /\ s.at <= now
      BY <2>2, <2>4 DEF SignedBacked
    <3> QED BY <3>1, <2>1, <2>2
  <2> QED BY <2>5, <2>6 DEF SignedBacked
<1>2. StoreBacked'
  BY DEF IInv, StoreBacked, Pending, Nonces
<1>3. TokensBacked'
  <2>1. now \in Nat /\ now' \in Nat /\ \A t \in tokens : t.iat \in Nat
    BY DEF IInv, TypeOK, Token
  <2> QED BY <2>1 DEF IInv, TokensBacked, Nonces
<1>4. OneTokenPerChallenge' /\ ChallengeIsFresh'
  BY DEF IInv, OneTokenPerChallenge, ChallengeIsFresh
<1> QED BY <1>1, <1>2, <1>3, <1>4 DEF IInv

-----------------------------------------------------------------------------
LEMMA WorldIInv ==
    ASSUME IInv, Tick \/ AccountSwitched \/ BackendRestarts
    PROVE  IInv'
<1>1. /\ UNCHANGED <<clients, stored, challenges, signed, tokens, served>>
      /\ now' \in Nat /\ now' >= now /\ active' \in Keys
      /\ nonceStore' \in [Keys -> [nonce: Nat, expiresAt: Nat] \cup {None}]
      /\ \A k \in Keys : nonceStore'[k] \in {nonceStore[k], None}
  BY DEF IInv, TypeOK, Tick, AccountSwitched, BackendRestarts, history
<1>2. TypeOK'
  BY <1>1 DEF IInv, TypeOK
<1>3. Domains' /\ ClientsBacked' /\ StoredIssued' /\ ServedIssued'
  BY <1>1 DEF IInv, Domains, ClientsBacked, Backed, StoredIssued, ServedIssued, Nonces
<1> QED BY <1>1, <1>2, <1>3, QuietIInv

(* The start and the end of a login. *)
LEMMA LoginIInv ==
    ASSUME IInv, NEW c \in Clients,
           Login(c) \/ WalletConnects(c) \/ WalletTellsKey(c) \/ VerifyRefuses(c) \/ LoginFails(c)
    PROVE  IInv'
<1>1. /\ UNCHANGED <<now, active, stored, challenges, signed, tokens, served>>
      /\ nonceStore' \in [Keys -> [nonce: Nat, expiresAt: Nat] \cup {None}]
      /\ \A k \in Keys : nonceStore'[k] \in {nonceStore[k], None}
  BY DEF IInv, TypeOK, Login, WalletConnects, WalletTellsKey, VerifyRefuses, LoginFails,
     history
<1>2. PICK x : /\ clients' = [clients EXCEPT ![c] = x]
               /\ \/ x = Idle \/ x \in [pc: {"connect", "key"}]
                  \/ x \in [pc: {"challenge"}, key: Keys]
  <2>1. CASE Login(c)
    <3> DEFINE x == IF c \in Pages THEN [pc |-> "connect"]
                    ELSE [pc |-> "challenge", key |-> Own[c]]
    <3>1. c \in Pages \/ Own[c] \in Keys
      BY SignInAssumption DEF Clients
    <3>2. x \in [pc: {"connect", "key"}] \/ x \in [pc: {"challenge"}, key: Keys]
      BY <3>1
    <3>3. clients' = [clients EXCEPT ![c] = x]
      BY <2>1 DEF Login
    <3> QED BY <3>2, <3>3
  <2>2. CASE WalletConnects(c)
    <3>1. [pc |-> "key"] \in [pc: {"connect", "key"}]
      OBVIOUS
    <3> QED BY <2>2, <3>1 DEF WalletConnects
  <2>3. CASE WalletTellsKey(c)
    <3>1. [pc |-> "challenge", key |-> active] \in [pc: {"challenge"}, key: Keys]
      BY DEF IInv, TypeOK
    <3> QED BY <2>3, <3>1 DEF WalletTellsKey
  <2>4. CASE VerifyRefuses(c) \/ LoginFails(c)
    BY <2>4 DEF VerifyRefuses, LoginFails, AfterRefusal
  <2> QED BY <2>1, <2>2, <2>3, <2>4
<1>3. x.pc \notin {"sign", "verify"} /\ ClientTyped(x)
  BY <1>2 DEF Idle, ClientTyped
<1>4. Domains' /\ ClientsBacked' /\ \A d \in Clients : ClientTyped(clients'[d])
  BY <1>1, <1>2, <1>3, ClientMoves
<1>5. TypeOK'
  BY <1>1, <1>4 DEF IInv, TypeOK, ClientTyped
<1>6. StoredIssued' /\ ServedIssued'
  BY <1>1 DEF IInv, StoredIssued, ServedIssued
<1>7. now' >= now
  BY <1>1 DEF IInv, TypeOK
<1> QED BY <1>1, <1>4, <1>5, <1>6, <1>7, QuietIInv

(* A session ends, or is shown to the guard. *)
LEMMA SessionIInv ==
    ASSUME IInv, NEW c \in Clients, Logout(c) \/ Request(c)
    PROVE  IInv'
<1>1. UNCHANGED <<now, active, clients, nonceStore, challenges, signed, tokens>>
  BY DEF Logout, Request, history
<1>2. Domains' /\ ClientsBacked'
  BY <1>1 DEF IInv, Domains, ClientsBacked, Backed, Nonces
<1>3. /\ stored' \in [Clients -> Token \cup {None}] /\ StoredIssued'
      /\ served' = None \/ served' \in [token: Token, at: Nat, earner: Keys \cup {None}]
      /\ ServedIssued'
  <2>1. CASE Logout(c)
    BY <2>1 DEF Logout, history, IInv, TypeOK, StoredIssued, ServedIssued
  <2>2. CASE Request(c)
    <3>1. stored' = stored /\ tokens' = tokens /\ stored[c] \in tokens /\ stored[c] \in Token
          /\ now \in Nat /\ now < stored[c].iat + Life
      BY <2>2 DEF Request, Admitted, IInv, TypeOK, StoredIssued
    <3>2. EarnerOf(UserOf(stored[c])) \in Keys \cup {None}
      BY DEF EarnerOf, UserOf
    <3>3. served' = [token |-> stored[c], at |-> now, earner |-> EarnerOf(UserOf(stored[c]))]
      BY <2>2 DEF Request
    <3>4. served'.token = stored[c] /\ served'.at = now
      BY <3>3
    <3> QED BY <3>1, <3>2, <3>3, <3>4 DEF IInv, TypeOK, StoredIssued, ServedIssued
  <2> QED BY <2>1, <2>2
<1>4. TypeOK'
  BY <1>1, <1>3 DEF IInv, TypeOK
<1>5. now' >= now
  BY <1>1 DEF IInv, TypeOK
<1> QED BY <1>1, <1>2, <1>3, <1>4, <1>5, QuietIInv

-----------------------------------------------------------------------------
(* A program's signature is of the nonce that it holds. *)
LEMMA SignsIInv ==
    ASSUME IInv, NEW c \in Clients, NEW signer \in Signers(c), WalletSigns(c, signer)
    PROVE  IInv'
<1> DEFINE nonce == clients[c].nonce
           x == [pc |-> "verify", key |-> clients[c].key, nonce |-> nonce, signer |-> signer]
           entry == [key |-> signer, nonce |-> nonce, at |-> now]
<1>0. signer \in Keys \cup {None}
  BY SignInAssumption DEF Signers, Clients, IInv, TypeOK
<1>1. /\ UNCHANGED <<now, active, stored, nonceStore, challenges, tokens, served>>
      /\ clients[c].pc = "sign" /\ clients' = [clients EXCEPT ![c] = x]
  BY DEF WalletSigns
<1>2. /\ clients[c].key \in Keys /\ nonce \in Nat /\ now \in Nat
      /\ nonce \in Nonces /\ challenges[nonce].key = clients[c].key
  <2>1. Backed(clients[c], challenges, signed) /\ now \in Nat
    BY <1>1 DEF IInv, TypeOK, ClientsBacked
  <2> QED BY <1>1, <2>1, ClientShape DEF IInv, Backed, Nonces
<1>3. /\ signed \subseteq signed'
      /\ \A s \in signed' : s \in signed \/ (s = entry /\ signer \in Keys)
      /\ signer # None => entry \in signed'
  BY <1>0 DEF WalletSigns
<1>4. Domains' /\ ClientsBacked' /\ \A d \in Clients : ClientTyped(clients'[d])
  <2>1. ClientTyped(x)
    BY <1>0, <1>2 DEF ClientTyped
  <2>2. Backed(x, challenges', signed')
    BY <1>1, <1>2, <1>3 DEF Backed, Nonces
  <2> HIDE DEF x
  <2> QED BY <1>1, <1>3, <2>1, <2>2, ClientMoves
<1>5. \A s \in signed' :
         s \in signed \/ s \in [key: Keys, nonce: {nonce}, at: {now}]
  BY <1>3
<1>6. TypeOK'
  <2>1. signed' \subseteq [key: Keys, nonce: Nat, at: Nat]
    BY <1>2, <1>5 DEF IInv, TypeOK
  <2> QED BY <1>1, <1>4, <1>5, <2>1 DEF IInv, TypeOK, ClientTyped
<1>7. SignedBacked'
  <2>1. now \in Nat /\ challenges[nonce].at <= now /\ SignedBacked
    BY <1>2 DEF IInv, TypeOK, SignedBacked
  <2>2. Nonces' = Nonces
    BY <1>1 DEF Nonces
  <2> QED BY <1>1, <1>2, <1>5, <2>1, <2>2 DEF SignedBacked
<1>8. StoreBacked' /\ TokensBacked' /\ StoredIssued' /\ ServedIssued'
  BY <1>1 DEF IInv, StoreBacked, Pending, TokensBacked, StoredIssued, ServedIssued, Nonces
<1>9. OneTokenPerChallenge' /\ ChallengeIsFresh'
  BY <1>1, <1>3 DEF IInv, OneTokenPerChallenge, ChallengeIsFresh
<1> QED BY <1>4, <1>6, <1>7, <1>8, <1>9 DEF IInv

(* A new challenge has an unheard-of nonce and supersedes the account's    *)
(* pending record.                                                         *)
LEMMA ChallengeIInv ==
    ASSUME IInv, NEW c \in Clients, challenge(c)
    PROVE  IInv'
<1> DEFINE key == clients[c].key
           nonce == Len(challenges) + 1
           x == [pc |-> "sign", key |-> key, nonce |-> nonce]
           record == [nonce |-> nonce, expiresAt |-> now + Ttl]
           entry == [key |-> key, at |-> now]
<1>1. /\ clients[c].pc = "challenge" /\ UNCHANGED <<now, active, stored, signed, tokens, served>>
      /\ nonceStore' = [nonceStore EXCEPT ![key] = record]
      /\ challenges' = Append(challenges, entry)
      /\ clients' = [clients EXCEPT ![c] = x]
  BY DEF challenge
<1>2. /\ key \in Keys /\ now \in Nat /\ Ttl \in Nat /\ Len(challenges) \in Nat
      /\ nonce \in Nat /\ nonce > Len(challenges)
  <2>1. key \in Keys /\ now \in Nat
    BY <1>1, ClientShape DEF IInv, TypeOK
  <2>2. Len(challenges) \in Nat /\ Ttl \in Nat
    BY ChallengeType, SignInAssumption DEF IInv
  <2> QED BY <2>1, <2>2
<1>3. entry \in [key: Keys, at: Nat] /\ entry.key = key /\ entry.at = now
  BY <1>2
<1>4. record \in [nonce: Nat, expiresAt: Nat] /\ record.nonce = nonce
      /\ record.expiresAt = now + Ttl /\ record # None
  BY <1>2, SignInAssumption
<1>5. ClientTyped(x) /\ x.pc = "sign" /\ x.nonce = nonce /\ x.key = key
  BY <1>2 DEF ClientTyped
<1> HIDE DEF entry, record, x, key
<1>6. /\ Len(challenges') = nonce /\ challenges' \in Seq([key: Keys, at: Nat])
      /\ \A n \in Nonces : challenges'[n] = challenges[n]
      /\ challenges'[nonce] = entry
  BY <1>1, <1>3 DEF IInv, TypeOK, Nonces
<1>7. Nonces' = Nonces \cup {nonce} /\ nonce \notin Nonces /\ Nonces \subseteq Nat
  BY <1>2, <1>6 DEF Nonces
<1> HIDE DEF nonce
<1>8. \A d \in Clients : clients'[d] = IF d = c THEN x ELSE clients[d]
  BY <1>1 DEF IInv, Domains
<1>9. Domains'
  BY <1>1 DEF IInv, Domains
<1>10. ClientsBacked'
  <2> SUFFICES ASSUME NEW d \in Clients, clients'[d].pc \in {"sign", "verify"}
               PROVE  Backed(clients'[d], challenges', signed')
    BY DEF ClientsBacked
  <2>1. CASE d = c
    <3>1. clients'[d] = x /\ 1 .. Len(challenges') = Nonces'
      BY <1>8, <2>1 DEF Nonces
    <3> QED BY <1>3, <1>5, <1>6, <1>7, <3>1 DEF Backed
  <2>2. CASE d # c
    <3>1. clients'[d] = clients[d]
      BY <1>8, <2>2
    <3>2. Backed(clients[d], challenges, signed)
      BY <3>1 DEF IInv, ClientsBacked
    <3> QED BY <1>1, <1>6, <1>7, <3>1, <3>2 DEF Backed
  <2> QED BY <2>1, <2>2
<1>11. TypeOK'
  <2>1. \A d \in Clients : ClientTyped(clients'[d])
    BY <1>5, <1>8 DEF IInv, TypeOK, ClientTyped
  <2>2. nonceStore' \in [Keys -> [nonce: Nat, expiresAt: Nat] \cup {None}]
    BY <1>1, <1>2, <1>4 DEF IInv, TypeOK
  <2> QED BY <1>1, <1>6, <2>1, <2>2 DEF IInv, TypeOK, ClientTyped
<1>12. SignedBacked'
  <2>1. SignedBacked
    BY DEF IInv
  <2>2. ASSUME NEW n \in Nonces' PROVE challenges'[n].at <= now'
    <3>1. n \in Nonces => challenges'[n].at <= now
      BY <1>6, <2>1 DEF SignedBacked
    <3>2. n = nonce => challenges'[n].at <= now
      BY <1>2, <1>3, <1>6
    <3> QED BY <1>1, <1>7, <3>1, <3>2
  <2>3. ASSUME NEW s \in signed'
        PROVE  s.nonce \in Nonces' /\ challenges'[s.nonce].at <= s.at /\ s.at <= now'
    BY <1>1, <1>6, <1>7, <2>1 DEF SignedBacked
  <2> QED BY <2>2, <2>3 DEF SignedBacked
<1>13. TokensBacked'
  BY <1>1, <1>7 DEF IInv, TokensBacked
<1>14. StoreBacked'
  <2>1. ASSUME NEW k \in Keys, nonceStore'[k] # None PROVE Pending(k)'
    <3>1. CASE k = key
      <4>1. nonceStore'[k] = record
        BY <1>1, <1>2, <3>1 DEF IInv, TypeOK
      <4>2. \A t \in tokens : t.nonce # nonce
        BY <1>7 DEF IInv, TokensBacked
      <4>3. \A n \in nonce + 1 .. Len(challenges') : FALSE
        BY <1>2, <1>6
      <4> QED BY <1>1, <1>3, <1>4, <1>6, <1>7, <3>1, <4>1, <4>2, <4>3 DEF Pending
    <3>2. CASE k # key
      <4>1. nonceStore'[k] = nonceStore[k] /\ Pending(k)
        BY <1>1, <2>1, <3>2 DEF IInv, TypeOK, StoreBacked
      <4>2. nonceStore[k].nonce \in Nonces
        BY <4>1 DEF Pending
      <4>3. \A n \in nonceStore[k].nonce + 1 .. Len(challenges') :
               n \in nonceStore[k].nonce + 1 .. Len(challenges) \/ n = nonce
        BY <1>2, <1>6, <1>7, <4>2 DEF nonce
      <4>4. \A n \in nonceStore[k].nonce + 1 .. Len(challenges) : n \in Nonces
        BY <1>2, <4>2 DEF Nonces
      <4>5. /\ challenges'[nonceStore[k].nonce] = challenges[nonceStore[k].nonce]
            /\ nonceStore[k].nonce \in Nonces'
        BY <1>6, <1>7, <4>2
      <4>6. ASSUME NEW n \in nonceStore[k].nonce + 1 .. Len(challenges')
            PROVE  challenges'[n].key # k
        <5>1. n = nonce => challenges'[n].key # k
          BY <1>3, <1>6, <3>2
        <5>2. n \in nonceStore[k].nonce + 1 .. Len(challenges) => challenges'[n].key # k
          BY <1>6, <4>1, <4>4 DEF Pending
        <5> QED BY <4>3, <5>1, <5>2
      <4> QED BY <1>1, <4>1, <4>5, <4>6 DEF Pending
    <3> QED BY <3>1, <3>2
  <2> QED BY <2>1 DEF StoreBacked
<1>15. OneTokenPerChallenge' /\ StoredIssued' /\ ServedIssued'
  BY <1>1 DEF IInv, OneTokenPerChallenge, StoredIssued, ServedIssued
<1>16. ChallengeIsFresh'
  <2> SUFFICES ASSUME NEW t \in tokens
               PROVE  /\ challenges'[t.nonce].key = t.sub
                      /\ t.iat <= challenges'[t.nonce].at + Ttl
                      /\ \A n \in t.nonce + 1 .. Len(challenges') :
                            challenges'[n].key = t.sub => challenges'[n].at >= t.iat
    BY <1>1 DEF ChallengeIsFresh
  <2>1. /\ t.nonce \in Nonces /\ t.iat <= now /\ t.iat \in Nat
        /\ challenges[t.nonce].key = t.sub /\ t.iat <= challenges[t.nonce].at + Ttl
        /\ \A n \in t.nonce + 1 .. Len(challenges) :
              challenges[n].key = t.sub => challenges[n].at >= t.iat
    BY DEF IInv, TypeOK, Token, TokensBacked, ChallengeIsFresh
  <2>2. \A n \in t.nonce + 1 .. Len(challenges') :
           n \in t.nonce + 1 .. Len(challenges) \/ n = nonce
    BY <1>2, <1>6, <1>7, <2>1 DEF nonce
  <2>3. \A n \in t.nonce + 1 .. Len(challenges) : n \in Nonces
    BY <1>2, <2>1 DEF Nonces
  <2> QED BY <1>2, <1>3, <1>6, <2>1, <2>2, <2>3
<1> QED BY <1>9, <1>10, <1>11, <1>12, <1>13, <1>14, <1>15, <1>16 DEF IInv

(* An accepted challenge is spent by its JWT, whether the answer arrives   *)
(* or not.                                                                 *)
LEMMA AcceptsIInv ==
    ASSUME IInv, NEW c \in Clients, NEW arrives \in BOOLEAN, VerifyAccepts(c, arrives)
    PROVE  IInv'
<1> DEFINE key == clients[c].key
           nonce == clients[c].nonce
           token == [sub |-> key, iat |-> now, nonce |-> nonce]
<1>1. /\ UNCHANGED <<now, active, challenges, signed, served>>
      /\ nonceStore' = [nonceStore EXCEPT ![key] = None]
      /\ tokens' = tokens \cup {token}
      /\ \/ stored' = [stored EXCEPT ![c] = token] /\ clients' = [clients EXCEPT ![c] = Idle]
         \/ UNCHANGED <<stored, clients>>
      /\ clients[c].pc = "verify" /\ nonceStore[key] # None /\ ~Expired(c)
      /\ nonceStore[key].nonce = SentNonce(c) /\ SignatureValid(c)
  BY DEF VerifyAccepts, Verify, Accepted, Consumed
<1>2. /\ key \in Keys /\ nonce \in Nat /\ clients[c].signer = key
      /\ nonce \in Nonces /\ challenges[nonce].key = key /\ Backed(clients[c], challenges, signed)
  <2>1. Backed(clients[c], challenges, signed)
    BY <1>1 DEF IInv, ClientsBacked
  <2> QED BY <1>1, <2>1, ClientShape DEF IInv, Backed, Nonces, SignatureValid
<1>3. key \in Keys /\ nonce \in Nat /\ now \in Nat
  BY <1>2 DEF IInv, TypeOK
<1>4. token \in Token /\ token.sub = key /\ token.iat = now /\ token.nonce = nonce
      /\ token # None
  BY <1>3, SignInAssumption DEF Token
<1>5. /\ nonceStore[key] \in [nonce: Nat, expiresAt: Nat]
      /\ Pending(key)
  BY <1>1, <1>3 DEF IInv, TypeOK, StoreBacked
<1>6. SentNonce(c) = nonce /\ nonceStore[key].nonce = nonce
  BY <1>1, <1>5, SignInAssumption DEF SentNonce
<1>7. \E s \in signed : s.key = key /\ s.nonce = nonce
  BY <1>1, <1>2, SignInAssumption DEF Backed
<1>8. now <= challenges[nonce].at + Ttl
  BY <1>1, <1>3, <1>5, <1>6 DEF Expired, Pending
<1>9. /\ \A n \in nonce + 1 .. Len(challenges) : challenges[n].key # key
      /\ \A t \in tokens : t.nonce # nonce
  BY <1>5, <1>6 DEF Pending
<1> HIDE DEF key, nonce, token
<1>10. Nonces' = Nonces
  BY <1>1 DEF Nonces
<1>11. Domains' /\ ClientsBacked' /\ \A d \in Clients : ClientTyped(clients'[d])
  <2>1. CASE UNCHANGED clients
    BY <1>1, <1>10, <2>1 DEF IInv, TypeOK, Domains, ClientsBacked, Backed, ClientTyped
  <2>2. CASE clients' = [clients EXCEPT ![c] = Idle]
    <3>1. ClientTyped(Idle) /\ Idle.pc \notin {"sign", "verify"}
      BY DEF ClientTyped, Idle
    <3> QED BY <1>1, <2>2, <3>1, ClientMoves
  <2> QED BY <1>1, <2>1, <2>2
<1>12. TypeOK'
  <2>1. stored' \in [Clients -> Token \cup {None}] /\ tokens' \subseteq Token
    <3>1. stored \in [Clients -> Token \cup {None}] /\ tokens \subseteq Token
      BY DEF IInv, TypeOK
    <3> QED BY <1>1, <1>4, <3>1
  <2>2. nonceStore' \in [Keys -> [nonce: Nat, expiresAt: Nat] \cup {None}]
    BY <1>1 DEF IInv, TypeOK
  <2> QED BY <1>1, <1>11, <2>1, <2>2 DEF IInv, TypeOK, ClientTyped
<1>13. SignedBacked'
  BY <1>1, <1>10 DEF IInv, SignedBacked
<1>14. StoreBacked'
  <2>1. ASSUME NEW k \in Keys, nonceStore'[k] # None PROVE Pending(k)'
    <3>1. k # key /\ nonceStore'[k] = nonceStore[k]
      BY <1>1, <1>3, <2>1 DEF IInv, TypeOK
    <3>2. Pending(k)
      BY <2>1, <3>1 DEF IInv, StoreBacked
    <3>3. nonceStore[k].nonce # nonce
      BY <1>2, <3>1, <3>2 DEF Pending
    <3> QED BY <1>1, <1>4, <1>10, <3>1, <3>2, <3>3 DEF Pending
  <2> QED BY <2>1 DEF StoreBacked
<1>15. TokensBacked'
  BY <1>1, <1>2, <1>3, <1>4, <1>10 DEF IInv, TokensBacked
<1>16. StoredIssued' /\ ServedIssued'
  <2>1. tokens \subseteq tokens' /\ token \in tokens'
    BY <1>1
  <2>2. ServedIssued'
    BY <1>1, <2>1 DEF IInv, ServedIssued
  <2>3. \A d \in Clients : stored'[d] # None => stored'[d] \in tokens'
    BY <1>1, <2>1 DEF IInv, TypeOK, StoredIssued
  <2> QED BY <2>2, <2>3 DEF StoredIssued
<1>17. OneTokenPerChallenge'
  BY <1>1, <1>4, <1>7, <1>9 DEF IInv, OneTokenPerChallenge
<1>18. ChallengeIsFresh'
  <2>1. /\ challenges[token.nonce].key = token.sub
        /\ token.iat <= challenges[token.nonce].at + Ttl
        /\ \A n \in token.nonce + 1 .. Len(challenges) : challenges[n].key # token.sub
    BY <1>2, <1>4, <1>8, <1>9
  <2> QED BY <1>1, <2>1 DEF IInv, ChallengeIsFresh
<1> QED BY <1>11, <1>12, <1>13, <1>14, <1>15, <1>16, <1>17, <1>18 DEF IInv

LEMMA NextIInv == IInv /\ [Next]_vars => IInv'
<1> SUFFICES ASSUME IInv, [Next]_vars PROVE IInv'
  OBVIOUS
<1>1. CASE Tick \/ AccountSwitched \/ BackendRestarts
  BY <1>1, WorldIInv
<1>2. ASSUME NEW c \in Clients, Login(c) \/ LoginStep(c) \/ LoginFails(c) PROVE IInv'
  BY <1>2, LoginIInv, ChallengeIInv, SignsIInv, AcceptsIInv DEF LoginStep
<1>3. ASSUME NEW c \in Clients, Logout(c) \/ Request(c) PROVE IInv'
  BY <1>3, SessionIInv
<1>4. CASE UNCHANGED vars
  <2>1. UNCHANGED <<now, active, clients, stored, nonceStore, challenges, signed, tokens, served>>
    BY <1>4 DEF vars, history
  <2>2. TypeOK' /\ Domains' /\ ClientsBacked' /\ StoredIssued' /\ ServedIssued'
    BY <2>1 DEF IInv, TypeOK, Domains, ClientsBacked, Backed, StoredIssued, ServedIssued, Nonces
  <2>3. now' >= now
    BY <2>1 DEF IInv, TypeOK
  <2> QED BY <2>1, <2>2, <2>3, QuietIInv
<1> QED BY <1>1, <1>2, <1>3, <1>4 DEF Next

THEOREM Invariance == Spec => []IInv
<1>1. IInv /\ [Next]_vars => IInv'
  BY NextIInv
<1> QED BY <1>1, InitIInv, PTL DEF Spec

(* Type correctness: the login, the nonces in memory, the JWTs and the     *)
(* requests of auth.service.ts and its clients keep their shapes.          *)
THEOREM TypeCorrect == Spec => []TypeOK
<1>1. IInv => TypeOK
  BY DEF IInv
<1> QED BY <1>1, Invariance, PTL

(* auth.service.ts:73.  However many clients verify, and however often an  *)
(* answer is lost, a challenge is worth one JWT, and its subject signed    *)
(* that challenge.                                                         *)
THEOREM NonceIsSpent == Spec => []OneTokenPerChallenge
<1>1. IInv => OneTokenPerChallenge
  BY DEF IInv
<1> QED BY <1>1, Invariance, PTL

(* auth.service.ts:61-68.  A JWT is issued only for the last challenge of  *)
(* its subject, and while that challenge lived.                            *)
THEOREM FreshChallenge == Spec => []ChallengeIsFresh
<1>1. IInv => ChallengeIsFresh
  BY DEF IInv
<1> QED BY <1>1, Invariance, PTL

(* jwt.strategy.ts:17.  Whoever gets past the guard signed a challenge no  *)
(* longer ago than the lives of a challenge and of a JWT together.         *)
THEOREM SignedLately == Spec => []RecentlySigned
<1>1. IInv => RecentlySigned
  <2> SUFFICES ASSUME IInv, served # None
               PROVE  /\ served.token \in tokens
                      /\ \E s \in signed : s.key = served.token.sub
                                           /\ served.at - s.at < Life + Ttl
    BY DEF RecentlySigned
  <2> DEFINE t == served.token
  <2>1. t \in tokens /\ served.at < t.iat + Life
    BY DEF IInv, ServedIssued
  <2>2. t.iat <= challenges[t.nonce].at + Ttl
    BY <2>1 DEF IInv, ChallengeIsFresh
  <2>3. PICK s \in signed : s.key = t.sub /\ s.nonce = t.nonce
    BY <2>1 DEF IInv, OneTokenPerChallenge
  <2>4. s.nonce \in Nonces /\ challenges[s.nonce].at <= s.at
    BY DEF IInv, SignedBacked
  <2>5. challenges[s.nonce].at \in Nat
    BY <2>4, ChallengeType DEF IInv
  <2>6. served.at \in Nat /\ t.iat \in Nat /\ s.at \in Nat /\ Life \in Nat /\ Ttl \in Nat
    BY <2>1, SignInAssumption DEF IInv, TypeOK, Token
  <2>7. served.at - s.at < Life + Ttl
    BY <2>1, <2>2, <2>3, <2>4, <2>5, <2>6
  <2> QED BY <2>1, <2>3, <2>7
<1> QED BY <1>1, Invariance, PTL
=============================================================================
