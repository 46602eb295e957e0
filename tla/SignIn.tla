------------------------------- MODULE SignIn -------------------------------
(***************************************************************************)
(* Signing in with a wallet: the login of the frontend (auth.service.js,   *)
(* wallet.service.js), the AuthService of the backend with its nonces in   *)
(* memory, and the guard in front of the protected routes.                 *)
(*                                                                         *)
(* A client is a tab with the frontend or a program that follows the       *)
(* documented HTTP interface.  Handlers of the backend are synchronous;    *)
(* a login is split at each promise it waits for.                          *)
(*                                                                         *)
(* External: the wallet, which asks its user and whose active account may  *)
(* change at any time, and HTTP, which may fail before or after the        *)
(* handler has run.                                                        *)
(***************************************************************************)
EXTENDS Integers, Sequences, FiniteSets

CONSTANTS
    Keys,       \* Stellar accounts
    Pages,      \* tabs with the frontend; they share one wallet
    Programs,   \* other clients
    Own,        \* per program, the account it signs in
    Ttl,        \* NONCE_TTL_MS
    Life,       \* expiresIn of a JWT
    MaxTime,    \* bound on the clock
    MaxNonces,  \* bound on the challenges
    None

Clients == Pages \cup Programs

ASSUME SignInAssumption ==
    /\ Pages \cap Programs = {}
    /\ Own \in [Programs -> Keys]
    /\ {Ttl, Life, MaxTime, MaxNonces} \subseteq Nat
    /\ None \notin Keys \cup Nat
    /\ None \notin [nonce: Nat, expiresAt: Nat] \cup [sub: Keys, iat: Nat, nonce: Nat]

VARIABLES
    now,         \* the clock
    active,      \* the wallet's active account
    clients,     \* how far the login of each client is
    stored,      \* per client, the JWT it keeps (sessionStorage), or None
    nonceStore,  \* backend: per key, the pending NonceRecord or None
    challenges,  \* history: [key, at] of each challenge; a nonce is its number
    signed,      \* history: [key, nonce, at] of the signatures of a nonce
    tokens,      \* history: the JWTs issued, with the nonce they were issued for
    served       \* history: the last request let through, or None

history == <<challenges, signed, tokens, served>>
vars    == <<now, active, clients, stored, nonceStore, history>>

Idle == [pc |-> "idle"]

Init ==
    /\ now = 0
    /\ active \in Keys
    /\ clients = [c \in Clients |-> Idle]
    /\ stored = [c \in Clients |-> None]
    /\ nonceStore = [k \in Keys |-> None]
    /\ challenges = <<>> /\ signed = {} /\ tokens = {} /\ served = None

-----------------------------------------------------------------------------
(* A tab starts with the wallet's consent, a program knows its key. *)
Login(c) ==
    /\ clients[c] = Idle
    /\ Len(challenges) + Cardinality({d \in Clients :
           clients[d].pc \in {"connect", "key", "challenge"}}) < MaxNonces
    /\ clients' = [clients EXCEPT ![c] =
           IF c \in Pages THEN [pc |-> "connect"] ELSE [pc |-> "challenge", key |-> Own[c]]]
    /\ UNCHANGED <<now, active, stored, nonceStore, history>>

(* connect and getPublicKey are answered. *)
WalletConnects(c) ==
    /\ clients[c].pc = "connect"
    /\ clients' = [clients EXCEPT ![c] = [pc |-> "key"]]
    /\ UNCHANGED <<now, active, stored, nonceStore, history>>

WalletTellsKey(c) ==
    /\ clients[c].pc = "key"
    /\ clients' = [clients EXCEPT ![c] = [pc |-> "challenge", key |-> active]]
    /\ UNCHANGED <<now, active, stored, nonceStore, history>>

(* challenge: a new nonce replaces the one that may be pending. *)
challenge(c) ==
    LET key   == clients[c].key
        nonce == Len(challenges) + 1 IN
    /\ clients[c].pc = "challenge"
    /\ nonceStore' = [nonceStore EXCEPT ![key] = [nonce |-> nonce, expiresAt |-> now + Ttl]]
    /\ challenges' = Append(challenges, [key |-> key, at |-> now])
    /\ clients' = [clients EXCEPT ![c] = [pc |-> "sign", key |-> key, nonce |-> nonce]]
    /\ UNCHANGED <<now, active, stored, signed, tokens, served>>

(* A tab has the wallet sign a transaction, and what comes back is no      *)
(* signature of the nonce.  A program has the nonce signed, by its own key *)
(* or by the wallet, whose active account need not be the one named.       *)
Signers(c) == IF c \in Pages THEN {None} ELSE {Own[c], active}

WalletSigns(c, signer) ==
    LET nonce == clients[c].nonce IN
    /\ clients[c].pc = "sign"
    /\ clients' = [clients EXCEPT ![c] = [pc |-> "verify", key |-> clients[c].key,
                                         nonce |-> nonce, signer |-> signer]]
    /\ signed' = IF signer = None THEN signed
                 ELSE signed \cup {[key |-> signer, nonce |-> nonce, at |-> now]}
    /\ UNCHANGED <<now, active, stored, nonceStore, challenges, tokens, served>>

-----------------------------------------------------------------------------
(* The nonce sent to verify; _getPendingNonce reads an item of the         *)
(* sessionStorage that nothing writes.                                     *)
SentNonce(c) == IF c \in Pages THEN None ELSE clients[c].nonce

(* The signature is checked against the key that the request names. *)
SignatureValid(c) == clients[c].signer = clients[c].key

Expired(c) ==
    LET record == nonceStore[clients[c].key] IN record # None /\ now > record.expiresAt

(* Mutants: an expired challenge is accepted, or any signature is. *)
AcceptedLate(c) ==
    LET record == nonceStore[clients[c].key] IN
    record # None /\ record.nonce = SentNonce(c) /\ SignatureValid(c)

AcceptedUnsigned(c) ==
    LET record == nonceStore[clients[c].key] IN
    record # None /\ ~Expired(c) /\ record.nonce = SentNonce(c)

Accepted(c) ==
    LET record == nonceStore[clients[c].key] IN
    record # None /\ ~Expired(c) /\ record.nonce = SentNonce(c) /\ SignatureValid(c)

Verify(c) == clients[c].pc = "verify"

(* Mutant: a refused client asks again. *)
AfterRefusalAgain(c) == clients[c]

AfterRefusal(c) == Idle

(* Every refusal is an exception; only expiry drops the record. *)
VerifyRefuses(c) ==
    /\ Verify(c) /\ ~Accepted(c)
    /\ nonceStore' = IF Expired(c) THEN [nonceStore EXCEPT ![clients[c].key] = None]
                     ELSE nonceStore
    /\ clients' = [clients EXCEPT ![c] = AfterRefusal(c)]
    /\ UNCHANGED <<now, active, stored, history>>

(* Mutants: the nonce may be used again, or only its record is blanked. *)
ConsumedNever(key) == nonceStore
ConsumedBlank(key) == [nonceStore EXCEPT ![key].nonce = None]

Consumed(key) == [nonceStore EXCEPT ![key] = None]

(* The JWT is issued; if its answer is lost, a program tries again. *)
VerifyAccepts(c, arrives) ==
    LET key   == clients[c].key
        token == [sub |-> key, iat |-> now, nonce |-> clients[c].nonce] IN
    /\ Verify(c) /\ Accepted(c)
    /\ nonceStore' = Consumed(key)
    /\ tokens' = tokens \cup {token}
    /\ IF arrives
       THEN /\ stored' = [stored EXCEPT ![c] = token]
            /\ clients' = [clients EXCEPT ![c] = Idle]
       ELSE UNCHANGED <<stored, clients>>
    /\ UNCHANGED <<now, active, challenges, signed, served>>

(* The wallet refuses or a request fails: the promise chain is rejected,   *)
(* whatever it was waiting for, and loading is over.                       *)
LoginFails(c) ==
    /\ clients[c] # Idle
    /\ clients' = [clients EXCEPT ![c] = Idle]
    /\ UNCHANGED <<now, active, stored, nonceStore, history>>

Logout(c) ==
    /\ stored[c] # None
    /\ stored' = [stored EXCEPT ![c] = None]
    /\ UNCHANGED <<now, active, clients, nonceStore, history>>

-----------------------------------------------------------------------------
(* Mutant: ignoreExpiration. *)
AdmittedForever(token) == TRUE

(* The guard lets a request through while its JWT has not expired. *)
Admitted(token) == now < token.iat + Life

(* What validate makes of the payload, and the handlers take for earner. *)
UserOf(token) == [publicKey |-> token.sub]

EarnerOf(user) == IF "sub" \in DOMAIN user THEN user.sub ELSE None

(* A request to a protected route; one that is refused changes nothing. *)
Request(c) ==
    /\ stored[c] # None /\ Admitted(stored[c])
    /\ served' = [token |-> stored[c], at |-> now, earner |-> EarnerOf(UserOf(stored[c]))]
    /\ UNCHANGED <<now, active, clients, stored, nonceStore, challenges, signed, tokens>>

-----------------------------------------------------------------------------
Tick ==
    /\ now < MaxTime
    /\ now' = now + 1
    /\ UNCHANGED <<active, clients, stored, nonceStore, history>>

AccountSwitched ==
    /\ \E k \in Keys \ {active} : active' = k
    /\ UNCHANGED <<now, clients, stored, nonceStore, history>>

(* The nonces are lost, the JWTs keep their worth. *)
BackendRestarts ==
    /\ nonceStore' = [k \in Keys |-> None]
    /\ UNCHANGED <<now, active, clients, stored, history>>

LoginStep(c) ==
    \/ WalletConnects(c)
    \/ WalletTellsKey(c)
    \/ challenge(c)
    \/ \E signer \in Signers(c) : WalletSigns(c, signer)
    \/ VerifyRefuses(c)
    \/ \E arrives \in BOOLEAN : VerifyAccepts(c, arrives)

Next ==
    \/ Tick
    \/ AccountSwitched
    \/ BackendRestarts
    \/ \E c \in Clients : Login(c) \/ LoginStep(c) \/ LoginFails(c) \/ Logout(c) \/ Request(c)

Spec == Init /\ [][Next]_vars

(* The user of the wallet decides and the backend is reached some time, if *)
(* the login has not failed by then; no failure is certain to happen.      *)
FairSpec == Spec /\ \A c \in Clients : WF_vars(LoginStep(c))

-----------------------------------------------------------------------------
Token == [sub: Keys, iat: Nat, nonce: Nat]

(* Type invariant. *)
TypeOK ==
    /\ now \in Nat /\ active \in Keys
    /\ \A c \in Clients :
          \/ clients[c] = Idle
          \/ clients[c] \in [pc: {"connect", "key"}]
          \/ clients[c] \in [pc: {"challenge"}, key: Keys]
          \/ clients[c] \in [pc: {"sign"}, key: Keys, nonce: Nat]
          \/ clients[c] \in [pc: {"verify"}, key: Keys, nonce: Nat, signer: Keys \cup {None}]
    /\ stored \in [Clients -> Token \cup {None}]
    /\ nonceStore \in [Keys -> [nonce: Nat, expiresAt: Nat] \cup {None}]
    /\ challenges \in Seq([key: Keys, at: Nat])
    /\ signed \subseteq [key: Keys, nonce: Nat, at: Nat]
    /\ tokens \subseteq Token
    /\ served = None \/ served \in [token: Token, at: Nat, earner: Keys \cup {None}]

(* auth.service.ts:73, "Consume the nonce - one-time use".  No challenge   *)
(* is worth two JWTs, also if the answer with the first one was lost and   *)
(* the client verifies again, and each has the signature of its subject.   *)
OneTokenPerChallenge ==
    \A t \in tokens :
        /\ \A u \in tokens : u.nonce = t.nonce => u = t
        /\ \E s \in signed : s.key = t.sub /\ s.nonce = t.nonce

(* auth.service.ts:61-68.  A JWT is issued for the last challenge of its   *)
(* subject and within that challenge's life, also when another client asks *)
(* for a challenge of the same account while the first one is being signed.*)
ChallengeIsFresh ==
    \A t \in tokens :
        /\ challenges[t.nonce].key = t.sub
        /\ t.iat <= challenges[t.nonce].at + Ttl
        /\ \A n \in t.nonce + 1 .. Len(challenges) :
              challenges[n].key = t.sub => challenges[n].at >= t.iat

(* auth.module.ts:18, jwt.strategy.ts:17.  Across restarts and lost        *)
(* answers, a request that is let through carries a JWT whose subject has  *)
(* signed a challenge no longer ago than both lives together, and not some *)
(* other account in its place.                                             *)
RecentlySigned ==
    served # None =>
        /\ served.token \in tokens
        /\ \E s \in signed : s.key = served.token.sub /\ served.at - s.at < Life + Ttl

(* auth.controller.js:26-45.  Whatever the wallet and the backend answer,  *)
(* a login comes to an end and the page stops loading.                     *)
LoginEnds == \A c \in Clients : clients[c] # Idle ~> clients[c] = Idle

(* learn.controller.ts:28, "req: { user: { sub: string } }", and likewise  *)
(* for every protected route.  The earner that a handler acts for is the   *)
(* account that signed in.                                                 *)
SubjectIsEarner == served # None => served.earner = served.token.sub
=============================================================================
