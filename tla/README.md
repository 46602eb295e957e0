# Flare Protocol in TLA+

A formal model of the program in `src/`: the Soroban contracts in
`src/contracts/`, the NestJS services in `src/backend/` and the sign-in of
`src/frontend/`. Paths below are relative to `src/`.

Flare pays earners for attention. An advertiser creates a campaign on chain and
funds it; an earner does something the backend can check (watches an ad, answers
a quiz, posts, refers somebody); the backend's oracle signs a claim proof; the
earner hands the proof to the reward vault, which pays it once. A listener copies
what happened on chain back into the database.

## The parts

| Part | State | Operations | Modules |
|---|---|---|---|
| `reward_vault` contract | admin, treasury, fee rate; per campaign balance, asset, price, oracle key; spent nullifiers; the tokens it holds | initialize, deposit, claim, withdraw | `FeeSplit`, `RewardVault`, `CampaignPots` |
| `campaign_manager` contract | campaign records, list of ids, addresses of the other two | initialize, create, pause, resume, drain, update_metadata, listings | `CampaignManager`, `CampaignLifecycle` |
| `registry` contract | profiles, per-advertiser counter, campaign index | register_advertiser, register_earner, index_campaign, listings | `Registry` |
| attention service | sessions and rate-limit keys in Redis, `AttentionSession` rows | startSession, recordSignal, getProof | `AttentionService` |
| learn service | `LearnSubmission` rows, answer keys | submitAnswers, getProof | `LearnService` |
| social service | `SocialVerification` rows | verifySocialPost (asks X), getProof | `SocialService` |
| referrals service | `Referral` rows | generateLink, trackConversion, getProof | `ReferralService` |
| oracle | a key pair | signProof, verifyProof | `ClaimPath` |
| auth service and guard | nonces in memory; JWTs at the clients | challenge, verify, validate | `SignIn` |
| frontend | the JWT of a tab | login, logout, views | `SignIn` |
| event listener | a cursor in memory; `Earner.totalEarned`, `Campaign.status` | poll, two fetches, the handler of claims (that of campaign states is never called) | `EventListener` |
| campaigns service | - | list, get, stats | not modelled |
| scripts | - | shell commands | not modelled |

How they interact. `create_campaign` calls `registry.index_campaign` and
`vault.deposit`; `drain_campaign` calls `vault.withdraw`. A failed inner call
rolls the whole invocation back. The four proof-issuing services call the oracle
in process; the proof travels through the earner's browser to `vault.claim`. The
vault publishes an event for each claim, which the listener polls through an RPC
server. It polls the manager too, which publishes nothing.

What is hard in each part, and what makes it correct:

- **vault**: all campaigns share one token account; deposits overwrite; the fee
  division truncates; neither the fee rate nor a deposit's price is validated; the
  nullifier is written before the checks and transfers that may still fail. Correct
  if an action is paid exactly when its nullifier is spent, no campaign funded on
  sound terms is paid from another's tokens, and nothing of it becomes unreachable
  except by a second deposit.
- **manager and registry**: records are written before calls that may trap;
  anybody may call `index_campaign`. Correct if a campaign exists in all three
  contracts or in none, drained and paid back coincide, and the life cycle has no
  way back from drained.
- **attention**: every handler is split by awaits, requests interleave, and each
  reads, checks and writes in different turns. Correct if no interleaving invents
  attention and every proof was earned; the daily limit and the signal interval
  hold only when requests do not overlap.
- **learn, social, referrals**: as attention, with one row per earner that later
  submissions overwrite. A mark `proofIssued` is set before the proof is
  answered, on whatever row is there by then. Correct if a proof is handed out
  only for what was earned, and a mark is true: the proof it speaks of was, or is
  about to be, handed out.
- **oracle**: the message is built twice, in two languages, with tests on either
  side that use a builder of their own.
- **auth**: nonces in memory, replaced by the next challenge of the account; a
  client whose answer was lost tries again. Correct if a challenge is worth one
  JWT, of the account that signed it and within its life.
- **listener**: an in-memory cursor, answers cut at a limit, failed requests,
  restarts. Correct if claims are neither skipped nor counted twice and all of them
  are picked up.

## Modules

**`FeeSplit`** - the arithmetic of `claim` (`reward_vault/src/lib.rs`): product,
truncating division, what the treasury gets, and the `i128` overflow that traps.

**`RewardVault`** - one action per contract function. A deposit takes any `i128`
amount and price and any address, the vault's own included, as the code does. Every error path is a
disjunct that changes only `result`; the order of the checks of `claim` is in
`ClaimChecks`. Authorisation is a set of signers. A proof is a record whose
`signer` says under which key its signature verifies; a nullifier is the tuple of
the fields that are hashed (the timestamp is not among them). `tokens` is the
ledger of the SEP-41 contracts. Three history variables: `payments` counts the
claims paid per action, `custody` the tokens each campaign brought in less those
paid out for it, and `unbacked` has the campaigns that were ever deposited on terms
that break the books (`Backed`): at a negative price, or by the vault's own address,
which brings nothing in. Of these the code promises nothing, and the properties
about tokens are those of the other campaigns.

**`CampaignPots`** - what the vault promises: per campaign and asset a pot, part
of which may be lost; payments come once per action and out of the right pot, a
refund takes all that is not lost. A campaign may become void, of whose pot nothing
is promised any more. `RewardVault` implements it with `custody` as pots,
`StrandedBy` as what is lost, `nullifiers` as the actions paid and `unbacked` as the
void campaigns.

**`Registry`**, **`CampaignManager`** - the two contracts composed. The vault is
external here: it accepts a call or traps, and `deposits` and `withdrawn` record
what it accepted. Ledger time is `now`. `Indexed` is shared by the manager's call
and by direct calls. `CountersMatchIndex` is the registry's own promise and stands in
`Registry`. Profile texts and the metadata URI are left out.

**`CampaignLifecycle`** - Absent, Active, Paused, Drained, and which step needs
the expiry to have passed. `CampaignManager` implements it.

**`Listing`** - the two paginated reads: the loop over the list of ids, or over the
index, position by position, with the `u32` product that traps.

**`ProofIssuance`** - what the four services promise: an action is accepted, then
a proof of it is handed out. An action is what the vault's nullifier tells apart,
so the same proof handed out again is a stutter. Each service implements it with
its own actions: session tokens, scores, post URLs, referees.

**`AttentionService`** - what each handler does between two awaits:
`SignalReads` (redis.get), `SignalRejected`, `SignalWrites` (redis.set),
`SignalUpserts` (the row, whose failure is swallowed), `ClaimPassesLimit`,
`ClaimSigns`, `ClaimMarksRow`, `ClaimReturns`. An exception of Redis or the database
ends the request that waits for it: `SignalRejected`, `ClaimFails`, and `ClaimLost`
when the row is marked already and the rate-limit key was to be set. Requests in
flight are slots; a crash empties all slots. Sessions expire at any time, because the clock of the
model is shorter than their two hours. `accepted` counts the signals written per
session, `issued` holds the proofs handed out, and `spoiled` the earners whose
last proof was lost in a crash or a failed write, or overtaken by a signal.

**`LearnService`**, **`SocialService`**, **`ReferralService`** - in the same
manner (`ProofRequests` holds the little they share): the rows are `submissions`,
`verifications` and `referrals`; a request is idle, waits for one query, and goes
on. What a request
carries from one await to the next is in its record; what it reads after an await
is what is there then. `RequestFails` is an exception of the database. In
`LearnService` a submission is the double that the score is, of a number of right
answers: `Percent` says which, in multiples of `1 / Unit`, since every double is a
multiple of a small enough unit, and the threshold, a double too, is counted in the
same. `Rounded` is `Math.round`. In `SocialService` posts are deleted, accounts age
and followers change between the calls to X; an account of `Undated` is answered
with no date of creation, or none that can be read, and its age is never less than
30 days. In
`ReferralService` `findFirst` is a choice among the rows that match. The history
variables `doubled`, `contested` and `spoiled` say which pairs or slugs had
overlapping requests or lost a proof; the properties hold for all others.

**`ProofServices`** - the three of them as one process runs them
(`backend/src/app.module.ts`): a step of one leaves the tables and requests of the
others alone, a crash takes the requests of all.

**`ClaimPath`** - oracle and vault composed: `signProof` builds the message as the
backend does, `claim` as `verify.rs` does, each part in the form in which its
bytes are hashed. Campaigns are funded with the key the backend publishes.

**`SignIn`** - page, wallet and backend. A page connects, asks the wallet for its
key, asks for a challenge, has the wallet sign and sends `verify`; a program that
follows the documented interface has the nonce signed, by its own key or by the
wallet, whose active account may be another than the request names
(`SignatureValid` decides then). The wallet's account may
be switched and the backend restarted between any two steps. Nonces are numbers
in order of their challenges. `Request` is a protected route: the guard, what
`validate` makes of the payload, and what the handlers read from it.

**`EventListener`** - `CloseLedger` publishes claims; a poll is
`fetchRewardVaultEvents`, one `VaultEvent` per event and
`fetchCampaignManagerEvents`, whose answer is empty. `PollFails` is an exception of a
request. `ClaimEvent` is the form of a claim's event: `PublishedEvent` as the vault
has it, `ExpectedEvent` as the listener reads it. `taken` records which events the
loop has been through, `cut` that an answer ended inside a ledger. External:
the RPC server, which answers in ledger order, at most `Limit` events, from the
first ledger when no start is given (the cursor is 0), and an empty list when the
start is beyond the head. An answer is the set of its positions in the log, of which the
loop takes the least (`FirstOf`, `Handles`).

**`MC*`** - instances for TLC. **`*Proofs`** and **`SumLemmas`** - theorems and
lemmas for TLAPS.

Some modules define operators marked "Mutant": a plausible slip in the operator
that follows. They are not part of the specification; each shows that a property
notices that slip.

## Runs

| Run | Shows | Bounds |
|---|---|---|
| `vault` | `TypeOK`, `SpentIffPaid`, `CampaignIsolation`, `VaultSolvent`, `StrandedOnlyByRedeposit`, and that the vault implements `CampaignPots` | 2 campaigns, 2 assets, 3 offers (prices 1, -1 and 3, of two keys and two assets), fee rates 0, 2500 and 12500, 2 keys, proofs re-signed with another timestamp, the vault's own address as recipient of a withdrawal. Supply bounds the deposits. A price of 1 at 2500 leaves the earner 0, one of 3 is truncated and, without a fee, leaves the small `i128` |
| `manager` | `CreatedEverywhereOrNowhere`, `DrainedIffWithdrawn`, `CountersMatchIndex`, that the pages of both listings give every entry once and in order (`ActivePagesListAll`, `IndexPagesListAll`), and that the manager implements `CampaignLifecycle` | 2 ids, 2 advertisers, a configuration for each check that can fail, the vault accepting or refusing, 2 direct index entries (a duplicate and a bogus one), time 0..2 so that an expiry lies before, at and after a call. Pages of 1 entry (the index also of 2) and a `u32` that ends at 3, so that filtered, full, short, empty and trapping pages occur |
| `attention` | `AttentionIsReal`, `ProofsAreEarned`, and that the service implements `ProofIssuance` | 2 earners, 2 signals and 1 claim in flight, 2 heartbeats to complete, no video completions, time 1..2. Enough for lost updates, a late write after expiry, and a claim between the writes of another request |
| `attention_serial` | `OneProofPerDay`, `SignalsAreSpaced` when requests do not overlap, and `AttentionMarkIsTrue`, also when redis.set rejects after the mark | 2 sessions of one earner, 1 signal and 1 claim in flight, heartbeats and video completions, a day of 2 ticks, time 1..4 |
| `events` | `CountedOnceIfSpread`, `NoClaimSkipped`, and under fairness `EveryClaimSeen`, for claims published as the listener expects | 3 ledgers with up to 2 claims of 2 earners each; answers of at most 3 events, so that some are cut between ledgers and some inside one; 2 failed requests and a restart |
| `services` | each of the three services implements `ProofIssuance`; `LearnMarkIsTrue`, `SocialMarkIsTrue`, `ReferralMarkIsTrue`; `VerifiedIsVetted`, `OneLinkPerPair`, `ConversionIsFinal` | one earner and campaign; 3 requests (social: 2), which is what a submission overtaking a proof and a second proof needs; 200 questions and a threshold of 57, with 114 (56.99999999999999), 115 (57.49999999999999) and 116 right, so that a failed and a passed score round alike; a second campaign, unknown to the database; 2 posts of 2 accounts, one of them undated, and an unreadable URL; 2 slugs, 2 referees and the referrer |
| `signin` | `OneTokenPerChallenge`, `ChallengeIsFresh`, `RecentlySigned`, and under fairness `LoginEnds` | a page whose wallet has 2 accounts and a program that uses one of them and may have the wallet sign, with either, 3 challenges, both lives one tick, time 0..2 |
| `attention_race` | `OneProofPerDay` fails with two claims in flight | as `attention_serial`, 2 claims |
| `events_adjacent` | `EarnedAtMostClaimed` fails when the next ledger has a claim too | 3 ledgers |
| `events_topic` | `EveryClaimSeen` fails with claims as the vault publishes them | 2 ledgers |
| `oracle_message` | `OracleProofIsAccepted` fails | 1 campaign, 1 earner |
| `signin_subject` | `SubjectIsEarner` fails | as `signin` |

The three services share no row, no request and no variable. The product of their
states says nothing that each of them does not say alone, and is too large to
enumerate, so `MCProofServices` draws one service at the start and lets only that
one run; crashes are those of the whole process. That this loses nothing is the
theorem `ServicesApart`.

Deadlock is not checked: every bound (time, ledgers, supply, index length) is a
place where a model stops and the program would go on.

The bounds are small because the hazards are: each is a race of two requests, a
repetition of one call, or two adjacent ledgers. A third request, campaign or
ledger adds states and no new kind of step. What could depend on the size is in
the theorems, which have none.

**Unit of scores.** The run counts scores in thousandths, truncated. That keeps
what the code can tell apart: the order of the scores and the threshold, and the
side of the half on which each score lies. A unit in which the doubles are exact
would give the same states under other names.

**Symmetry.** `attention` treats its two signal slots as interchangeable, `services`
two of its request slots, and `vault` its campaigns and its actions; no definition
or property names one, and these runs check no liveness.

**View.** `vault` tells states apart by everything but `result`, the outcome of the
last call: no action reads it, and no property but the type speaks of it.

**Fairness.** `FairSpec` of `EventListener` asks weak fairness of `Listener`, the
steps of the loop itself: `poll()` catches its exceptions and schedules the next
poll in a `finally` block (`backend/src/events/events.service.ts:58-71`), so a
process that is up always takes its next step. Nothing is asked of the chain, of
failures or of restarts, and those are finite in number: a process that fails
every request or restarts forever makes no progress, in the code either.

`FairSpec` of `SignIn` asks weak fairness of each client's next step of a login:
every promise of the chain in `frontend/src/app/auth/auth.controller.js:26-45` is
settled, if by a refusal. The user of the wallet decides, and HTTP answers or
fails; a wallet that is never answered keeps the page loading, in the code too.
Nothing is asked of failures, restarts, the clock or the start of a login.

## Limits of the code

Found while modelling, each shown by a run that TLC is expected to refute
(`findings` in `PROJECT.json`):

1. The daily limit of a wallet and campaign is checked before three awaits and
   recorded after them: two overlapping claims pass it (`attention_race`).
2. The cursor stays put after two adjacent ledgers with claims, and the second
   ledger's claims are added on every poll (`events_adjacent`).
3. The vault publishes `("reward", "claimed")`; the listener waits for
   `"RewardClaimed"` (`events_topic`).
4. The oracle hashes the earner's 32 key bytes, the vault the 56 characters of the
   address: no signature of the backend verifies (`oracle_message`).
5. The guard gives the handlers `req.user.publicKey`; they read `req.user.sub` and
   act for the earner `undefined` (`signin_subject`).

Found while modelling or with other constants of the same models, for which no run
is kept:

- signals after completion reset `proofIssued` for the same session, so the same
  proof is handed out again; the vault's nullifier stops a second payment;
- two signals in flight are compared with the same `lastSignalAt`, so the minimum
  interval is not kept (`MCAttentionSerial.cfg` with two signal slots and
  `SignalsAreSpaced`);
- the manager publishes no event, and never stores the state `Expired`: the listener
  waits for `CampaignPaused` and the like (`events.service.ts:120-129`) in vain, and
  `Campaign.status` is never updated, although `docs/architecture.md:128` speaks of
  "Soroban event polling → DB state sync";
- `deposit` of the vault takes any price. At a negative one, a claim whose
  transfers pass (at -1 and the usual fee it moves nothing) raises the campaign's
  balance, which a withdrawal, or claims at a later
  price, then take out of other campaigns' tokens. A deposit whose advertiser is the
  vault itself books tokens that are there already. The manager's `InvalidReward`
  check is the only guard, and the vault's admin need not be the manager;
- payments of the vault to its own address, as earner, treasury or recipient, leave
  the tokens in the pool with no record: `custody` counts them as paid out;
- a proof is lost without a crash, too, when `redis.set` rejects after the row was
  marked (`attention.service.ts:240`, `ClaimLost`);
- an X account whose `created_at` is missing or cannot be read passes the check of
  its age: it is `NaN`, which is not less than 30 (`social.service.ts:79-82`,
  `Undated`);
- a restart resets the cursor, and every claim the RPC server still keeps is added
  once more; an answer cut inside a ledger loses that ledger's remaining claims;
- a proof whose answer is lost after its row was marked is gone: a learn or social
  earner must submit again, a referrer has no way back;
- after two conversions of different links, `getProof` may keep finding the one
  whose proof was issued and never answers the other;
- two overlapping look-ups create two links, two overlapping conversions
  overwrite each other (`doubled`, `contested` in `ReferralService`);
- the login of the page cannot succeed: it sends the nonce stored under
  `flare_pending_nonce`, which nothing writes, and a signed transaction where the
  backend expects the signature of the nonce. In the `signin` run it is the
  program that obtains JWTs;
- nonces are in the memory of the process, where `docs/architecture.md:171` has
  Redis: a restart loses them;
- a quiz score is compared and rounded as a double: 114 of 200 right is less than 57
  percent, and its proof would be that of 57 and of 115 right, which is rounded down
  to 57 as well (`MCPercent`);
- `page * 20` and `page * limit` trap beyond `u32`: entries past that are out of
  reach;
- the manager calls the vault with other arguments than the vault takes (three for
  six, one for two): with both as deployed every creation and drain traps;
- a pause does not reach the vault, although `docs/contract-api.md:202` says it
  stops claims; `max_participants` and `remaining_budget` are never updated;
- the treasury receives what truncation leaves of the reward, which is one unit
  more than the documented `reward * fee_rate / 10000` when the division is not
  exact (`FeeSplit`: `TreasuryAmount` and `FeeByRate` differ).

## Proofs

TLAPS checks the following for every value of the constants: any number of
campaigns, accounts, sessions, requests, clients, ledgers and restarts, any fee
rate, answer key, page size, limit or clock. The theorems rest on the named assumptions about
the constants (`VaultAssumption`, `I128MaxAssumption`, `ManagerAssumption`,
`RegistryAssumption`, `AttentionAssumption`, `LearnAssumption`,
`SocialAssumption`, `ReferralAssumption`, `SignInAssumption`,
`ListenerAssumption`, `ListingAssumption`), which say that constants have the types
the code gives them (prices, amounts and thresholds of either sign), that `None` is no
value, that a score is not negative and that the vault has finitely many campaigns, as
any ledger has; TLC evaluates them in every run. Two theorems have a further
hypothesis, named below.

**`RewardVaultProofs`**: `TypeCorrect`, `PaidAtMostOnce`, `IsolatedCampaigns`,
`BooksCovered`, `ImplementsPots`, `StrandingNeedsRedeposit`. The inductive invariant joins the
type, "paid once iff spent", "custody covers the books", that a campaign with a
positive balance has an asset, and that one not in `unbacked` has no negative price. The last is needed for a claim or withdrawal to
be charged to the pot it came from. The arithmetic is one lemma,
`EarnerAmountBound`: the earner's share never exceeds a reward that is not negative,
hence both shares together are that reward whenever the transfers go through, at any
rate.
`BooksCovered` is `VaultSolvent`, a sum over all campaigns of one asset. It is not
inductive: a claim that took more from the pool than from the books could be hidden
by the slack of another campaign. `Accounted` is: the vault's tokens of an asset are
at least the sum of what `custody` holds of it, because every transfer into or out of
the vault changes exactly one summand by the same amount. `CampaignIsolation`, summed
up over the campaigns not in `unbacked`, then gives their books; of the others the sum
keeps what they took.

**`CampaignManagerProofs`**: `TypeCorrect`, `CreationIsWhole`,
`DrainMatchesWithdrawal`, `ImplementsLifecycle`, `CountersAreRight`. `StepEffect`
first reduces every action to one of a few effects on the state that the
properties look at, so that each part of the invariant is shown preserved once per
effect and not once per function. `CreatedEverywhereOrNowhere` and
`DrainedIffWithdrawn` are inductive together with the type: the first gives that
an id that is not stored was never withdrawn. The counters need lemmas on
cardinality: a pushed entry adds one position to its advertiser and none to
others.

**`AttentionProofs`**: `TypeCorrect`, `RealAttention`, `EarnedProofs`,
`ImplementsIssuance`, `MarkIsTrue`, `OnePerDay`, `SpacedSignals`. What is earned is
followed from the accepted signals through Redis, the copies carried by requests,
the rows and the claims in flight to the proofs; each of these may be stale when
it is used, so each has its conjunct. The argument is that the counts of a session
never go down (`StaysBacked`), so a stale copy still never exceeds them; every
action either drops holders (`Carried`) or adds one whose content was just
checked. `MarkIsTrue` adds that the session of a claim about to mark a row is that
of the row (`UpdatesMatch`), unless a signal replaced it meanwhile. The last two
have a hypothesis each. `OnePerDay` assumes `OneClaim`, that claims do not
overlap: then a claim in flight found the key of its pair absent and it still is
(`ClaimsInTime`). `SpacedSignals` assumes `OneSignal`, that signals do not
overlap: then what Redis and the request hold is the time of the last accepted
signal (`LastIsKnown`), also after an expired session was written back. Neither
hypothesis follows from the code; `attention_race` shows the first is needed.

**`ListingProofs`**: `ActivePagesComplete` and `IndexPagesComplete`, for every page
size, list and filter. The loop invariant (`FillingIs`) says that after `i` entries
the page is what the first `i` entries kept by the filter make of it (`PageAfter`):
empty while they are all passed over, then growing, then closed by the first entry
too many. So page `n` is a window on the entries kept, windows that meet make one
(`WindowsJoin`), and the flattened pages are a prefix, the whole when the list fits a
`u32`.

**`ProofServicesProofs`**: `TypeCorrect` (one per service and one of the
composition), `MarkTrue` and `ImplementsIssuance` of each service, `Vetted` (social),
`OneLink` and `ConversionsFinal` (referrals), `ServicesApart` and `SideBySide`: what
is proved of each service holds of all three in one process. One pattern:
`RequestsBacked` says what is known of a request at each of its awaits, `RowsBacked`
what is known of a row (each name with the service in front), and
`UpdatesMatch` (`ProofsMatch` in referrals) that the proof in the making is the
row's unless an overlap spoiled it. Without the last the mark could be set on a
row it is not about. Of what `SocialService` reads from X only the age of an
account stays true, so only that is carried from one await to the next. In
referrals the links, conversions and creations of a pair or slug outside
`doubled` and `contested` are alone (`LinksAlone`, `ConversionsAlone`).

**`SignInProofs`**: `TypeCorrect`, `NonceIsSpent`, `FreshChallenge`,
`SignedLately`. A client that waits for `verify` with a signature holds one that was
made of its nonce, by whomever (`ClientsBacked`). The nonce stored for an account is the last one it was given, is
unused, and its life started with its challenge (`StoreBacked`); a signature is
not older than what it signs (`SignedBacked`).

**`EventListenerProofs`**: `TypeCorrect`, `SpreadClaimsCountedOnce` and
`ClaimsNotSkipped`, for any form of the event, the published and the expected one
among them. `NoClaimSkipped` is not
inductive: it speaks of the cursor as it is, while the events of the current answer will still
move it. `Ahead` says that a claim which was neither handled nor answered is in a
ledger after all of theirs. `SpreadClaimsCountedOnce` (`CountedOnceIfSpread`) rests on
`CountInv`: the cursor is 0 or one past the ledger of a claim (`CursorAfterClaim`), so
while claims are spread it is never in the way of the next one, no handled claim is
answered again (`HandledOnce`), and the total of an earner is at most the sum of the
claims handled, which are some of those on chain.

**`SumLemmas`**: sums over a finite set, the lemmas that `BooksCovered` and
`SpreadClaimsCountedOnce` need: one summand changed, removed or added, summand-wise
comparison, subsets. The library's
induction theorems have a predicate as parameter; here a set stands for the predicate
(`NatInductive`, `SubsetInductive`), from the well-foundedness of the naturals. In the
same way `ListingProofs` shows that the functions defined by recursion over positions
exist.

`ImplementsPots`, `ImplementsLifecycle` and the four `ImplementsIssuance` are the
refinements: initial states map to initial states, and each step to a step or a
stutter.

Every safety property that a passing run checks is a theorem. Only model-checked is
liveness (`EveryClaimSeen`, `LoginEnds`): it rests on fairness and
`ENABLED`, which the prover does not handle. `ClaimPath` has no theorem; its one
property fails.

## Not modelled

- **campaigns service**: three reads, by a simulated call with the database as
  fallback, and four counts. It keeps no state, and nothing reads what it answers
  but the views.
- **cross-contract wiring as deployed**: the manager passes three arguments to
  `deposit` and one to `withdraw` where the vault takes six and two, so every
  creation and drain traps and no further behaviour exists. Each contract is
  modelled against a partner that may accept or refuse.
- **campaign states of the listener**: `handleCampaignStateChange` is never called,
  because no contract publishes what it waits for.
- **frontend** beyond login and logout: views that display what the backend
  answers, and `stellar.service.js`, which nothing calls.
- **deployment scripts**, run once by hand.
- Within the modelled parts: storage time-to-live of contract data, token
  contracts other than SEP-41's transfer rules, the bytes of keys, hashes and
  signatures (which fields they bind, and in which form, is modelled), profile
  texts, statistics, logging, HTTP. `Earner.campaignsCompleted`, which goes with
  `totalEarned`. The video-id and answer texts: a signal is a heartbeat or a
  completion, an answer right or wrong.

## Plan

Done: all parts of the table above but the last two, with theorems of every module
that keeps state. What could be added:

1. `Flare`: manager and vault composed, once their interfaces agree; then that a
   pause stops claims, and that the two records of a budget agree, are properties
   of the composition.
2. Proof services and vault composed: a proof that was issued can be claimed. As
   deployed none can (`oracle_message`), so this waits for the same message on
   both sides.
3. The lemmas behind liveness that are safety: that an enabled step of the listener
   or of a login brings a measure down, so that only the fairness argument is left
   to TLC.
