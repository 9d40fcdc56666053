# CRUDAuth in TLA+

CRUDAuth is an authentication library for FastAPI: password logins over a session
or a bearer transport, password resets and changes by mail, two-factor login, sudo
mode, OAuth, and the lockouts and rate limits around them. It runs as coroutines of
many requests in many worker processes that share a SQL database, a session store
(memory, Redis or SQL) and a counter store. Every `await` is a point where another
request may run and where a worker may die, and most of what can go wrong in this
code needs two requests in an order no test drives. These modules model those
interleavings.

## Inventory

| Component | State | Operations | Hard part | What makes it correct |
|---|---|---|---|---|
| Login (`core.py`, `transports/login.py`, both transports) | the user row; sessions; tokens (only their signature and `ver`) | check a password, rehash, issue, refresh | a check made on an old row is used after a reset | a credential lives no longer than the password check it rests on |
| Reset and change (`email/service.py`, `account/router.py`) | `hashed_password`, `token_version`, used links | redeem, consume, write, bump, rebind, evict | six separate commits against every other request | eviction is complete; a link applies once; the caller of a change stays signed in |
| User repository (`repository.py`) | the row | save changed columns, atomic bump, conditional updates | every request holds its own copy of the row | no lost bump, no code accepted twice |
| Session storage (`storage/`) | records with a TTL, per-user index | create, get, modify, delete, list, prune | Redis commands of several requests mix; a worker dies between two | each call looks atomic; no change is lost; the index covers the live sessions |
| Session manager and transport (`transports/session/`) | sessions, CSRF tokens | create, validate, rotate CSRF, revoke, list, limit, sweep | two records with TTLs of their own; every call reads, waits, writes | an ended session stays ended; one token per session; the limit |
| Login lockout (`ratelimit/policy.py`) | counters per address, username and pair, locks, rounds | check, clear on success, forget | up to nine backend calls per attempt, counters with their own TTLs, backend errors | a username's budget holds; a success takes back only its own |
| Two-factor login (`mfa/`) | secret, last step, recovery codes, challenges | set up, confirm, verify, disable, regenerate, challenge, answer | copies of the row against conditional updates; answers at once | a code, a recovery code and a challenge are good once; attempts are bounded |
| Sudo mode (`sudo.py`) | failure counter, lock, stamp in the session | elevate, check | calls past the guard while the lock is set | guesses are bounded; the lockout holds; a dead session stays dead |
| OAuth (`oauth/`) | state entries, linked identities | authorize, callback, link, claim or create | a callback twice; a claim against a login on its way; a creation that meets another | a flow signs in once; a claim ends older credentials; only proved addresses are verified |
| Registration (`register/`, `provisioning.py`) | user rows | register | two registrations of an address or a username | the loser learns why, and no column slips through |
| Mailed links (`email/service.py`) | links, used marks | request, redeem, consume, write | links that outlive the state they were made for | a link is good for the state it names, once |
| Principal resolution (`resolution.py`, `crud_auth.py`) | per-request cache | resolve, revalidate | a principal cached by a gate that checked less | checks skipped once are made later |
| Route rate limits (`ratelimit/`) | window counters, recorded headers | count, refuse, report | three backends with three clocks, errors | at most the limit per window, refusals and headers with a cause |

The components meet in four places: the **user row** (login, reset, change, refresh
and MFA all read, copy and write it), the **`token_version`** (bumped by a reset or a
change, bound into sessions, tokens, challenges and pending MFA secrets), the
**session store** (sessions, used links, challenges, OAuth states), and the **counter
store** (lockout, sudo, rate limits).

## Modules

| Module | Models |
|---|---|
| `Credentials` | one account: logins over both transports, refreshes, resets, changes, the optional rehash and second factor |
| `CredentialsProofs` | theorems about `Credentials` |
| `SessionStore` | the abstract store: what `AbstractSessionStorage` promises, and what the memory backend does |
| `RedisStore` | the Redis backend one command at a time, and above it the listings of logins and of "sign out everywhere" |
| `RedisStoreProofs` | `RedisStore` implements `SessionStore`; no change is lost; the index is complete; signing out everywhere |
| `Lockout`, `MCLockout` | the escalating login lockout one backend operation at a time |
| `LockoutProofs` | theorems about `Lockout` |
| `DatabaseStore` | the SQL backend one transaction at a time, with its clock, its purge, marks and one-time values |
| `DatabaseStoreProofs` | `DatabaseStore` implements `SessionStore`; marks, one-time values and the purge |
| `Sessions` | the session manager, the session transport and the gates a request passes, over the abstract store |
| `SessionsProofs` | theorems about `Sessions` |
| `Accounts`, `MCAccounts` | registration, verification and change links, provider sign-in, first passwords |
| `AccountsProofs` | theorems about `Accounts` |
| `RateLimit` | a route's limiters over the three counter backends |
| `Mfa`, `MCMfa` | enrollment, codes, recovery codes and challenges of one account |
| `MfaProofs` | theorems about `Mfa` |
| `Sudo` | elevation and its lockout |
| `MCLimits` | `RateLimit` or `Sudo`, one of them in each behaviour |
| `LimitProofs` | theorems about `RateLimit` and `Sudo` |

The MC modules add what a run needs and a specification does not: the sets of callers and
provider answers that are tried together, and symmetry where members of a set are only
compared.

`RedisStore` and `DatabaseStore` each instantiate `SessionStore` (`val` is the record or
the row's value, `born` the ids whose `create` has written). `Credentials`, `Sessions` and
`Accounts` stand above the store: they take one call of it as one step, which the two
refinements justify. `Lockout` and `Sudo` take one call of a counter as one step;
`RateLimit` has the counters of each backend with their deadlines. `Accounts.LoginRead`,
`SetPassword` and `Enroll` stand for what `Credentials` and `Mfa` do in full. `Mfa` and `Lockout` are the two
halves of `/mfa/verify`: `Mfa` lets the lockout allow or refuse at will, `Lockout` lets
a code be right or wrong at will. `Mfa.BumpVersion` stands for what `Credentials` does
in full, and `Credentials.VerifyRead`/`VerifyClaim` for an answer of `Mfa`.

### Conventions

* A request is a member of a constant set and runs once; `pc[r]` (`stage[c]` in `Sudo`) names its next
  step; one step ends at one `await` on a shared store. These sets are the bounds.
* A crashed worker or a cancelled handler is a request that is never scheduled
  again. No safety property assumes that a request goes on.
* Statements see committed data (READ COMMITTED). SQLAlchemy writes only the columns
  that a request changed in its copy (`Mfa.Save`); commit and reload are one step in
  `Mfa`, two steps in `Credentials`, where the order matters.
* Where only the end of a TTL matters (`Credentials`, `RedisStore`, `Lockout`, `Mfa`,
  `Sudo`, `Accounts`), time is left out: what has a TTL may end at any moment. Where two
  deadlines or two clocks are compared (`DatabaseStore`, `RateLimit`, `Sessions`), a clock
  ticks, and a step goes by the reading the code takes, also when that one is older.
* A module with many kinds of calls tries them in *mixes*: `Mixes` is a set of sets of
  calls, Init picks one, and the others stay idle. A mix has the calls that meet in one
  place of the code; the states of all calls at once would be out of reach.
* Cryptography is ideal: a hash is a password with its salt's author, a fingerprint is
  the state it covers, tokens and session ids are not guessed.
* `TypeOK` gives the types of a module's variables. It is a property of a run and proved where it bounds something
  (`Lockout`); elsewhere it documents the shape of the state, and the proof modules
  state the part of it that an argument needs.
* Operators that a comment marks as a mutant are deliberate mistakes, used to show that
  a property can fail. No specification uses them.

### Credentials

`row` is the user row, `seen[r]` what request `r` remembers of it, `cred[r]` the session
or the token pair that `r` issued, `links`/`used` the reset links and the marks of
consumed ones. History variables count installed passwords (`gen`), and record what a
credential rests on (`proof`), when an installer wrote (`at`) and bumped (`epoch`), and which changes
called with one session were past their password check together (`crossed`), which logins reloaded a
row whose version had moved since their check (`reloaded`), and whose listing raised (`unlisted`). A
mix may also name traits of the account: `Legacy` (its hash is one that a login replaces) and
`Enrolled` (it has a second factor).

* `LoginRead`, `LoginRehash`, `LoginReload`, `LoginIssue`: `authenticate_password` and
  the transports' `complete_login`, which issues the version remembered at the check.
* `VerifyRead`, `VerifyClaim`: `complete_challenge` compares the version, then the claim
  reloads the row.
* `RefreshRead`: `/refresh`. `RequestReset`, `ResetRedeem`, `ResetConsume`: the link.
* `ChangeAuth`, `ChangeRead`: `change-password` reads the session, then the row.
* `WritePassword`, `BumpVersion`, `ChangeReload`, `ChangeRebind`, `ListSessions`,
  `EvictSession`, `EvictDone`: what both do afterwards, commit by commit.

### RedisStore

`rec` maps a session id to the set of changes in its record, so a lost update is a
missing element. `Touch` breaks the WATCHes on a key. A listing (`ListMembers`, `ListGet`,
`ListPrune`) is SMEMBERS and a GET per member, with the prune of missing ones. Every login runs one
for the session limit, ends the sessions above it (`Culls`, `CullDelete`, `CullUnindex`: a DEL and a
SREM each) and then creates its own: `CreateIndex`, `CreateRecord`. A scan is
`terminate_all_user_sessions`, which ends all that its listing found. `pruned` are the ids that a
listing took off the index and no modify has put back, `hidden[o]` those at the start of scan `o`.

### Lockout

Counters are integers (a decrement may overtake a reset), a lock is the exponent of its
length. `CheckStep` is `check_and_record`, `ClearStep` its success branch, `ForgetStep`
`forget_attempt`, `BackendError` the `except` branches. With `Mfa`, a right password is
forgotten and the code is a second attempt of the same login. `window.torn` records that the
counters may be out of step: two correct passwords of one account overlapped at one address, an error
stopped `forget_attempt` halfway, or an address's window ended under an attempt.

### DatabaseStore

`row[k]` has the changes made to the value (as in `RedisStore`), the `version` column and
`expires_at`. A call reads `now_ms()` when it builds its statement (`at`, `stamp`) and runs it
later. An expired row reads as absent, but stays until a write replaces it or a purge
takes it. `CreateWrite`, `ClaimRow` (`set_if_absent`), `ModifyRead`/`ModifyUpdate`, `ExtendRow`,
`DeleteRow`, `TakeReturning` and `TakeLook`/`TakeRemove` (`get_and_delete` with and without
`DELETE ... RETURNING`) are transactions; `NoteWrite`, `PurgeSelect`, `PurgeDelete` are
`note_write` and the batches of `purge`.

### Sessions

`sessions` and `tokens` are the two kinds of records with their deadlines, a session id or a
CSRF token is named after the call that minted it. `LoginStart` to `LoginCreate` are
`create_session` with the replacement of the presented session and the limit. `Arrive`,
`Resolve`, `Get`, `Touch`, `Slide`, `EnforceCsrf`, `Pass` and `Forbid` take a request through one
or two gates: `resolve_principal` of a middleware, a rate limit by caller, `current_user`. `did` is
the cache entry with what has been checked, `need` what the gate still has to check. `EndRecord`
and `EndToken` are `_terminate`, wherever it is called from. `RefreshCheck` to `RefreshReplace` are
`/csrf/refresh`, `SweepStart` and `SweepLook` the cleanup.

### Accounts

`rows` is the user table, `copy[o]` what a handler read; a write through it saves the columns
that differ from it. `Clashes` are the unique constraints on address, username and each provider's
id. A link (`MintToken`) carries the `StateFingerprint` it is good for. `Submit` to
`RegisterSend` are `/register`; `RequestVerification`, `ChangeRead`/`ChangeMint`, `Redeem` to
`WriteEmail` the links; `Authorize` to `SignIn` a provider sign-in, with `ProcessUserInfo` choosing an
address from what the provider returned, `Link`, `Bump` and `Evict` being `_link`, and
`UniqueUsername`/`CreateUser` `_create_user`. `proved` records whose holder has acted for which
account, `claims` the callbacks that claimed an account, `era[o]` those that had when call `o` read
it, and `released` the addresses and provider accounts that a row has given up.

### RateLimit

A request passes a limiter by address, then one by user, as far as its mix has them. `Build`
finds the window and the key; `CountNow`, `CountRedis` and `CountDatabase` count it by the rule of
each backend (`Incremented`: the deadline is set once; `Refreshed`: it moves), `FailOpen` is a
backend that raises, before or after it counted. `GetClientIp` takes the address that the outermost
of `Hops` trusted proxies wrote, or the left-most when the header is shorter,
`ClientIpKey` keeps the block. `LockIncrement`, `LockRefresh` and `LockDelete` are the lockout's
calls on an attempts and a rounds counter. `log` keeps what was counted, in order.

### Mfa

`row` holds the columns `secret` (with the version a pending one is bound to),
`confirmed`, `step`, `codes` and the version. `Save` writes the columns that differ
from the copy. `spent` records every recovery code accepted, and the time steps accepted
since the last step was cleared.

### Sudo

`fail` and `locked` are the two counter keys, `session[s]` is a session record: plain,
elevated or gone. `told` are the calls that were told a number within the limit since the counter
started afresh, other than by the reset of a lock that stands; `late` those that stood between the
guard and the counter when the lock was set. `Sudo` shares no name with
`RateLimit` (its specification is `SudoSpec`), so that `LimitProofs` can extend both.

## Runs that pass

| Run | Shows | Bounds |
|---|---|---|
| `Credentials_calls` | `EvictionComplete`: when a reset or a change has answered, no credential resting on an older check is accepted, except that of a login in `reloaded`, and unless its own listing raised; `UncrossedChangeKeepsCaller`: until a later bump, the session that a change was called with stays good, unless another change called with it was past its password check before this one had rebound it; `LinkAppliedOnce`; `ChallengeDiesWithPassword`: a challenge is not accepted after a later password has bumped the version; under `FairSpec` also `EventuallyEvicted` | 5 mixes of 1 session login, 1 token login, 1 refresh, 2 resets, 2 changes and 1 link: one request of each kind, with a session for the change to keep (when it calls with it) or to evict (when it calls with the token); two changes on one session; two confirmations of one link against a login of an account with a legacy hash and a second factor; a reset and a change against such a login; a legacy hash replaced by a token login that is refreshed. Any listing may raise |
| `RedisStore_calls` | `NoLostChange`; `IndexCoversLive`: the index misses only what a listing pruned; `LogoutEndsUnpruned`: a sign-out everywhere ends the sessions whose login had returned, except those pruned by then; `ImplementsStore`; under `FairSpec` also `EveryCallReturns` | 3 mixes of 2 logins with limit 1, each with its listing, 2 modifies, 1 delete, 1 sign-out everywhere: with both logins, three listings that may prune |
| `Lockout_faults` | `TypeOK` (with capped locks), `UserBudget`: at most `max_attempts` guesses at a username per window, `SuccessesTakeBackTheirOwn` | 2 attempts, 2 addresses, 2 usernames, limit 1, `clear_all`, two-factor; one window ends, any backend operation may raise, `fail_open` off |
| `DatabaseStore_calls` | `ImplementsStore`; `PurgeSparesLive`: a live row goes only by a call of its own; `GrantedOnce`: a mark is granted again only after it expired, and a value is taken once | 1 session, 1 mark, 2 modifies, 1 extend, 1 delete, 2 takes, 2 claims in 3 mixes; TTL 1, 3 ticks, 2 attempts, a purge every 2 writes in batches of 1 |
| `Sessions_calls` | `OneTokenPerSession`: between calls a live session has exactly the token it names; `KeptAliveTogether`: activity keeps both alive; `LimitHolds`: the limit is exceeded only by logins that overlap; `OwnTokenAtRoute`: no route and no logout without a token of that session; `EndedStaysEnded` | 3 logins with limit 1, 2 rotations, 1 request of one or two gates, 1 logout, 1 sweep in 6 mixes; idle and absolute timeout 2, 3 ticks |
| `Accounts_calls` | `VerifiedMeansProved`; `ClaimEndsOldCredentials`; `OldChangeLinkRefused`; `ChangeAppliedOnce`; `OneLoginPerFlow`; `LostRaceHasCause`: a registration or sign-in that loses a race ends for the right reason: a name, an address or a provider account that another holds or held | 1 earlier account, 2 registrations, 2 change requests, 3 confirmations, 2 callbacks, 1 login, 1 first password, 1 deactivation, 1 verification request in 9 mixes; 2 addresses, 2 browsers, 2 flows, 2 providers (one that lists addresses), 6 provider answers |
| `Mfa_calls` | `ChallengeBounded`: one login and at most `max_code_attempts` looks per challenge; `CodesUsedOnce`; `RecoveryCodeCurrent`; `OldPendingNotEnabled`; `OneSetOfCodes` | 3 answers with limit 2 to an enrolled or enrolling account; or 1 setup, 2 confirmations, 1 disable, 1 regeneration; 2 codes, 2 time steps, a version bump |
| `Limits_calls` | Route limits: `WindowBudget`: each limiter lets a client or user through at most `times` times in a window; `RefusedForCause`; `HeadersBoundTheRest`: the remaining budget reported is the tightest, and a bound; `DeadlinesHold`: load does not keep an attempts counter alive, and a refreshed rounds counter is not lost. Sudo: `OvershootWasInFlight`: only calls that stood between the guard and the counter when the lock was set exceed the limit; `LockedStaysPlain`; `ElevationDiesWithSession` | 2 requests of 1 or 2 clients with 2 hosts, 1 user, limits 2 and 1, 2 trusted proxies, 3 lockout calls; window 2 s, 3 ticks (two windows), all 3 backends. 3 elevate calls, 2 sessions, limit 2, one lapse |

Races in this code are between two requests, or between two and a third that opens or
closes the window; each run has at least that many of each kind that matters to its
property, and limits small enough that the requests exceed them. Requests end, so
`CHECK_DEADLOCK FALSE` is given everywhere.

Fairness is assumed for two properties. For `EventuallyEvicted` a handler that has written
a password goes on (weak fairness of its remaining steps): the event loop schedules it
and the stores answer. No client action is fair. For `EveryCallReturns` the server
answers every command. The retry of `modify` has no bound of its own; it returns because
finitely many writers race with it.

Limits worth knowing:

* `EvictionComplete`, `EventuallyEvicted` and `ChallengeDiesWithPassword` name their exceptions.
  `reloaded` are the logins that reloaded the row after a bump, to replace a legacy hash or to claim a
  code, and so were issued a version that their password check does not justify (and the refreshes of such a
  token): `Credentials_reload` shows what comes of it. `unlisted` are the resets and changes whose listing of
  the sessions raised, which the code logs and takes for an empty one (`manager.py:563-577`): a change in
  flight may then rebind a session that the reset did not delete.
* `UncrossedChangeKeepsCaller` names two changes on one session as its exception: `crossed` are those that
  were past their password check together. Each rebinds the session to the version it bumped to, in any
  order, and when the higher version is written first the session ends with the lower one: it is refused
  although both changes answered with success. `account/router.py:125-128` promises without condition that
  a change revokes the user's "OTHER sessions, keeping the current one".
* `LinkAppliedOnce` is about one link. Two links mailed for the same password both apply when
  their confirmations overlap: the fingerprint is compared at the redemption only.
* A worker that dies between consuming a link and writing the password, or between the write and the
  bump, leaves the link spent or the old credentials accepted; safety is stated for resets that
  have answered.
* A change writes its password whatever was written since it checked the current one, so
  a reset that runs meanwhile may be overwritten.
* `pruned` in `IndexCoversLive` and `hidden` in `LogoutEndsUnpruned` name the sessions that
  `RedisStore_prune` is about. Errors of commands are left out of `RedisStore`.
* `UserBudget` and `SuccessesTakeBackTheirOwn` are checked and proved for a lockout that a backend
  error does not open. With `fail_open` an error lets an attempt through uncounted, or past the limit,
  and a correct password that was never counted takes another's failure back when it is forgotten.
  The second ends where `window.torn` begins; `Lockout_overlap` shows the case that needs no
  error and no end of a window.
* `OldPendingNotEnabled` is about requests that load the row after a reset. One that read the pending
  secret before the reset still enables it afterwards, because the conditional write does not name the
  version (`mfa/service.py:278`); `mfa/service.py:225-227` and `docs/guides/auth/mfa.md:127-129` say
  that a reset discards it.
* `OvershootWasInFlight` names its exception: the guess that trips the lockout deletes the failure counter
  (`sudo.py:215`), so calls that had passed the guard and were not yet counted (`late`) count from one again
  and have their passwords looked at. With a limit of two, three overlapping guesses are enough.
  `docs/guides/auth/sudo.md:63-64` says that concurrent guesses "can't exceed the limit".
* `CodesUsedOnce` for time steps lasts until the last step is cleared, by a disable or by a setup
  that stores a new secret over a step its copy had seen: a request that holds the old secret may
  then use a step again.
* `DatabaseStore`: a `modify` whose row expires after its first round raises instead of returning
  nothing, since its SELECT keeps the first clock and goes on finding the row. An extend or
  update built just before a row expired revives it. Purges that overlap may select the same rows.
* `RateLimit`: what is counted after its window has ended, when the key may be gone, or
  while the backend fails is outside `WindowBudget`. The memory backend keeps a counter through
  the second of its deadline. A delayed SQL refresh can move a deadline back.
* `Sessions` has one user, and its listing is one step (`RedisStore` has the steps). A route behind
  `current_user(optional=True)` that runs without a caller is a finished request there. A token whose
  TTL ends between the touch of its session and its own slide is lost until `/csrf/refresh`
  (`slid` in `KeptAliveTogether`). Overlapping rotations may answer with a token that the other has
  replaced. A termination that races a rotation leaves a token bound to a dead session, which
  opens nothing.
* `Accounts`: `_link` reads, then writes: two accounts of one provider that share an address may both
  be linked, the later replacing the earlier, and an account that was deactivated or moved to
  another address since the read is linked all the same. A second factor enrolled after a claim
  read the row survives it, because a column equal to the copy is not written (`late` in
  `ClaimEndsOldCredentials`). A change link redeemed before a claim may be written after it.
  A run starts with at most one earlier account (`OneSeed`). Runs have `Mail = TRUE`; without a mail channel a registration answers with the conflict.
* `LockedStaysPlain` names its exception: a correct call that passed the guard before the lock
  stamps the session after the lockout cleared it.

## Runs that show a disagreement

| Run | What the code does |
|---|---|
| `Credentials_reload` | a login that replaces a legacy hash, or one that claims a code, reloads the row after a reset has bumped the version, and its session is issued the reset's version. Each of the two mixes alone shows it |
| `RedisStore_prune` | a login's listing prunes the entry of another login that has not written its record yet; a sign-out everywhere that begins afterwards misses that session |
| `Lockout_overlap` | two correct passwords of one account overlap: one success takes back both attempts, the other its own again, and a failure at another username is no longer counted |
| `Mfa_restart` | a setup that read the row earlier corrupts the enabled secret |

Each checks one property that a comment or a guide states; `PROJECT.json` quotes it.

## Proofs

Checked by TLAPS for every value of the constants: any number of requests, accounts, sessions and
keys, any limits and timeouts. The assumptions are the ones the modules name, and TLC evaluates them
in the runs: kinds of calls are disjoint, a value that stands for "nothing" (`None`, `NoRow`,
`Absent`, `Initial`) is none of the values it is compared with, limits are natural numbers (positive
where the settings demand it), switches are Boolean. Where a theorem needs more, its `ASSUME` says so.
None of the properties is inductive: each speaks of finished calls or of the store, so the invariant
adds what the calls on their way hold.

**Credentials**

* `TypeCorrect`: `Spec => []TypeOK`, which the others use.
* `EvictionCorrect`: `Spec => []EvictionComplete`, for accounts with or without a legacy hash and a
  second factor. The invariant `EvictionInv` follows credentials and requests on the way: `Monotone`
  (counters bound what requests remember), `Issued` and `Issues` (a credential, or one about to be
  issued, resting on a check older than a bumped password carries a version below the one of that
  bump, unless its login is in `reloaded`; `Holding` are the steps of a login past its check), `Asks`,
  `Rebinds` and `Kept` (a change that proved an older password can only lift its own session past a
  reset if the reset's list contains that session or the listing raised). The last is needed because a
  change may rebind its session after a reset's bump; then the reset's eviction is what ends it.
* `LinkOnceCorrect`: `Spec => []LinkAppliedOnce`, from the invariant that a
  request past `consume` has its link in `used` and that no two such requests share it.
* `ChallengesDie`: `Spec => ChallengeDiesWithPassword`, an action property, from `EvictionInv`: a challenge
  whose login is not in `reloaded` carries the version of its password check, so a password written
  after that check has an epoch above it, and `complete_challenge` compares the version with the row's.
* `CallerKept`: `Spec => []UncrossedChangeKeepsCaller`. `VersionInv`: the version of the row is the
  last bump. `CallerInv`: from its rebind on, the session of a change that is not crossed carries a version
  no older than the change's bump. That needs `AloneInv` (no other change called with the session is
  between its password check and its rebind meanwhile, and one that starts later reads a version no older
  than this bump) and `IssuedInv` (no login writes the session again, because it has finished).

**RedisStore**

* `RedisImplementsStore`: `Spec => Store!Spec`. The invariant is that an unbroken modify at
  its EXEC holds the current record plus its change.
* `ChangesKept`: `Spec => []NoLostChange`, from the same invariant.
* `IndexComplete`: `Spec => []IndexCoversLive`. Two facts make it inductive: `Gone` (a call
  about to take an id off the index has seen its record missing, and an id is never created
  twice) and `Listed` (a login about to write a record is indexed or was pruned).
* `LogoutEndsAll`: `Spec => []LogoutEndsUnpruned`. By `IndexCoversLive` the scan's SMEMBERS finds every
  live session whose login has returned, unless it was pruned by then. `ScanInv`: from then on such a
  session is gone, still to be read or among those found live, whatever other listings prune, because
  a login that has returned writes no record and no other write brings one back.

**DatabaseStore**

* `DatabaseImplementsStore`: `Spec => Store!Spec`. `CallInv` says what each kind of call
  knows about its row (a modify between its SELECT and its UPDATE: as long as the version is the one
  it read, so is the value), `Created` that only a created session has a row, and
  `RowMove` what no step does to the table: bring a session's row back, change a value under the
  same version, drop a mark that lasts. With `RowMove` every call that does not move keeps its `CallInv`.
* `OneCallerGetsIt`: `Spec => []GrantedOnce`, from the same invariant.
* `PurgeIsSafe`: `Spec => PurgeSparesLive`, an action property: the batch deletes by key and by
  expiry.

**Sessions**

* `EndedForGood`: `Spec => []EndedStaysEnded`. `Created` (a record is there only after its login has
  returned, so no login writes one twice), `Ending` (a call ends only such sessions) and `Carried` (a
  request that has arrived has a session id in its cookie). Other writes go through `modify`,
  which finds the record or does nothing.
* `OneTokenEach`: `Spec => []OneTokenPerSession`. `CsrfInv` names the owner of every stored token and
  of every token on its way: a rotation that has swapped the session's token still has to remove
  the one it replaced, and a termination the one it read.
* `TokenLastsWithSession`: `Spec => []KeptAliveTogether`. `KeptInv` compares the deadlines, also those
  that a slide or a rotation is about to write.
* `RoutesNeedOwnToken`: `Spec => []OwnTokenAtRoute`. `GatesInv`: whatever a gate has cached as
  checked was checked, or is still to be checked by the gate the request stands at.
* `LimitKept`: `Spec => []LimitHolds`. `LimitInv`: for a login past its listing there is a set of at
  most `max_sessions - 1` sessions that, with those it is still to end and those created since, covers
  the live ones.

**Accounts**

* `FlowSignsInOnce`: `Spec => []OneLoginPerFlow`, from `FlowsInv`: a callback that took a state out
  of the store has it for itself, and its browser started it.
* `LinkMovesOnce`: `Spec => []ChangeAppliedOnce`, from `UsedInv`, as for the reset links.
* `VerifiedAddressesAreProved`: `Spec => []VerifiedMeansProved`. `ProvedInv`: what a call is about
  to write as verified is proved for the row it is about to write. `Base` types the rows and says that
  no call, session or link is about a row that is not yet stored.
* `ClaimsEndCredentials`: `Spec => []ClaimEndsOldCredentials`. `ClaimsInv`: what was read before a
  claim carries a version below the one the claim sets, or the claim has yet to bump it.
* `ClaimVoidsChangeLinks`: `Spec => []OldChangeLinkRefused`. `LinksInv`: a password that was read is the
  account's only while nobody has claimed it, so the fingerprint in an older link differs.
* `LosersLearnWhy`: `Spec => []LostRaceHasCause`. `RaceInv`: what a failed insert or link met is
  still stored, or was given up for another and is in `released`. A link fails on a provider account
  of another account than the one it links: for that the invariant says that no two rows share a unique
  column (`Apart`), so what is in the way is not the row itself. The attempt showed that an address is not
  all that can be given up: with three callbacks, a link replaces the provider account that
  a failed creation met. `released` has recorded both since.

**Mfa**

* `ChallengesHold`: `Spec => []ChallengeBounded`. `Challenges`: every answer that reached its
  challenge was told a number of its own, and the challenge of one that won is out of the store.
* `PendingDiesWithPassword`: `Spec => []OldPendingNotEnabled`. `Pending`: a pending secret that is
  stored or held is bound to the version it was stored under.
* `CodesAcceptedOnce`: `Spec => []CodesUsedOnce`, and `OnlyCurrentCodes`: `Spec =>
  RecoveryCodeCurrent`. `CodesInv`: a spent recovery code is in no stored set, and the codes that a
  request has yet to draw are nowhere.
* `CodesHandedOutOnce`: `Spec => []OneSetOfCodes`. `EnrollInv`: until a disable goes through, a
  confirmed account stays confirmed.

**RateLimit**

The ways to count differ in the clock they go by and in what they do to the deadline, so the proof first
reduces the steps to three kinds (`StepKinds`): one that counts a hit and reports (`CountMove`), a
backend error (`FailMove`), and one that counts nothing (`QuietMove`). In all of them a counter of a
window stays as it is, is counted up, or goes when it has expired (`Faded`). `LimitInv` has these parts:

* `Lasting`: the counter of a window lasts until the window has ended, also when a delayed statement
  started it; so while the window is open (`Open`) a counter is never forgotten.
* `Booked`: a hit is under the block or user that really sent it, whatever is in X-Forwarded-For
  (`ForwardedAddress`), and under the window it was asked in. Two hits share a key exactly when
  they share a budget (`SameKey`). `Flow` says the same of requests that have built their key.
* `Tally`: a counter is never ahead of the hits in the log.
* `Refusals`: a 429 points at a hit that `times` others under its key came before.
* `Bounds`: of a budget that was reported as `b` after `m` hits, what has passed since and, while the
  window is open, what the counter still allows are together at most `b`. The whole budget is the case
  `m = 0`, `b = times`. Without the counter's part this is not inductive.
* `Tightest`: what is recorded for a request is no more than any of its limiters reported.

From it follow `BudgetKept`: `Spec => []WindowBudget`, `RefusalsHaveCause`: `Spec =>
[]RefusedForCause`, and `HeadersAreBounds`: `Spec => []HeadersBoundTheRest`. `DeadlinesKept`: `Spec =>
DeadlinesHold`, an action property, needs `Deadlines` beside it: the attempts counter ends within one
period of its start, the rounds counter no earlier than one period after its last refresh.

**Sudo**

* `GuessesBounded`: `SudoSpec => []OvershootWasInFlight`. `ToldWithinLimit`, `ToldApart` and `CountedSoFar`:
  calls that are not `late` were told different numbers within the limit. Without a lock the counter has
  reached every number told; under one only `late` calls are still to be counted.
* `LockKeepsPlain`: `SudoSpec => []LockedStaysPlain`. `PastGuardInFlight`, `RightToStamp` and
  `ClearedWhileLocked`: under a lock only calls in flight when it was set are past the guard.
* `GoneStaysGone`: `SudoSpec => ElevationDiesWithSession`.

**Lockout**, the last two assuming `FailClosed`: errors do not happen or do not open the lockout.

* `TypeCorrect`: `Spec => []TypeOK`, with the capped rounds that a locking attempt holds.
* `UserBudgetKept`: `Spec => []UserBudget`. An attempt is bound to pass once it was told a number within
  the limit; of those there are no more than the counter says and no more than the limit
  (`BudgetInv`), and only a correct password lowers the counter (`RightInv`).
* `SuccessTakesBackItsOwn`: `Spec => []SuccessesTakeBackTheirOwn`. Numbers do not say whose failures
  they count, so the invariant says that there are sets: `K` of the attempts counted for their address,
  `P` of those counted for their pair, `Q[a]` of those that a success is about to take back
  (`Ledger`). Each counter is the size of its set, and what a success takes back is of its own pair.
  `Lone` says what not being torn gives: of the correct passwords of one account from one address,
  one at a time is at the counters. Any number of them may follow each other.

Only model-checked: the liveness properties `EventuallyEvicted` and `EveryCallReturns` (the prover has
no fairness).

## Not modelled

* Hooks, mail transport, cookies and redirects: application code and I/O.
* Construction and validation of settings (`crud_auth.py`, the config classes): they run once,
  before the first request.
* Cryptography and encodings: password hashing, JWTs, TOTP arithmetic, encryption of secrets, scopes
  and token expiry, password policy, key prefixes and handles.
* OAuth's exchange with the provider beyond its outcome: discovery, PKCE, readiness, the HTTP
  requests; address and username normalisation.
* The age limit on the sign-in that `/set-password` asks for, remember-me, the deletion of accounts,
  a request that brings credentials for both transports, and the calls of an administrator
  except a deactivation.

Formatting and layout are left out everywhere.

## Plan

All parts of the plan are done: what is listed as modelled is modelled, and every safety property and
action property that a passing run checks is proved. Left for later are the liveness properties, which
stay with TLC, and the parts listed as not modelled.
