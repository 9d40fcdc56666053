---------------------------- MODULE Credentials ----------------------------
(***************************************************************************)
(* One account, the credentials issued for it, and the requests that race  *)
(* on both: password logins over the session and the bearer transport,     *)
(* bearer refreshes, password resets and password changes.                 *)
(*                                                                         *)
(* A request is a coroutine. It runs one step per round trip to the        *)
(* database or to the session store, and between two steps any other       *)
(* request may run; a request that stops being scheduled stands for a      *)
(* crashed worker or a cancelled handler. Each request of the constant     *)
(* sets runs at most once, so these sets are the bound on the instance.    *)
(* A statement sees every committed write (READ COMMITTED).                *)
(* A refusal that leaves no trace (a link that has expired, a new password *)
(* that the policy rejects) looks like a request that stops.               *)
(***************************************************************************)
EXTENDS Naturals

CONSTANTS
    Logins,       \* password logins over the session transport (POST /login)
    TokenLogins,  \* password logins over the bearer transport (POST /token)
    Refreshes,    \* bearer refreshes (POST /refresh)
    Resets,       \* reset confirmations (POST /password/reset-confirm)
    Changes,      \* password changes (POST /change-password)
    Links,        \* reset links that may be mailed
    Mixes,        \* the sets of requests and account traits tried together
    Initial,      \* the password the account starts with, and its hash's writer
    Legacy,       \* a trait: the initial hash is one that a login replaces; its writer
    Enrolled,     \* a trait: the account has a second factor
    None          \* no value

Requests == Logins \cup TokenLogins \cup Refreshes \cup Resets \cup Changes

ASSUME KindsDisjoint ==
    /\ Logins \cap (TokenLogins \cup Refreshes \cup Resets \cup Changes) = {}
    /\ TokenLogins \cap (Refreshes \cup Resets \cup Changes) = {}
    /\ Refreshes \cap (Resets \cup Changes) = {}
    /\ Resets \cap Changes = {}

ASSUME NoneIsNoValue == None \notin Requests \cup Links

Traits == {Legacy, Enrolled}

ASSUME MixesAreRequests == Mixes \subseteq SUBSET (Requests \cup Traits)

ASSUME TraitsAreNoRequests ==
    /\ Traits \cap Requests = {} /\ Legacy # Enrolled
    /\ Initial \notin Requests \cup Traits

VARIABLES
    row,      \* the user row: its hash, token_version, is_active, enrolled or not
    pc,       \* what each request does next
    seen,     \* what each request remembers of the row: password checked, version
    via,      \* the credential (change, refresh) or link (reset) a request uses
    pending,  \* the sessions a reset or a change still has to delete
    cred,     \* the session or token each request issued
    links,    \* the hash each reset link was minted for (its state fingerprint)
    used,     \* the links marked as consumed in the token store
    gen,      \* history: how many passwords resets and changes have installed
    proof,    \* history: gen when the request's password was checked
    at,       \* history: gen right after the reset's or change's own write
    epoch,    \* history: token_version right after its own bump
    crossed,  \* history: the changes that were past their password check together
              \* with another change called with the same session
    reloaded, \* history: logins that reloaded a row whose version had moved since
              \* their password check, and refreshes of their tokens
    unlisted  \* history: resets and changes whose listing of the sessions raised

vars == <<row, pc, seen, via, pending, cred, links, used, gen, proof, at, epoch, crossed,
          reloaded, unlisted>>
history == <<gen, proof, at, epoch, crossed, reloaded, unlisted>>

Installers == Resets \cup Changes            \* the requests that set a password
Issuers    == Logins \cup TokenLogins \cup Refreshes
Passwords  == {Initial} \cup Installers      \* each installer chooses its own
Hashes     == [pw : Passwords, by : {Initial, Legacy} \cup Requests]  \* by: the salt

NoCred == [state |-> "none", ver |-> 0, proof |-> 0]

Init ==
    /\ \E mix \in Mixes :
         /\ row = [hash |-> [pw |-> Initial, by |-> IF Legacy \in mix THEN Legacy ELSE Initial],
                   ver |-> 0, active |-> TRUE, mfa |-> Enrolled \in mix]
         /\ pc = [r \in Requests |-> IF r \in mix THEN "start" ELSE "idle"]
    /\ seen = [r \in Requests |-> [pw |-> None, ver |-> 0]]
    /\ via = [r \in Requests |-> None]
    /\ pending = [r \in Installers |-> {}]
    /\ cred = [r \in Issuers |-> NoCred]
    /\ links = [k \in Links |-> None]
    /\ used = {}
    /\ gen = 0
    /\ proof = [r \in Requests |-> 0]
    /\ at = [r \in Installers |-> 0]
    /\ epoch = [r \in Installers |-> 0]
    /\ crossed = {}
    /\ reloaded = {}
    /\ unlisted = {}

Goto(r, label) == pc' = [pc EXCEPT ![r] = label]

(* A request reads the row: it keeps the version and the password checked. *)
ReadRow(r) ==
    /\ seen' = [seen EXCEPT ![r] = [pw |-> row.hash.pw, ver |-> row.ver]]
    /\ proof' = [proof EXCEPT ![r] = gen]

(* db.refresh(user): the request's copy of the row is loaded again. *)
ReloadRow(r) == seen' = [seen EXCEPT ![r].ver = row.ver]

(* A login reloads it between its password check and its credential. *)
ReloadLogin(l) ==
    /\ ReloadRow(l)
    /\ reloaded' = IF row.ver = seen[l].ver THEN reloaded ELSE reloaded \cup {l}

LiveSessions == {s \in Logins : cred[s].state = "live"}

-----------------------------------------------------------------------------
(* Password login: read the row, check the password, replace a legacy hash, *)
(* then issue a session or a token pair, or a two-factor challenge.         *)

NeedsRehash(hash) == hash.by = Legacy

Authenticates(p) == row.active /\ p = row.hash.pw

LoginRead(l, p) ==
    /\ pc[l] = "start"
    /\ IF Authenticates(p)
         THEN /\ ReadRow(l)
              /\ Goto(l, IF NeedsRehash(row.hash) THEN "rehash"
                         ELSE IF row.mfa THEN "challenge" ELSE "issue")
         ELSE /\ Goto(l, "refused")
              /\ UNCHANGED <<seen, proof>>
    /\ UNCHANGED <<row, via, pending, cred, links, used, gen, at, epoch, crossed, reloaded, unlisted>>

LoginRehash(l) ==
    /\ pc[l] = "rehash"
    /\ row' = [row EXCEPT !.hash = [pw |-> seen[l].pw, by |-> l]]
    /\ Goto(l, "reload")
    /\ UNCHANGED <<seen, via, pending, cred, links, used, history>>

LoginReload(l) ==
    /\ pc[l] = "reload"
    /\ ReloadLogin(l)
    /\ Goto(l, IF row.mfa THEN "challenge" ELSE "issue")
    /\ UNCHANGED <<row, via, pending, cred, links, used, gen, proof, at, epoch, crossed, unlisted>>

(* Mutant: the version bound into the challenge is not compared. *)
VerifyReadAnyVersion(l) ==
    /\ pc[l] = "challenge"
    /\ Goto(l, IF row.active THEN "claim" ELSE "refused")
    /\ UNCHANGED <<row, seen, via, pending, cred, links, used, history>>

(* The challenge is bound to the version seen; /mfa/verify checks the row   *)
(* again. Which of several answers wins is decided in the challenge store.  *)
VerifyRead(l) ==
    /\ pc[l] = "challenge"
    /\ Goto(l, IF row.active /\ row.ver = seen[l].ver THEN "claim" ELSE "refused")
    /\ UNCHANGED <<row, seen, via, pending, cred, links, used, history>>

(* Accepting the code commits a claim on the row and reloads the user.      *)
VerifyClaim(l) ==
    /\ pc[l] = "claim"
    /\ ReloadLogin(l)
    /\ Goto(l, "issue")
    /\ UNCHANGED <<row, via, pending, cred, links, used, gen, proof, at, epoch, crossed, unlisted>>

LoginIssue(l) ==
    /\ pc[l] = "issue"
    /\ cred' = [cred EXCEPT ![l] =
                  [state |-> "live", ver |-> seen[l].ver, proof |-> proof[l]]]
    /\ Goto(l, "done")
    /\ UNCHANGED <<row, seen, via, pending, links, used, history>>

(* Logout, expiry, or eviction by the session limit.                        *)
SessionEnds(s) ==
    /\ cred[s].state = "live"
    /\ cred' = [cred EXCEPT ![s].state = "dead"]
    /\ UNCHANGED <<row, pc, seen, via, pending, links, used, history>>

-----------------------------------------------------------------------------
(* Bearer refresh: a token of the current version buys an access token.     *)

RefreshRead(f, t) ==
    /\ pc[f] = "start"
    /\ cred[t].state = "live"
    /\ IF row.active /\ row.ver = cred[t].ver
         THEN /\ seen' = [seen EXCEPT ![f] = [pw |-> None, ver |-> row.ver]]
              /\ proof' = [proof EXCEPT ![f] = cred[t].proof]
              /\ reloaded' = IF t \in reloaded THEN reloaded \cup {f} ELSE reloaded
              /\ Goto(f, "issue")
         ELSE /\ Goto(f, "refused")
              /\ UNCHANGED <<seen, proof, reloaded>>
    /\ via' = [via EXCEPT ![f] = t]
    /\ UNCHANGED <<row, pending, cred, links, used, gen, at, epoch, crossed, unlisted>>

-----------------------------------------------------------------------------
(* Password reset: mail a link, then redeem, consume, write, bump, evict.   *)

RequestReset(k) ==
    /\ links[k] = None
    /\ row.active
    /\ links' = [links EXCEPT ![k] = row.hash]
    /\ UNCHANGED <<row, pc, seen, via, pending, cred, used, history>>

Redeemable(k) == row.active /\ links[k] = row.hash

ResetRedeem(r, k) ==
    /\ pc[r] = "start"
    /\ links[k] # None
    /\ IF Redeemable(k)
         THEN /\ ReadRow(r)
              /\ Goto(r, "consume")
         ELSE /\ Goto(r, "refused")
              /\ UNCHANGED <<seen, proof>>
    /\ via' = [via EXCEPT ![r] = k]
    /\ UNCHANGED <<row, pending, cred, links, used, gen, at, epoch, crossed, reloaded, unlisted>>

(* Mutant: the link is marked, but an earlier mark is not honoured. *)
ResetConsumeAlways(r) ==
    /\ pc[r] = "consume"
    /\ used' = used \cup {via[r]}
    /\ Goto(r, "write")
    /\ UNCHANGED <<row, seen, via, pending, cred, links, history>>

(* set_if_absent on the token's key: the first redemption wins.             *)
ResetConsume(r) ==
    /\ pc[r] = "consume"
    /\ used' = used \cup {via[r]}
    /\ Goto(r, IF via[r] \in used THEN "refused" ELSE "write")
    /\ UNCHANGED <<row, seen, via, pending, cred, links, history>>

-----------------------------------------------------------------------------
(* Password change: authenticate with a credential and the current          *)
(* password, then write, bump, rebind the own session, evict the others.    *)

ChangeAuth(c, v) ==
    /\ pc[c] = "start"
    /\ cred[v].state = "live"
    /\ via' = [via EXCEPT ![c] = v]
    /\ seen' = [seen EXCEPT ![c].ver = cred[v].ver]
    /\ Goto(c, "user")
    /\ UNCHANGED <<row, pending, cred, links, used, history>>

(* From the password check to the rebind.                                   *)
AtWork == {"write", "bump", "refresh", "rebind"}

Beside(c) == {d \in Changes \ {c} : via[d] = via[c] /\ pc[d] \in AtWork}

ChangeRead(c, p) ==
    /\ pc[c] = "user"
    /\ IF Authenticates(p) /\ row.ver = seen[c].ver
         THEN /\ ReadRow(c)
              /\ crossed' = IF Beside(c) = {} THEN crossed ELSE crossed \cup Beside(c) \cup {c}
              /\ Goto(c, "write")
         ELSE /\ Goto(c, "refused")
              /\ UNCHANGED <<seen, proof, crossed>>
    /\ UNCHANGED <<row, via, pending, cred, links, used, gen, at, epoch, reloaded, unlisted>>

-----------------------------------------------------------------------------
(* What a reset and a change share.                                         *)

WritePassword(r) ==
    /\ pc[r] = "write"
    /\ row' = [row EXCEPT !.hash = [pw |-> r, by |-> r]]
    /\ gen' = gen + 1
    /\ at' = [at EXCEPT ![r] = gen + 1]
    /\ Goto(r, "bump")
    /\ UNCHANGED <<seen, via, pending, cred, links, used, proof, epoch, crossed, reloaded, unlisted>>

(* Mutant: the version is incremented in memory and written back. *)
BumpVersionFromCopy(r) ==
    /\ pc[r] = "bump"
    /\ row' = [row EXCEPT !.ver = seen[r].ver + 1]
    /\ epoch' = [epoch EXCEPT ![r] = seen[r].ver + 1]
    /\ Goto(r, IF r \in Changes THEN "refresh" ELSE "list")
    /\ UNCHANGED <<seen, via, pending, cred, links, used, gen, proof, at, crossed, reloaded, unlisted>>

(* Mutant: only the sessions are evicted, the version stays. *)
BumpVersionSkipped(r) ==
    /\ pc[r] = "bump"
    /\ epoch' = [epoch EXCEPT ![r] = row.ver]
    /\ Goto(r, IF r \in Changes THEN "refresh" ELSE "list")
    /\ UNCHANGED <<row, seen, via, pending, cred, links, used, gen, proof, at, crossed, reloaded, unlisted>>

BumpVersion(r) ==
    /\ pc[r] = "bump"
    /\ row' = [row EXCEPT !.ver = @ + 1]
    /\ epoch' = [epoch EXCEPT ![r] = row.ver + 1]
    /\ Goto(r, IF r \in Changes THEN "refresh" ELSE "list")
    /\ UNCHANGED <<seen, via, pending, cred, links, used, gen, proof, at, crossed, reloaded, unlisted>>

(* Mutant: the copy of the row is not reloaded after the bump. *)
ChangeReloadSkipped(c) ==
    /\ pc[c] = "refresh"
    /\ Goto(c, "rebind")
    /\ UNCHANGED <<row, seen, via, pending, cred, links, used, history>>

ChangeReload(c) ==
    /\ pc[c] = "refresh"
    /\ ReloadRow(c)
    /\ Goto(c, "rebind")
    /\ UNCHANGED <<row, via, pending, cred, links, used, history>>

(* set_token_version on the caller's session, if it came with one.          *)
ChangeRebind(c) ==
    /\ pc[c] = "rebind"
    /\ cred' = IF via[c] \in LiveSessions
                 THEN [cred EXCEPT ![via[c]].ver = seen[c].ver]
                 ELSE cred
    /\ Goto(c, "list")
    /\ UNCHANGED <<row, seen, via, pending, links, used, history>>

(* A listing that raises is logged and counts as an empty one.              *)
ListSessions(r) ==
    /\ pc[r] = "list"
    /\ \/ /\ pending' = [pending EXCEPT ![r] =
                            IF r \in Changes THEN LiveSessions \ {via[r]} ELSE LiveSessions]
          /\ UNCHANGED unlisted
       \/ unlisted' = unlisted \cup {r} /\ UNCHANGED pending
    /\ Goto(r, "evict")
    /\ UNCHANGED <<row, seen, via, cred, links, used, gen, proof, at, epoch, crossed, reloaded>>

EvictSession(r, s) ==
    /\ pc[r] = "evict"
    /\ s \in pending[r]
    /\ cred' = [cred EXCEPT ![s].state = "dead"]
    /\ pending' = [pending EXCEPT ![r] = @ \ {s}]
    /\ UNCHANGED <<row, pc, seen, via, links, used, history>>

EvictDone(r) ==
    /\ pc[r] = "evict"
    /\ pending[r] = {}
    /\ Goto(r, "done")
    /\ UNCHANGED <<row, seen, via, pending, cred, links, used, history>>

(* The application disables or enables the account.                         *)
SetActive(b) ==
    /\ row.active # b
    /\ row' = [row EXCEPT !.active = b]
    /\ UNCHANGED <<pc, seen, via, pending, cred, links, used, history>>

-----------------------------------------------------------------------------
LoginStep(l) ==
    \/ \E p \in Passwords : LoginRead(l, p)
    \/ LoginRehash(l) \/ LoginReload(l)
    \/ VerifyRead(l) \/ VerifyClaim(l)
    \/ LoginIssue(l)

RefreshStep(f) ==
    \/ \E t \in TokenLogins : RefreshRead(f, t)
    \/ LoginIssue(f)

InstallStep(r) ==
    \/ WritePassword(r) \/ BumpVersion(r)
    \/ ListSessions(r) \/ (\E s \in Logins : EvictSession(r, s)) \/ EvictDone(r)

ResetStep(r) ==
    \/ \E k \in Links : ResetRedeem(r, k)
    \/ ResetConsume(r)
    \/ InstallStep(r)

ChangeStep(c) ==
    \/ \E v \in Issuers : ChangeAuth(c, v)
    \/ \E p \in Passwords : ChangeRead(c, p)
    \/ ChangeReload(c) \/ ChangeRebind(c)
    \/ InstallStep(c)

Next ==
    \/ \E l \in Logins \cup TokenLogins : LoginStep(l)
    \/ \E f \in Refreshes : RefreshStep(f)
    \/ \E r \in Resets : ResetStep(r)
    \/ \E c \in Changes : ChangeStep(c)
    \/ \E k \in Links : RequestReset(k)
    \/ \E s \in Logins : SessionEnds(s)
    \/ \E b \in BOOLEAN : SetActive(b)

Spec == Init /\ [][Next]_vars

(* The event loop keeps running a handler that has written a password: the  *)
(* database and the store answer, so each of its remaining steps is taken.  *)
FairSpec ==
    /\ Spec
    /\ \A r \in Resets : WF_vars(InstallStep(r))
    /\ \A c \in Changes : WF_vars(ChangeReload(c) \/ ChangeRebind(c) \/ InstallStep(c))

-----------------------------------------------------------------------------
Labels == {"idle", "start", "rehash", "reload", "challenge", "claim", "issue", "consume",
           "user", "write", "bump", "refresh", "rebind", "list", "evict",
           "done", "refused"}

(* The type invariant: which values the row, the requests' copies of it, the *)
(* issued credentials and the links can have.                               *)
TypeOK ==
    /\ row \in [hash : Hashes, ver : Nat, active : BOOLEAN, mfa : BOOLEAN]
    /\ pc \in [Requests -> Labels]
    /\ seen \in [Requests -> [pw : Passwords \cup {None}, ver : Nat]]
    /\ via \in [Requests -> Requests \cup Links \cup {None}]
    /\ pending \in [Installers -> SUBSET Logins]
    /\ cred \in [Issuers -> [state : {"none", "live", "dead"}, ver : Nat, proof : Nat]]
    /\ links \in [Links -> Hashes \cup {None}]
    /\ used \subseteq Links
    /\ gen \in Nat
    /\ proof \in [Requests -> Nat]
    /\ at \in [Installers -> Nat]
    /\ epoch \in [Installers -> Nat]
    /\ crossed \subseteq Changes
    /\ reloaded \subseteq Issuers
    /\ unlisted \subseteq Installers

(* A credential the authenticators accept, while the account is active: the *)
(* session record exists, or the signature is good, and the version matches.*)
Usable(c) == cred[c].state = "live" /\ cred[c].ver = row.ver

(* The credential goes back to a password check older than r's new password.*)
(* The session that asked for a change is the one a change keeps.           *)
Superseded(c, r) ==
    /\ cred[c].proof < at[r]
    /\ ~(r \in Changes /\ c \in Logins /\ c = via[r])

Evicted(r) == \A c \in Issuers \ reloaded : Usable(c) => ~Superseded(c, r)

(* Eviction is complete: once a reset or a change has answered, no session  *)
(* or token that rests on an older password check is accepted, whatever     *)
(* logins, refreshes and changes were in flight meanwhile, except that of a *)
(* login which reloaded the row after a bump (for a rehash or a second      *)
(* factor), and unless listing the sessions raised                          *)
(* (email/service.py reset_password, account/router.py change_password).    *)
EvictionComplete == \A r \in Installers \ unlisted : pc[r] = "done" => Evicted(r)

(* What transports/session/manager.py create_session and the MFA guide say: *)
(* a login that straddles a reset is born stale and rejected, and a reset   *)
(* kills a pending challenge. So a reset or a change whose listing worked   *)
(* leaves no credential of an older password check.                         *)
StraddlersRejected ==
    \A r \in Installers \ unlisted, c \in Issuers :
        pc[r] = "done" /\ Usable(c) => ~Superseded(c, r)

(* The change has answered, nothing bumped the version after it, and its    *)
(* session was not ended meanwhile.                                         *)
LastChange(c) ==
    /\ pc[c] = "done"
    /\ via[c] \in LiveSessions
    /\ \A r \in Installers : epoch[r] <= epoch[c]

(* A change keeps its caller signed in, whatever logins, resets and changes *)
(* run beside it, on the same session too, unless another change called     *)
(* with the session passed its password check before this one had rebound   *)
(* the session (account/router.py change_password, the rebind after the     *)
(* bump).                                                                   *)
UncrossedChangeKeepsCaller == \A c \in Changes \ crossed : LastChange(c) => Usable(via[c])

Consumed == {"write", "bump", "list", "evict", "done"}

(* A reset link sets at most one password, however many confirmations of it *)
(* run at once (email/service.py _consume).                                 *)
LinkAppliedOnce ==
    \A q, r \in Resets :
        q # r /\ pc[q] \in Consumed /\ pc[r] \in Consumed => via[q] # via[r]

(* A two-factor challenge is not accepted once a reset or a change that     *)
(* wrote its password after the check has bumped the version, unless the    *)
(* login's rehash reloaded the row after a bump                             *)
(* (mfa/service.py complete_challenge).                                     *)
ChallengeDiesWithPassword ==
    [][\A l \in Logins \cup TokenLogins, r \in Installers :
          /\ pc[l] = "challenge" /\ pc'[l] = "claim"
          /\ l \notin reloaded
          /\ epoch[r] # 0
          => proof[l] >= at[r]]_vars

(* Every credential older than a password that was written is dead for good *)
(* soon after, tokens that no store can delete included, with the exceptions *)
(* of EvictionComplete.                                                     *)
EventuallyEvicted ==
    \A r \in Installers : [](pc[r] = "bump" => <>[](r \in unlisted \/ Evicted(r)))
=============================================================================
