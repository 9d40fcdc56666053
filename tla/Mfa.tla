-------------------------------- MODULE Mfa --------------------------------
(***************************************************************************)
(* Two-factor authentication of one account: enrolling an authenticator,   *)
(* authenticator and recovery codes, disabling, regenerating the recovery  *)
(* codes, and the login challenges that codes answer.                      *)
(*                                                                         *)
(* A request loads its own copy of the user row and works on the copy; a   *)
(* save writes back only the columns the request changed in its copy. The  *)
(* claims are single conditional UPDATEs. A write and the reload after it  *)
(* are one step. The lockout, which every answer also passes, is the       *)
(* module Lockout; here it allows or refuses at will. Each request runs    *)
(* once.                                                                   *)
(***************************************************************************)
EXTENDS Naturals, FiniteSets

CONSTANTS Setups,       \* POST /mfa/totp/setup
          Confirms,     \* POST /mfa/totp/confirm
          Disables,     \* POST /mfa/totp/disable
          Regenerates,  \* POST /mfa/recovery-codes/regenerate
          Logins,       \* logins past the password; each may open a challenge
          Answers,      \* POST /mfa/verify
          Mixes,        \* the sets of requests tried together
          Initial,      \* enrolled the account beforehand, where it starts enrolled
          None,         \* NULL
          Steps,        \* the last TOTP time step of the run
          CodeCount,    \* recovery_code_count
          CodesBefore,  \* the codes of an account that starts enrolled; others may have been spent
          MaxAttempts,  \* max_code_attempts
          MaxVersion    \* bound on the password resets and changes of the run

Managers == Setups \cup Confirms \cup Disables \cup Regenerates
Requests == Managers \cup Logins \cup Answers
Secrets  == {Initial} \cup Setups \cup Logins   \* each request draws its own
Codes    == ({Initial} \X (1..CodesBefore))
              \cup ((Confirms \cup Regenerates \cup Answers) \X (1..CodeCount))
Unbound  == MaxVersion + 1          \* the stored secret carries no version

ASSUME BoundsAreNatural == {Steps, CodeCount, CodesBefore, MaxAttempts, MaxVersion} \subseteq Nat

ASSUME MixesAreRequests == Mixes \subseteq SUBSET Requests

ASSUME RequestsDisjoint ==
    /\ Setups \cap (Confirms \cup Disables \cup Regenerates \cup Logins \cup Answers) = {}
    /\ Confirms \cap (Disables \cup Regenerates \cup Logins \cup Answers) = {}
    /\ Disables \cap (Regenerates \cup Logins \cup Answers) = {}
    /\ Regenerates \cap (Logins \cup Answers) = {}
    /\ Logins \cap Answers = {}
    /\ Initial \notin Requests

Sealed    == [key : Secrets, bound : 0..Unbound]                        \* stored secrets
CodeLists == [by : {Initial} \cup Requests, left : SUBSET Codes]        \* stored recovery codes

ASSUME NoneIsNoValue == None \notin Sealed \cup CodeLists

VARIABLES row,     \* the row: secret, confirmed, step, codes, token_version, and
                   \* whether MfaConfig.required holds for the account
          seen,    \* each request's copy of the row
          pc,      \* the next step of each request
          code,    \* the code or the secret a request works with
          tries,   \* rounds left in the recovery code loop
          chal,    \* the challenge each login opened
          target,  \* the challenge an answer is for
          count,   \* the attempts counter an answer got back
          stored,  \* history: version when each secret was stored
          began,   \* history: version when each request loaded the row
          spent    \* history: <<request, code>> accepted so far; time steps only
                   \* since totp_last_step was last cleared

copies  == <<seen, code, tries>>
answers == <<chal, target, count>>
history == <<stored, began, spent>>
vars    == <<row, pc, copies, answers, history>>

NewCodes(r) == [by |-> r, left |-> {<<r, i>> : i \in 1..CodeCount}]

Blank(required) ==
    [secret |-> None, confirmed |-> FALSE, step |-> 0, codes |-> None, ver |-> 0,
     required |-> required]

EnrolledBefore(required) ==
    [Blank(required) EXCEPT !.secret = [key |-> Initial, bound |-> Unbound],
                            !.confirmed = TRUE,
                            !.codes = [by |-> Initial, left |-> {Initial} \X (1..CodesBefore)]]

NoChallenge == [live |-> FALSE, setup |-> FALSE, ver |-> 0, attempts |-> 0]

Init ==
    /\ row \in {Blank(b) : b \in BOOLEAN} \cup {EnrolledBefore(b) : b \in BOOLEAN}
    /\ seen = [r \in Requests |-> Blank(FALSE)]
    /\ \E mix \in Mixes : pc = [r \in Requests |-> IF r \in mix THEN "start" ELSE "idle"]
    /\ code = [r \in Requests |-> None]
    /\ tries = [r \in Requests |-> 0]
    /\ chal = [l \in Logins |-> NoChallenge]
    /\ target = [a \in Answers |-> None]
    /\ count = [a \in Answers |-> 0]
    /\ stored = [k \in Secrets |-> 0]
    /\ began = [r \in Requests |-> 0]
    /\ spent = {}

Goto(r, label) == pc' = [pc EXCEPT ![r] = label]
Use(r, value) == code' = [code EXCEPT ![r] = value]

Load(r) == seen' = [seen EXCEPT ![r] = row] /\ began' = [began EXCEPT ![r] = row.ver]
Reload(r) == seen' = [seen EXCEPT ![r] = row']

(* repo.update: the columns that differ from the loaded ones are written.   *)
Save(r, copy) ==
    /\ row' = [c \in DOMAIN row |-> IF copy[c] = seen[r][c] THEN row[c] ELSE copy[c]]
    /\ Reload(r)
    /\ spent' = IF row'.step < row.step THEN {p \in spent : p[2] \in Codes} ELSE spent

IsEnrolled(u) == u.confirmed /\ u.secret # None

(* Mutant: the version a pending secret was issued under is not compared. *)
PendingAnyVersion(u) ==
    IF u.confirmed \/ u.secret = None \/ u.secret.bound = Unbound THEN None
    ELSE u.secret.key

(* _pending_secret: void once the version has moved.                        *)
PendingSecret(u) ==
    IF u.confirmed \/ u.secret = None \/ u.secret.bound # u.ver THEN None
    ELSE u.secret.key

StorePending(r) ==
    /\ Save(r, [seen[r] EXCEPT !.secret = [key |-> r, bound |-> seen[r].ver],
                               !.confirmed = FALSE, !.step = 0, !.codes = None])
    /\ stored' = [stored EXCEPT ![r] = row.ver]

-----------------------------------------------------------------------------
(* begin_setup and confirm_setup.                                           *)
SetupRead(r) ==
    /\ pc[r] = "start"
    /\ Load(r)
    /\ Goto(r, IF IsEnrolled(row) THEN "refused" ELSE "store")
    /\ UNCHANGED <<row, code, tries, answers, stored, spent>>

SetupStore(r) ==
    /\ pc[r] = "store"
    /\ StorePending(r)
    /\ Goto(r, "done")
    /\ UNCHANGED <<code, tries, answers, began>>

ConfirmRead(r) ==
    /\ pc[r] = "start"
    /\ Load(r)
    /\ Use(r, PendingSecret(row))
    /\ Goto(r, IF IsEnrolled(row) \/ PendingSecret(row) = None THEN "refused" ELSE "claim")
    /\ UNCHANGED <<row, tries, answers, stored, spent>>

(* Mutant: the step is recorded without comparing it with the last one. *)
ClaimStepAlways(r, key, step, yes, no) ==
    /\ IF step > 0
         THEN /\ row' = [row EXCEPT !.step = step]
              /\ spent' = spent \cup {<<r, <<"step", key, step>>>>}
              /\ Goto(r, yes)
         ELSE UNCHANGED <<row, spent>> /\ Goto(r, no)
    /\ Reload(r)

(* claim_totp_step: the step counts only if it is newer than the last one.  *)
ClaimStep(r, key, step, yes, no) ==
    /\ IF row.step < step
         THEN /\ row' = [row EXCEPT !.step = step]
              /\ spent' = spent \cup {<<r, <<"step", key, step>>>>}
              /\ Goto(r, yes)
         ELSE UNCHANGED <<row, spent>> /\ Goto(r, no)
    /\ Reload(r)

ClaimPending(r, step) ==
    /\ pc[r] = "claim"
    /\ ClaimStep(r, code[r], step, IF r \in Confirms THEN "enable" ELSE "consume",
                 IF r \in Confirms THEN "refused" ELSE "rejected")
    /\ UNCHANGED <<code, tries, answers, stored, began>>

EnabledRow(r) ==
    [row EXCEPT !.secret = [key |-> code[r], bound |-> Unbound],
                !.confirmed = TRUE, !.codes = NewCodes(r)]

(* Mutant: the authenticator is enabled without comparing totp_confirmed_at. *)
EnableAlways(r) ==
    /\ pc[r] = "enable"
    /\ row' = EnabledRow(r)
    /\ Reload(r)
    /\ Goto(r, IF r \in Confirms THEN "enabled" ELSE "issueboth")
    /\ UNCHANGED <<code, tries, answers, history>>

(* _enable: only while the account has no confirmed authenticator. An       *)
(* answer that loses logs in all the same, without recovery codes.          *)
Enable(r) ==
    /\ pc[r] = "enable"
    /\ IF row.confirmed
         THEN UNCHANGED row /\ Goto(r, IF r \in Confirms THEN "refused" ELSE "issue")
         ELSE row' = EnabledRow(r) /\ Goto(r, IF r \in Confirms THEN "enabled" ELSE "issueboth")
    /\ Reload(r)
    /\ UNCHANGED <<code, tries, answers, history>>

-----------------------------------------------------------------------------
(* verify_code: an authenticator code claims its step, anything else is     *)
(* looked up among the recovery codes. Used by disable, regenerate and the  *)
(* answers to a challenge.                                                  *)
Accepted(r) == IF r \in Answers THEN "consume" ELSE "accepted"
Rejected(r) == IF r \in Answers THEN "rejected" ELSE "refused"

ManageRead(r) ==
    /\ pc[r] = "start"
    /\ Load(r)
    /\ Goto(r, IF r \in Disables /\ row.required THEN "refused" ELSE "code")
    /\ UNCHANGED <<row, code, tries, answers, stored, spent>>

(* A secret that still carries its version is no base32: decoding it raises.*)
VerifyTotp(r, step) ==
    /\ pc[r] = "code"
    /\ IF IsEnrolled(seen[r]) /\ seen[r].secret.bound = Unbound
         THEN ClaimStep(r, seen[r].secret.key, step, Accepted(r), Rejected(r))
         ELSE /\ Goto(r, IF IsEnrolled(seen[r]) THEN "refused" ELSE Rejected(r))
              /\ UNCHANGED <<row, seen, spent>>
    /\ UNCHANGED <<code, tries, answers, stored, began>>

VerifyRecovery(r, c) ==
    /\ pc[r] = "code"
    /\ Use(r, c)
    /\ tries' = [tries EXCEPT ![r] = 3]
    /\ Goto(r, IF IsEnrolled(seen[r]) THEN "recover" ELSE Rejected(r))
    /\ UNCHANGED <<row, seen, answers, history>>

LeftCodes(u) == IF u.codes = None THEN {} ELSE u.codes.left

(* Mutant: the codes are written back without comparing what was read. *)
ConsumeUnguarded(r) ==
    /\ pc[r] = "recover"
    /\ IF code[r] \in LeftCodes(seen[r])
         THEN /\ row' = [row EXCEPT !.codes = [seen[r].codes EXCEPT !.left = @ \ {code[r]}]]
              /\ spent' = spent \cup {<<r, code[r]>>}
              /\ Reload(r)
              /\ Goto(r, Accepted(r))
         ELSE Goto(r, Rejected(r)) /\ UNCHANGED <<row, seen, spent>>
    /\ UNCHANGED <<code, tries, answers, stored, began>>

(* One round of the loop: give up, or compare-and-set the remaining codes.  *)
ConsumeRecovery(r) ==
    /\ pc[r] = "recover"
    /\ IF tries[r] = 0 \/ code[r] \notin LeftCodes(seen[r])
         THEN Goto(r, Rejected(r)) /\ UNCHANGED <<row, seen, spent, tries>>
         ELSE /\ IF row.codes = seen[r].codes
                   THEN /\ row' = [row EXCEPT !.codes.left = @ \ {code[r]}]
                        /\ spent' = spent \cup {<<r, code[r]>>}
                        /\ Goto(r, Accepted(r))
                   ELSE UNCHANGED <<row, spent, pc>>
              /\ tries' = [tries EXCEPT ![r] = @ - 1]
              /\ Reload(r)
    /\ UNCHANGED <<code, answers, stored, began>>

Disable(r) ==
    /\ pc[r] = "accepted"
    /\ Save(r, [seen[r] EXCEPT !.secret = None, !.confirmed = FALSE, !.step = 0, !.codes = None])
    /\ Goto(r, "done")
    /\ UNCHANGED <<code, tries, answers, stored, began>>

Regenerate(r) ==
    /\ pc[r] = "accepted"
    /\ IF IsEnrolled(seen[r])
         THEN Save(r, [seen[r] EXCEPT !.codes = NewCodes(r)]) /\ Goto(r, "done")
         ELSE Goto(r, "refused") /\ UNCHANGED <<row, seen, spent>>
    /\ UNCHANGED <<code, tries, answers, stored, began>>

-----------------------------------------------------------------------------
(* challenge_login: after the password, an enrolled account is challenged,  *)
(* and one that must enroll is challenged with a setup.                     *)
LoginRead(l) ==
    /\ pc[l] = "start"
    /\ Load(l)
    /\ Goto(l, IF IsEnrolled(row) THEN "open"
               ELSE IF ~row.required THEN "done"
               ELSE IF PendingSecret(row) = None THEN "store" ELSE "openset")
    /\ UNCHANGED <<row, code, tries, answers, stored, spent>>

LoginStore(l) ==
    /\ pc[l] = "store"
    /\ StorePending(l)
    /\ Goto(l, "openset")
    /\ UNCHANGED <<code, tries, answers, began>>

OpenChallenge(l) ==
    /\ pc[l] \in {"open", "openset"}
    /\ chal' = [chal EXCEPT ![l] = [live |-> TRUE, setup |-> pc[l] = "openset",
                                    ver |-> seen[l].ver, attempts |-> 0]]
    /\ Goto(l, "done")
    /\ UNCHANGED <<row, copies, target, count, history>>

ChallengeExpires(l) ==
    /\ chal[l].live
    /\ chal' = [chal EXCEPT ![l].live = FALSE]
    /\ UNCHANGED <<row, pc, copies, target, count, history>>

-----------------------------------------------------------------------------
(* complete_challenge: count the attempt, pass the lockout, load the row,   *)
(* check the code, take the challenge out of the store, issue.              *)
MayCheck(attempts) == attempts <= MaxAttempts

CountAttempt(a, l) ==
    /\ pc[a] = "start" /\ pc[l] = "done"
    /\ target' = [target EXCEPT ![a] = l]
    /\ IF chal[l].live
         THEN /\ chal' = [chal EXCEPT ![l].attempts = @ + 1]
              /\ count' = [count EXCEPT ![a] = chal[l].attempts + 1]
              /\ Goto(a, IF MayCheck(chal[l].attempts + 1) THEN "lockout" ELSE "drop")
         ELSE UNCHANGED <<chal, count>> /\ Goto(a, "refused")
    /\ UNCHANGED <<row, copies, history>>

PassLockout(a) ==
    /\ pc[a] = "lockout"
    /\ \E label \in {"load", "drop"} : Goto(a, label)
    /\ UNCHANGED <<row, copies, answers, history>>

(* The application may have disabled the account in the meantime.           *)
AnswerRead(a) ==
    /\ pc[a] = "load"
    /\ Load(a)
    /\ \E active \in BOOLEAN :
       IF ~active \/ row.ver # chal[target[a]].ver
         THEN Goto(a, "drop") /\ UNCHANGED code
         ELSE IF ~chal[target[a]].setup THEN Goto(a, "code") /\ UNCHANGED code
         ELSE /\ Use(a, PendingSecret(row))
              /\ Goto(a, IF PendingSecret(row) = None THEN "rejected" ELSE "claim")
    /\ UNCHANGED <<row, tries, answers, stored, spent>>

WrongCode(a) ==
    /\ pc[a] = "rejected"
    /\ Goto(a, IF count[a] >= MaxAttempts THEN "drop" ELSE "refused")
    /\ UNCHANGED <<row, copies, answers, history>>

DropChallenge(a) ==
    /\ pc[a] = "drop"
    /\ chal' = [chal EXCEPT ![target[a]].live = FALSE]
    /\ Goto(a, "refused")
    /\ UNCHANGED <<row, copies, target, count, history>>

AfterConsume(a) == IF chal[target[a]].setup THEN "enable" ELSE "issue"

(* Mutant: the challenge is read and deleted, whoever deleted it first. *)
ConsumeChallengeAlways(a) ==
    /\ pc[a] = "consume"
    /\ chal' = [chal EXCEPT ![target[a]].live = FALSE]
    /\ Goto(a, AfterConsume(a))
    /\ UNCHANGED <<row, copies, target, count, history>>

ConsumeChallenge(a) ==
    /\ pc[a] = "consume"
    /\ chal' = [chal EXCEPT ![target[a]].live = FALSE]
    /\ Goto(a, IF chal[target[a]].live THEN AfterConsume(a) ELSE "refused")
    /\ UNCHANGED <<row, copies, target, count, history>>

Issue(a) ==
    /\ pc[a] \in {"issue", "issueboth"}
    /\ Goto(a, IF pc[a] = "issue" THEN "done" ELSE "enabled")
    /\ UNCHANGED <<row, copies, answers, history>>

(* A password reset or change bumps the version (module Credentials).       *)
BumpVersion ==
    /\ row.ver < MaxVersion
    /\ row' = [row EXCEPT !.ver = @ + 1]
    /\ UNCHANGED <<pc, copies, answers, history>>

-----------------------------------------------------------------------------
CodeStep(r) ==
    \/ \E step \in 0..Steps : VerifyTotp(r, step)
    \/ \E c \in Codes : VerifyRecovery(r, c)
    \/ ConsumeRecovery(r)

EnrollStep(r) == (\E step \in 0..Steps : ClaimPending(r, step)) \/ Enable(r)

AnswerStep(a) ==
    \/ \E l \in Logins : CountAttempt(a, l)
    \/ PassLockout(a) \/ AnswerRead(a) \/ WrongCode(a) \/ DropChallenge(a)
    \/ ConsumeChallenge(a) \/ Issue(a)
    \/ CodeStep(a) \/ EnrollStep(a)

Next ==
    \/ \E r \in Setups : SetupRead(r) \/ SetupStore(r)
    \/ \E r \in Confirms : ConfirmRead(r) \/ EnrollStep(r)
    \/ \E r \in Disables : ManageRead(r) \/ CodeStep(r) \/ Disable(r)
    \/ \E r \in Regenerates : ManageRead(r) \/ CodeStep(r) \/ Regenerate(r)
    \/ \E l \in Logins : LoginRead(l) \/ LoginStore(l) \/ OpenChallenge(l) \/ ChallengeExpires(l)
    \/ \E a \in Answers : AnswerStep(a)
    \/ BumpVersion

Spec == Init /\ [][Next]_vars

-----------------------------------------------------------------------------
Rows == [secret : Sealed \cup {None}, confirmed : BOOLEAN, step : 0..Steps,
         codes : CodeLists \cup {None}, ver : 0..MaxVersion, required : BOOLEAN]

(* The type invariant: the row and its copies, the work of each request and *)
(* the challenges.                                                          *)
TypeOK ==
    /\ row \in Rows
    /\ seen \in [Requests -> Rows]
    /\ pc \in [Requests -> {"idle", "start", "store", "claim", "enable", "code", "recover", "accepted",
                            "open", "openset", "lockout", "load", "rejected", "drop", "consume",
                            "issue", "issueboth", "enabled", "done", "refused"}]
    /\ code \in [Requests -> Secrets \cup Codes \cup {None}]
    /\ tries \in [Requests -> 0..3]
    /\ chal \in [Logins -> [live : BOOLEAN, setup : BOOLEAN, ver : Nat, attempts : Nat]]
    /\ target \in [Answers -> Logins \cup {None}]
    /\ count \in [Answers -> Nat]
    /\ stored \in [Secrets -> Nat] /\ began \in [Requests -> Nat]
    /\ spent \subseteq Requests \X (Codes \cup ({"step"} \X Secrets \X (1..Steps)))

(* A code is accepted once, however many requests bring it at once and      *)
(* whatever they want with it: a recovery code for ever, a time step of the *)
(* authenticator until totp_last_step is cleared by a disable or a new      *)
(* setup (mfa/service.py _consume_recovery_code, repository.py              *)
(* claim_totp_step).                                                        *)
CodesUsedOnce == \A p, q \in spent : p[2] = q[2] => p[1] = q[1]

(* A recovery code that is accepted belongs to the current set and is still *)
(* unspent, also when a regeneration or a disable overtook the request.     *)
RecoveryCodeCurrent ==
    [][\A r \in Requests :
          pc[r] = "recover" /\ pc'[r] = Accepted(r) => code[r] \in LeftCodes(row)]_vars

Won == {"enable", "issue", "issueboth", "enabled", "done"}

(* A challenge logs in at most once, however many answers to it are right.  *)
ChallengeUsedOnce ==
    \A a, b \in Answers :
        pc[a] \in Won /\ pc[b] \in Won /\ target[a] = target[b] => a = b

Looked == {"load", "code", "recover", "claim", "rejected", "consume"} \cup Won

(* No more than max_code_attempts answers to one challenge get to have      *)
(* their code looked at.                                                    *)
AttemptsBounded ==
    \A l \in Logins :
        Cardinality({a \in Answers : target[a] = l /\ pc[a] \in Looked}) <= MaxAttempts

(* However many answers to a challenge are sent at once, it is good for     *)
(* max_code_attempts looks at a code and for one login (mfa/service.py      *)
(* complete_challenge).                                                     *)
ChallengeBounded == ChallengeUsedOnce /\ AttemptsBounded

EnabledBy(r) == pc[r] \in {"issueboth", "enabled"}

(* A secret stored before a password reset or change is not enabled by a    *)
(* request that began after it. One that read the secret before the reset   *)
(* still enables it: the conditional write does not name the version        *)
(* (mfa/service.py _pending_secret, _enable).                               *)
OldPendingNotEnabled ==
    \A r \in Confirms \cup Answers : EnabledBy(r) => stored[code[r]] >= began[r]

(* One enrollment hands out one set of recovery codes, however many         *)
(* confirmations of it run at once, while the authenticator is not disabled *)
(* (mfa/service.py _enable).                                                *)
OneSetOfCodes ==
    (\A d \in Disables : pc[d] # "done") =>
        \A r, q \in Confirms \cup Answers :
            EnabledBy(r) /\ EnabledBy(q) /\ code[r] = code[q] => r = q

(* What the documentation says of a setup: it does not touch an account     *)
(* whose authenticator is enabled, so an enabled secret stays usable.       *)
EnabledSecretUsable == IsEnrolled(row) => row.secret.bound = Unbound
=============================================================================
