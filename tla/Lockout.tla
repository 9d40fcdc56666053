------------------------------ MODULE Lockout ------------------------------
(***************************************************************************)
(* The escalating login lockout: check_and_record, its success branch and  *)
(* forget_attempt, run by concurrent logins from several addresses against *)
(* several usernames. Every await on the counter backend is a step; the    *)
(* backends make each single operation atomic. Time is left out: a lock    *)
(* or an attempt window may run out at any moment (up to MaxWindowEnds     *)
(* windows do), and a pair counter ends with the address window whose      *)
(* remaining time it got.                                                  *)
(***************************************************************************)
EXTENDS Integers, FiniteSets

CONSTANTS Attempts,     \* login attempts, each run once
          Ips, Users,
          MaxAttempts,  \* failures allowed in a window
          MaxRounds,    \* base * 2^MaxRounds reaches lockout_max_seconds
          ClearAll,     \* on_login_success is "clear_all"
          Mfa,          \* a correct password is followed by a code
          FailOpen,     \* fail_open: a backend error allows the attempt
          Faults,       \* backend operations may raise during the run
          MaxWindowEnds \* bound: attempt windows that end during the run

ASSUME BoundsAreNatural == {MaxAttempts, MaxRounds, MaxWindowEnds} \subseteq Nat

VARIABLES ipCount, userCount, pairCount,  \* failure counters; 0 also when absent
          pairKeys,                       \* the pair counters that exist
          ipLock, userLock,               \* the lock's length as a power of two, or None
          ipRounds, userRounds,           \* escalation rounds
          pc, ip, user, right,            \* each attempt: next step, keys, correct password?
          stage,                          \* "password", or "code" after the challenge
          n,                              \* what the attempt last read from the backend
          window                          \* history: attempts counted in the open window, whether
                                          \* an error, a window's end or an overlap of correct
                                          \* passwords could put the counters out of step (torn),
                                          \* and how many windows have ended

pairs    == <<pairCount, pairKeys>>
counters == <<ipCount, userCount, pairs>>
locks    == <<ipLock, userLock, ipRounds, userRounds>>
request  == <<ip, user, right>>
vars     == <<counters, locks, request, pc, stage, n, window>>

None == -1                                \* no lock
Max2(a, b) == IF a >= b THEN a ELSE b
Min2(a, b) == IF a <= b THEN a ELSE b

Init ==
    /\ ipCount = [i \in Ips |-> 0]
    /\ userCount = [u \in Users |-> 0]
    /\ pairCount = [p \in Ips \X Users |-> 0]
    /\ pairKeys = {}
    /\ ipLock = [i \in Ips |-> None]
    /\ userLock = [u \in Users |-> None]
    /\ ipRounds = [i \in Ips |-> 0]
    /\ userRounds = [u \in Users |-> 0]
    /\ ip \in [Attempts -> Ips]
    /\ user \in [Attempts -> Users]
    /\ right \in [Attempts -> BOOLEAN]
    /\ pc = [a \in Attempts |-> "iplock"]
    /\ stage = [a \in Attempts |-> "password"]
    /\ n = [a \in Attempts |-> 0]
    /\ window = [ip |-> {}, user |-> {}, torn |-> FALSE, ends |-> 0]

Pair(a) == <<ip[a], user[a]>>
Open(i) == ipCount[i] # 0 \/ \E a \in window.ip : ip[a] = i

(* Not between an attempt's first and its last use of the counters.         *)
Resting == {"iplock", "userlock", "countip", "challenged", "denied", "failed", "done"}

(* Another login to the account, from the same address and with the correct *)
(* password, is between its first and its last use of the counters.         *)
Overlaps(a) ==
    right[a] /\ \E b \in Attempts \ {a} : right[b] /\ Pair(b) = Pair(a) /\ pc[b] \notin Resting

Goto(a, label) == pc' = [pc EXCEPT ![a] = label]
At(a, label) == pc[a] = label
Keep(a, value) == n' = [n EXCEPT ![a] = value]

-----------------------------------------------------------------------------
(* check_and_record: refuse while a lock is on, else count the attempt as a *)
(* failure before the password is looked at.                                *)
ReadIpLock(a) ==
    /\ At(a, "iplock")
    /\ Goto(a, IF ipLock[ip[a]] # None THEN "denied" ELSE "userlock")
    /\ UNCHANGED <<counters, locks, request, stage, n, window>>

ReadUserLock(a) ==
    /\ At(a, "userlock")
    /\ Goto(a, IF userLock[user[a]] # None THEN "denied" ELSE "countip")
    /\ UNCHANGED <<counters, locks, request, stage, n, window>>

CountIp(a) ==
    /\ At(a, "countip")
    /\ ipCount' = [ipCount EXCEPT ![ip[a]] = @ + 1]
    /\ Keep(a, ipCount[ip[a]] + 1)
    /\ window' = [window EXCEPT !.ip = @ \cup {a}, !.torn = @ \/ Overlaps(a)]
    /\ Goto(a, "countuser")
    /\ UNCHANGED <<userCount, pairs, locks, request, stage>>

Decide(a, count) == IF count <= MaxAttempts THEN "verify" ELSE "rounds"

CountUser(a) ==
    /\ At(a, "countuser")
    /\ userCount' = [userCount EXCEPT ![user[a]] = @ + 1]
    /\ Keep(a, Max2(n[a], userCount[user[a]] + 1))
    /\ window' = [window EXCEPT !.user = @ \cup {a}]
    /\ Goto(a, IF ClearAll THEN "ipwindow" ELSE Decide(a, n'[a]))
    /\ UNCHANGED <<ipCount, pairs, locks, request, stage>>

(* The pair counter gets the remaining time of the address's window, and is *)
(* skipped when that window is over.                                        *)
ReadIpWindow(a) ==
    /\ At(a, "ipwindow")
    /\ Goto(a, IF Open(ip[a]) THEN "countpair" ELSE Decide(a, n[a]))
    /\ UNCHANGED <<counters, locks, request, stage, n, window>>

CountPair(a) ==
    /\ At(a, "countpair")
    /\ pairCount' = [pairCount EXCEPT ![Pair(a)] = @ + 1]
    /\ pairKeys' = pairKeys \cup {Pair(a)}
    /\ Goto(a, Decide(a, n[a]))
    /\ UNCHANGED <<ipCount, userCount, locks, request, stage, n, window>>

(* Past the limit: read both rounds, lock both keys (a lock that is already *)
(* on keeps its length), raise both rounds.                                 *)
ReadIpRounds(a) ==
    /\ At(a, "rounds")
    /\ Keep(a, ipRounds[ip[a]])
    /\ Goto(a, "userrounds")
    /\ UNCHANGED <<counters, locks, request, stage, window>>

(* Mutant: the lock's length is not capped. *)
ReadUserRoundsUncapped(a) ==
    /\ At(a, "userrounds")
    /\ Keep(a, Max2(n[a], userRounds[user[a]]))
    /\ Goto(a, "lockip")
    /\ UNCHANGED <<counters, locks, request, stage, window>>

ReadUserRounds(a) ==
    /\ At(a, "userrounds")
    /\ Keep(a, Min2(Max2(n[a], userRounds[user[a]]), MaxRounds))
    /\ Goto(a, "lockip")
    /\ UNCHANGED <<counters, locks, request, stage, window>>

LockIp(a) ==
    /\ At(a, "lockip")
    /\ ipLock' = [ipLock EXCEPT ![ip[a]] = IF @ = None THEN n[a] ELSE @]
    /\ Goto(a, "lockuser")
    /\ UNCHANGED <<counters, userLock, ipRounds, userRounds, request, stage, n, window>>

LockUser(a) ==
    /\ At(a, "lockuser")
    /\ userLock' = [userLock EXCEPT ![user[a]] = IF @ = None THEN n[a] ELSE @]
    /\ Goto(a, "raiseip")
    /\ UNCHANGED <<counters, ipLock, ipRounds, userRounds, request, stage, n, window>>

RaiseIp(a) ==
    /\ At(a, "raiseip")
    /\ ipRounds' = [ipRounds EXCEPT ![ip[a]] = @ + 1]
    /\ Goto(a, "raiseuser")
    /\ UNCHANGED <<counters, ipLock, userLock, userRounds, request, stage, n, window>>

RaiseUser(a) ==
    /\ At(a, "raiseuser")
    /\ userRounds' = [userRounds EXCEPT ![user[a]] = @ + 1]
    /\ Goto(a, "denied")
    /\ UNCHANGED <<counters, ipLock, userLock, ipRounds, request, stage, n, window>>

-----------------------------------------------------------------------------
(* The allowed attempt is verified. A wrong one ends here; a correct        *)
(* password that still needs a code is forgotten, and the code is checked   *)
(* as an attempt of its own; a completed login clears what it earned.       *)
Verify(a) ==
    /\ At(a, "verify")
    /\ IF Mfa /\ stage[a] = "password" /\ right[a]
         THEN Goto(a, "forgetip")
         ELSE \/ stage[a] = "password" /\ Goto(a, IF right[a] THEN "clearuser" ELSE "failed")
              \/ stage[a] = "code" /\ \E end \in {"clearuser", "failed"} : Goto(a, end)
    /\ UNCHANGED <<counters, locks, request, stage, n, window>>

ClearUser(a) ==
    /\ At(a, "clearuser")
    /\ userCount' = [userCount EXCEPT ![user[a]] = 0]
    /\ Goto(a, "unlockuser")
    /\ UNCHANGED <<ipCount, pairs, locks, request, stage, n, window>>

UnlockUser(a) ==
    /\ At(a, "unlockuser")
    /\ userLock' = [userLock EXCEPT ![user[a]] = None]
    /\ Goto(a, "resetrounds")
    /\ UNCHANGED <<counters, ipLock, ipRounds, userRounds, request, stage, n, window>>

ResetRounds(a) ==
    /\ At(a, "resetrounds")
    /\ userRounds' = [userRounds EXCEPT ![user[a]] = 0]
    /\ Goto(a, IF ClearAll THEN "ownfailures" ELSE "done")
    /\ UNCHANGED <<counters, ipLock, userLock, ipRounds, request, stage, n, window>>

ReadOwnFailures(a) ==
    /\ At(a, "ownfailures")
    /\ Keep(a, pairCount[Pair(a)])
    /\ Goto(a, IF pairCount[Pair(a)] # 0 THEN "clearpair" ELSE "done")
    /\ UNCHANGED <<counters, locks, request, stage, window>>

(* delete() tells whether the key was there: of two successes that read the *)
(* same count only one takes it back.                                       *)
ClearPair(a) ==
    /\ At(a, "clearpair")
    /\ pairCount' = [pairCount EXCEPT ![Pair(a)] = 0]
    /\ pairKeys' = pairKeys \ {Pair(a)}
    /\ Goto(a, IF Pair(a) \in pairKeys THEN "takeback" ELSE "done")
    /\ UNCHANGED <<ipCount, userCount, locks, request, stage, n, window>>

(* Mutant: a success clears the address's counter outright. *)
TakeBackAll(a) ==
    /\ At(a, "takeback")
    /\ ipCount' = [ipCount EXCEPT ![ip[a]] = 0]
    /\ Goto(a, "done")
    /\ UNCHANGED <<userCount, pairs, locks, request, stage, n, window>>

TakeBack(a) ==
    /\ At(a, "takeback")
    /\ ipCount' = [ipCount EXCEPT ![ip[a]] = @ - n[a]]
    /\ Goto(a, "done")
    /\ UNCHANGED <<userCount, pairs, locks, request, stage, n, window>>

-----------------------------------------------------------------------------
(* forget_attempt: for each counter, read it, and take one back if it is    *)
(* positive.                                                                *)
ForgetRead(a, from, count, to, skip) ==
    /\ At(a, from)
    /\ Goto(a, IF count > 0 THEN to ELSE skip)
    /\ UNCHANGED <<counters, locks, request, stage, n, window>>

ForgetIp(a) == ForgetRead(a, "forgetip", ipCount[ip[a]], "decip", "forgetuser")
ForgetUser(a) == ForgetRead(a, "forgetuser", userCount[user[a]], "decuser",
                            IF ClearAll THEN "forgetpair" ELSE "challenged")
ForgetPair(a) == ForgetRead(a, "forgetpair", pairCount[Pair(a)], "decpair", "challenged")

DecrementIp(a) ==
    /\ At(a, "decip")
    /\ ipCount' = [ipCount EXCEPT ![ip[a]] = @ - 1]
    /\ Goto(a, "forgetuser")
    /\ UNCHANGED <<userCount, pairs, locks, request, stage, n, window>>

DecrementUser(a) ==
    /\ At(a, "decuser")
    /\ userCount' = [userCount EXCEPT ![user[a]] = @ - 1]
    /\ Goto(a, IF ClearAll THEN "forgetpair" ELSE "challenged")
    /\ UNCHANGED <<ipCount, pairs, locks, request, stage, n, window>>

DecrementPair(a) ==
    /\ At(a, "decpair")
    /\ pairCount' = [pairCount EXCEPT ![Pair(a)] = @ - 1]
    /\ pairKeys' = pairKeys \cup {Pair(a)}
    /\ Goto(a, "challenged")
    /\ UNCHANGED <<ipCount, userCount, locks, request, stage, n, window>>

AnswerChallenge(a) ==
    /\ At(a, "challenged")
    /\ stage' = [stage EXCEPT ![a] = "code"]
    /\ Goto(a, "iplock")
    /\ UNCHANGED <<counters, locks, request, n, window>>

-----------------------------------------------------------------------------
Checking   == {"iplock", "userlock", "countip", "countuser", "ipwindow", "countpair",
               "rounds", "userrounds", "lockip", "lockuser", "raiseip", "raiseuser"}
Clearing   == {"clearuser", "unlockuser", "resetrounds", "ownfailures", "clearpair",
               "takeback"}
Forgetting == {"forgetip", "decip", "forgetuser", "decuser", "forgetpair", "decpair"}

(* Mutant: an error in the check lets the attempt through. *)
BackendErrorAllows(a) ==
    /\ Faults
    /\ pc[a] \in Checking /\ Goto(a, "verify")
    /\ UNCHANGED <<counters, locks, request, stage, n, window>>

(* A backend operation raises: what was done so far stays, the rest is left *)
(* out, and a check answers as fail_open says.                              *)
BackendError(a) ==
    /\ Faults
    /\ \/ pc[a] \in Checking /\ Goto(a, IF FailOpen THEN "verify" ELSE "denied")
       \/ pc[a] \in Clearing /\ Goto(a, "done")
       \/ pc[a] \in Forgetting /\ Goto(a, "challenged")
    /\ window' = [window EXCEPT !.torn = @ \/ pc[a] \in Forgetting]
    /\ UNCHANGED <<counters, locks, request, stage, n>>

-----------------------------------------------------------------------------
(* TTLs running out.                                                        *)
IpLockEnds(i) ==
    /\ ipLock[i] # None
    /\ ipLock' = [ipLock EXCEPT ![i] = None]
    /\ UNCHANGED <<counters, userLock, ipRounds, userRounds, request, pc, stage, n, window>>

UserLockEnds(u) ==
    /\ userLock[u] # None
    /\ userLock' = [userLock EXCEPT ![u] = None]
    /\ UNCHANGED <<counters, ipLock, ipRounds, userRounds, request, pc, stage, n, window>>

IpWindowEnds(i) ==
    /\ window.ends < MaxWindowEnds /\ Open(i)
    /\ ipCount' = [ipCount EXCEPT ![i] = 0]
    /\ pairCount' = [p \in Ips \X Users |-> IF p[1] = i THEN 0 ELSE pairCount[p]]
    /\ pairKeys' = {p \in pairKeys : p[1] # i}
    /\ window' = [window EXCEPT !.ip = {a \in @ : ip[a] # i},
                                !.torn = @ \/ \E a \in Attempts : ip[a] = i /\ pc[a] \notin Resting,
                                !.ends = @ + 1]
    /\ UNCHANGED <<userCount, locks, request, pc, stage, n>>

UserWindowEnds(u) ==
    /\ window.ends < MaxWindowEnds /\ userCount[u] # 0
    /\ userCount' = [userCount EXCEPT ![u] = 0]
    /\ window' = [window EXCEPT !.user = {a \in @ : user[a] # u}, !.ends = @ + 1]
    /\ UNCHANGED <<ipCount, pairs, locks, request, pc, stage, n>>

-----------------------------------------------------------------------------
CheckStep(a) ==
    \/ ReadIpLock(a) \/ ReadUserLock(a) \/ CountIp(a) \/ CountUser(a)
    \/ ReadIpWindow(a) \/ CountPair(a)
    \/ ReadIpRounds(a) \/ ReadUserRounds(a) \/ LockIp(a) \/ LockUser(a) \/ RaiseIp(a) \/ RaiseUser(a)

ClearStep(a) ==
    \/ ClearUser(a) \/ UnlockUser(a) \/ ResetRounds(a)
    \/ ReadOwnFailures(a) \/ ClearPair(a) \/ TakeBack(a)

ForgetStep(a) ==
    \/ ForgetIp(a) \/ ForgetUser(a) \/ ForgetPair(a)
    \/ DecrementIp(a) \/ DecrementUser(a) \/ DecrementPair(a)
    \/ AnswerChallenge(a)

Next ==
    \/ \E a \in Attempts : CheckStep(a) \/ Verify(a) \/ ClearStep(a) \/ ForgetStep(a)
                            \/ BackendError(a)
    \/ \E i \in Ips : IpLockEnds(i) \/ IpWindowEnds(i)
    \/ \E u \in Users : UserLockEnds(u) \/ UserWindowEnds(u)

Spec == Init /\ [][Next]_vars

-----------------------------------------------------------------------------
(* The type invariant. Counters may be negative, locks are never longer     *)
(* than lockout_max_seconds.                                                *)
TypeOK ==
    /\ ipCount \in [Ips -> Int] /\ userCount \in [Users -> Int]
    /\ pairCount \in [Ips \X Users -> Int] /\ pairKeys \subseteq Ips \X Users
    /\ ipLock \in [Ips -> {None} \cup 0..MaxRounds]
    /\ userLock \in [Users -> {None} \cup 0..MaxRounds]
    /\ ipRounds \in [Ips -> Nat] /\ userRounds \in [Users -> Nat]
    /\ ip \in [Attempts -> Ips] /\ user \in [Attempts -> Users]
    /\ right \in [Attempts -> BOOLEAN]
    /\ pc \in [Attempts -> Checking \cup Clearing \cup Forgetting
                            \cup {"verify", "challenged", "denied", "failed", "done"}]
    /\ stage \in [Attempts -> {"password", "code"}]
    /\ n \in [Attempts -> Int]
    /\ window \in [ip : SUBSET Attempts, user : SUBSET Attempts, torn : BOOLEAN, ends : Nat]

(* A username nobody logs in to with the right password during the run.     *)
Victim(u) == \A a \in Attempts : user[a] = u => ~right[a]

(* The attempts counted in the open window of their address, or username.   *)
FailuresFrom(i) == {a \in window.ip : ip[a] = i /\ Victim(user[a])}

(* What the documentation of on_login_success says: failures against other  *)
(* usernames stay counted for the address, so that logging in to one's own  *)
(* account cannot launder a spray (policy.py LockoutPolicy).                *)
FailuresStayCounted == \A i \in Ips : ipCount[i] >= Cardinality(FailuresFrom(i))

(* It holds however many logins succeed, one after the other or to other    *)
(* accounts or from other addresses, and whatever else runs: a success and  *)
(* the forgotten attempt of a correct password take back no more than that  *)
(* username's own failures. The exceptions: two logins with one account's   *)
(* correct password overlap at one address, an error stops forget_attempt   *)
(* halfway, an address's window ends under an attempt                       *)
(* (policy.py check_and_record, the success branch, and forget_attempt).    *)
SuccessesTakeBackTheirOwn == ~window.torn => FailuresStayCounted

Allowed == {"verify", "failed"}

(* However the attempts interleave and wherever they come from, no more     *)
(* than MaxAttempts guesses at a username get past the lockout in one of    *)
(* its windows (policy.py check_and_record).                                *)
UserBudget ==
    \A u \in Users : Victim(u) =>
        Cardinality({a \in window.user : user[a] = u /\ pc[a] \in Allowed}) <= MaxAttempts
=============================================================================
