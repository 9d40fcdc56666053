-------------------------------- MODULE Sudo --------------------------------
(***************************************************************************)
(* Sudo mode of one account: concurrent elevate() calls on its sessions,   *)
(* the sudo lockout and the elevation stamp kept in the session record.    *)
(* Every await on the counter backend or the session store is a step; each *)
(* single operation on them is atomic. Time is left out: the lock, the     *)
(* window of the failure counter, an elevation and a session may end at    *)
(* any moment. The counter backend is configured. No name is also one of   *)
(* RateLimit, so that one module can state theorems about both.            *)
(***************************************************************************)
EXTENDS Naturals, FiniteSets

CONSTANTS Elevations,   \* calls of elevate, each run once
          Sessions,
          MaxAttempts,  \* SudoConfig.max_attempts
          MaxLapses     \* bound on the locks and counter windows that run out

ASSUME MaxAttemptsIsPositive == MaxAttempts \in Nat \ {0}

VARIABLES fail,      \* sudo:fail:<uid>; 0 also when absent
          locked,    \* sudo:lock:<uid> exists
          session,   \* each session record: "plain", "elevated" or "gone"
          stage,     \* each call: its next step
          sess,      \* each call: the session of its principal
          right,     \* each call: the password or code is correct
          attempt,   \* each call: what _count_attempt returned
          lapses,    \* locks and windows run out so far
          told,      \* history: calls told a number within the limit since the counter
                     \* started afresh, other than by the lock that stands
          late,      \* history: calls past the guard and not counted when the lock was set
          inFlight,  \* history: calls past the guard when the lock was set
          cleared    \* history: sessions the current lock took the stamp from

counters == <<fail, locked, lapses>>
call     == <<sess, right, attempt>>
history  == <<told, late, inFlight, cleared>>
sudoVars == <<counters, session, stage, call, history>>

SudoInit ==
    /\ fail = 0 /\ locked = FALSE /\ lapses = 0
    /\ session = [s \in Sessions |-> "plain"]
    /\ stage = [c \in Elevations |-> "guard"]
    /\ sess \in [Elevations -> Sessions]
    /\ right \in [Elevations -> BOOLEAN]
    /\ attempt = [c \in Elevations |-> 0]
    /\ told = {} /\ late = {}
    /\ inFlight = {} /\ cleared = {}

Advance(c, label) == stage' = [stage EXCEPT ![c] = label]

PastGuard == {"count", "verify", "setlock", "resetfail", "unstamp", "clear", "stamp"}

(* The counter's key is deleted, or its window runs out.                    *)
StartAfresh == fail' = 0 /\ told' = {}

-----------------------------------------------------------------------------
(* elevate: refuse while locked, count, check the password or the code.     *)

(* Mutant: the lock is not looked at. *)
GuardNothing(c) ==
    /\ stage[c] = "guard"
    /\ Advance(c, "count")
    /\ UNCHANGED <<counters, session, call, history>>

Guard(c) ==
    /\ stage[c] = "guard"
    /\ Advance(c, IF locked THEN "refused" ELSE "count")
    /\ UNCHANGED <<counters, session, call, history>>

Told(c, n) == told' = IF n <= MaxAttempts THEN told \cup {c} ELSE told

(* Mutant: the attempt is not counted before the password is checked. *)
CountWithoutWriting(c) ==
    /\ stage[c] = "count"
    /\ attempt' = [attempt EXCEPT ![c] = fail + 1]
    /\ Told(c, fail + 1)
    /\ Advance(c, IF fail + 1 > MaxAttempts THEN "setlock" ELSE "verify")
    /\ UNCHANGED <<counters, session, sess, right, late, inFlight, cleared>>

CountAttempt(c) ==
    /\ stage[c] = "count"
    /\ fail' = fail + 1
    /\ attempt' = [attempt EXCEPT ![c] = fail + 1]
    /\ Told(c, fail + 1)
    /\ Advance(c, IF fail + 1 > MaxAttempts THEN "setlock" ELSE "verify")
    /\ UNCHANGED <<locked, lapses, session, sess, right, late, inFlight, cleared>>

Verify(c) ==
    /\ stage[c] = "verify"
    /\ Advance(c, IF right[c] THEN "clear"
                  ELSE IF attempt[c] >= MaxAttempts THEN "setlock" ELSE "wrong")
    /\ UNCHANGED <<counters, session, call, history>>

(* _lock: set the lock, reset the counter, take the stamp off the session.  *)
SetLock(c) ==
    /\ stage[c] = "setlock"
    /\ locked' = TRUE
    /\ inFlight' = inFlight \cup {d \in Elevations : stage[d] \in PastGuard}
    /\ late' = late \cup {d \in Elevations : stage[d] = "count"}
    /\ Advance(c, "resetfail")
    /\ UNCHANGED <<fail, lapses, session, call, told, cleared>>

ResetFail(c) ==
    /\ stage[c] = "resetfail"
    /\ fail' = 0
    /\ told' = IF locked THEN told ELSE {}
    /\ Advance(c, "unstamp")
    /\ UNCHANGED <<locked, lapses, session, call, late, inFlight, cleared>>

ClearElevation(c) ==
    /\ stage[c] = "unstamp"
    /\ session' = [session EXCEPT ![sess[c]] = IF @ = "gone" THEN @ ELSE "plain"]
    /\ cleared' = IF locked THEN cleared \cup {sess[c]} ELSE cleared
    /\ Advance(c, "tripped")
    /\ UNCHANGED <<counters, call, told, late, inFlight>>

(* The password was right: forget the failures, then stamp the session.     *)
ClearFailures(c) ==
    /\ stage[c] = "clear"
    /\ StartAfresh
    /\ Advance(c, "stamp")
    /\ UNCHANGED <<locked, lapses, session, call, late, inFlight, cleared>>

(* Mutant: the record is written whether or not it is still there. *)
StampAlways(c) ==
    /\ stage[c] = "stamp"
    /\ session' = [session EXCEPT ![sess[c]] = "elevated"]
    /\ Advance(c, "elevated")
    /\ UNCHANGED <<counters, call, history>>

Stamp(c) ==
    /\ stage[c] = "stamp"
    /\ session' = [session EXCEPT ![sess[c]] = IF @ = "gone" THEN @ ELSE "elevated"]
    /\ Advance(c, IF session[sess[c]] = "gone" THEN "refused" ELSE "elevated")
    /\ UNCHANGED <<counters, call, history>>

-----------------------------------------------------------------------------
(* What time and the rest of the system do meanwhile.                       *)
LockEnds ==
    /\ locked /\ lapses < MaxLapses
    /\ locked' = FALSE /\ lapses' = lapses + 1
    /\ told' = {} /\ late' = {} /\ inFlight' = {} /\ cleared' = {}
    /\ UNCHANGED <<fail, session, stage, call>>

WindowEnds ==
    /\ fail > 0 /\ lapses < MaxLapses
    /\ StartAfresh /\ lapses' = lapses + 1
    /\ UNCHANGED <<locked, session, stage, call, late, inFlight, cleared>>

ElevationEnds(s) ==
    /\ session[s] = "elevated"
    /\ session' = [session EXCEPT ![s] = "plain"]
    /\ UNCHANGED <<counters, stage, call, history>>

SessionEnds(s) ==
    /\ session[s] # "gone"
    /\ session' = [session EXCEPT ![s] = "gone"]
    /\ UNCHANGED <<counters, stage, call, history>>

-----------------------------------------------------------------------------
CallStep(c) ==
    \/ Guard(c) \/ CountAttempt(c) \/ Verify(c)
    \/ SetLock(c) \/ ResetFail(c) \/ ClearElevation(c)
    \/ ClearFailures(c) \/ Stamp(c)

SudoNext ==
    \/ \E c \in Elevations : CallStep(c)
    \/ LockEnds \/ WindowEnds
    \/ \E s \in Sessions : ElevationEnds(s) \/ SessionEnds(s)

SudoSpec == SudoInit /\ [][SudoNext]_sudoVars

-----------------------------------------------------------------------------
(* The wrong passwords and codes that were looked at since the counter      *)
(* started afresh.                                                          *)
Guesses == {c \in told : ~right[c] /\ stage[c] # "verify"}

(* No more than max_attempts guesses are looked at before the lock ends or  *)
(* the counter does, however they overlap, but for those that had passed    *)
(* the guard and were yet to be counted when the lock was set: the reset of *)
(* the counter lets these count from one again. docs/guides/auth/sudo.md    *)
(* promises the limit without that exception (sudo.py elevate, _lock).      *)
OvershootWasInFlight == Cardinality(Guesses \ late) <= MaxAttempts

(* While the lock lasts, a session the lockout took the elevation from is   *)
(* elevated only by a correct call that was past the guard when the lock    *)
(* was set (sudo.py _guard_locked, _lock).                                  *)
LockedStaysPlain ==
    \A s \in cleared : session[s] = "elevated" =>
        \E c \in inFlight : sess[c] = s /\ right[c] /\ stage[c] = "elevated"

(* A session that was revoked or expired while its password was checked     *)
(* does not come back elevated (sudo.py elevate, modify_session).           *)
ElevationDiesWithSession ==
    [][\A s \in Sessions : session[s] = "gone" => session'[s] = "gone"]_sudoVars
=============================================================================
