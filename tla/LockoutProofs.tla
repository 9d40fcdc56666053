--------------------------- MODULE LockoutProofs ---------------------------
(***************************************************************************)
(* Theorems about Lockout. The budget of a username rests on the counter:  *)
(* it is told to each attempt before the attempt is let through, and       *)
(* nothing lowers it but a correct password or the end of its window. That *)
(* a success takes back only its own failures is shown with sets in place  *)
(* of numbers: who is counted for an address, who of them for a pair.      *)
(***************************************************************************)
EXTENDS Lockout, FiniteSetTheorems, TLAPS

(* A backend error never lets an attempt through.                           *)
FailClosed == ~(Faults /\ FailOpen)

-----------------------------------------------------------------------------
(* Types. A lock is as long as the rounds that were read, which are capped. *)
TypeInv ==
    /\ TypeOK
    /\ \A a \in Attempts : /\ pc[a] = "userrounds" => n[a] \in Nat
                           /\ pc[a] \in {"lockip", "lockuser"} => n[a] \in 0..MaxRounds

LEMMA WindowType ==
    ASSUME NEW w \in [ip : SUBSET Attempts, user : SUBSET Attempts, torn : BOOLEAN, ends : Nat],
           NEW T \in SUBSET Attempts, NEW torn \in BOOLEAN
    PROVE  /\ [w EXCEPT !.ip = T, !.torn = torn, !.ends = w.ends + 1]
                 \in [ip : SUBSET Attempts, user : SUBSET Attempts, torn : BOOLEAN, ends : Nat]
           /\ [w EXCEPT !.user = T, !.ends = w.ends + 1]
                 \in [ip : SUBSET Attempts, user : SUBSET Attempts, torn : BOOLEAN, ends : Nat]
<1>1. w.ends + 1 \in Nat
  OBVIOUS
<1>2. PICK e \in Nat : e = w.ends + 1
  BY <1>1
<1>3. [w EXCEPT !.ip = T, !.torn = torn, !.ends = e]
          \in [ip : SUBSET Attempts, user : SUBSET Attempts, torn : BOOLEAN, ends : Nat]
  OBVIOUS
<1>4. [w EXCEPT !.user = T, !.ends = e]
          \in [ip : SUBSET Attempts, user : SUBSET Attempts, torn : BOOLEAN, ends : Nat]
  OBVIOUS
<1>. QED
  BY <1>2, <1>3, <1>4

LEMMA CheckTypes == ASSUME TypeInv, NEW a \in Attempts, CheckStep(a) PROVE TypeInv'
<1>. USE BoundsAreNatural DEF TypeInv, TypeOK, Goto, At, Keep, counters, pairs, locks, request, Pair,
                              Checking, Clearing, Forgetting, None
<1>1. CASE ReadIpLock(a)
  BY <1>1 DEF ReadIpLock
<1>2. CASE ReadUserLock(a)
  BY <1>2 DEF ReadUserLock
<1>3. CASE CountIp(a)
  <2>1. window' \in [ip : SUBSET Attempts, user : SUBSET Attempts, torn : BOOLEAN, ends : Nat]
    <3>1. PICK t \in BOOLEAN : t = (window.torn \/ Overlaps(a))
      OBVIOUS
    <3>. QED
      BY <1>3, <3>1 DEF CountIp
  <2>. QED
    BY <1>3, <2>1, SMTT(30) DEF CountIp
<1>4. CASE CountUser(a)
  <2>1. n' \in [Attempts -> Int] /\ userCount' \in [Users -> Int]
    BY <1>4 DEF CountUser, Max2
  <2>2. PICK end \in {"ipwindow", "verify", "rounds"} : pc' = [pc EXCEPT ![a] = end]
    BY <1>4 DEF CountUser, Decide
  <2>3. \A b \in Attempts : b # a => n'[b] = n[b]
    BY <1>4 DEF CountUser
  <2>4. window' \in [ip : SUBSET Attempts, user : SUBSET Attempts, torn : BOOLEAN, ends : Nat]
    BY <1>4 DEF CountUser
  <2>5. \A b \in Attempts : /\ pc'[b] = "userrounds" => n'[b] \in Nat
                            /\ pc'[b] \in {"lockip", "lockuser"} => n'[b] \in 0..MaxRounds
    BY <2>2, <2>3
  <2>6. pc' \in [Attempts -> Checking \cup Clearing \cup Forgetting \cup {"verify", "challenged", "denied", "failed", "done"}]
    BY <2>2
  <2>7. UNCHANGED <<ipCount, pairCount, pairKeys, ipLock, userLock, ipRounds, userRounds, ip, user, right, stage>>
    BY <1>4 DEF CountUser
  <2>8. TypeOK'
    BY <2>1, <2>4, <2>6, <2>7
  <2>. HIDE DEF TypeOK
  <2>. QED
    BY <2>5, <2>8
<1>5. CASE ReadIpWindow(a)
  BY <1>5 DEF ReadIpWindow, Decide
<1>6. CASE CountPair(a)
  BY <1>6 DEF CountPair, Decide
<1>7. CASE ReadIpRounds(a)
  BY <1>7 DEF ReadIpRounds
<1>12. CASE ReadUserRounds(a)
  BY <1>12 DEF ReadUserRounds, Max2, Min2
<1>8. CASE LockIp(a)
  BY <1>8 DEF LockIp
<1>9. CASE LockUser(a)
  BY <1>9 DEF LockUser
<1>10. CASE RaiseIp(a)
  BY <1>10 DEF RaiseIp
<1>11. CASE RaiseUser(a)
  BY <1>11 DEF RaiseUser
<1>. QED
  BY <1>1, <1>2, <1>3, <1>4, <1>5, <1>6, <1>7, <1>8, <1>9, <1>10, <1>11, <1>12 DEF CheckStep

LEMMA ClearTypes == ASSUME TypeInv, NEW a \in Attempts, ClearStep(a) PROVE TypeInv'
<1>. USE BoundsAreNatural DEF TypeInv, TypeOK, Goto, At, Keep, counters, pairs, locks, request, Pair,
                              Checking, Clearing, Forgetting, None
<1>1. CASE ClearUser(a)
  BY <1>1 DEF ClearUser
<1>2. CASE UnlockUser(a)
  BY <1>2 DEF UnlockUser
<1>3. CASE ResetRounds(a)
  BY <1>3 DEF ResetRounds
<1>4. CASE ReadOwnFailures(a)
  BY <1>4 DEF ReadOwnFailures
<1>5. CASE ClearPair(a)
  BY <1>5 DEF ClearPair
<1>6. CASE TakeBack(a)
  BY <1>6 DEF TakeBack
<1>. QED
  BY <1>1, <1>2, <1>3, <1>4, <1>5, <1>6 DEF ClearStep

LEMMA ForgetTypes == ASSUME TypeInv, NEW a \in Attempts, ForgetStep(a) PROVE TypeInv'
<1>. USE BoundsAreNatural DEF TypeInv, TypeOK, Goto, At, Keep, counters, pairs, locks, request, Pair,
                              Checking, Clearing, Forgetting, None
<1>1. CASE ForgetIp(a)
  BY <1>1 DEF ForgetIp, ForgetRead
<1>2. CASE ForgetUser(a)
  BY <1>2 DEF ForgetUser, ForgetRead
<1>3. CASE ForgetPair(a)
  BY <1>3 DEF ForgetPair, ForgetRead
<1>4. CASE DecrementIp(a)
  BY <1>4 DEF DecrementIp
<1>5. CASE DecrementUser(a)
  BY <1>5 DEF DecrementUser
<1>6. CASE DecrementPair(a)
  BY <1>6 DEF DecrementPair
<1>7. CASE AnswerChallenge(a)
  BY <1>7 DEF AnswerChallenge
<1>. QED
  BY <1>1, <1>2, <1>3, <1>4, <1>5, <1>6, <1>7 DEF ForgetStep

LEMMA AnswerTypes == ASSUME TypeInv, NEW a \in Attempts, Verify(a) \/ BackendError(a) PROVE TypeInv'
<1>. USE BoundsAreNatural DEF TypeInv, TypeOK, Goto, At, Keep, counters, pairs, locks, request, Pair,
                              Checking, Clearing, Forgetting, None
<1>1. CASE Verify(a)
  BY <1>1, SMTT(30) DEF Verify
<1>2. CASE BackendError(a)
  BY <1>2, ZenonT(60) DEF BackendError
<1>. QED
  BY <1>1, <1>2

LEMMA IpTypes == ASSUME TypeInv, NEW i \in Ips, IpLockEnds(i) \/ IpWindowEnds(i) PROVE TypeInv'
<1>. USE BoundsAreNatural DEF TypeInv, TypeOK, Goto, At, Keep, counters, pairs, locks, request, Pair,
                              Checking, Clearing, Forgetting, None
<1>1. CASE IpLockEnds(i)
  BY <1>1 DEF IpLockEnds
<1>2. CASE IpWindowEnds(i)
  <2>1. window' \in [ip : SUBSET Attempts, user : SUBSET Attempts, torn : BOOLEAN, ends : Nat]
    <3>1. PICK torn \in BOOLEAN, T \in SUBSET Attempts :
              window' = [window EXCEPT !.ip = T, !.torn = torn, !.ends = window.ends + 1]
      BY <1>2 DEF IpWindowEnds
    <3>. QED
      BY <3>1, WindowType
  <2>2. pairCount' \in [Ips \X Users -> Int] /\ pairKeys' \subseteq Ips \X Users
    BY <1>2 DEF IpWindowEnds
  <2>. QED
    <3>1. ipCount' \in [Ips -> Int] /\ UNCHANGED <<userCount, locks, request, pc, stage, n>>
      BY <1>2 DEF IpWindowEnds
    <3>. QED
      BY <2>1, <2>2, <3>1
<1>. QED
  BY <1>1, <1>2

LEMMA UserTypes == ASSUME TypeInv, NEW u \in Users, UserLockEnds(u) \/ UserWindowEnds(u) PROVE TypeInv'
<1>. USE BoundsAreNatural DEF TypeInv, TypeOK, Goto, At, Keep, counters, pairs, locks, request, Pair,
                              Checking, Clearing, Forgetting, None
<1>1. CASE UserLockEnds(u)
  BY <1>1 DEF UserLockEnds
<1>2. CASE UserWindowEnds(u)
  <2>1. window' \in [ip : SUBSET Attempts, user : SUBSET Attempts, torn : BOOLEAN, ends : Nat]
    <3>1. PICK T \in SUBSET Attempts : window' = [window EXCEPT !.user = T, !.ends = window.ends + 1]
      BY <1>2 DEF UserWindowEnds
    <3>. QED
      BY <3>1, WindowType
  <2>. QED
    <3>1. userCount' \in [Users -> Int] /\ UNCHANGED <<ipCount, pairs, locks, request, pc, stage, n>>
      BY <1>2 DEF UserWindowEnds
    <3>. QED
      BY <2>1, <3>1
<1>. QED
  BY <1>1, <1>2

LEMMA TypesAlways == Spec => []TypeInv
<1>1. Init => TypeInv
  BY BoundsAreNatural DEF Init, TypeInv, TypeOK, Checking, None
<1>2. TypeInv /\ [Next]_vars => TypeInv'
  <2>. SUFFICES ASSUME TypeInv, [Next]_vars PROVE TypeInv'
    OBVIOUS
  <2>1. CASE UNCHANGED vars
    BY <2>1 DEF TypeInv, TypeOK, vars, counters, pairs, locks, request
  <2>2. CASE Next
    BY <2>2, CheckTypes, ClearTypes, ForgetTypes, AnswerTypes, IpTypes, UserTypes DEF Next
  <2>. QED
    BY <2>1, <2>2
<1>. QED
  BY <1>1, <1>2, PTL DEF Spec

(* The counters of the lockout stay numbers, and no lock is longer than     *)
(* lockout_max_seconds, whatever the rounds (policy.py check_and_record).   *)
THEOREM TypeCorrect == Spec => []TypeOK
<1>1. TypeInv => TypeOK
  BY DEF TypeInv
<1>. QED
  BY <1>1, TypesAlways, PTL
-----------------------------------------------------------------------------
(* A step of an attempt is about that attempt.                              *)
Alone(a) ==
    /\ UNCHANGED request
    /\ \A b \in Attempts \ {a} : pc'[b] = pc[b] /\ stage'[b] = stage[b] /\ n'[b] = n[b]

Quiet(a) == Alone(a) /\ UNCHANGED <<counters, window>> /\ n'[a] = n[a]

Step(a) == CheckStep(a) \/ Verify(a) \/ ClearStep(a) \/ ForgetStep(a) \/ BackendError(a)

LEMMA CheckMoves ==
    ASSUME TypeOK, NEW a \in Attempts, CheckStep(a)
    PROVE  /\ Alone(a) /\ stage' = stage /\ pc'[a] \in Checking \cup {"verify", "denied"}
           /\ CountIp(a) \/ CountUser(a) \/ CountPair(a) \/ UNCHANGED <<counters, window>>
           /\ CountUser(a) \/ UNCHANGED <<userCount, window.user>>
           /\ pc'[a] \in {"verify", "ipwindow", "countpair"} =>
                \/ CountUser(a)
                \/ ReadIpWindow(a) \/ CountPair(a)
<1>. USE DEF TypeOK, Goto, At, Keep, counters, pairs, locks, request, Alone, Checking
<1>1. CASE ReadIpLock(a)
  BY <1>1 DEF ReadIpLock
<1>2. CASE ReadUserLock(a)
  BY <1>2 DEF ReadUserLock
<1>3. CASE CountIp(a)
  BY <1>3 DEF CountIp
<1>4. CASE CountUser(a)
  <2>1. pc'[a] \in {"ipwindow", "verify", "rounds"}
    BY <1>4 DEF CountUser, Decide
  <2>. QED
    BY <1>4, <2>1 DEF CountUser
<1>5. CASE ReadIpWindow(a)
  BY <1>5 DEF ReadIpWindow, Decide
<1>6. CASE CountPair(a)
  BY <1>6 DEF CountPair, Decide
<1>7. CASE ReadIpRounds(a) \/ ReadUserRounds(a)
  BY <1>7 DEF ReadIpRounds, ReadUserRounds
<1>8. CASE LockIp(a)
  BY <1>8 DEF LockIp
<1>9. CASE LockUser(a)
  BY <1>9 DEF LockUser
<1>10. CASE RaiseIp(a)
  BY <1>10 DEF RaiseIp
<1>11. CASE RaiseUser(a)
  BY <1>11 DEF RaiseUser
<1>. QED
  BY <1>1, <1>2, <1>3, <1>4, <1>5, <1>6, <1>7, <1>8, <1>9, <1>10, <1>11 DEF CheckStep

LEMMA CheckStarts == ASSUME NEW a \in Attempts, CheckStep(a) PROVE pc[a] \in Checking
BY DEF CheckStep, ReadIpLock, ReadUserLock, CountIp, CountUser, ReadIpWindow, CountPair, ReadIpRounds, ReadUserRounds,
       LockIp, LockUser, RaiseIp, RaiseUser, At, Checking

LEMMA ClearMoves ==
    ASSUME TypeOK, NEW a \in Attempts, ClearStep(a)
    PROVE  /\ Alone(a) /\ UNCHANGED <<stage, window>> /\ pc[a] \in Clearing /\ pc'[a] \in Clearing \cup {"done"}
           /\ \A u \in Users : u # user[a] => userCount'[u] = userCount[u]
<1>. USE DEF TypeOK, Goto, At, Keep, counters, pairs, locks, request, Alone, Clearing
<1>1. CASE ClearUser(a)
  BY <1>1 DEF ClearUser
<1>2. CASE UnlockUser(a)
  BY <1>2 DEF UnlockUser
<1>3. CASE ResetRounds(a)
  BY <1>3 DEF ResetRounds
<1>4. CASE ReadOwnFailures(a)
  BY <1>4 DEF ReadOwnFailures
<1>5. CASE ClearPair(a)
  BY <1>5 DEF ClearPair
<1>6. CASE TakeBack(a)
  BY <1>6 DEF TakeBack
<1>. QED
  BY <1>1, <1>2, <1>3, <1>4, <1>5, <1>6 DEF ClearStep

LEMMA ForgetMoves ==
    ASSUME TypeOK, NEW a \in Attempts, ForgetStep(a)
    PROVE  /\ Alone(a) /\ UNCHANGED window
           /\ pc[a] \in Forgetting \cup {"challenged"}
           /\ pc'[a] \in Forgetting \cup {"challenged", "iplock"}
           /\ \A u \in Users : u # user[a] => userCount'[u] = userCount[u]
<1>. USE DEF TypeOK, Goto, At, Keep, counters, pairs, locks, request, Alone, Forgetting
<1>1. CASE ForgetIp(a)
  BY <1>1 DEF ForgetIp, ForgetRead
<1>2. CASE ForgetUser(a)
  BY <1>2 DEF ForgetUser, ForgetRead
<1>3. CASE ForgetPair(a)
  BY <1>3 DEF ForgetPair, ForgetRead
<1>4. CASE DecrementIp(a)
  BY <1>4 DEF DecrementIp
<1>5. CASE DecrementUser(a)
  BY <1>5 DEF DecrementUser
<1>6. CASE DecrementPair(a)
  BY <1>6 DEF DecrementPair
<1>7. CASE AnswerChallenge(a)
  BY <1>7 DEF AnswerChallenge
<1>. QED
  BY <1>1, <1>2, <1>3, <1>4, <1>5, <1>6, <1>7 DEF ForgetStep

LEMMA VerifyMoves ==
    ASSUME TypeOK, NEW a \in Attempts, Verify(a)
    PROVE  /\ Quiet(a) /\ stage' = stage /\ pc[a] = "verify"
           /\ pc'[a] \in {"forgetip", "clearuser", "failed"}
           /\ pc'[a] \in {"forgetip", "clearuser"} => right[a] \/ stage[a] = "code"
BY DEF TypeOK, Goto, At, counters, pairs, locks, request, Alone, Quiet, Verify

LEMMA ErrorMoves ==
    ASSUME TypeOK, FailClosed, NEW a \in Attempts, BackendError(a)
    PROVE  /\ Alone(a) /\ UNCHANGED <<counters, stage, n>> /\ window'.user = window.user /\ window'.ip = window.ip
           /\ \/ pc[a] \in Checking /\ pc'[a] = "denied" /\ window'.torn = window.torn
              \/ pc[a] \in Clearing /\ pc'[a] = "done" /\ window'.torn = window.torn
              \/ pc[a] \in Forgetting /\ pc'[a] = "challenged" /\ window'.torn
BY DEF TypeOK, Goto, At, counters, pairs, locks, request, Alone, BackendError, FailClosed, Checking, Clearing, Forgetting

-----------------------------------------------------------------------------
(* Only a correct password is cleared, forgotten or answered with a         *)
(* challenge.                                                               *)
RightInv ==
    \A a \in Attempts :
        pc[a] \in Clearing \cup Forgetting \cup {"challenged"} \/ stage[a] = "code" => right[a]

LEMMA RightKept == ASSUME FailClosed, TypeOK, RightInv, [Next]_vars PROVE RightInv'
<1>1. ASSUME NEW a \in Attempts, Alone(a),
             pc'[a] \in Clearing \cup Forgetting \cup {"challenged"} \/ stage'[a] = "code" => right[a]
      PROVE  RightInv'
  BY <1>1 DEF RightInv, Alone, request
<1>2. ASSUME NEW a \in Attempts, CheckStep(a) PROVE RightInv'
  <2>1. pc'[a] \notin Clearing \cup Forgetting \cup {"challenged"} /\ stage'[a] = stage[a] /\ Alone(a)
    BY <1>2, CheckMoves DEF Checking, Clearing, Forgetting
  <2>. QED
    BY <1>1, <2>1 DEF RightInv
<1>3. ASSUME NEW a \in Attempts, Verify(a) PROVE RightInv'
  BY <1>1, <1>3, VerifyMoves DEF RightInv, Quiet, Clearing, Forgetting
<1>4. ASSUME NEW a \in Attempts, ClearStep(a) PROVE RightInv'
  BY <1>1, <1>4, ClearMoves DEF RightInv
<1>5. ASSUME NEW a \in Attempts, ForgetStep(a) PROVE RightInv'
  BY <1>1, <1>5, ForgetMoves DEF RightInv
<1>6. ASSUME NEW a \in Attempts, BackendError(a) PROVE RightInv'
  BY <1>1, <1>6, ErrorMoves DEF RightInv, Checking, Clearing, Forgetting
<1>7. CASE UNCHANGED <<pc, stage, request>>
  BY <1>7 DEF RightInv, request
<1>8. ASSUME NEW i \in Ips, IpLockEnds(i) \/ IpWindowEnds(i) PROVE UNCHANGED <<pc, stage, request>>
  BY <1>8 DEF IpLockEnds, IpWindowEnds
<1>9. ASSUME NEW u \in Users, UserLockEnds(u) \/ UserWindowEnds(u) PROVE UNCHANGED <<pc, stage, request>>
  BY <1>9 DEF UserLockEnds, UserWindowEnds
<1>10. CASE UNCHANGED vars
  BY <1>7, <1>10 DEF vars
<1>. QED
  BY <1>2, <1>3, <1>4, <1>5, <1>6, <1>7, <1>8, <1>9, <1>10 DEF Next

LEMMA RightAlways == ASSUME FailClosed PROVE Spec => [](TypeOK /\ RightInv)
<1>1. Init => RightInv
  BY DEF Init, RightInv, Clearing, Forgetting
<1>2. TypeOK /\ RightInv /\ [Next]_vars => RightInv'
  BY RightKept
<1>. QED
  BY <1>1, <1>2, TypeCorrect, PTL DEF Spec

(* The budget of a username. An attempt is bound to pass once it was told a *)
(* number within the limit; there are no more of those in a window than the *)
(* counter says, and no more than the limit.                                *)
Bound(a) == pc[a] \in Allowed \/ (pc[a] \in {"ipwindow", "countpair"} /\ n[a] <= MaxAttempts)

Passing(u) == {a \in window.user : user[a] = u /\ Bound(a)}

BudgetOf(u) ==
    /\ IsFiniteSet(Passing(u))
    /\ Cardinality(Passing(u)) <= userCount[u]
    /\ Cardinality(Passing(u)) <= MaxAttempts

BudgetInv == \A u \in Users : Victim(u) => BudgetOf(u)

(* A step that counts nobody, and lets nobody pass who was not bound to.    *)
LEMMA BudgetSame ==
    ASSUME TypeOK, BudgetInv, UNCHANGED <<user, right>>,
           \A u \in Users : Victim(u) => Passing(u)' \subseteq Passing(u) /\ userCount'[u] = userCount[u]
    PROVE  BudgetInv'
<1>. SUFFICES ASSUME NEW u \in Users, Victim(u)' PROVE BudgetOf(u)'
  BY DEF BudgetInv
<1>1. Victim(u) /\ BudgetOf(u)
  BY DEF Victim, BudgetInv
<1>2. PICK S, T : S = Passing(u) /\ T = Passing(u)'
  OBVIOUS
<1>3. IsFiniteSet(S) /\ T \subseteq S /\ userCount'[u] = userCount[u]
  BY <1>1, <1>2 DEF BudgetOf
<1>4. IsFiniteSet(T) /\ Cardinality(T) <= Cardinality(S)
  BY <1>3, FS_Subset
<1>5. Cardinality(T) \in Nat /\ Cardinality(S) \in Nat
  BY <1>3, <1>4, FS_CardinalityType
<1>6. Cardinality(S) <= userCount[u] /\ Cardinality(S) <= MaxAttempts
  BY <1>1, <1>2 DEF BudgetOf
<1>7. Cardinality(T) <= userCount'[u] /\ Cardinality(T) <= MaxAttempts
  BY <1>3, <1>4, <1>5, <1>6, BoundsAreNatural DEF TypeOK
<1>. QED
  BY <1>2, <1>4, <1>7 DEF BudgetOf

LEMMA BudgetAlone ==
    ASSUME TypeOK, BudgetInv, NEW a \in Attempts, Alone(a), window'.user = window.user,
           \A u \in Users : Victim(u) => userCount'[u] = userCount[u],
           ~right[a] => (Bound(a)' => Bound(a))
    PROVE  BudgetInv'
<1>1. UNCHANGED <<user, right>>
  BY DEF Alone, request
<1>2. ASSUME NEW u \in Users, Victim(u), NEW b \in Passing(u)' PROVE b \in Passing(u)
  <2>1. b \in window.user /\ user[b] = u /\ Bound(b)' /\ b \in Attempts
    BY <1>1, <1>2 DEF Passing, TypeOK
  <2>2. ~right[b]
    BY <1>2, <2>1 DEF Victim
  <2>3. Bound(b)
    BY <2>1, <2>2 DEF Bound, Alone
  <2>. QED
    BY <2>1, <2>3 DEF Passing
<1>. QED
  BY <1>1, <1>2, BudgetSame

(* The attempt that is counted is told the new count.                       *)
LEMMA CountKeepsBudget ==
    ASSUME TypeOK, BudgetInv, NEW a \in Attempts, CountUser(a)
    PROVE  BudgetInv'
<1>. SUFFICES ASSUME NEW u \in Users, Victim(u)' PROVE BudgetOf(u)'
  BY DEF BudgetInv
<1>1. Alone(a) /\ window'.user = window.user \cup {a} /\ UNCHANGED <<user, right>>
  BY CheckMoves DEF CheckStep, CountUser, TypeOK, request
<1>2. Victim(u) /\ BudgetOf(u)
  BY <1>1 DEF Victim, BudgetInv
<1>3. PICK S, T : S = Passing(u) /\ T = Passing(u)'
  OBVIOUS
<1>4. T \subseteq S \cup {a}
  <2>. SUFFICES ASSUME NEW b \in T, b # a PROVE b \in S
    OBVIOUS
  <2>1. b \in window.user /\ user[b] = u /\ Bound(b)' /\ b \in Attempts
    BY <1>1, <1>3 DEF Passing, TypeOK
  <2>2. Bound(b)
    BY <1>1, <2>1 DEF Bound, Alone
  <2>. QED
    BY <1>3, <2>1, <2>2 DEF Passing
<1>5. IsFiniteSet(S) /\ Cardinality(S) \in Nat /\ Cardinality(S) <= userCount[u] /\ Cardinality(S) <= MaxAttempts
  BY <1>2, <1>3, FS_CardinalityType DEF BudgetOf
<1>6. userCount \in [Users -> Int] /\ userCount' = [userCount EXCEPT ![user[a]] = @ + 1] /\ n \in [Attempts -> Int]
  BY DEF CountUser, TypeOK
<1>7. CASE a \in T
  <2>1. user[a] = u /\ Bound(a)'
    BY <1>1, <1>3, <1>7 DEF Passing
  <2>2. n'[a] >= userCount[u] + 1 /\ n'[a] \in Int
    BY <1>6, <2>1 DEF CountUser, Keep, Max2, TypeOK
  <2>3. n'[a] <= MaxAttempts
    <3>1. pc'[a] = IF ClearAll THEN "ipwindow" ELSE Decide(a, n'[a])
      BY DEF CountUser, Goto, TypeOK
    <3>2. CASE ClearAll
      BY <2>1, <3>1, <3>2 DEF Bound, Allowed
    <3>3. CASE ~ClearAll
      BY <2>1, <3>1, <3>3 DEF Bound, Allowed, Decide
    <3>. QED
      BY <3>2, <3>3
  <2>4. userCount'[u] = userCount[u] + 1
    BY <1>6, <2>1
  <2>5. IsFiniteSet(S \cup {a}) /\ Cardinality(S \cup {a}) <= Cardinality(S) + 1 /\ Cardinality(S \cup {a}) \in Nat
    <3>1. IsFiniteSet(S \cup {a}) /\ Cardinality(S \cup {a}) = IF a \in S THEN Cardinality(S) ELSE Cardinality(S) + 1
      BY <1>5, FS_AddElement
    <3>. QED
      BY <1>5, <3>1
  <2>6. IsFiniteSet(T) /\ Cardinality(T) <= Cardinality(S \cup {a}) /\ Cardinality(T) \in Nat
    BY <1>4, <2>5, FS_Subset, FS_CardinalityType
  <2>7. userCount[u] \in Int
    BY <1>6
  <2>8. Cardinality(T) <= userCount'[u] /\ Cardinality(T) <= MaxAttempts
    BY <1>5, <2>2, <2>3, <2>4, <2>5, <2>6, <2>7, BoundsAreNatural
  <2>. QED
    BY <1>3, <2>6, <2>8 DEF BudgetOf
<1>8. CASE a \notin T
  <2>1. IsFiniteSet(T) /\ Cardinality(T) <= Cardinality(S) /\ Cardinality(T) \in Nat
    BY <1>4, <1>5, <1>8, FS_Subset, FS_CardinalityType
  <2>2. userCount[u] \in Int /\ userCount'[u] \in {userCount[u], userCount[u] + 1}
    BY <1>6
  <2>3. Cardinality(T) <= userCount'[u] /\ Cardinality(T) <= MaxAttempts
    BY <1>5, <2>1, <2>2, BoundsAreNatural
  <2>. QED
    BY <1>3, <2>1, <2>3 DEF BudgetOf
<1>. QED
  BY <1>7, <1>8

LEMMA BudgetKept == ASSUME FailClosed, TypeOK, RightInv, BudgetInv, [Next]_vars PROVE BudgetInv'
<1>1. ASSUME NEW a \in Attempts, CheckStep(a) PROVE BudgetInv'
  <2>1. CASE CountUser(a)
    BY <2>1, CountKeepsBudget
  <2>2. CASE ~CountUser(a)
    <3>1. Alone(a) /\ UNCHANGED userCount /\ window'.user = window.user
      BY <1>1, <2>2, CheckMoves
    <3>2. CASE pc'[a] \in {"verify", "ipwindow", "countpair"}
      <4>1. ReadIpWindow(a) \/ CountPair(a)
        BY <1>1, <2>2, <3>2, CheckMoves
      <4>2. Bound(a)' => Bound(a)
        BY <4>1 DEF ReadIpWindow, CountPair, Bound, Allowed, Decide, At, Goto, TypeOK
      <4>. QED
        BY <3>1, <4>2, BudgetAlone
    <3>3. CASE pc'[a] \notin {"verify", "ipwindow", "countpair"}
      <4>1. ~Bound(a)'
        BY <1>1, <3>3, CheckMoves DEF Bound, Allowed, Checking
      <4>. QED
        BY <3>1, <4>1, BudgetAlone
    <3>. QED
      BY <3>2, <3>3
  <2>. QED
    BY <2>1, <2>2
<1>2. ASSUME NEW a \in Attempts, Verify(a) PROVE BudgetInv'
  BY <1>2, VerifyMoves, BudgetAlone DEF Quiet, counters, Bound, Allowed
<1>3. ASSUME NEW a \in Attempts, ClearStep(a) PROVE BudgetInv'
  <2>1. Alone(a) /\ window' = window /\ right[a] /\ \A u \in Users : u # user[a] => userCount'[u] = userCount[u]
    BY <1>3, ClearMoves DEF RightInv
  <2>. QED
    BY <2>1, BudgetAlone DEF Victim
<1>4. ASSUME NEW a \in Attempts, ForgetStep(a) PROVE BudgetInv'
  <2>1. Alone(a) /\ window' = window /\ right[a] /\ \A u \in Users : u # user[a] => userCount'[u] = userCount[u]
    BY <1>4, ForgetMoves DEF RightInv
  <2>. QED
    BY <2>1, BudgetAlone DEF Victim
<1>5. ASSUME NEW a \in Attempts, BackendError(a) PROVE BudgetInv'
  <2>1. Alone(a) /\ window'.user = window.user /\ userCount' = userCount /\ pc'[a] \in {"denied", "done", "challenged"}
    BY <1>5, ErrorMoves DEF counters
  <2>2. ~Bound(a)'
    BY <2>1 DEF Bound, Allowed
  <2>. QED
    BY <2>1, <2>2, BudgetAlone
<1>6. ASSUME UNCHANGED <<request, pc, n, userCount>>, window'.user = window.user PROVE BudgetInv'
  <2>1. \A u \in Users : Passing(u)' = Passing(u)
    BY <1>6 DEF Passing, Bound, request
  <2>. QED
    BY <1>6, <2>1, BudgetSame DEF request
<1>7. ASSUME NEW i \in Ips, IpLockEnds(i) \/ IpWindowEnds(i) PROVE BudgetInv'
  BY <1>6, <1>7 DEF IpLockEnds, IpWindowEnds, counters, TypeOK
<1>8. ASSUME NEW u \in Users, UserLockEnds(u) PROVE BudgetInv'
  BY <1>6, <1>8 DEF UserLockEnds, counters
<1>9. ASSUME NEW u \in Users, UserWindowEnds(u) PROVE BudgetInv'
  <2>. SUFFICES ASSUME NEW v \in Users, Victim(v)' PROVE BudgetOf(v)'
    BY DEF BudgetInv
  <2>1. /\ UNCHANGED <<ip, user, right, pc, n>> /\ userCount' = [userCount EXCEPT ![u] = 0]
        /\ window'.user = {a \in window.user : user[a] # u}
    BY <1>9 DEF UserWindowEnds, request, TypeOK
  <2>2. BudgetOf(v)
    BY <2>1 DEF Victim, BudgetInv
  <2>3. CASE v = u
    <3>1. Passing(v)' = {} /\ userCount'[v] = 0
      BY <2>1, <2>3 DEF Passing, TypeOK
    <3>. QED
      BY <3>1, FS_EmptySet, BoundsAreNatural DEF BudgetOf
  <2>4. CASE v # u
    <3>1. Passing(v)' = Passing(v) /\ userCount'[v] = userCount[v]
      BY <2>1, <2>4 DEF Passing, Bound, TypeOK
    <3>. QED
      BY <2>2, <3>1 DEF BudgetOf
  <2>. QED
    BY <2>3, <2>4
<1>10. CASE UNCHANGED vars
  BY <1>6, <1>10 DEF vars, counters
<1>. QED
  BY <1>1, <1>2, <1>3, <1>4, <1>5, <1>7, <1>8, <1>9, <1>10 DEF Next

(* However the attempts interleave, however many there are and wherever     *)
(* they come from, no more than max_attempts guesses at a username get past *)
(* the lockout in one of its windows, as long as a backend error does not   *)
(* let an attempt through (policy.py check_and_record, fail_open off).      *)
THEOREM UserBudgetKept == ASSUME FailClosed PROVE Spec => []UserBudget
<1>1. Init => BudgetInv
  <2>. SUFFICES ASSUME Init, NEW u \in Users PROVE BudgetOf(u)
    BY DEF BudgetInv
  <2>1. Passing(u) = {} /\ userCount[u] = 0
    BY DEF Init, Passing
  <2>. QED
    BY <2>1, FS_EmptySet, BoundsAreNatural DEF BudgetOf
<1>2. TypeOK /\ RightInv /\ BudgetInv /\ [Next]_vars => BudgetInv'
  BY BudgetKept
<1>3. TypeOK /\ BudgetInv => UserBudget
  <2>. SUFFICES ASSUME TypeOK, BudgetInv, NEW u \in Users, Victim(u), NEW S,
                       S = {a \in window.user : user[a] = u /\ pc[a] \in Allowed}
                PROVE  Cardinality(S) <= MaxAttempts
    BY DEF UserBudget
  <2>1. PICK T : T = Passing(u)
    OBVIOUS
  <2>2. IsFiniteSet(T) /\ Cardinality(T) <= MaxAttempts
    BY <2>1 DEF BudgetInv, BudgetOf
  <2>3. S \subseteq T
    BY <2>1 DEF Passing, Bound
  <2>4. Cardinality(S) <= Cardinality(T) /\ Cardinality(S) \in Nat /\ Cardinality(T) \in Nat
    BY <2>2, <2>3, FS_Subset, FS_CardinalityType
  <2>. QED
    BY <2>2, <2>4, BoundsAreNatural
<1>. QED
  BY <1>1, <1>2, <1>3, RightAlways, PTL DEF Spec

-----------------------------------------------------------------------------
(* What is taken back. K is the set of attempts that the counters of their  *)
(* addresses count, P of those that the counters of their pairs count, and  *)
(* Q[a] what a success is about to take back.                               *)
From(K, i) == {a \in K : ip[a] = i}
For(P, p)  == {a \in P : Pair(a) = p}

Pending   == {"countuser", "ipwindow", "countpair"}
Forgotten == {"forgetuser", "decuser", "forgetpair", "decpair"}
Uncounted == {"iplock", "userlock", "countip", "challenged"} \cup Forgotten
Unpaired  == {"iplock", "userlock", "countip", "challenged"} \cup Pending

Own(a, K, P) ==
    /\ a \in K => pc[a] \notin Uncounted
    /\ a \in P => ClearAll /\ pc[a] \notin Unpaired /\ (pc[a] \notin Forgotten => a \in K)
    /\ pc[a] \in Pending => a \in K
    /\ right[a] /\ pc[a] \in {"verify", "forgetip", "decip"} => a \in K
    /\ ClearAll /\ right[a] /\ pc[a] \in {"verify", "forgetip", "decip"} \cup Forgotten => a \in P
    /\ pc[a] \in {"ipwindow", "countpair", "forgetpair", "decpair"} => ClearAll

Takes(a, K, P, S) ==
    /\ pc[a] \in {"clearpair", "takeback"} =>
         /\ S \subseteq From(K, ip[a]) /\ n[a] = Cardinality(S)
         /\ \A c \in S : Pair(c) = Pair(a) /\ pc[c] \notin Pending
    /\ pc[a] = "clearpair" => S \subseteq P
    /\ pc[a] = "takeback" => S \cap P = {}

IpCounts(K)   == \A i \in Ips : IsFiniteSet(From(K, i)) /\ ipCount[i] = Cardinality(From(K, i))
PairCounts(P) == \A p \in Ips \X Users : IsFiniteSet(For(P, p)) /\ pairCount[p] = Cardinality(For(P, p))

Ledger(K, P, Q) ==
    /\ IpCounts(K) /\ PairCounts(P)
    /\ \A a \in Attempts : Own(a, K, P) /\ Takes(a, K, P, Q[a])
    /\ \A a \in window.ip : Victim(user[a]) => a \in K

(* Of the logins with one account's correct password from one address, one  *)
(* uses the counters at a time.                                             *)
Lone ==
    \A a, b \in Attempts :
        right[a] /\ right[b] /\ Pair(a) = Pair(b) /\ pc[a] \notin Resting /\ pc[b] \notin Resting => a = b

Ended == {"denied", "failed", "done"}

Balanced ==
    \E K, P \in SUBSET Attempts : \E Q \in [Attempts -> SUBSET Attempts] : Ledger(K, P, Q)

LedgerInv == ~window.torn => Lone /\ Balanced

(* Counters that follow the sets.                                           *)
LEMMA IpAdded ==
    ASSUME TypeOK, NEW a \in Attempts, NEW K \in SUBSET Attempts, IpCounts(K), a \notin K, ip' = ip,
           ipCount' = [ipCount EXCEPT ![ip[a]] = @ + 1]
    PROVE  IpCounts(K \cup {a})'
<1>. SUFFICES ASSUME NEW i \in Ips
              PROVE  IsFiniteSet(From(K \cup {a}, i)') /\ ipCount'[i] = Cardinality(From(K \cup {a}, i)')
  BY DEF IpCounts
<1>1. PICK S : S = From(K, i)
  OBVIOUS
<1>2. IsFiniteSet(S) /\ ipCount[i] = Cardinality(S) /\ a \notin S
  BY <1>1 DEF IpCounts, From
<1>3. CASE i = ip[a]
  <2>1. From(K \cup {a}, i)' = S \cup {a} /\ ipCount'[i] = ipCount[i] + 1
    BY <1>1, <1>3 DEF From, TypeOK
  <2>2. IsFiniteSet(S \cup {a}) /\ Cardinality(S \cup {a}) = IF a \in S THEN Cardinality(S) ELSE Cardinality(S) + 1
    BY <1>2, FS_AddElement
  <2>. QED
    BY <1>2, <2>1, <2>2
<1>4. CASE i # ip[a]
  <2>1. From(K \cup {a}, i)' = S /\ ipCount'[i] = ipCount[i]
    BY <1>1, <1>4 DEF From, TypeOK
  <2>. QED
    BY <1>2, <2>1
<1>. QED
  BY <1>3, <1>4

LEMMA IpTaken ==
    ASSUME TypeOK, NEW i \in Ips, NEW K \in SUBSET Attempts, IpCounts(K), NEW T, T \subseteq From(K, i), ip' = ip,
           ipCount' = [ipCount EXCEPT ![i] = @ - Cardinality(T)]
    PROVE  IpCounts(K \ T)'
<1>. SUFFICES ASSUME NEW j \in Ips
              PROVE  IsFiniteSet(From(K \ T, j)') /\ ipCount'[j] = Cardinality(From(K \ T, j)')
  BY DEF IpCounts
<1>1. PICK S : S = From(K, j)
  OBVIOUS
<1>2. IsFiniteSet(S) /\ ipCount[j] = Cardinality(S)
  BY <1>1 DEF IpCounts
<1>3. CASE j = i
  <2>1. From(K \ T, j)' = S \ T /\ ipCount'[j] = ipCount[j] - Cardinality(T) /\ S \cap T = T
    BY <1>1, <1>3 DEF From, TypeOK
  <2>2. IsFiniteSet(S \ T) /\ Cardinality(S \ T) = Cardinality(S) - Cardinality(S \cap T)
    BY <1>2, FS_Difference
  <2>. QED
    BY <1>2, <2>1, <2>2
<1>4. CASE j # i
  <2>1. From(K \ T, j)' = S /\ ipCount'[j] = ipCount[j]
    BY <1>1, <1>4 DEF From, TypeOK
  <2>. QED
    BY <1>2, <2>1
<1>. QED
  BY <1>3, <1>4

LEMMA PairAdded ==
    ASSUME TypeOK, NEW a \in Attempts, NEW P \in SUBSET Attempts, PairCounts(P), a \notin P, UNCHANGED <<ip, user>>,
           pairCount' = [pairCount EXCEPT ![Pair(a)] = @ + 1]
    PROVE  PairCounts(P \cup {a})'
<1>. SUFFICES ASSUME NEW p \in Ips \X Users
              PROVE  IsFiniteSet(For(P \cup {a}, p)') /\ pairCount'[p] = Cardinality(For(P \cup {a}, p)')
  BY DEF PairCounts
<1>1. PICK S : S = For(P, p)
  OBVIOUS
<1>2. IsFiniteSet(S) /\ pairCount[p] = Cardinality(S) /\ a \notin S
  BY <1>1 DEF PairCounts, For
<1>3. CASE p = Pair(a)
  <2>1. For(P \cup {a}, p)' = S \cup {a} /\ pairCount'[p] = pairCount[p] + 1
    BY <1>1, <1>3 DEF For, TypeOK, Pair
  <2>2. IsFiniteSet(S \cup {a}) /\ Cardinality(S \cup {a}) = IF a \in S THEN Cardinality(S) ELSE Cardinality(S) + 1
    BY <1>2, FS_AddElement
  <2>. QED
    BY <1>2, <2>1, <2>2
<1>4. CASE p # Pair(a)
  <2>1. For(P \cup {a}, p)' = S /\ pairCount'[p] = pairCount[p]
    BY <1>1, <1>4 DEF For, TypeOK, Pair
  <2>. QED
    BY <1>2, <2>1
<1>. QED
  BY <1>3, <1>4

LEMMA PairTaken ==
    ASSUME TypeOK, NEW q \in Ips \X Users, NEW P \in SUBSET Attempts, PairCounts(P), NEW T, T \subseteq For(P, q),
           UNCHANGED <<ip, user>>, pairCount' = [pairCount EXCEPT ![q] = @ - Cardinality(T)]
    PROVE  PairCounts(P \ T)'
<1>. SUFFICES ASSUME NEW p \in Ips \X Users
              PROVE  IsFiniteSet(For(P \ T, p)') /\ pairCount'[p] = Cardinality(For(P \ T, p)')
  BY DEF PairCounts
<1>1. PICK S : S = For(P, p)
  OBVIOUS
<1>2. IsFiniteSet(S) /\ pairCount[p] = Cardinality(S)
  BY <1>1 DEF PairCounts
<1>3. CASE p = q
  <2>1. For(P \ T, p)' = S \ T /\ pairCount'[p] = pairCount[p] - Cardinality(T) /\ S \cap T = T
    BY <1>1, <1>3 DEF For, TypeOK, Pair
  <2>2. IsFiniteSet(S \ T) /\ Cardinality(S \ T) = Cardinality(S) - Cardinality(S \cap T)
    BY <1>2, FS_Difference
  <2>. QED
    BY <1>2, <2>1, <2>2
<1>4. CASE p # q
  <2>1. For(P \ T, p)' = S /\ pairCount'[p] = pairCount[p]
    BY <1>1, <1>4 DEF For, TypeOK, Pair
  <2>. QED
    BY <1>2, <2>1
<1>. QED
  BY <1>3, <1>4

LEMMA CountsSame ==
    ASSUME NEW K, NEW P, UNCHANGED <<ip, user>>
    PROVE  /\ IpCounts(K) /\ ipCount' = ipCount => IpCounts(K)'
           /\ PairCounts(P) /\ pairCount' = pairCount => PairCounts(P)'
BY DEF IpCounts, PairCounts, From, For, Pair

-----------------------------------------------------------------------------
(* A step of one attempt that moves only its own entries.                   *)
LEMMA LedgerMoves ==
    ASSUME TypeOK, RightInv, Lone, NEW a \in Attempts, Alone(a), pc[a] \notin Ended,
           NEW K \in SUBSET Attempts, NEW P \in SUBSET Attempts, NEW Q \in [Attempts -> SUBSET Attempts],
           NEW K2 \in SUBSET Attempts, NEW P2 \in SUBSET Attempts, NEW Q2 \in [Attempts -> SUBSET Attempts],
           Ledger(K, P, Q),
           \A b \in Attempts \ {a} : (b \in K2 <=> b \in K) /\ (b \in P2 <=> b \in P) /\ Q2[b] = Q[b],
           a \in K \ K2 => right[a],
           a \in P \ P2 => right[a],
           a \in P2 \ P => pc[a] \in Pending,
           pc'[a] \in Pending => pc[a] \in Pending \cup {"countip"},
           IpCounts(K2)', PairCounts(P2)',
           Own(a, K2, P2)', Takes(a, K2, P2, Q2[a])',
           window'.ip = window.ip \/ (window'.ip = window.ip \cup {a} /\ a \in K2)
    PROVE  Ledger(K2, P2, Q2)'
<1>1. UNCHANGED <<ip, user, right>> /\ \A b \in Attempts \ {a} : pc'[b] = pc[b] /\ n'[b] = n[b]
  BY DEF Alone, request
<1>2. \A b \in Attempts : Own(b, K, P) /\ Takes(b, K, P, Q[b])
  BY DEF Ledger
<1>3. ASSUME NEW b \in Attempts \ {a} PROVE Own(b, K2, P2)'
  <2>1. Own(b, K, P) /\ pc'[b] = pc[b] /\ right'[b] = right[b] /\ (b \in K2 <=> b \in K) /\ (b \in P2 <=> b \in P)
    BY <1>1, <1>2, <1>3
  <2>. QED
    BY <2>1 DEF Own
<1>4. ASSUME NEW b \in Attempts \ {a}, pc[b] \in {"clearpair", "takeback"}, a \in Q[b]
      PROVE  a \in K /\ a \in K2 /\ (a \in P2 <=> a \in P) /\ pc'[a] \notin Pending
  <2>1. right[b]
    BY <1>4 DEF RightInv, Clearing
  <2>2. a \in K /\ Pair(a) = Pair(b) /\ pc[a] \notin Pending
    BY <1>2, <1>4 DEF Takes, From
  <2>3. ~right[a]
    <3>1. pc[a] \notin Uncounted
      BY <1>2, <2>2 DEF Own
    <3>2. pc[a] \notin Resting /\ pc[b] \notin Resting
      BY <1>4, <3>1 DEF Uncounted, Ended, Resting
    <3>. QED
      BY <1>4, <2>1, <2>2, <3>2 DEF Lone
  <2>4. pc[a] # "countip"
    BY <1>2, <2>2 DEF Own, Uncounted
  <2>. QED
    BY <2>2, <2>3, <2>4
<1>5. ASSUME NEW b \in Attempts \ {a}, pc[b] \in {"clearpair", "takeback"}, NEW c \in Q[b]
      PROVE  c \in Attempts /\ c \in K2 /\ (c \in P2 <=> c \in P) /\ pc'[c] \notin Pending /\ Pair(c) = Pair(b) /\ ip[c] = ip[b]
  <2>1. c \in K /\ ip[c] = ip[b] /\ Pair(c) = Pair(b) /\ pc[c] \notin Pending /\ c \in Attempts
    BY <1>2, <1>5 DEF Takes, From
  <2>2. CASE c = a
    BY <1>4, <1>5, <2>1, <2>2
  <2>3. CASE c # a
    BY <1>1, <2>1, <2>3
  <2>. QED
    BY <2>2, <2>3
<1>6. ASSUME NEW b \in Attempts \ {a} PROVE Takes(b, K2, P2, Q2[b])'
  <2>1. Takes(b, K, P, Q[b]) /\ Q2[b] = Q[b] /\ pc'[b] = pc[b] /\ n'[b] = n[b] /\ ip'[b] = ip[b] /\ user'[b] = user[b]
    BY <1>1, <1>2, <1>6
  <2>2. CASE pc[b] \notin {"clearpair", "takeback"}
    BY <2>1, <2>2 DEF Takes
  <2>3. CASE pc[b] \in {"clearpair", "takeback"}
    <3>1. Q[b] \subseteq From(K2, ip[b])' /\ n'[b] = Cardinality(Q[b])
      BY <1>1, <1>5, <1>6, <2>1, <2>3 DEF From, Takes
    <3>2. \A c \in Q[b] : Pair(c)' = Pair(b)' /\ pc'[c] \notin Pending
      BY <1>1, <1>5, <1>6, <2>1, <2>3 DEF Pair
    <3>3. (pc[b] = "clearpair" => Q[b] \subseteq P2) /\ (pc[b] = "takeback" => Q[b] \cap P2 = {})
      BY <1>5, <1>6, <2>1, <2>3 DEF Takes
    <3>. QED
      BY <2>1, <3>1, <3>2, <3>3 DEF Takes
  <2>. QED
    BY <2>2, <2>3
<1>7. \A b \in Attempts : Own(b, K2, P2)' /\ Takes(b, K2, P2, Q2[b])'
  BY <1>3, <1>6
<1>8. \A b \in window'.ip : Victim(user[b])' => b \in K2
  <2>. SUFFICES ASSUME NEW b \in window'.ip, Victim(user[b])' PROVE b \in K2
    OBVIOUS
  <2>1. CASE b \in window.ip
    <3>1. b \in Attempts /\ Victim(user[b]) /\ ~right[b]
      BY <1>1, <2>1 DEF Victim, TypeOK
    <3>2. b \in K
      BY <2>1, <3>1 DEF Ledger
    <3>. QED
      BY <3>1, <3>2
  <2>. QED
    BY <2>1
<1>. QED
  BY <1>7, <1>8 DEF Ledger

(* A step that counts nobody at an address or a pair.                       *)
LEMMA LedgerStays ==
    ASSUME TypeOK, RightInv, Lone, NEW a \in Attempts, Alone(a), pc[a] \notin Ended,
           NEW K \in SUBSET Attempts, NEW P \in SUBSET Attempts, NEW Q \in [Attempts -> SUBSET Attempts],
           Ledger(K, P, Q), UNCHANGED <<ipCount, pairCount>>, window'.ip = window.ip,
           pc'[a] \in Pending => pc[a] \in Pending,
           pc'[a] \notin {"clearpair", "takeback"},
           Own(a, K, P)'
    PROVE  Ledger(K, P, Q)'
<1>1. IpCounts(K)' /\ PairCounts(P)'
  BY CountsSame DEF Ledger, Alone, request
<1>2. Takes(a, K, P, Q[a])'
  BY DEF Takes
<1>. QED
  BY <1>1, <1>2, LedgerMoves

(* check_and_record. An attempt is counted for its address, then for its    *)
(* pair, and the window of its address is open as long as it is counted.    *)
LEMMA CheckKeeps ==
    ASSUME TypeOK, RightInv, Lone, Balanced, NEW a \in Attempts, CheckStep(a)
    PROVE  Balanced'
<1>1. PICK K \in SUBSET Attempts, P \in SUBSET Attempts, Q \in [Attempts -> SUBSET Attempts] : Ledger(K, P, Q)
  BY DEF Balanced
<1>2. Own(a, K, P) /\ IpCounts(K) /\ PairCounts(P)
  BY <1>1 DEF Ledger
<1>3. Alone(a) /\ right'[a] = right[a] /\ UNCHANGED <<ip, user>> /\ pc[a] \notin Ended
  BY CheckMoves, CheckStarts DEF Alone, request, Checking, Ended
<1>4. ASSUME UNCHANGED <<ipCount, pairCount>>, window'.ip = window.ip,
             pc'[a] \in Pending => pc[a] \in Pending, pc'[a] \notin {"clearpair", "takeback"}, Own(a, K, P)'
      PROVE  Balanced'
  <2>1. Ledger(K, P, Q)'
    BY <1>1, <1>3, <1>4, LedgerStays
  <2>. QED
    BY <2>1 DEF Balanced
<1>. USE DEF Pending, Forgotten, Uncounted, Unpaired
<1>5. CASE ReadIpLock(a)
  <2>1. pc[a] = "iplock" /\ pc'[a] \in {"denied", "userlock"} /\ UNCHANGED <<ipCount, pairCount, window>>
    BY <1>5 DEF ReadIpLock, At, Goto, TypeOK, counters, pairs
  <2>. QED
    BY <1>2, <1>3, <1>4, <2>1 DEF Own
<1>6. CASE ReadUserLock(a)
  <2>1. pc[a] = "userlock" /\ pc'[a] \in {"denied", "countip"} /\ UNCHANGED <<ipCount, pairCount, window>>
    BY <1>6 DEF ReadUserLock, At, Goto, TypeOK, counters, pairs
  <2>. QED
    BY <1>2, <1>3, <1>4, <2>1 DEF Own
<1>7. CASE CountIp(a)
  <2>1. /\ pc[a] = "countip" /\ pc'[a] = "countuser" /\ pairCount' = pairCount
        /\ ipCount' = [ipCount EXCEPT ![ip[a]] = @ + 1] /\ window'.ip = window.ip \cup {a}
    BY <1>7 DEF CountIp, At, Goto, TypeOK, pairs
  <2>2. a \notin K /\ a \notin P
    BY <1>2, <2>1 DEF Own
  <2>3. IpCounts(K \cup {a})' /\ PairCounts(P)'
    BY <1>2, <1>3, <2>1, <2>2, IpAdded, CountsSame
  <2>4. Own(a, K \cup {a}, P)' /\ Takes(a, K \cup {a}, P, Q[a])'
    BY <2>1, <2>2 DEF Own, Takes
  <2>5. Ledger(K \cup {a}, P, Q)'
    BY <1>1, <1>3, <2>1, <2>2, <2>3, <2>4, LedgerMoves
  <2>. QED
    BY <2>5 DEF Balanced
<1>8. CASE CountUser(a)
  <2>1. /\ pc[a] = "countuser" /\ UNCHANGED <<ipCount, pairCount>> /\ window'.ip = window.ip
        /\ pc'[a] \in {"ipwindow", "verify", "rounds"} /\ (pc'[a] = "ipwindow" <=> ClearAll)
    BY <1>8 DEF CountUser, At, Goto, TypeOK, pairs, Decide
  <2>. QED
    BY <1>2, <1>3, <1>4, <2>1 DEF Own
<1>9. CASE ReadIpWindow(a)
  <2>1. /\ pc[a] = "ipwindow" /\ UNCHANGED <<ipCount, pairCount, window>>
        /\ pc'[a] = IF Open(ip[a]) THEN "countpair" ELSE Decide(a, n[a])
    BY <1>9 DEF ReadIpWindow, At, Goto, TypeOK, counters, pairs
  <2>2. a \in From(K, ip[a]) /\ ip[a] \in Ips
    BY <1>2, <2>1 DEF Own, From, TypeOK
  <2>3. ipCount[ip[a]] # 0
    BY <1>2, <2>2, FS_EmptySet DEF IpCounts
  <2>4. pc'[a] = "countpair"
    BY <2>1, <2>3 DEF Open
  <2>. QED
    BY <1>2, <1>3, <1>4, <2>1, <2>4 DEF Own
<1>10. CASE CountPair(a)
  <2>1. /\ pc[a] = "countpair" /\ pc'[a] \in {"verify", "rounds"} /\ ipCount' = ipCount
        /\ pairCount' = [pairCount EXCEPT ![Pair(a)] = @ + 1] /\ window' = window
    BY <1>10 DEF CountPair, At, Goto, TypeOK, Decide
  <2>2. a \in K /\ a \notin P /\ ClearAll
    BY <1>2, <2>1 DEF Own
  <2>3. IpCounts(K)' /\ PairCounts(P \cup {a})'
    BY <1>2, <1>3, <2>1, <2>2, PairAdded, CountsSame
  <2>4. Own(a, K, P \cup {a})' /\ Takes(a, K, P \cup {a}, Q[a])'
    BY <2>1, <2>2 DEF Own, Takes
  <2>5. Ledger(K, P \cup {a}, Q)'
    BY <1>1, <1>3, <2>1, <2>2, <2>3, <2>4, LedgerMoves
  <2>. QED
    BY <2>5 DEF Balanced
<1>11. CASE ReadIpRounds(a) \/ ReadUserRounds(a) \/ LockIp(a) \/ LockUser(a) \/ RaiseIp(a) \/ RaiseUser(a)
  <2>1. /\ pc[a] \in {"rounds", "userrounds", "lockip", "lockuser", "raiseip", "raiseuser"}
        /\ pc'[a] \in {"userrounds", "lockip", "lockuser", "raiseip", "raiseuser", "denied"}
        /\ UNCHANGED <<ipCount, pairCount, window>>
    BY <1>11 DEF ReadIpRounds, ReadUserRounds, LockIp, LockUser, RaiseIp, RaiseUser, At, Goto, TypeOK, counters, pairs
  <2>. QED
    BY <1>2, <1>3, <1>4, <2>1 DEF Own
<1>. QED
  BY <1>5, <1>6, <1>7, <1>8, <1>9, <1>10, <1>11 DEF CheckStep

(* The answer to the check, and a backend that raises outside of            *)
(* forget_attempt.                                                          *)
LEMMA AnswerKeeps ==
    ASSUME FailClosed, TypeOK, RightInv, Lone, Balanced, NEW a \in Attempts,
           Verify(a) \/ (BackendError(a) /\ ~window'.torn)
    PROVE  Balanced'
<1>1. PICK K \in SUBSET Attempts, P \in SUBSET Attempts, Q \in [Attempts -> SUBSET Attempts] : Ledger(K, P, Q)
  BY DEF Balanced
<1>2. Own(a, K, P)
  BY <1>1 DEF Ledger
<1>3. Alone(a) /\ right'[a] = right[a] /\ UNCHANGED <<ipCount, pairCount>> /\ window'.ip = window.ip /\ pc[a] \notin Ended
  BY VerifyMoves, ErrorMoves DEF Quiet, Alone, request, counters, pairs, Ended, Checking, Clearing, Forgetting
<1>. USE DEF Pending, Forgotten, Uncounted, Unpaired
<1>4. Own(a, K, P)' /\ pc'[a] \notin Pending \cup {"clearpair", "takeback"}
  <2>1. CASE Verify(a)
    <3>1. pc[a] = "verify" /\ pc'[a] \in {"forgetip", "clearuser", "failed"}
      BY <2>1, VerifyMoves
    <3>. QED
      BY <1>2, <1>3, <3>1 DEF Own
  <2>2. CASE BackendError(a) /\ ~window'.torn
    <3>1. \/ pc[a] \in Checking /\ pc'[a] = "denied"
          \/ pc[a] \in Clearing /\ pc'[a] = "done"
      BY <2>2, ErrorMoves
    <3>. QED
      BY <1>2, <1>3, <3>1 DEF Own, Checking, Clearing
  <2>. QED
    BY <2>1, <2>2
<1>5. Ledger(K, P, Q)'
  BY <1>1, <1>3, <1>4, LedgerStays
<1>. QED
  BY <1>5 DEF Balanced

(* The success branch. What is taken back was counted for the pair of this  *)
(* success, and no other success of the pair is under way.                  *)
LEMMA ClearKeeps ==
    ASSUME TypeOK, RightInv, Lone, Balanced, NEW a \in Attempts, ClearStep(a)
    PROVE  Balanced'
<1>1. PICK K \in SUBSET Attempts, P \in SUBSET Attempts, Q \in [Attempts -> SUBSET Attempts] : Ledger(K, P, Q)
  BY DEF Balanced
<1>2. \A b \in Attempts : Own(b, K, P) /\ Takes(b, K, P, Q[b])
  BY <1>1 DEF Ledger
<1>3. IpCounts(K) /\ PairCounts(P)
  BY <1>1 DEF Ledger
<1>4. /\ Alone(a) /\ UNCHANGED <<ip, user, right>> /\ window' = window /\ right[a]
      /\ pc[a] \notin Ended /\ pc[a] \notin Resting
  BY ClearMoves DEF Alone, request, RightInv, Clearing, Ended, Resting
<1>5. \A c \in Attempts : Pair(c) = Pair(a) /\ c # a /\ right[c] => pc[c] \in Resting
  BY <1>4 DEF Lone
<1>6. Pair(a) \in Ips \X Users /\ ip[a] \in Ips
  BY DEF Pair, TypeOK
<1>. USE DEF Pending, Forgotten, Uncounted, Unpaired
<1>7. ASSUME UNCHANGED <<ipCount, pairCount>>, pc[a] \in Clearing, pc'[a] \in Clearing \cup {"done"},
             pc'[a] \notin {"clearpair", "takeback"}
      PROVE  Balanced'
  <2>1. Own(a, K, P)'
    BY <1>2, <1>4, <1>7 DEF Own, Clearing
  <2>2. Ledger(K, P, Q)'
    BY <1>1, <1>4, <1>7, <2>1, LedgerStays DEF Clearing
  <2>. QED
    BY <2>2 DEF Balanced
<1>8. CASE ClearUser(a) \/ UnlockUser(a) \/ ResetRounds(a)
  <2>1. /\ UNCHANGED <<ipCount, pairCount>> /\ pc[a] \in Clearing
        /\ pc'[a] \in {"unlockuser", "resetrounds", "ownfailures", "done"}
    BY <1>8 DEF ClearUser, UnlockUser, ResetRounds, At, Goto, TypeOK, counters, pairs, Clearing
  <2>. QED
    BY <1>7, <2>1 DEF Clearing
<1>9. CASE ReadOwnFailures(a)
  <2>1. /\ UNCHANGED <<ipCount, pairCount>> /\ pc[a] = "ownfailures" /\ n'[a] = pairCount[Pair(a)]
        /\ pc'[a] \in {"clearpair", "done"}
    BY <1>9 DEF ReadOwnFailures, At, Goto, Keep, TypeOK, counters, pairs
  <2>2. CASE pc'[a] = "done"
    BY <1>7, <2>1, <2>2 DEF Clearing
  <2>3. CASE pc'[a] = "clearpair"
    <3>0. PICK S : S = For(P, Pair(a))
      OBVIOUS
    <3>. DEFINE Q2 == [Q EXCEPT ![a] = S]
    <3>1. S \in SUBSET Attempts /\ n'[a] = Cardinality(S)
      BY <1>3, <1>6, <2>1, <3>0 DEF For, PairCounts
    <3>2. Q2 \in [Attempts -> SUBSET Attempts] /\ Q2[a] = S /\ \A b \in Attempts \ {a} : Q2[b] = Q[b]
      BY <3>1
    <3>3. ASSUME NEW c \in S PROVE c \in K /\ Pair(c) = Pair(a) /\ ip[c] = ip[a] /\ c \in P /\ pc'[c] \notin Pending
      <4>1. c \in P /\ Pair(c) = Pair(a) /\ c \in Attempts /\ ip[c] = ip[a]
        BY <3>0, <3>3 DEF For, Pair
      <4>2. CASE c = a
        BY <1>2, <2>1, <2>3, <4>1, <4>2 DEF Own
      <4>3. CASE c # a
        <5>1. pc[c] \notin Forgotten /\ pc'[c] = pc[c]
          BY <1>4, <1>5, <4>1, <4>3 DEF RightInv, Forgetting, Resting, Alone
        <5>. QED
          BY <1>2, <4>1, <5>1 DEF Own
      <4>. QED
        BY <4>2, <4>3
    <3>4. S \subseteq From(K, ip[a])' /\ \A c \in S : Pair(c)' = Pair(a)'
      BY <1>4, <3>3 DEF From, Pair
    <3>5. Takes(a, K, P, S)'
      BY <2>3, <3>1, <3>3, <3>4 DEF Takes
    <3>6. Own(a, K, P)'
      BY <1>2, <1>4, <2>1, <2>3 DEF Own
    <3>7. IpCounts(K)' /\ PairCounts(P)'
      BY <1>3, <1>4, <2>1, CountsSame
    <3>. HIDE DEF Q2
    <3>8. Ledger(K, P, Q2)'
      BY <1>1, <1>4, <2>3, <3>2, <3>5, <3>6, <3>7, LedgerMoves
    <3>. QED
      BY <3>2, <3>8 DEF Balanced
  <2>. QED
    BY <2>1, <2>2, <2>3
<1>10. CASE ClearPair(a)
  <2>0. PICK S : S = For(P, Pair(a))
    OBVIOUS
  <2>1. /\ ipCount' = ipCount /\ pc[a] = "clearpair" /\ pc'[a] \in {"takeback", "done"} /\ n' = n
        /\ pairCount' = [pairCount EXCEPT ![Pair(a)] = 0]
    BY <1>10 DEF ClearPair, At, Goto, TypeOK
  <2>2. pairCount[Pair(a)] = Cardinality(S) /\ IsFiniteSet(S)
    BY <1>3, <1>6, <2>0 DEF PairCounts
  <2>3. pairCount' = [pairCount EXCEPT ![Pair(a)] = @ - Cardinality(S)]
    <3>1. Cardinality(S) \in Nat
      BY <2>2, FS_CardinalityType
    <3>2. pairCount[Pair(a)] - Cardinality(S) = 0
      BY <2>2, <3>1
    <3>. QED
      BY <2>1, <3>2
  <2>4. PairCounts(P \ S)' /\ IpCounts(K)'
    BY <1>3, <1>4, <1>6, <2>0, <2>1, <2>3, PairTaken, CountsSame
  <2>5. ASSUME NEW b \in Attempts PROVE Own(b, K, P \ S)'
    <3>1. CASE b = a
      BY <1>2, <1>4, <2>1, <3>1 DEF Own
    <3>2. CASE b # a
      <4>1. Own(b, K, P) /\ pc'[b] = pc[b] /\ right'[b] = right[b]
        BY <1>2, <1>4, <3>2 DEF Alone
      <4>2. b \in S /\ right[b] => pc[b] \in Resting
        BY <1>5, <2>0, <3>2 DEF For
      <4>. QED
        BY <4>1, <4>2 DEF Own, Resting
    <3>. QED
      BY <3>1, <3>2
  <2>6. ASSUME NEW b \in Attempts PROVE Takes(b, K, P \ S, Q[b])'
    <3>1. n'[b] = n[b] /\ Takes(b, K, P, Q[b]) /\ From(K, ip[b])' = From(K, ip[b])
      BY <1>2, <1>4, <2>1 DEF From
    <3>2. \A c \in Attempts : Pair(c)' = Pair(c) /\ (pc[c] \notin Pending => pc'[c] \notin Pending)
      BY <1>4, <2>1 DEF Pair, Alone
    <3>3. CASE b = a
      <4>1. Q[b] \cap (P \ S) = {}
        BY <2>0, <2>1, <3>1, <3>3 DEF Takes, For
      <4>. QED
        BY <2>1, <3>1, <3>2, <3>3, <4>1 DEF Takes
    <3>4. CASE b # a
      <4>1. pc'[b] = pc[b]
        BY <1>4, <3>4 DEF Alone
      <4>2. CASE pc[b] \in {"clearpair", "takeback"}
        <5>1. Pair(b) # Pair(a)
          BY <1>5, <3>4, <4>2 DEF RightInv, Clearing, Resting
        <5>2. Q[b] \cap S = {}
          BY <2>0, <3>1, <4>2, <5>1 DEF Takes, For
        <5>. QED
          BY <3>1, <3>2, <4>1, <5>2 DEF Takes
      <4>3. CASE pc[b] \notin {"clearpair", "takeback"}
        BY <4>1, <4>3 DEF Takes
      <4>. QED
        BY <4>2, <4>3
    <3>. QED
      BY <3>3, <3>4
  <2>7. \A b \in window'.ip : Victim(user[b])' => b \in K
    BY <1>1, <1>4 DEF Ledger, Victim
  <2>8. Ledger(K, P \ S, Q)'
    BY <2>4, <2>5, <2>6, <2>7 DEF Ledger
  <2>. QED
    BY <2>8 DEF Balanced
<1>11. CASE TakeBack(a)
  <2>. DEFINE S == Q[a]
  <2>1. /\ pairCount' = pairCount /\ pc[a] = "takeback" /\ pc'[a] = "done" /\ n' = n
        /\ ipCount' = [ipCount EXCEPT ![ip[a]] = @ - n[a]]
    BY <1>11 DEF TakeBack, At, Goto, TypeOK, pairs
  <2>2. /\ S \subseteq From(K, ip[a]) /\ n[a] = Cardinality(S) /\ S \cap P = {}
        /\ \A c \in S : Pair(c) = Pair(a) /\ pc[c] \notin Pending /\ c \in Attempts
    BY <1>2, <2>1 DEF Takes
  <2>3. IpCounts(K \ S)' /\ PairCounts(P)'
    BY <1>3, <1>4, <1>6, <2>1, <2>2, IpTaken, CountsSame
  <2>4. ASSUME NEW b \in Attempts PROVE Own(b, K \ S, P)'
    <3>1. CASE b = a
      BY <1>2, <1>4, <2>1, <2>2, <3>1 DEF Own
    <3>2. CASE b # a
      <4>1. Own(b, K, P) /\ pc'[b] = pc[b] /\ right'[b] = right[b]
        BY <1>2, <1>4, <3>2 DEF Alone
      <4>2. b \in S => (right[b] => pc[b] \in Resting) /\ b \notin P /\ pc[b] \notin Pending
        BY <1>5, <2>2, <3>2
      <4>. QED
        BY <4>1, <4>2 DEF Own, Resting
    <3>. QED
      BY <3>1, <3>2
  <2>5. ASSUME NEW b \in Attempts PROVE Takes(b, K \ S, P, Q[b])'
    <3>1. CASE b = a
      BY <2>1, <3>1 DEF Takes
    <3>2. CASE b # a
      <4>1. pc'[b] = pc[b] /\ n'[b] = n[b] /\ Takes(b, K, P, Q[b])
        BY <1>2, <1>4, <3>2 DEF Alone
      <4>2. CASE pc[b] \in {"clearpair", "takeback"}
        <5>1. Pair(b) # Pair(a)
          BY <1>5, <3>2, <4>2 DEF RightInv, Clearing, Resting
        <5>2. Q[b] \cap S = {}
          BY <2>2, <4>1, <4>2, <5>1 DEF Takes
        <5>3. Q[b] \subseteq From(K \ S, ip[b])'
          BY <1>4, <4>1, <4>2, <5>2 DEF Takes, From
        <5>4. \A c \in Attempts : Pair(c)' = Pair(c) /\ (pc[c] \notin Pending => pc'[c] \notin Pending)
          BY <1>4, <2>1 DEF Pair, Alone
        <5>. QED
          BY <4>1, <5>3, <5>4 DEF Takes
      <4>3. CASE pc[b] \notin {"clearpair", "takeback"}
        BY <4>1, <4>3 DEF Takes
      <4>. QED
        BY <4>2, <4>3
    <3>. QED
      BY <3>1, <3>2
  <2>6. ASSUME NEW b \in window'.ip, Victim(user[b])' PROVE b \in K \ S
    <3>1. b \in K /\ Victim(user[b])
      BY <1>1, <1>4, <2>6 DEF Ledger, Victim
    <3>2. b \notin S
      <4>1. b \in S => user[b] = user[a]
        BY <2>2 DEF Pair
      <4>. QED
        BY <1>4, <3>1, <4>1 DEF Victim
    <3>. QED
      BY <3>1, <3>2
  <2>. HIDE DEF S
  <2>7. Ledger(K \ S, P, Q)'
    BY <2>3, <2>4, <2>5, <2>6 DEF Ledger
  <2>. QED
    BY <2>7 DEF Balanced
<1>. QED
  BY <1>8, <1>9, <1>10, <1>11 DEF ClearStep

(* forget_attempt. An attempt that is forgotten is counted, so neither      *)
(* counter is found at zero and both are lowered.                           *)
LEMMA ForgetKeeps ==
    ASSUME TypeOK, RightInv, Lone, Balanced, NEW a \in Attempts, ForgetStep(a)
    PROVE  Balanced'
<1>1. PICK K \in SUBSET Attempts, P \in SUBSET Attempts, Q \in [Attempts -> SUBSET Attempts] : Ledger(K, P, Q)
  BY DEF Balanced
<1>2. Own(a, K, P) /\ IpCounts(K) /\ PairCounts(P)
  BY <1>1 DEF Ledger
<1>3. Alone(a) /\ UNCHANGED <<ip, user, right>> /\ window' = window /\ right[a] /\ pc[a] \notin Ended
  BY ForgetMoves DEF Alone, request, RightInv, Forgetting, Ended
<1>4. Pair(a) \in Ips \X Users /\ ip[a] \in Ips
  BY DEF Pair, TypeOK
<1>. USE DEF Pending, Forgotten, Uncounted, Unpaired
<1>5. ASSUME UNCHANGED <<ipCount, pairCount>>, pc'[a] \in Forgetting \cup {"challenged", "iplock"}, Own(a, K, P)'
      PROVE  Balanced'
  <2>1. Ledger(K, P, Q)'
    BY <1>1, <1>3, <1>5, LedgerStays DEF Forgetting
  <2>. QED
    BY <2>1 DEF Balanced
<1>6. CASE ForgetIp(a)
  <2>1. /\ pc[a] = "forgetip" /\ UNCHANGED <<ipCount, pairCount>>
        /\ pc'[a] = IF ipCount[ip[a]] > 0 THEN "decip" ELSE "forgetuser"
    BY <1>6 DEF ForgetIp, ForgetRead, At, Goto, TypeOK, counters, pairs
  <2>2. PICK S : S = From(K, ip[a])
    OBVIOUS
  <2>3. a \in S /\ IsFiniteSet(S) /\ ipCount[ip[a]] = Cardinality(S)
    BY <1>2, <1>3, <1>4, <2>1, <2>2 DEF Own, From, IpCounts
  <2>4. Cardinality(S) \in Nat /\ Cardinality(S) # 0
    BY <2>3, FS_CardinalityType, FS_EmptySet
  <2>5. pc'[a] = "decip"
    BY <2>1, <2>3, <2>4
  <2>. QED
    BY <1>2, <1>3, <1>5, <2>1, <2>5 DEF Own, Forgetting
<1>7. CASE DecrementIp(a)
  <2>1. /\ pc[a] = "decip" /\ pc'[a] = "forgetuser" /\ pairCount' = pairCount
        /\ ipCount' = [ipCount EXCEPT ![ip[a]] = @ - 1]
    BY <1>7 DEF DecrementIp, At, Goto, TypeOK, pairs
  <2>2. a \in K
    BY <1>2, <1>3, <2>1 DEF Own
  <2>3. {a} \subseteq From(K, ip[a]) /\ Cardinality({a}) = 1
    BY <2>2, FS_Singleton DEF From
  <2>4. IpCounts(K \ {a})'
    <3>1. ipCount' = [ipCount EXCEPT ![ip[a]] = @ - Cardinality({a})]
      BY <2>1, <2>3
    <3>. QED
      BY <1>2, <1>3, <1>4, <2>3, <3>1, IpTaken
  <2>5. PairCounts(P)'
    BY <1>2, <1>3, <2>1, CountsSame
  <2>6. Own(a, K \ {a}, P)' /\ Takes(a, K \ {a}, P, Q[a])'
    BY <1>2, <1>3, <2>1 DEF Own, Takes
  <2>7. Ledger(K \ {a}, P, Q)'
    BY <1>1, <1>3, <2>1, <2>4, <2>5, <2>6, LedgerMoves
  <2>. QED
    BY <2>7 DEF Balanced
<1>8. CASE ForgetUser(a) \/ DecrementUser(a)
  <2>1. /\ pc[a] \in {"forgetuser", "decuser"} /\ UNCHANGED <<ipCount, pairCount>>
        /\ pc'[a] \in {"decuser", IF ClearAll THEN "forgetpair" ELSE "challenged"}
    BY <1>8 DEF ForgetUser, ForgetRead, DecrementUser, At, Goto, TypeOK, counters, pairs
  <2>. QED
    BY <1>2, <1>3, <1>5, <2>1 DEF Own, Forgetting
<1>9. CASE ForgetPair(a)
  <2>1. /\ pc[a] = "forgetpair" /\ UNCHANGED <<ipCount, pairCount>>
        /\ pc'[a] = IF pairCount[Pair(a)] > 0 THEN "decpair" ELSE "challenged"
    BY <1>9 DEF ForgetPair, ForgetRead, At, Goto, TypeOK, counters, pairs
  <2>2. PICK S : S = For(P, Pair(a))
    OBVIOUS
  <2>3. a \in S /\ IsFiniteSet(S) /\ pairCount[Pair(a)] = Cardinality(S)
    BY <1>2, <1>3, <1>4, <2>1, <2>2 DEF Own, For, PairCounts
  <2>4. Cardinality(S) \in Nat /\ Cardinality(S) # 0
    BY <2>3, FS_CardinalityType, FS_EmptySet
  <2>5. pc'[a] = "decpair"
    BY <2>1, <2>3, <2>4
  <2>. QED
    BY <1>2, <1>3, <1>5, <2>1, <2>5 DEF Own, Forgetting
<1>10. CASE DecrementPair(a)
  <2>1. /\ pc[a] = "decpair" /\ pc'[a] = "challenged" /\ ipCount' = ipCount
        /\ pairCount' = [pairCount EXCEPT ![Pair(a)] = @ - 1]
    BY <1>10 DEF DecrementPair, At, Goto, TypeOK
  <2>2. a \in P /\ a \notin K
    BY <1>2, <1>3, <2>1 DEF Own
  <2>3. {a} \subseteq For(P, Pair(a)) /\ Cardinality({a}) = 1
    BY <2>2, FS_Singleton DEF For
  <2>4. PairCounts(P \ {a})'
    <3>1. pairCount' = [pairCount EXCEPT ![Pair(a)] = @ - Cardinality({a})]
      BY <2>1, <2>3
    <3>2. PICK q \in Ips \X Users : q = Pair(a)
      BY <1>4
    <3>. QED
      BY <1>2, <1>3, <2>3, <3>1, <3>2, PairTaken
  <2>5. IpCounts(K)'
    BY <1>2, <1>3, <2>1, CountsSame
  <2>6. Own(a, K, P \ {a})' /\ Takes(a, K, P \ {a}, Q[a])'
    BY <1>3, <2>1, <2>2 DEF Own, Takes
  <2>7. Ledger(K, P \ {a}, Q)'
    BY <1>1, <1>3, <2>1, <2>4, <2>5, <2>6, LedgerMoves
  <2>. QED
    BY <2>7 DEF Balanced
<1>11. CASE AnswerChallenge(a)
  <2>1. pc[a] = "challenged" /\ pc'[a] = "iplock" /\ UNCHANGED <<ipCount, pairCount>>
    BY <1>11 DEF AnswerChallenge, At, Goto, TypeOK, counters, pairs
  <2>. QED
    BY <1>2, <1>3, <1>5, <2>1 DEF Own
<1>. QED
  BY <1>6, <1>7, <1>8, <1>9, <1>10, <1>11 DEF ForgetStep

(* The end of an address's window empties its counters. Nobody is counted   *)
(* there any more, and nobody from there is between two uses of them.       *)
LEMMA WindowKeeps ==
    ASSUME TypeOK, RightInv, Lone, Balanced, NEW i \in Ips, IpWindowEnds(i), ~window'.torn
    PROVE  Balanced'
<1>1. PICK K \in SUBSET Attempts, P \in SUBSET Attempts, Q \in [Attempts -> SUBSET Attempts] : Ledger(K, P, Q)
  BY DEF Balanced
<1>2. /\ ipCount' = [ipCount EXCEPT ![i] = 0]
      /\ pairCount' = [p \in Ips \X Users |-> IF p[1] = i THEN 0 ELSE pairCount[p]]
      /\ UNCHANGED <<ip, user, right, pc, n>> /\ window'.ip = {a \in window.ip : ip[a] # i}
      /\ \A a \in Attempts : ip[a] = i => pc[a] \in Resting
  BY DEF IpWindowEnds, request, TypeOK
<1>. DEFINE There == {a \in Attempts : ip[a] = i}
<1>3. PICK T \in SUBSET Attempts : T = There
  OBVIOUS
<1>. HIDE DEF There
<1>4. \A a \in Attempts : a \in T <=> ip[a] = i
  BY <1>3 DEF There
<1>5. IpCounts(K \ T)'
  <2>. SUFFICES ASSUME NEW j \in Ips
                PROVE  IsFiniteSet(From(K \ T, j)') /\ ipCount'[j] = Cardinality(From(K \ T, j)')
    BY DEF IpCounts
  <2>1. CASE j = i
    <3>1. From(K \ T, j)' = {} /\ ipCount'[j] = 0
      BY <1>2, <1>4, <2>1 DEF From, TypeOK
    <3>. QED
      BY <3>1, FS_EmptySet
  <2>2. CASE j # i
    <3>1. From(K \ T, j)' = From(K, j) /\ ipCount'[j] = ipCount[j]
      BY <1>2, <1>4, <2>2 DEF From, TypeOK
    <3>. QED
      BY <1>1, <3>1 DEF Ledger, IpCounts
  <2>. QED
    BY <2>1, <2>2
<1>6. PairCounts(P \ T)'
  <2>. SUFFICES ASSUME NEW p \in Ips \X Users
                PROVE  IsFiniteSet(For(P \ T, p)') /\ pairCount'[p] = Cardinality(For(P \ T, p)')
    BY DEF PairCounts
  <2>1. \A a \in Attempts : Pair(a) = p => ip[a] = p[1]
    BY DEF Pair
  <2>2. CASE p[1] = i
    <3>1. For(P \ T, p)' = {}
      BY <1>2, <1>4, <2>1, <2>2 DEF For, Pair
    <3>2. pairCount'[p] = 0
      BY <1>2, <2>2
    <3>. QED
      BY <3>1, <3>2, FS_EmptySet
  <2>3. CASE p[1] # i
    <3>1. For(P \ T, p)' = For(P, p)
      BY <1>2, <1>4, <2>1, <2>3 DEF For, Pair
    <3>2. pairCount'[p] = pairCount[p]
      BY <1>2, <2>3
    <3>. QED
      BY <1>1, <3>1, <3>2 DEF Ledger, PairCounts
  <2>. QED
    BY <2>2, <2>3
<1>7. ASSUME NEW b \in Attempts PROVE Own(b, K \ T, P \ T)' /\ Takes(b, K \ T, P \ T, Q[b])'
  <2>1. Own(b, K, P) /\ Takes(b, K, P, Q[b]) /\ UNCHANGED <<pc, right, n, ip, user>>
    BY <1>1, <1>2 DEF Ledger
  <2>2. CASE b \in T
    <3>1. pc[b] \in Resting
      BY <1>2, <1>4, <2>2
    <3>. QED
      BY <2>1, <2>2, <3>1 DEF Own, Takes, Resting, Pending, Forgotten, Uncounted, Unpaired
  <2>3. CASE b \notin T
    <3>1. Own(b, K \ T, P \ T)'
      BY <2>1, <2>3 DEF Own
    <3>2. CASE pc[b] \in {"clearpair", "takeback"}
      <4>1. Q[b] \cap T = {}
        BY <1>4, <2>1, <2>3, <3>2 DEF Takes, From
      <4>2. Q[b] \subseteq From(K \ T, ip[b])'
        BY <2>1, <3>2, <4>1 DEF Takes, From
      <4>. QED
        BY <2>1, <3>1, <3>2, <4>1, <4>2 DEF Takes, Pair
    <3>3. CASE pc[b] \notin {"clearpair", "takeback"}
      BY <2>1, <3>1, <3>3 DEF Takes
    <3>. QED
      BY <3>2, <3>3
  <2>. QED
    BY <2>2, <2>3
<1>8. ASSUME NEW b \in window'.ip, Victim(user[b])' PROVE b \in K \ T
  BY <1>1, <1>2, <1>4, <1>8 DEF Ledger, Victim, TypeOK
<1>9. Ledger(K \ T, P \ T, Q)'
  BY <1>5, <1>6, <1>7, <1>8 DEF Ledger
<1>. QED
  BY <1>9 DEF Balanced

(* An attempt starts to use the counters when it is counted, and an overlap *)
(* is seen then.                                                            *)
LEMMA LoneKept ==
    ASSUME FailClosed, TypeOK, Lone, NEW a \in Attempts, Step(a), UNCHANGED <<ip, user, right>>, ~window'.torn
    PROVE  Lone'
<1>1. \A b \in Attempts : Pair(b)' = Pair(b) /\ right'[b] = right[b]
  BY DEF Pair
<1>2. \A b \in Attempts \ {a} : pc'[b] = pc[b]
  BY CheckMoves, VerifyMoves, ClearMoves, ForgetMoves, ErrorMoves DEF Step, Quiet, Alone
<1>3. CASE CountIp(a)
  <2>1. ~Overlaps(a)
    BY <1>3 DEF CountIp, TypeOK
  <2>. QED
    BY <1>1, <1>2, <2>1 DEF Lone, Overlaps
<1>4. CASE ~CountIp(a)
  <2>1. pc[a] \in Resting => pc'[a] \in Resting
    <3>1. CASE CheckStep(a)
      <4>1. CASE ReadIpLock(a) \/ ReadUserLock(a)
        BY <4>1 DEF ReadIpLock, ReadUserLock, Goto, TypeOK, Resting
      <4>2. CASE ~(ReadIpLock(a) \/ ReadUserLock(a))
        BY <1>4, <3>1, <4>2 DEF CheckStep, CountUser, ReadIpWindow, CountPair, ReadIpRounds, ReadUserRounds,
               LockIp, LockUser, RaiseIp, RaiseUser, At, Resting
      <4>. QED
        BY <4>1, <4>2
    <3>2. CASE ForgetStep(a)
      <4>1. CASE AnswerChallenge(a)
        BY <4>1 DEF AnswerChallenge, Goto, TypeOK, Resting
      <4>2. CASE ~AnswerChallenge(a)
        BY <3>2, <4>2 DEF ForgetStep, ForgetIp, ForgetUser, ForgetPair, ForgetRead, DecrementIp, DecrementUser,
                          DecrementPair, At, Resting
      <4>. QED
        BY <4>1, <4>2
    <3>3. CASE Verify(a) \/ ClearStep(a)
      BY <3>3, VerifyMoves, ClearMoves DEF Clearing, Resting
    <3>4. CASE BackendError(a)
      BY <3>4, ErrorMoves DEF Resting
    <3>. QED
      BY <3>1, <3>2, <3>3, <3>4 DEF Step
  <2>. QED
    BY <1>1, <1>2, <2>1 DEF Lone
<1>. QED
  BY <1>3, <1>4

LEMMA LedgerKept == ASSUME FailClosed, TypeOK, RightInv, LedgerInv, [Next]_vars PROVE LedgerInv'
<1>1. UNCHANGED <<ip, user, right>> /\ (window.torn => window'.torn)
  <2>1. ASSUME NEW a \in Attempts, Step(a) PROVE UNCHANGED <<ip, user, right>> /\ (window.torn => window'.torn)
    <3>1. Alone(a)
      BY <2>1, CheckMoves, VerifyMoves, ClearMoves, ForgetMoves, ErrorMoves DEF Step, Quiet
    <3>2. window.torn => window'.torn
      <4>1. CASE CheckStep(a)
        <5>1. CASE CountIp(a) \/ CountUser(a)
          BY <5>1 DEF CountIp, CountUser, TypeOK
        <5>2. CASE CountPair(a) \/ UNCHANGED window
          BY <5>2 DEF CountPair
        <5>. QED
          BY <4>1, <5>1, <5>2, CheckMoves
      <4>. QED
        BY <2>1, <4>1, VerifyMoves, ClearMoves, ForgetMoves, ErrorMoves DEF Step, Quiet
    <3>. QED
      BY <3>1, <3>2 DEF Alone, request
  <2>2. ASSUME NEW i \in Ips, IpLockEnds(i) \/ IpWindowEnds(i)
        PROVE  UNCHANGED <<ip, user, right>> /\ (window.torn => window'.torn)
    BY <2>2 DEF IpLockEnds, IpWindowEnds, request, TypeOK
  <2>3. ASSUME NEW u \in Users, UserLockEnds(u) \/ UserWindowEnds(u)
        PROVE  UNCHANGED <<ip, user, right>> /\ (window.torn => window'.torn)
    BY <2>3 DEF UserLockEnds, UserWindowEnds, request, TypeOK
  <2>4. CASE UNCHANGED vars
    BY <2>4 DEF vars, request
  <2>. QED
    BY <2>1, <2>2, <2>3, <2>4 DEF Next, Step
<1>. SUFFICES ASSUME ~window'.torn PROVE Lone' /\ Balanced'
  BY DEF LedgerInv
<1>2. Lone /\ Balanced
  BY <1>1 DEF LedgerInv
<1>7. Lone'
  <2>1. \A a \in Attempts : Pair(a)' = Pair(a)
    BY <1>1 DEF Pair
  <2>2. ASSUME NEW a \in Attempts, Step(a) PROVE Lone'
    BY <1>1, <1>2, <2>2, LoneKept
  <2>3. CASE pc' = pc
    BY <1>1, <1>2, <2>1, <2>3 DEF Lone
  <2>4. (\E a \in Attempts : Step(a)) \/ pc' = pc
    BY DEF Next, Step, IpLockEnds, IpWindowEnds, UserLockEnds, UserWindowEnds, vars
  <2>. QED
    BY <2>2, <2>3, <2>4
<1>3. ASSUME UNCHANGED <<ipCount, pairCount, request, pc, n>>, window'.ip = window.ip PROVE Balanced'
  <2>1. PICK K \in SUBSET Attempts, P \in SUBSET Attempts, Q \in [Attempts -> SUBSET Attempts] : Ledger(K, P, Q)
    BY <1>2 DEF Balanced
  <2>2. Ledger(K, P, Q)'
    <3>1. IpCounts(K)' /\ PairCounts(P)'
      BY <1>3, <2>1, CountsSame DEF Ledger, request
    <3>2. \A a \in Attempts : Own(a, K, P)'
      BY <1>3, <2>1 DEF Ledger, Own, request
    <3>3. \A a \in Attempts : Takes(a, K, P, Q[a])'
      BY <1>3, <2>1 DEF Ledger, Takes, From, Pair, request
    <3>4. \A a \in window'.ip : Victim(user[a])' => a \in K
      BY <1>3, <2>1 DEF Ledger, Victim, request
    <3>. QED
      BY <3>1, <3>2, <3>3, <3>4 DEF Ledger
  <2>. QED
    BY <2>2 DEF Balanced
<1>4. ASSUME NEW i \in Ips, IpLockEnds(i) PROVE Balanced'
  BY <1>3, <1>4 DEF IpLockEnds, counters, pairs
<1>5. ASSUME NEW u \in Users, UserLockEnds(u) \/ UserWindowEnds(u) PROVE Balanced'
  BY <1>3, <1>5 DEF UserLockEnds, UserWindowEnds, counters, pairs, TypeOK
<1>6. CASE UNCHANGED vars
  <2>1. UNCHANGED <<ipCount, pairCount, request, pc, n>> /\ window'.ip = window.ip
    BY <1>6 DEF vars, counters, pairs
  <2>. QED
    BY <1>3, <1>7, <2>1
<1>8. ASSUME NEW a \in Attempts, Step(a) PROVE Balanced'
  <2>1. CASE CheckStep(a)
    BY <1>2, <2>1, CheckKeeps
  <2>2. CASE Verify(a) \/ BackendError(a)
    BY <1>2, <2>2, AnswerKeeps
  <2>3. CASE ClearStep(a)
    BY <1>2, <2>3, ClearKeeps
  <2>4. CASE ForgetStep(a)
    BY <1>2, <2>4, ForgetKeeps
  <2>. QED
    BY <1>8, <2>1, <2>2, <2>3, <2>4 DEF Step
<1>9. ASSUME NEW i \in Ips, IpWindowEnds(i) PROVE Balanced'
  BY <1>2, <1>9, WindowKeeps
<1>. QED
  BY <1>4, <1>5, <1>6, <1>7, <1>8, <1>9 DEF Next, Step

(* However many logins succeed, a success and the forgotten attempt of a    *)
(* correct password take back no more than their username's own failures,   *)
(* whatever else runs from the address: failures against the other          *)
(* usernames stay counted. For any number of attempts, addresses and        *)
(* usernames, with or without clear_all and two-factor login, up to the     *)
(* exceptions that the property names and as long as a backend error does   *)
(* not let an attempt through (policy.py check_and_record, forget_attempt). *)
THEOREM SuccessTakesBackItsOwn == ASSUME FailClosed PROVE Spec => []SuccessesTakeBackTheirOwn
<1>1. Init => LedgerInv
  <2>. SUFFICES ASSUME Init PROVE Balanced
    BY DEF LedgerInv, Lone, Init, Resting
  <2>1. PICK Q \in [Attempts -> SUBSET Attempts] : TRUE
    <3>1. [a \in Attempts |-> {}] \in [Attempts -> SUBSET Attempts]
      OBVIOUS
    <3>. QED
      BY <3>1
  <2>2. IpCounts({}) /\ PairCounts({})
    <3>1. \A i \in Ips : From({}, i) = {} /\ ipCount[i] = 0
      BY DEF From, Init
    <3>2. \A p \in Ips \X Users : For({}, p) = {} /\ pairCount[p] = 0
      BY DEF For, Init
    <3>. QED
      BY <3>1, <3>2, FS_EmptySet DEF IpCounts, PairCounts
  <2>3. \A a \in Attempts : Own(a, {}, {}) /\ Takes(a, {}, {}, Q[a])
    BY DEF Init, Own, Takes, Pending, Forgotten
  <2>4. Ledger({}, {}, Q)
    BY <2>2, <2>3 DEF Ledger, Init
  <2>. QED
    BY <2>1, <2>4 DEF Balanced
<1>2. TypeOK /\ RightInv /\ LedgerInv /\ [Next]_vars => LedgerInv'
  BY LedgerKept
<1>3. TypeOK /\ LedgerInv => SuccessesTakeBackTheirOwn
  <2>. SUFFICES ASSUME TypeOK, LedgerInv, ~window.torn, NEW i \in Ips
                PROVE  ipCount[i] >= Cardinality(FailuresFrom(i))
    BY DEF SuccessesTakeBackTheirOwn, FailuresStayCounted
  <2>1. PICK K \in SUBSET Attempts, P \in SUBSET Attempts, Q \in [Attempts -> SUBSET Attempts] : Ledger(K, P, Q)
    BY DEF LedgerInv, Balanced
  <2>2. PICK S, T : S = From(K, i) /\ T = FailuresFrom(i)
    OBVIOUS
  <2>3. IsFiniteSet(S) /\ ipCount[i] = Cardinality(S)
    BY <2>1, <2>2 DEF Ledger, IpCounts
  <2>4. T \subseteq S
    BY <2>1, <2>2 DEF Ledger, From, FailuresFrom
  <2>5. Cardinality(T) <= Cardinality(S) /\ Cardinality(T) \in Nat /\ Cardinality(S) \in Nat
    BY <2>3, <2>4, FS_Subset, FS_CardinalityType
  <2>. QED
    BY <2>2, <2>3, <2>5
<1>. QED
  BY <1>1, <1>2, <1>3, RightAlways, PTL DEF Spec
=============================================================================
