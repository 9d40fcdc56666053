------------------------------ MODULE MfaProofs ------------------------------
(***************************************************************************)
(* Theorems about Mfa, for any number of requests, codes and time steps.   *)
(* The invariant has four parts that do not need each other: the           *)
(* challenges, the codes, the pending secrets and the enrollment.          *)
(***************************************************************************)
EXTENDS Mfa, FiniteSetTheorems, TLAPS

LEMMA RowFields ==
    ASSUME NEW u \in Rows
    PROVE  /\ u = [secret |-> u.secret, confirmed |-> u.confirmed, step |-> u.step,
                   codes |-> u.codes, ver |-> u.ver, required |-> u.required]
           /\ u.secret \in Sealed \cup {None} /\ u.codes \in CodeLists \cup {None}
           /\ u.confirmed \in BOOLEAN /\ u.required \in BOOLEAN
           /\ u.step \in 0..Steps /\ u.ver \in 0..MaxVersion
           /\ DOMAIN u = {"secret", "confirmed", "step", "codes", "ver", "required"}
BY DEF Rows

(* A row with the second factor reset to a secret or to nothing.            *)
LEMMA ResetFields ==
    ASSUME NEW u \in Rows, NEW s \in Sealed \cup {None}
    PROVE  LET v == [u EXCEPT !.secret = s, !.confirmed = FALSE, !.step = 0, !.codes = None]
           IN  /\ v \in Rows /\ v.secret = s /\ v.confirmed = FALSE /\ v.step = 0
               /\ v.codes = None /\ v.ver = u.ver
<1>1. 0 \in 0..Steps
  BY BoundsAreNatural
<1>. QED
  BY <1>1 DEF Rows

LEMMA SaveFields ==
    ASSUME row \in Rows, seen \in [Requests -> Rows], NEW r \in Requests, NEW copy \in Rows,
           Save(r, copy)
    PROVE  /\ row' \in Rows
           /\ row'.secret = IF copy.secret = seen[r].secret THEN row.secret ELSE copy.secret
           /\ row'.confirmed = IF copy.confirmed = seen[r].confirmed THEN row.confirmed ELSE copy.confirmed
           /\ row'.step = IF copy.step = seen[r].step THEN row.step ELSE copy.step
           /\ row'.codes = IF copy.codes = seen[r].codes THEN row.codes ELSE copy.codes
           /\ row'.ver = IF copy.ver = seen[r].ver THEN row.ver ELSE copy.ver
<1>1. row' = [c \in {"secret", "confirmed", "step", "codes", "ver", "required"} |->
                IF copy[c] = seen[r][c] THEN row[c] ELSE copy[c]]
  BY RowFields DEF Save
<1>. QED
  BY <1>1 DEF Rows

Challenge == [live : BOOLEAN, setup : BOOLEAN, ver : Nat, attempts : Nat]

(* The functions of the state; the rows are typed further down, with what   *)
(* the requests hold.                                                       *)
Shape ==
    /\ pc = [r \in Requests |-> pc[r]] /\ code = [r \in Requests |-> code[r]]
    /\ chal \in [Logins -> Challenge]
    /\ target = [a \in Answers |-> target[a]] /\ count \in [Answers -> Nat]
    /\ began \in [Requests -> Nat] /\ stored \in [Secrets -> Nat]
    /\ row \in Rows /\ seen \in [Requests -> Rows]

-----------------------------------------------------------------------------
(* Challenges. An answer that has reached its challenge was told a number   *)
(* of its own, and the challenge of an answer that won is out of the store. *)
Reached(a) == pc[a] \notin {"idle", "start"}

Challenges ==
    /\ \A a \in Answers : Reached(a) => target[a] \in Logins /\ pc[target[a]] = "done"
    /\ \A a \in Answers : count[a] > 0 => Reached(a) /\ count[a] <= chal[target[a]].attempts
    /\ \A a, b \in Answers : a # b /\ count[a] > 0 /\ count[b] > 0 /\ target[a] = target[b]
                               => count[a] # count[b]
    /\ \A a \in Answers : pc[a] \in Looked \cup {"lockout"} => count[a] \in 1..MaxAttempts
    /\ \A a \in Answers : pc[a] \in Won => ~chal[target[a]].live
    /\ ChallengeUsedOnce

(* A step that moves no answer and no login that has returned.              *)
LEMMA ChallengesKept ==
    ASSUME Shape, Challenges, UNCHANGED <<chal, target, count>>,
           \A x \in Answers \cup Logins : pc'[x] = pc[x] \/ (x \in Logins /\ pc[x] # "done")
    PROVE  Challenges'
<1>1. \A a \in Answers : pc'[a] = pc[a]
  BY RequestsDisjoint
<1>2. \A l \in Logins : pc[l] = "done" => pc'[l] = "done"
  OBVIOUS
<1>. QED
  BY <1>1, <1>2 DEF Challenges, Reached, ChallengeUsedOnce

(* An answer that goes on with the number it was told, and does not win.    *)
LEMMA AnswerMoves ==
    ASSUME Shape, Challenges, NEW a \in Answers, NEW label, Goto(a, label),
           UNCHANGED <<chal, target, count>>, Reached(a), label \notin {"idle", "start"},
           label \in Looked \cup {"lockout"} => pc[a] \in Looked \cup {"lockout"},
           label \in Won => pc[a] \in Won
    PROVE  Challenges'
<1>1. /\ a \in Requests /\ pc'[a] = label /\ \A x \in Requests \ {a} : pc'[x] = pc[x]
  BY DEF Shape, Goto, Requests
<1>2. \A l \in Logins : pc'[l] = pc[l]
  BY <1>1, RequestsDisjoint DEF Requests
<1>3. \A b \in Answers \ {a} : pc'[b] = pc[b]
  BY <1>1 DEF Requests
<1>. QED
  BY <1>1, <1>2, <1>3 DEF Challenges, Reached, ChallengeUsedOnce

(* The challenge of a login is opened while no answer knows of it.          *)
LEMMA OpenKeeps ==
    ASSUME Shape, Challenges, NEW l \in Logins, OpenChallenge(l)
    PROVE  Challenges'
<1>1. /\ pc[l] # "done" /\ UNCHANGED <<target, count>>
      /\ \A x \in Logins \ {l} : chal'[x] = chal[x]
  BY DEF OpenChallenge, Shape
<1>2. \A a \in Answers : pc'[a] = pc[a] /\ (Reached(a) => target[a] # l /\ target[a] \in Logins)
  <2>1. \A x \in Requests \ {l} : pc'[x] = pc[x]
    BY DEF OpenChallenge, Goto, Shape
  <2>2. \A a \in Answers : a \in Requests \ {l}
    BY RequestsDisjoint DEF Requests
  <2>. QED
    BY <1>1, <2>1, <2>2 DEF Challenges
<1>3. \A x \in Logins : pc[x] = "done" => pc'[x] = "done"
  BY <1>1 DEF OpenChallenge, Goto, Shape, Requests
<1>4. \A a \in Answers : Won \subseteq Looked /\ (pc[a] \in Won => Reached(a))
  BY DEF Won, Looked, Reached
<1>. QED
  BY <1>1, <1>2, <1>3, <1>4 DEF Challenges, Reached, ChallengeUsedOnce

LEMMA ExpireKeeps ==
    ASSUME Shape, Challenges, NEW l \in Logins, ChallengeExpires(l)
    PROVE  Challenges'
<1>1. UNCHANGED <<pc, target, count>>
  BY DEF ChallengeExpires
<1>2. \A x \in Logins : chal'[x].attempts = chal[x].attempts /\ (~chal[x].live => ~chal'[x].live)
  BY DEF ChallengeExpires, Shape, Challenge
<1>3. \A a \in Answers : pc[a] \in Won => Reached(a)
  BY DEF Won, Reached
<1>. QED
  BY <1>1, <1>2, <1>3 DEF Challenges, Reached, ChallengeUsedOnce

LEMMA CountKeeps ==
    ASSUME Shape, Challenges, NEW a \in Answers, NEW l \in Logins, CountAttempt(a, l)
    PROVE  Challenges'
<1>1. /\ a \in Requests /\ pc[a] = "start" /\ pc[l] = "done" /\ target'[a] = l
      /\ \A x \in Requests \ {a} : pc'[x] = pc[x]
      /\ \A b \in Answers \ {a} : target'[b] = target[b]
  BY DEF CountAttempt, Goto, Shape, Requests
<1>2. (\A x \in Logins : pc'[x] = pc[x]) /\ \A b \in Answers \ {a} : pc'[b] = pc[b]
  BY <1>1, RequestsDisjoint DEF Requests
<1>3. count[a] = 0 /\ chal[l].attempts \in Nat
  <2>1. ~Reached(a) /\ count[a] \in Nat /\ chal[l] \in Challenge
    BY <1>1 DEF Shape, Reached
  <2>2. ~(count[a] > 0)
    BY <2>1 DEF Challenges
  <2>. QED
    BY <2>1, <2>2 DEF Challenge
<1>4. CASE chal[l].live
  <2>1. /\ \A x \in Logins : chal'[x].live = chal[x].live
        /\ \A x \in Logins \ {l} : chal'[x].attempts = chal[x].attempts
        /\ chal'[l].attempts = chal[l].attempts + 1
    BY <1>4 DEF CountAttempt, Shape, Challenge
  <2>2. /\ count'[a] = chal[l].attempts + 1 /\ \A b \in Answers \ {a} : count'[b] = count[b]
        /\ pc'[a] = IF chal[l].attempts + 1 <= MaxAttempts THEN "lockout" ELSE "drop"
    BY <1>1, <1>4 DEF CountAttempt, Goto, MayCheck, Shape
  <2>3. \A b \in Answers : pc[b] \in Won => Reached(b)
    BY DEF Won, Reached
  <2>4. \A b \in Answers : count[b] \in Nat
    BY DEF Shape
  <2>5. \A x \in Logins : chal[x].attempts \in Nat
    BY DEF Shape, Challenge
  <2>6. pc'[a] \notin Won /\ (pc'[a] \in Looked \cup {"lockout"} => count'[a] \in 1..MaxAttempts)
    BY <1>3, <2>2, BoundsAreNatural DEF Won, Looked
  <2>7. \A b \in Answers \ {a} : count[b] > 0 /\ target[b] = l => count[b] < count'[a]
    BY <1>3, <2>2, <2>4 DEF Challenges
  <2>8. \A b \in Answers : count'[b] > 0 => Reached(b)' /\ count'[b] <= chal'[target'[b]].attempts
    BY <1>1, <1>2, <1>3, <2>1, <2>2, <2>4, <2>5 DEF Challenges, Reached
  <2>9. \A b \in Answers : Reached(b)' => target'[b] \in Logins /\ pc'[target'[b]] = "done"
    BY <1>1, <1>2 DEF Challenges, Reached
  <2>10. \A b, c \in Answers : b # c /\ count'[b] > 0 /\ count'[c] > 0 /\ target'[b] = target'[c]
                               => count'[b] # count'[c]
    BY <1>1, <2>2, <2>4, <2>7 DEF Challenges
  <2>11. \A b \in Answers : pc'[b] \in Won => ~chal'[target'[b]].live
    BY <1>1, <1>2, <2>1, <2>3, <2>6 DEF Challenges
  <2>12. ChallengeUsedOnce'
    BY <1>1, <1>2, <2>6 DEF Challenges, ChallengeUsedOnce
  <2>13. \A b \in Answers : pc'[b] \in Looked \cup {"lockout"} => count'[b] \in 1..MaxAttempts
    BY <1>2, <2>2, <2>6 DEF Challenges
  <2>. QED
    BY <2>8, <2>9, <2>10, <2>11, <2>12, <2>13 DEF Challenges
<1>5. CASE ~chal[l].live
  <2>1. UNCHANGED <<chal, count>> /\ pc'[a] = "refused"
    BY <1>1, <1>5 DEF CountAttempt, Goto, Shape
  <2>. QED
    BY <1>1, <1>2, <1>3, <2>1 DEF Challenges, Reached, ChallengeUsedOnce, Won, Looked
<1>. QED
  BY <1>4, <1>5

(* The challenge is taken out of the store, by the one answer that finds it *)
(* there or by one that gives it up.                                        *)
LEMMA TakeOutKeeps ==
    ASSUME Shape, Challenges, NEW a \in Answers, DropChallenge(a) \/ ConsumeChallenge(a)
    PROVE  Challenges'
<1>1. /\ a \in Requests /\ UNCHANGED <<target, count>> /\ pc[a] \in {"drop", "consume"}
      /\ \A x \in Requests \ {a} : pc'[x] = pc[x]
  BY DEF DropChallenge, ConsumeChallenge, Goto, Shape, Requests
<1>2. (\A x \in Logins : pc'[x] = pc[x]) /\ \A b \in Answers \ {a} : pc'[b] = pc[b]
  BY <1>1, RequestsDisjoint DEF Requests
<1>3. target[a] \in Logins
  BY <1>1 DEF Challenges, Reached
<1>4. /\ \A x \in Logins : chal'[x].attempts = chal[x].attempts /\ (~chal[x].live => ~chal'[x].live)
      /\ ~chal'[target[a]].live
  BY <1>3 DEF DropChallenge, ConsumeChallenge, Shape, Challenge
<1>5. \/ pc'[a] = "refused"
      \/ pc[a] = "consume" /\ pc'[a] \in {"enable", "issue"} /\ chal[target[a]].live
  BY <1>1 DEF DropChallenge, ConsumeChallenge, AfterConsume, Goto, Shape
<1>6. \A b \in Answers : Won \subseteq Looked /\ (pc[b] \in Won => Reached(b))
  BY DEF Won, Looked, Reached
<1>7. pc'[a] \in Won => \A b \in Answers \ {a} : pc[b] \in Won => target[b] # target[a]
  BY <1>5 DEF Challenges, Won
<1>. QED
  BY <1>1, <1>2, <1>3, <1>4, <1>5, <1>6, <1>7 DEF Challenges, Reached, ChallengeUsedOnce, Won, Looked
(* Where the checks of a code and the steps of an enrollment lead.          *)
LEMMA CodeStepMoves ==
    ASSUME Shape, NEW r \in Requests, CodeStep(r)
    PROVE  /\ UNCHANGED <<chal, target, count, stored, began>> /\ pc[r] \in {"code", "recover"}
           /\ \E label \in {Accepted(r), Rejected(r), "recover", "refused"} : Goto(r, label)
<1>1. CASE \E step \in 0..Steps : VerifyTotp(r, step)
  BY <1>1 DEF VerifyTotp, ClaimStep, answers
<1>2. CASE \E c \in Codes : VerifyRecovery(r, c)
  BY <1>2 DEF VerifyRecovery, answers, history
<1>3. CASE ConsumeRecovery(r)
  <2>1. UNCHANGED pc /\ pc[r] = "recover" => Goto(r, "recover")
    BY DEF Shape, Goto
  <2>. QED
    BY <1>3, <2>1 DEF ConsumeRecovery, answers
<1>. QED
  BY <1>1, <1>2, <1>3 DEF CodeStep

LEMMA EnrollStepMoves ==
    ASSUME Shape, NEW r \in Confirms \cup Answers, EnrollStep(r)
    PROVE  /\ UNCHANGED <<chal, target, count, stored, began, code>>
           /\ \/ pc[r] = "claim" /\ \E label \in {"refused", "consume", "rejected"} : Goto(r, label)
              \/ pc[r] = "claim" /\ r \in Confirms /\ Goto(r, "enable")
              \/ pc[r] = "enable" /\ \E label \in {"refused", "issue", "issueboth", "enabled"} : Goto(r, label)
BY DEF EnrollStep, ClaimPending, ClaimStep, Enable, answers, history

LEMMA ManagerKeepsChallenges ==
    ASSUME Shape, Challenges, NEW r \in Managers, NEW label, Goto(r, label), UNCHANGED <<chal, target, count>>
    PROVE  Challenges'
<1>1. \A x \in Requests \ {r} : pc'[x] = pc[x]
  BY DEF Shape, Goto
<1>2. \A x \in Answers \cup Logins : x \in Requests \ {r}
  BY RequestsDisjoint DEF Requests, Managers
<1>. QED
  BY <1>1, <1>2, ChallengesKept

LEMMA LoginKeepsChallenges ==
    ASSUME Shape, Challenges, NEW l \in Logins, NEW label, Goto(l, label), pc[l] # "done",
           UNCHANGED <<chal, target, count>>
    PROVE  Challenges'
<1>1. \A x \in Requests \ {l} : pc'[x] = pc[x]
  BY DEF Shape, Goto
<1>2. \A x \in Answers \cup Logins : x \in Requests
  BY DEF Requests
<1>. QED
  BY <1>1, <1>2, ChallengesKept

LEMMA AnswerKeepsChallenges ==
    ASSUME Shape, Challenges, NEW a \in Answers, AnswerStep(a)
    PROVE  Challenges'
<1>1. a \in Requests /\ a \notin Confirms
  BY RequestsDisjoint DEF Requests
<1>2. ASSUME NEW l \in Logins, CountAttempt(a, l) PROVE Challenges'
  BY <1>2, CountKeeps
<1>3. CASE PassLockout(a)
  <2>1. PICK label \in {"load", "drop"} : Goto(a, label)
    BY <1>3 DEF PassLockout
  <2>2. pc[a] = "lockout" /\ UNCHANGED <<chal, target, count>>
    BY <1>3 DEF PassLockout, answers
  <2>. QED
    BY <2>1, <2>2, AnswerMoves DEF Reached, Looked, Won
<1>4. CASE AnswerRead(a)
  <2>1. PICK label \in {"drop", "code", "rejected", "claim"} : Goto(a, label)
    BY <1>4 DEF AnswerRead
  <2>2. pc[a] = "load" /\ UNCHANGED <<chal, target, count>>
    BY <1>4 DEF AnswerRead, answers
  <2>. QED
    BY <2>1, <2>2, AnswerMoves DEF Reached, Looked, Won
<1>5. CASE WrongCode(a)
  <2>1. PICK label \in {"drop", "refused"} : Goto(a, label)
    BY <1>5 DEF WrongCode
  <2>2. pc[a] = "rejected" /\ UNCHANGED <<chal, target, count>>
    BY <1>5 DEF WrongCode, answers
  <2>. QED
    BY <2>1, <2>2, AnswerMoves DEF Reached, Looked, Won
<1>6. CASE DropChallenge(a) \/ ConsumeChallenge(a)
  BY <1>6, TakeOutKeeps
<1>7. CASE Issue(a)
  <2>1. PICK label \in {"done", "enabled"} : Goto(a, label)
    BY <1>7 DEF Issue
  <2>2. pc[a] \in {"issue", "issueboth"} /\ UNCHANGED <<chal, target, count>>
    BY <1>7 DEF Issue, answers
  <2>. QED
    BY <2>1, <2>2, AnswerMoves DEF Reached, Looked, Won
<1>8. CASE CodeStep(a)
  <2>1. PICK label \in {Accepted(a), Rejected(a), "recover", "refused"} : Goto(a, label)
    BY <1>1, <1>8, CodeStepMoves
  <2>2. pc[a] \in {"code", "recover"} /\ UNCHANGED <<chal, target, count>>
    BY <1>1, <1>8, CodeStepMoves
  <2>3. label \in {"consume", "rejected", "recover", "refused"}
    BY <2>1 DEF Accepted, Rejected
  <2>. QED
    BY <2>1, <2>2, <2>3, AnswerMoves DEF Reached, Looked, Won
<1>9. CASE EnrollStep(a)
  <2>1. /\ UNCHANGED <<chal, target, count>>
        /\ \/ pc[a] = "claim" /\ \E label \in {"refused", "consume", "rejected"} : Goto(a, label)
           \/ pc[a] = "enable" /\ \E label \in {"refused", "issue", "issueboth", "enabled"} : Goto(a, label)
    BY <1>1, <1>9, EnrollStepMoves
  <2>2. CASE pc[a] = "claim" /\ \E label \in {"refused", "consume", "rejected"} : Goto(a, label)
    BY <2>1, <2>2, AnswerMoves DEF Reached, Looked, Won
  <2>3. CASE pc[a] = "enable" /\ \E label \in {"refused", "issue", "issueboth", "enabled"} : Goto(a, label)
    BY <2>1, <2>3, AnswerMoves DEF Reached, Looked, Won
  <2>. QED
    BY <2>1, <2>2, <2>3
<1>. QED
  BY <1>2, <1>3, <1>4, <1>5, <1>6, <1>7, <1>8, <1>9 DEF AnswerStep

LEMMA ChallengesNext == Shape /\ Challenges /\ [Next]_vars => Challenges'
<1>. SUFFICES ASSUME Shape, Challenges, [Next]_vars PROVE Challenges'
  OBVIOUS
<1>1. ASSUME NEW r \in Setups, SetupRead(r) \/ SetupStore(r) PROVE Challenges'
  <2>1. UNCHANGED <<chal, target, count>> /\ \E label : Goto(r, label)
    BY <1>1, Zenon DEF SetupRead, SetupStore, answers
  <2>. QED
    BY <2>1, ManagerKeepsChallenges DEF Managers
<1>2. ASSUME NEW r \in Confirms, ConfirmRead(r) \/ EnrollStep(r) PROVE Challenges'
  <2>1. CASE ConfirmRead(r)
    <3>1. UNCHANGED <<chal, target, count>> /\ \E label : Goto(r, label)
      BY <2>1, Zenon DEF ConfirmRead, answers
    <3>. QED
      BY <3>1, ManagerKeepsChallenges DEF Managers
  <2>2. CASE EnrollStep(r)
    BY <2>2, EnrollStepMoves, ManagerKeepsChallenges DEF Managers
  <2>. QED
    BY <1>2, <2>1, <2>2
<1>3. ASSUME NEW r \in Disables \cup Regenerates, ManageRead(r) \/ CodeStep(r) \/ Disable(r) \/ Regenerate(r)
      PROVE  Challenges'
  <2>1. CASE CodeStep(r)
    BY <2>1, CodeStepMoves, ManagerKeepsChallenges DEF Managers, Requests
  <2>2. CASE ManageRead(r) \/ Disable(r) \/ Regenerate(r)
    <3>1. UNCHANGED <<chal, target, count>> /\ \E label : Goto(r, label)
      BY <2>2, Zenon DEF ManageRead, Disable, Regenerate, answers
    <3>. QED
      BY <3>1, ManagerKeepsChallenges DEF Managers
  <2>. QED
    BY <1>3, <2>1, <2>2
<1>4. ASSUME NEW l \in Logins, LoginRead(l) \/ LoginStore(l) \/ OpenChallenge(l) \/ ChallengeExpires(l)
      PROVE  Challenges'
  <2>1. CASE LoginRead(l) \/ LoginStore(l)
    <3>1. UNCHANGED <<chal, target, count>> /\ \E label : Goto(l, label)
      BY <2>1, Zenon DEF LoginRead, LoginStore, answers
    <3>2. pc[l] # "done"
      BY <2>1 DEF LoginRead, LoginStore
    <3>. QED
      BY <3>1, <3>2, LoginKeepsChallenges
  <2>. QED
    BY <1>4, <2>1, OpenKeeps, ExpireKeeps
<1>5. ASSUME NEW a \in Answers, AnswerStep(a) PROVE Challenges'
  BY <1>5, AnswerKeepsChallenges
<1>6. CASE BumpVersion \/ UNCHANGED vars
  BY <1>6, ChallengesKept DEF BumpVersion, vars, answers
<1>. QED
  BY <1>1, <1>2, <1>3, <1>4, <1>5, <1>6 DEF Next

(* Numbers of their own up to max_code_attempts: at most that many answers. *)
LEMMA ChallengesBound == Shape /\ Challenges => ChallengeBounded
<1>. SUFFICES ASSUME Shape, Challenges, NEW l \in Logins
              PROVE  Cardinality({a \in Answers : target[a] = l /\ pc[a] \in Looked}) <= MaxAttempts
  BY DEF ChallengeBounded, AttemptsBounded, Challenges
<1>. DEFINE S == {a \in Answers : target[a] = l /\ pc[a] \in Looked}
            f == [a \in S |-> count[a]]
<1>1. f \in Injection(S, 1..MaxAttempts)
  <2>1. \A a \in S : count[a] \in 1..MaxAttempts /\ count[a] > 0
    BY BoundsAreNatural DEF Challenges
  <2>2. \A a, b \in S : a # b => count[a] # count[b]
    BY <2>1 DEF Challenges
  <2>. QED
    BY <2>1, <2>2 DEF Injection, IsInjective
<1>2. IsFiniteSet(1..MaxAttempts) /\ Cardinality(1..MaxAttempts) = MaxAttempts
  <2>1. 0 \in Int /\ MaxAttempts \in Int /\ 1 \in Int /\ MaxAttempts >= 0
    BY BoundsAreNatural
  <2>. QED
    BY <2>1, FS_Interval
<1>3. Cardinality(S) <= Cardinality(1..MaxAttempts)
  BY <1>1, <1>2, FS_Injection
<1>. QED
  BY <1>2, <1>3
-----------------------------------------------------------------------------
(* What the writes do to the row.                                           *)
LEMMA StoreEffect ==
    ASSUME Shape, NEW r \in Setups \cup Logins, StorePending(r)
    PROVE  /\ row' \in Rows /\ seen' \in [Requests -> Rows] /\ seen'[r] = row'
           /\ \A x \in Requests \ {r} : seen'[x] = seen[x]
           /\ row'.ver = row.ver /\ row'.codes \in {row.codes, None} /\ row'.step \in {row.step, 0}
           /\ row'.confirmed = (row.confirmed /\ ~seen[r].confirmed)
           /\ row'.secret \in {row.secret, [key |-> r, bound |-> seen[r].ver]}
           /\ [key |-> r, bound |-> seen[r].ver] \in Sealed
           /\ spent' = IF row'.step < row.step THEN {p \in spent : p[2] \in Codes} ELSE spent
           /\ stored' \in [Secrets -> Nat] /\ stored'[r] = row.ver
           /\ \A k \in Secrets \ {r} : stored'[k] = stored[k]
<1>. DEFINE copy == [seen[r] EXCEPT !.secret = [key |-> r, bound |-> seen[r].ver],
                                    !.confirmed = FALSE, !.step = 0, !.codes = None]
<1>1. r \in Requests /\ r \in Secrets /\ seen[r] \in Rows /\ row.ver \in Nat
  BY RowFields, BoundsAreNatural DEF Requests, Managers, Secrets, Shape
<1>2. [key |-> r, bound |-> seen[r].ver] \in Sealed
  BY <1>1, RowFields, BoundsAreNatural DEF Sealed, Unbound
<1>3. /\ copy \in Rows /\ copy.secret = [key |-> r, bound |-> seen[r].ver] /\ copy.confirmed = FALSE
      /\ copy.step = 0 /\ copy.codes = None /\ copy.ver = seen[r].ver
  BY <1>1, <1>2, ResetFields, ZenonT(60)
<1>4. Save(r, copy) /\ stored' = [stored EXCEPT ![r] = row.ver]
  BY DEF StorePending
<1>. HIDE DEF copy
<1>5. /\ row' \in Rows
      /\ row'.secret = IF copy.secret = seen[r].secret THEN row.secret ELSE copy.secret
      /\ row'.confirmed = IF copy.confirmed = seen[r].confirmed THEN row.confirmed ELSE copy.confirmed
      /\ row'.step = IF copy.step = seen[r].step THEN row.step ELSE copy.step
      /\ row'.codes = IF copy.codes = seen[r].codes THEN row.codes ELSE copy.codes
      /\ row'.ver = IF copy.ver = seen[r].ver THEN row.ver ELSE copy.ver
  BY <1>1, <1>3, <1>4, SaveFields DEF Shape
<1>6. /\ seen' = [seen EXCEPT ![r] = row']
      /\ spent' = IF row'.step < row.step THEN {p \in spent : p[2] \in Codes} ELSE spent
  BY <1>4 DEF Save, Reload
<1>7. row'.confirmed = (row.confirmed /\ ~seen[r].confirmed)
  BY <1>1, <1>3, <1>5, RowFields DEF Shape
<1>. QED
  BY <1>1, <1>2, <1>3, <1>4, <1>5, <1>6, <1>7 DEF Shape

LEMMA DisableEffect ==
    ASSUME Shape, NEW r \in Disables, Disable(r)
    PROVE  /\ row' \in Rows /\ seen' \in [Requests -> Rows] /\ seen'[r] = row'
           /\ \A x \in Requests \ {r} : seen'[x] = seen[x]
           /\ row'.ver = row.ver /\ row'.codes \in {row.codes, None} /\ row'.step \in {row.step, 0}
           /\ row'.secret \in {row.secret, None}
           /\ spent' = IF row'.step < row.step THEN {p \in spent : p[2] \in Codes} ELSE spent
<1>. DEFINE copy == [seen[r] EXCEPT !.secret = None, !.confirmed = FALSE, !.step = 0, !.codes = None]
<1>1. r \in Requests /\ seen[r] \in Rows
  BY DEF Requests, Managers, Shape
<1>2. /\ copy \in Rows /\ copy.secret = None /\ copy.step = 0 /\ copy.codes = None /\ copy.ver = seen[r].ver
  BY <1>1, ResetFields, ZenonT(60)
<1>3. Save(r, copy)
  BY DEF Disable
<1>. HIDE DEF copy
<1>4. /\ row' \in Rows
      /\ row'.secret = IF copy.secret = seen[r].secret THEN row.secret ELSE copy.secret
      /\ row'.step = IF copy.step = seen[r].step THEN row.step ELSE copy.step
      /\ row'.codes = IF copy.codes = seen[r].codes THEN row.codes ELSE copy.codes
      /\ row'.ver = IF copy.ver = seen[r].ver THEN row.ver ELSE copy.ver
  BY <1>1, <1>2, <1>3, SaveFields DEF Shape
<1>5. /\ seen' = [seen EXCEPT ![r] = row']
      /\ spent' = IF row'.step < row.step THEN {p \in spent : p[2] \in Codes} ELSE spent
  BY <1>3 DEF Save, Reload
<1>. QED
  BY <1>1, <1>2, <1>4, <1>5 DEF Shape

LEMMA NewCodesTyped ==
    ASSUME NEW r \in Confirms \cup Regenerates \cup Answers
    PROVE  NewCodes(r) \in CodeLists /\ NewCodes(r).left = {<<r, i>> : i \in 1..CodeCount}
BY DEF NewCodes, CodeLists, Codes, Requests, Managers

LEMMA RegenerateEffect ==
    ASSUME Shape, NEW r \in Regenerates, Regenerate(r)
    PROVE  \/ UNCHANGED <<row, seen, spent>> /\ Goto(r, "refused")
           \/ /\ row' \in Rows /\ seen' \in [Requests -> Rows] /\ seen'[r] = row'
              /\ \A x \in Requests \ {r} : seen'[x] = seen[x]
              /\ row'.ver = row.ver /\ row'.codes \in {row.codes, NewCodes(r)} /\ row'.step = row.step
              /\ row'.secret = row.secret /\ row'.confirmed = row.confirmed
              /\ spent' = spent /\ Goto(r, "done")
<1>1. CASE ~IsEnrolled(seen[r])
  BY <1>1 DEF Regenerate
<1>2. CASE IsEnrolled(seen[r])
  <2>. DEFINE copy == [seen[r] EXCEPT !.codes = NewCodes(r)]
  <2>1. r \in Requests /\ seen[r] \in Rows
    BY DEF Requests, Managers, Shape
  <2>2. NewCodes(r) \in CodeLists
    BY NewCodesTyped
  <2>3. /\ copy \in Rows /\ copy.secret = seen[r].secret /\ copy.step = seen[r].step
        /\ copy.confirmed = seen[r].confirmed /\ copy.codes = NewCodes(r) /\ copy.ver = seen[r].ver
    BY <2>1, <2>2 DEF Rows
  <2>4. Save(r, copy) /\ Goto(r, "done")
    BY <1>2 DEF Regenerate
  <2>. HIDE DEF copy
  <2>5. /\ row' \in Rows
        /\ row'.secret = IF copy.secret = seen[r].secret THEN row.secret ELSE copy.secret
        /\ row'.confirmed = IF copy.confirmed = seen[r].confirmed THEN row.confirmed ELSE copy.confirmed
        /\ row'.step = IF copy.step = seen[r].step THEN row.step ELSE copy.step
        /\ row'.codes = IF copy.codes = seen[r].codes THEN row.codes ELSE copy.codes
        /\ row'.ver = IF copy.ver = seen[r].ver THEN row.ver ELSE copy.ver
    BY <2>1, <2>3, <2>4, SaveFields DEF Shape
  <2>6. row.step \in Nat /\ ~(row.step < row.step)
    BY RowFields, BoundsAreNatural DEF Shape
  <2>7. seen' = [seen EXCEPT ![r] = row'] /\ spent' = spent
    BY <2>3, <2>4, <2>5, <2>6 DEF Save, Reload
  <2>. QED
    BY <2>1, <2>3, <2>4, <2>5, <2>7 DEF Shape
<1>. QED
  BY <1>1, <1>2

(* A time step is claimed, or refused with the row as it is.                *)
LEMMA ClaimEffect ==
    ASSUME Shape, NEW r \in Requests, NEW key, NEW step \in 0..Steps, NEW yes, NEW no,
           ClaimStep(r, key, step, yes, no)
    PROVE  /\ row' \in Rows /\ seen' \in [Requests -> Rows] /\ seen'[r] = row'
           /\ \A x \in Requests \ {r} : seen'[x] = seen[x]
           /\ row'.ver = row.ver /\ row'.codes = row.codes /\ row'.secret = row.secret
           /\ row'.confirmed = row.confirmed
           /\ \/ /\ row.step < step /\ row'.step = step /\ Goto(r, yes)
                 /\ spent' = spent \cup {<<r, <<"step", key, step>>>>}
              \/ UNCHANGED <<row, spent>> /\ Goto(r, no)
<1>1. CASE row.step < step
  <2>1. row' = [row EXCEPT !.step = step] /\ seen' = [seen EXCEPT ![r] = row'] /\ Goto(r, yes)
        /\ spent' = spent \cup {<<r, <<"step", key, step>>>>}
    BY <1>1 DEF ClaimStep, Reload
  <2>2. /\ row' \in Rows /\ row'.ver = row.ver /\ row'.codes = row.codes /\ row'.secret = row.secret
        /\ row'.confirmed = row.confirmed /\ row'.step = step
    BY <2>1 DEF Shape, Rows
  <2>. QED
    BY <1>1, <2>1, <2>2 DEF Shape
<1>2. CASE ~(row.step < step)
  BY <1>2 DEF ClaimStep, Reload, Shape
<1>. QED
  BY <1>1, <1>2

(* A recovery code is spent, or the row stays as it is.                     *)
LEMMA ConsumeEffect ==
    ASSUME Shape, NEW r \in Requests, ConsumeRecovery(r)
    PROVE  /\ row' \in Rows /\ seen' \in [Requests -> Rows] /\ seen'[r] \in {seen[r], row'}
           /\ \A x \in Requests \ {r} : seen'[x] = seen[x]
           /\ row'.ver = row.ver /\ row'.step = row.step /\ row'.secret = row.secret
           /\ row'.confirmed = row.confirmed
           /\ \/ /\ code[r] \in LeftCodes(row) /\ LeftCodes(row') = LeftCodes(row) \ {code[r]}
                 /\ spent' = spent \cup {<<r, code[r]>>} /\ Goto(r, Accepted(r))
              \/ UNCHANGED <<row, spent>> /\ Goto(r, Rejected(r))
              \/ UNCHANGED <<row, spent, pc>>
<1>1. CASE tries[r] = 0 \/ code[r] \notin LeftCodes(seen[r])
  BY <1>1 DEF ConsumeRecovery, Shape
<1>2. CASE ~(tries[r] = 0 \/ code[r] \notin LeftCodes(seen[r])) /\ row.codes # seen[r].codes
  BY <1>2 DEF ConsumeRecovery, Shape, Reload
<1>3. CASE ~(tries[r] = 0 \/ code[r] \notin LeftCodes(seen[r])) /\ row.codes = seen[r].codes
  <2>1. /\ row' = [row EXCEPT !.codes.left = @ \ {code[r]}] /\ seen' = [seen EXCEPT ![r] = row']
        /\ spent' = spent \cup {<<r, code[r]>>} /\ Goto(r, Accepted(r))
    BY <1>3 DEF ConsumeRecovery, Reload
  <2>2. row.codes # None /\ row.codes \in CodeLists /\ code[r] \in row.codes.left /\ code[r] \in LeftCodes(row)
    BY <1>3, RowFields DEF LeftCodes, Shape
  <2>3. [row.codes EXCEPT !.left = @ \ {code[r]}] \in CodeLists
    BY <2>2 DEF CodeLists
  <2>4. row'.codes = [row.codes EXCEPT !.left = @ \ {code[r]}] /\ row' \in Rows
    BY <2>1, <2>3 DEF Shape, Rows
  <2>5. row'.ver = row.ver /\ row'.step = row.step /\ row'.secret = row.secret /\ row'.confirmed = row.confirmed
    BY <2>1 DEF Shape, Rows
  <2>6. row'.codes # None /\ row'.codes.left = row.codes.left \ {code[r]}
    BY <2>2, <2>3, <2>4, NoneIsNoValue DEF CodeLists
  <2>7. LeftCodes(row') = LeftCodes(row) \ {code[r]}
    BY <2>2, <2>6 DEF LeftCodes
  <2>. QED
    BY <2>1, <2>2, <2>4, <2>5, <2>7 DEF Shape
<1>. QED
  BY <1>1, <1>2, <1>3

(* An authenticator is enabled, or the row stays as it is.                  *)
LEMMA EnableEffect ==
    ASSUME Shape, NEW r \in Confirms \cup Answers, Enable(r), code[r] \in Secrets
    PROVE  /\ row' \in Rows /\ seen' \in [Requests -> Rows] /\ seen'[r] = row'
           /\ \A x \in Requests \ {r} : seen'[x] = seen[x]
           /\ row'.ver = row.ver /\ row'.step = row.step
           /\ [key |-> code[r], bound |-> Unbound] \in Sealed
           /\ \/ UNCHANGED row /\ row.confirmed /\ \E label \in {"refused", "issue"} : Goto(r, label)
              \/ /\ ~row.confirmed /\ row'.confirmed = TRUE /\ row'.codes = NewCodes(r)
                 /\ row'.secret = [key |-> code[r], bound |-> Unbound]
                 /\ \E label \in {"enabled", "issueboth"} : Goto(r, label)
<1>1. r \in Requests /\ [key |-> code[r], bound |-> Unbound] \in Sealed /\ NewCodes(r) \in CodeLists
  BY NewCodesTyped, BoundsAreNatural DEF Requests, Managers, Sealed, Unbound
<1>2. seen' = [seen EXCEPT ![r] = row']
  BY DEF Enable, Reload
<1>3. CASE row.confirmed
  BY <1>1, <1>2, <1>3 DEF Enable, Shape
<1>4. CASE ~row.confirmed
  <2>1. row' = EnabledRow(r) /\ \E label \in {"enabled", "issueboth"} : Goto(r, label)
    BY <1>4 DEF Enable
  <2>2. /\ row' \in Rows /\ row'.ver = row.ver /\ row'.step = row.step /\ row'.confirmed = TRUE
        /\ row'.codes = NewCodes(r) /\ row'.secret = [key |-> code[r], bound |-> Unbound]
    BY <1>1, <2>1 DEF EnabledRow, Shape, Rows
  <2>. QED
    BY <1>1, <1>2, <1>4, <2>1, <2>2 DEF Shape
<1>. QED
  BY <1>3, <1>4
-----------------------------------------------------------------------------
(* Pending secrets. A secret that is still bound to a version was stored    *)
(* under that version or a later one, and a request that is to enable a     *)
(* secret read it as pending under the version it began with.               *)
Early     == {"idle", "start", "store"}
Issued(k) == k \in Setups \cup Logins /\ pc[k] \notin Early

Sound(secret) ==
    \/ secret = None
    \/ secret.key = Initial /\ secret.bound = Unbound
    \/ Issued(secret.key) /\ (secret.bound # Unbound => secret.bound <= stored[secret.key])

Enrolling(r) ==
    \/ pc[r] \in {"claim", "enable", "issueboth", "enabled"}
    \/ pc[r] = "consume" /\ r \in Answers /\ chal[target[r]].setup

Holds(r) == Issued(code[r]) /\ began[r] <= stored[code[r]]

Enrollers == Confirms \cup Answers

HoldInv(r) ==
    /\ r \in Enrollers /\ Enrolling(r) => Holds(r)
    /\ r \in Answers /\ pc[r] \in {"code", "recover"} => ~chal[target[r]].setup
    /\ seen[r].ver <= row.ver

Pending == Sound(row.secret) /\ \A r \in Requests : HoldInv(r)

(* What a step never does: undo the storing of a secret, or lower the       *)
(* version; and a request it does not move.                                 *)
Onward ==
    /\ \A k \in Setups \cup Logins : Issued(k) => Issued(k)' /\ stored'[k] = stored[k]
    /\ row.ver <= row'.ver

Stays(r) ==
    /\ pc'[r] = pc[r] /\ code'[r] = code[r] /\ seen'[r] = seen[r] /\ began'[r] = began[r]
    /\ r \in Answers => target'[r] = target[r]
    /\ r \in Answers /\ Reached(r) => chal'[target[r]].setup = chal[target[r]].setup

LEMMA StaysKept ==
    ASSUME Shape, Shape', Onward, NEW r \in Requests, Stays(r), HoldInv(r)
    PROVE  HoldInv(r)'
<1>1. r \in Enrollers /\ Enrolling(r)' => Enrolling(r)
  BY RequestsDisjoint DEF Stays, Enrolling, Reached, Enrollers
<1>2. r \in Enrollers /\ Enrolling(r) => Holds(r)'
  BY DEF HoldInv, Holds, Onward, Stays, Issued
<1>3. r \in Answers /\ pc'[r] \in {"code", "recover"} => ~chal'[target'[r]].setup
  BY DEF HoldInv, Stays, Reached
<1>4. seen'[r].ver <= row'.ver
  <2>1. seen[r].ver \in Nat /\ row.ver \in Nat /\ row'.ver \in Nat
    BY RowFields, BoundsAreNatural DEF Shape
  <2>. QED
    BY <2>1 DEF HoldInv, Stays, Onward
<1>. QED
  BY <1>1, <1>2, <1>3, <1>4 DEF HoldInv

LEMMA SoundKept ==
    ASSUME Onward, Sound(row.secret), row'.secret = row.secret
    PROVE  Sound(row.secret)'
BY DEF Sound, Onward, Issued

LEMMA PendingKept ==
    ASSUME Shape, Shape', Pending, Onward, NEW r \in Requests,
           \A x \in Requests \ {r} : Stays(x), HoldInv(r)',
           row'.secret = row.secret \/ Sound(row.secret)'
    PROVE  Pending'
BY StaysKept, SoundKept DEF Pending

(* A request moves on, and the row keeps its secret and its version.        *)
LEMMA OnwardKept ==
    ASSUME Shape, Shape', NEW r \in Requests, NEW label, Goto(r, label), pc[r] \notin Early => label \notin Early,
           UNCHANGED stored, row.ver <= row'.ver
    PROVE  Onward
<1>1. \A x \in Requests : pc[x] \notin Early => pc'[x] \notin Early
  BY DEF Shape, Goto
<1>. QED
  BY <1>1 DEF Onward, Issued, Requests, Managers
Base == Shape /\ Challenges /\ Pending

(* The request r alone moves, to label; the challenges keep their kind.     *)
Moves(r, label) ==
    /\ Goto(r, label) /\ (pc[r] \notin Early => label \notin Early)
    /\ code' = [x \in Requests |-> code'[x]] /\ target' = [a \in Answers |-> target'[a]]
    /\ began' \in [Requests -> Nat] /\ row' \in Rows /\ seen' \in [Requests -> Rows]
    /\ chal' \in [Logins -> Challenge] /\ count' \in [Answers -> Nat]
    /\ \A x \in Requests \ {r} : code'[x] = code[x] /\ seen'[x] = seen[x] /\ began'[x] = began[x]
    /\ \A a \in Answers \ {r} : target'[a] = target[a]
    /\ \A l \in Logins : chal'[l].setup = chal[l].setup

LEMMA MovesStay ==
    ASSUME Base, NEW r \in Requests, NEW label, Moves(r, label)
    PROVE  /\ \A x \in Requests \ {r} : Stays(x)
           /\ pc' = [x \in Requests |-> pc'[x]] /\ pc'[r] = label
<1>1. /\ pc' = [x \in Requests |-> pc'[x]] /\ pc'[r] = label
      /\ \A x \in Requests \ {r} : pc'[x] = pc[x]
  BY DEF Base, Shape, Goto, Moves
<1>2. \A a \in Answers : Reached(a) => target[a] \in Logins
  BY DEF Base, Challenges
<1>. QED
  BY <1>1, <1>2 DEF Stays, Moves

(* A step that stores no secret.                                            *)
LEMMA MoveKeeps ==
    ASSUME Base, NEW r \in Requests, NEW label, Moves(r, label), UNCHANGED stored,
           row.ver <= row'.ver, HoldInv(r)',
           row'.secret = row.secret \/ Sound(row.secret)'
    PROVE  Shape' /\ Pending'
<1>1. (\A x \in Requests \ {r} : Stays(x)) /\ pc' = [x \in Requests |-> pc'[x]]
  BY MovesStay
<1>2. Shape'
  BY <1>1 DEF Base, Shape, Moves
<1>3. Onward
  BY <1>2, OnwardKept DEF Base, Moves
<1>. QED
  BY <1>1, <1>2, <1>3, PendingKept DEF Base

(* A request that is no closer to enabling a secret, and whose copy is the  *)
(* old one or the row.                                                      *)
LEMMA QuietHolds ==
    ASSUME Base, NEW r \in Requests, NEW label, Moves(r, label), UNCHANGED stored,
           row'.ver = row.ver, seen'[r] \in {seen[r], row'},
           r \in Enrollers /\ Enrolling(r)' => Enrolling(r) /\ code'[r] = code[r] /\ began'[r] = began[r],
           r \in Answers /\ label \in {"code", "recover"} => pc[r] \in {"code", "recover"} /\ target'[r] = target[r]
    PROVE  HoldInv(r)'
<1>1. pc'[r] = label /\ \A x \in Requests : pc[x] \notin Early => pc'[x] \notin Early
  BY MovesStay DEF Moves, Goto, Base, Shape
<1>2. r \in Enrollers /\ Enrolling(r)' => Holds(r)'
  <2>1. r \in Enrollers /\ Enrolling(r)' => Holds(r)
    BY DEF Base, Pending, HoldInv
  <2>. QED
    BY <1>1, <2>1 DEF Holds, Issued, Requests, Managers
<1>3. r \in Answers /\ pc'[r] \in {"code", "recover"} => ~chal'[target'[r]].setup
  <2>1. r \in Answers /\ pc[r] \in {"code", "recover"} => target[r] \in Logins /\ ~chal[target[r]].setup
    BY DEF Base, Challenges, Reached, Pending, HoldInv
  <2>. QED
    BY <1>1, <2>1 DEF Moves
<1>4. seen'[r].ver <= row'.ver
  <2>1. row'.ver \in Nat /\ seen[r].ver <= row.ver
    BY RowFields, BoundsAreNatural DEF Moves, Base, Pending, HoldInv
  <2>. QED
    BY <2>1
<1>. QED
  BY <1>2, <1>3, <1>4 DEF HoldInv

LEMMA QuietKeeps ==
    ASSUME Base, NEW r \in Requests, NEW label, Moves(r, label), UNCHANGED stored,
           row'.ver = row.ver, seen'[r] \in {seen[r], row'},
           r \in Enrollers /\ Enrolling(r)' => Enrolling(r) /\ code'[r] = code[r] /\ began'[r] = began[r],
           r \in Answers /\ label \in {"code", "recover"} => pc[r] \in {"code", "recover"} /\ target'[r] = target[r],
           row'.secret = row.secret \/ Sound(row.secret)'
    PROVE  Shape' /\ Pending'
<1>1. HoldInv(r)'
  BY QuietHolds
<1>2. row.ver <= row'.ver
  BY RowFields, BoundsAreNatural DEF Base, Shape
<1>. QED
  BY <1>1, <1>2, MoveKeeps

(* The row is read: the copy is the row, and the version is noted.          *)
LEMMA LoadMoves ==
    ASSUME Base, NEW r \in Requests, NEW label, Load(r), Goto(r, label), label \notin {"idle", "start"},
           pc[r] \notin Early => label \notin Early,
           UNCHANGED <<row, answers>>, code' = [x \in Requests |-> code'[x]],
           \A x \in Requests \ {r} : code'[x] = code[x]
    PROVE  Moves(r, label) /\ seen'[r] = row' /\ began'[r] = row.ver
<1>1. row.ver \in Nat
  BY RowFields, BoundsAreNatural DEF Base, Shape
<1>. QED
  BY <1>1 DEF Base, Shape, Load, Moves, answers

(* A pending secret was stored under the row's version or a later one.      *)
LEMMA PendingHeld ==
    ASSUME Base, PendingSecret(row) # None
    PROVE  Issued(PendingSecret(row)) /\ row.ver <= stored[PendingSecret(row)]
<1>1. /\ row.secret # None /\ PendingSecret(row) = row.secret.key /\ row.secret.bound = row.ver
  BY DEF PendingSecret
<1>2. row.ver # Unbound
  BY RowFields, BoundsAreNatural DEF Base, Shape, Unbound
<1>. QED
  BY <1>1, <1>2 DEF Base, Pending, Sound

LEMMA ReadKeeps ==
    ASSUME Base, NEW r \in Requests, NEW label, Load(r), Goto(r, label), label \notin {"idle", "start"},
           pc[r] \notin Early => label \notin Early,
           UNCHANGED <<row, answers, stored>>, code' = [x \in Requests |-> code'[x]],
           \A x \in Requests \ {r} : code'[x] = code[x],
           r \in Enrollers =>
              \/ label \notin {"claim", "enable", "issueboth", "enabled", "consume"}
              \/ label = "claim" /\ code'[r] = PendingSecret(row) /\ PendingSecret(row) # None,
           r \in Answers /\ label \in {"code", "recover"} => ~chal[target[r]].setup
    PROVE  Shape' /\ Pending'
<1>1. Moves(r, label) /\ seen'[r] = row' /\ began'[r] = row.ver
  BY LoadMoves
<1>2. pc'[r] = label /\ \A x \in Requests : pc[x] \notin Early => pc'[x] \notin Early
  BY <1>1, MovesStay DEF Goto, Base, Shape
<1>3. r \in Enrollers /\ Enrolling(r)' => Holds(r)'
  <2>1. r \in Enrollers /\ Enrolling(r)' => code'[r] = PendingSecret(row) /\ PendingSecret(row) # None
    BY <1>2 DEF Enrolling
  <2>. QED
    BY <1>1, <1>2, <2>1, PendingHeld DEF Holds, Issued, Requests, Managers
<1>4. row.ver \in Nat /\ seen'[r].ver <= row'.ver
  BY <1>1, RowFields, BoundsAreNatural DEF Base, Shape
<1>5. HoldInv(r)'
  BY <1>2, <1>3, <1>4 DEF HoldInv, answers
<1>. QED
  BY <1>1, <1>4, <1>5, MoveKeeps
(* The steps that read the row.                                             *)
LEMMA ReadsKeep ==
    ASSUME Base, NEW r \in Requests,
           \/ r \in Setups /\ SetupRead(r)
           \/ r \in Confirms /\ ConfirmRead(r)
           \/ r \in Disables \cup Regenerates /\ ManageRead(r)
           \/ r \in Logins /\ LoginRead(r)
           \/ r \in Answers /\ AnswerRead(r)
    PROVE  Shape' /\ Pending'
<1>. USE DEF Base, Shape
<1>1. CASE r \in Setups /\ SetupRead(r)
  <2>1. r \notin Enrollers /\ r \notin Answers
    BY <1>1, RequestsDisjoint DEF Enrollers
  <2>2. PICK label \in {"refused", "store"} : Goto(r, label)
    BY <1>1 DEF SetupRead
  <2>. QED
    BY <1>1, <2>1, <2>2, ReadKeeps DEF SetupRead, Early
<1>2. CASE r \in Confirms /\ ConfirmRead(r)
  <2>1. r \notin Answers
    BY <1>2, RequestsDisjoint
  <2>2. PICK label : /\ Goto(r, label)
                     /\ label = "refused" \/ (label = "claim" /\ PendingSecret(row) # None)
    <3>1. CASE IsEnrolled(row) \/ PendingSecret(row) = None
      BY <1>2, <3>1 DEF ConfirmRead
    <3>2. CASE ~(IsEnrolled(row) \/ PendingSecret(row) = None)
      BY <1>2, <3>2 DEF ConfirmRead
    <3>. QED
      BY <3>1, <3>2
  <2>3. Load(r) /\ pc[r] = "start" /\ UNCHANGED <<row, answers, stored>>
    BY <1>2 DEF ConfirmRead
  <2>4. /\ code' = [x \in Requests |-> code'[x]] /\ code'[r] = PendingSecret(row)
        /\ \A x \in Requests \ {r} : code'[x] = code[x]
    BY <1>2 DEF ConfirmRead, Use
  <2>. QED
    BY <2>1, <2>2, <2>3, <2>4, ReadKeeps DEF Early
<1>3. CASE r \in Disables \cup Regenerates /\ ManageRead(r)
  <2>1. r \notin Enrollers /\ r \notin Answers
    BY <1>3, RequestsDisjoint DEF Enrollers
  <2>2. PICK label \in {"refused", "code"} : Goto(r, label)
    BY <1>3 DEF ManageRead
  <2>. QED
    BY <1>3, <2>1, <2>2, ReadKeeps DEF ManageRead, Early
<1>4. CASE r \in Logins /\ LoginRead(r)
  <2>1. r \notin Enrollers /\ r \notin Answers
    BY <1>4, RequestsDisjoint DEF Enrollers
  <2>2. PICK label \in {"open", "done", "store", "openset"} : Goto(r, label)
    BY <1>4 DEF LoginRead
  <2>. QED
    BY <1>4, <2>1, <2>2, ReadKeeps DEF LoginRead, Early
<1>5. CASE r \in Answers /\ AnswerRead(r)
  <2>1. Load(r) /\ pc[r] = "load" /\ UNCHANGED <<row, answers, stored>>
    BY <1>5 DEF AnswerRead
  <2>2. /\ code' = [x \in Requests |-> code'[x]]
        /\ \A x \in Requests \ {r} : code'[x] = code[x]
    BY <1>5 DEF AnswerRead, Use
  <2>3. PICK label : /\ Goto(r, label) /\ label \notin {"idle", "start", "store", "recover"}
                     /\ label \notin {"enable", "issueboth", "enabled", "consume"}
                     /\ label = "claim" => PendingSecret(row) # None /\ code'[r] = PendingSecret(row)
                     /\ label = "code" => ~chal[target[r]].setup
    BY <1>5 DEF AnswerRead, Use
  <2>. QED
    BY <1>5, <2>1, <2>2, <2>3, ReadKeeps DEF Early
<1>. QED
  BY <1>1, <1>2, <1>3, <1>4, <1>5

(* The steps that check a code.                                             *)
LEMMA CodeStepKeeps ==
    ASSUME Base, NEW r \in Disables \cup Regenerates \cup Answers, CodeStep(r)
    PROVE  Shape' /\ Pending'
<1>. USE DEF Base, Shape
<1>1. r \in Requests /\ r \notin Confirms
  BY RequestsDisjoint DEF Requests, Managers
<1>2. /\ UNCHANGED <<chal, target, count, stored, began>> /\ pc[r] \in {"code", "recover"}
  BY <1>1, CodeStepMoves
<1>3. PICK label \in {Accepted(r), Rejected(r), "recover", "refused"} : Goto(r, label)
  BY <1>1, CodeStepMoves
<1>4. label \in {"consume", "accepted", "rejected", "refused", "recover"}
  BY <1>3 DEF Accepted, Rejected
<1>5. pc'[r] = label
  BY <1>1, <1>3 DEF Goto
<1>6. r \in Answers => ~chal'[target'[r]].setup
  BY <1>1, <1>2 DEF Pending, HoldInv
<1>7. ~(r \in Enrollers /\ Enrolling(r)')
  BY <1>1, <1>4, <1>5, <1>6 DEF Enrolling, Enrollers
<1>8. /\ row' \in Rows /\ seen' \in [Requests -> Rows] /\ seen'[r] \in {seen[r], row'}
      /\ \A x \in Requests \ {r} : seen'[x] = seen[x]
      /\ row'.ver = row.ver /\ row'.secret = row.secret
      /\ code' = [x \in Requests |-> code'[x]] /\ \A x \in Requests \ {r} : code'[x] = code[x]
  <2>1. ASSUME NEW step \in 0..Steps, VerifyTotp(r, step)
        PROVE  /\ row' \in Rows /\ seen' \in [Requests -> Rows] /\ seen'[r] \in {seen[r], row'}
               /\ \A x \in Requests \ {r} : seen'[x] = seen[x]
               /\ row'.ver = row.ver /\ row'.secret = row.secret /\ UNCHANGED code
    <3>1. CASE ClaimStep(r, seen[r].secret.key, step, Accepted(r), Rejected(r))
      BY <1>1, <2>1, <3>1, ClaimEffect DEF VerifyTotp
    <3>2. CASE UNCHANGED <<row, seen>>
      BY <2>1, <3>2 DEF VerifyTotp
    <3>. QED
      BY <2>1, <3>1, <3>2 DEF VerifyTotp
  <2>2. ASSUME NEW c \in Codes, VerifyRecovery(r, c)
        PROVE  UNCHANGED <<row, seen>> /\ code' = [code EXCEPT ![r] = c]
    BY <2>2 DEF VerifyRecovery, Use
  <2>3. CASE ConsumeRecovery(r)
    BY <1>1, <2>3, ConsumeEffect DEF ConsumeRecovery
  <2>. QED
    BY <1>1, <2>1, <2>2, <2>3 DEF CodeStep
<1>9. Moves(r, label)
  BY <1>2, <1>3, <1>4, <1>8 DEF Moves, Early
<1>. QED
  BY <1>1, <1>2, <1>4, <1>7, <1>8, <1>9, QuietKeeps

(* The steps of an enrollment: the claim of a time step, and the enabling.  *)
LEMMA EnrollStepKeeps ==
    ASSUME Base, NEW r \in Confirms \cup Answers, EnrollStep(r)
    PROVE  Shape' /\ Pending'
<1>. USE DEF Base, Shape
<1>1. r \in Requests /\ UNCHANGED <<chal, target, count, stored, began, code>> /\ pc[r] \in {"claim", "enable"}
  BY EnrollStepMoves DEF Requests, Managers
<1>2. PICK label \in {"refused", "consume", "rejected", "enable", "issue", "issueboth", "enabled"} : Goto(r, label)
  BY EnrollStepMoves
<1>3. r \in Enrollers /\ Enrolling(r)
  BY <1>1 DEF Enrolling, Enrollers
<1>4. Issued(code[r]) /\ code[r] \in Secrets
  BY <1>1, <1>3 DEF Pending, HoldInv, Holds, Issued, Secrets
<1>5. /\ row' \in Rows /\ seen' \in [Requests -> Rows] /\ seen'[r] = row'
      /\ \A x \in Requests \ {r} : seen'[x] = seen[x]
      /\ row'.ver = row.ver
      /\ row'.secret = row.secret \/ row'.secret = [key |-> code[r], bound |-> Unbound]
  <2>1. ASSUME NEW step \in 0..Steps, ClaimPending(r, step)
        PROVE  /\ row' \in Rows /\ seen' \in [Requests -> Rows] /\ seen'[r] = row'
               /\ \A x \in Requests \ {r} : seen'[x] = seen[x]
               /\ row'.ver = row.ver /\ row'.secret = row.secret
    BY <1>1, <2>1, ClaimEffect DEF ClaimPending
  <2>2. CASE Enable(r)
    BY <1>4, <2>2, EnableEffect
  <2>. QED
    BY <2>1, <2>2 DEF EnrollStep
<1>6. Moves(r, label)
  BY <1>1, <1>2, <1>5 DEF Moves, Early
<1>7. row'.secret = row.secret \/ Sound(row.secret)'
  <2>1. Issued(code[r])'
    <3>1. code[r] \in Requests /\ pc[code[r]] \notin Early
      BY <1>4 DEF Issued, Requests, Managers
    <3>2. pc'[code[r]] \notin Early
      BY <1>1, <1>2, <3>1 DEF Goto, Early
    <3>. QED
      BY <1>1, <1>4, <3>2 DEF Issued
  <2>. QED
    BY <1>1, <1>5, <2>1 DEF Sound
<1>. QED
  BY <1>1, <1>2, <1>3, <1>5, <1>6, <1>7, QuietKeeps
(* A secret is stored under the version of the row, which the version it is *)
(* bound to does not exceed.                                                *)
LEMMA StoreKeeps ==
    ASSUME Base, NEW r \in Setups \cup Logins, NEW label \in {"done", "openset"}, pc[r] = "store",
           StorePending(r), Goto(r, label), UNCHANGED <<code, answers, began>>
    PROVE  Shape' /\ Pending'
<1>. USE DEF Base, Shape
<1>1. r \in Requests /\ r \notin Enrollers /\ r \notin Answers /\ r \in Secrets
  BY RequestsDisjoint DEF Enrollers, Requests, Managers, Secrets
<1>2. /\ row' \in Rows /\ seen' \in [Requests -> Rows] /\ seen'[r] = row'
      /\ \A x \in Requests \ {r} : seen'[x] = seen[x]
      /\ row'.ver = row.ver /\ row'.secret \in {row.secret, [key |-> r, bound |-> seen[r].ver]}
      /\ stored' \in [Secrets -> Nat] /\ stored'[r] = row.ver
      /\ \A k \in Secrets \ {r} : stored'[k] = stored[k]
  BY StoreEffect
<1>3. Moves(r, label)
  BY <1>2 DEF Moves, Early, answers
<1>4. (\A x \in Requests \ {r} : Stays(x)) /\ pc' = [x \in Requests |-> pc'[x]] /\ pc'[r] = label
  BY <1>1, <1>3, MovesStay
<1>5. Shape'
  BY <1>2, <1>4 DEF answers
<1>6. row.ver \in Nat /\ seen[r].ver \in Nat /\ seen[r].ver <= row.ver
  <2>1. row.ver \in 0..MaxVersion /\ seen[r].ver \in 0..MaxVersion /\ MaxVersion \in Nat
    BY <1>1, RowFields, BoundsAreNatural
  <2>2. seen[r].ver <= row.ver
    BY <1>1 DEF Pending, HoldInv
  <2>. QED
    BY <2>1, <2>2
<1>7. Onward
  <2>1. \A k \in Setups \cup Logins : Issued(k) => k # r /\ k \in Secrets /\ k \in Requests /\ pc'[k] \notin Early
    BY <1>4 DEF Issued, Early, Stays, Secrets, Requests, Managers
  <2>. QED
    BY <1>2, <1>6, <2>1 DEF Onward, Issued
<1>8. HoldInv(r)'
  BY <1>1, <1>2, <1>6 DEF HoldInv
<1>9. row'.secret = row.secret \/ Sound(row.secret)'
  <2>1. ASSUME row'.secret = [key |-> r, bound |-> seen[r].ver] PROVE Sound(row.secret)'
    <3>1. row'.secret.key = r /\ row'.secret.bound = seen[r].ver
      BY <2>1
    <3>2. Issued(row.secret.key)'
      BY <1>4, <3>1 DEF Issued, Early
    <3>. QED
      BY <1>2, <1>6, <3>1, <3>2 DEF Sound
  <2>. QED
    BY <1>2, <2>1
<1>. QED
  BY <1>1, <1>4, <1>5, <1>7, <1>8, <1>9, PendingKept

LEMMA DisableKeeps ==
    ASSUME Base, NEW r \in Disables, Disable(r)
    PROVE  Shape' /\ Pending'
<1>. USE DEF Base, Shape
<1>1. r \in Requests /\ r \notin Enrollers /\ r \notin Answers
  BY RequestsDisjoint DEF Enrollers, Requests, Managers
<1>2. Goto(r, "done") /\ UNCHANGED <<code, chal, target, count, stored, began>>
  BY DEF Disable, answers
<1>3. /\ row' \in Rows /\ seen' \in [Requests -> Rows] /\ seen'[r] = row'
      /\ \A x \in Requests \ {r} : seen'[x] = seen[x]
      /\ row'.ver = row.ver /\ row'.secret \in {row.secret, None}
  BY DisableEffect
<1>4. Moves(r, "done")
  BY <1>2, <1>3 DEF Moves, Early
<1>5. row'.secret = row.secret \/ Sound(row.secret)'
  BY <1>3 DEF Sound
<1>. QED
  BY <1>1, <1>2, <1>3, <1>4, <1>5, QuietKeeps

LEMMA RegenerateKeeps ==
    ASSUME Base, NEW r \in Regenerates, Regenerate(r)
    PROVE  Shape' /\ Pending'
<1>. USE DEF Base, Shape
<1>1. r \in Requests /\ r \notin Enrollers /\ r \notin Answers
  BY RequestsDisjoint DEF Enrollers, Requests, Managers
<1>2. UNCHANGED <<code, chal, target, count, stored, began>>
  BY DEF Regenerate, answers
<1>3. PICK label \in {"done", "refused"} : Goto(r, label)
  BY RegenerateEffect
<1>4. /\ row' \in Rows /\ seen' \in [Requests -> Rows] /\ seen'[r] \in {seen[r], row'}
      /\ \A x \in Requests \ {r} : seen'[x] = seen[x]
      /\ row'.ver = row.ver /\ row'.secret = row.secret
  BY RegenerateEffect
<1>5. Moves(r, label)
  BY <1>2, <1>3, <1>4 DEF Moves, Early
<1>. QED
  BY <1>1, <1>2, <1>3, <1>4, <1>5, QuietKeeps

(* A login opens its challenge before any answer to it has arrived.         *)
LEMMA OpenKeepsPending ==
    ASSUME Base, NEW l \in Logins, OpenChallenge(l)
    PROVE  Shape' /\ Pending'
<1>. USE DEF Base, Shape
<1>1. l \in Requests /\ l \notin Enrollers /\ l \notin Answers
  BY RequestsDisjoint DEF Enrollers, Requests, Managers
<1>2. /\ Goto(l, "done") /\ pc[l] \in {"open", "openset"}
      /\ UNCHANGED <<row, seen, code, target, count, stored, began>>
  BY DEF OpenChallenge, copies, history
<1>3. chal' \in [Logins -> Challenge] /\ \A x \in Logins \ {l} : chal'[x] = chal[x]
  <2>1. [live |-> TRUE, setup |-> pc[l] = "openset", ver |-> seen[l].ver, attempts |-> 0] \in Challenge
    BY <1>1, RowFields, BoundsAreNatural DEF Challenge
  <2>. QED
    BY <2>1 DEF OpenChallenge
<1>4. Shape'
  BY <1>2, <1>3 DEF Goto
<1>5. pc'[l] = "done" /\ \A x \in Requests \ {l} : pc'[x] = pc[x]
  BY <1>1, <1>2 DEF Goto
<1>6. \A a \in Answers : Reached(a) => target[a] \in Logins \ {l}
  BY <1>2 DEF Challenges
<1>7. \A x \in Requests \ {l} : Stays(x)
  BY <1>2, <1>3, <1>5, <1>6 DEF Stays
<1>8. row.ver \in Nat
  BY RowFields, BoundsAreNatural
<1>9. Onward
  BY <1>1, <1>2, <1>4, <1>8, OnwardKept DEF Early
<1>10. HoldInv(l)'
  BY <1>1, <1>2 DEF HoldInv, Pending
<1>. QED
  BY <1>1, <1>2, <1>4, <1>7, <1>9, <1>10, PendingKept

LEMMA ExpireKeepsPending ==
    ASSUME Base, NEW l \in Logins, ChallengeExpires(l)
    PROVE  Shape' /\ Pending'
<1>. USE DEF Base, Shape
<1>1. UNCHANGED <<row, pc, seen, code, target, count, stored, began>>
  BY DEF ChallengeExpires, copies, history
<1>2. chal' \in [Logins -> Challenge] /\ \A x \in Logins : chal'[x].setup = chal[x].setup
  BY DEF ChallengeExpires, Challenge
<1>3. Shape'
  BY <1>1, <1>2
<1>4. \A a \in Answers : Reached(a) => target[a] \in Logins
  BY DEF Challenges
<1>5. \A x \in Requests : Stays(x)
  BY <1>1, <1>2, <1>4 DEF Stays
<1>6. row.ver \in Nat
  BY RowFields, BoundsAreNatural
<1>7. Onward
  BY <1>1, <1>6 DEF Onward, Issued
<1>8. \A x \in Requests : HoldInv(x)'
  BY <1>3, <1>5, <1>7, StaysKept DEF Pending
<1>. QED
  BY <1>1, <1>3, <1>7, <1>8, SoundKept DEF Pending

(* The other steps of an answer.                                            *)
LEMMA AnswerKeepsPending ==
    ASSUME Base, NEW a \in Answers, AnswerStep(a)
    PROVE  Shape' /\ Pending'
<1>. USE DEF Base, Shape
<1>1. a \in Requests /\ a \notin Confirms /\ row.ver \in Nat
  BY RequestsDisjoint, RowFields, BoundsAreNatural DEF Requests
<1>2. ASSUME NEW l \in Logins, CountAttempt(a, l) PROVE Shape' /\ Pending'
  <2>1. /\ UNCHANGED <<row, seen, code, stored, began>> /\ pc[a] = "start"
        /\ target' = [target EXCEPT ![a] = l]
    BY <1>2 DEF CountAttempt, copies, history
  <2>2. PICK label \in {"lockout", "drop", "refused"} : Goto(a, label)
    BY <1>2 DEF CountAttempt
  <2>3. /\ chal' \in [Logins -> Challenge] /\ count' \in [Answers -> Nat]
        /\ \A x \in Logins : chal'[x].setup = chal[x].setup
    <3>1. chal[l] \in Challenge /\ chal[l].attempts \in Nat
      BY DEF Challenge
    <3>2. CASE chal[l].live
      <4>1. count' = [count EXCEPT ![a] = chal[l].attempts + 1]
        BY <1>2, <3>2 DEF CountAttempt
      <4>2. chal' = [chal EXCEPT ![l] = [chal[l] EXCEPT !.attempts = chal[l].attempts + 1]]
        BY <1>2, <3>2 DEF CountAttempt
      <4>3. /\ [chal[l] EXCEPT !.attempts = chal[l].attempts + 1] \in Challenge
            /\ [chal[l] EXCEPT !.attempts = chal[l].attempts + 1].setup = chal[l].setup
        BY <3>1 DEF Challenge
      <4>. HIDE DEF Challenge
      <4>. QED
        BY <3>1, <4>1, <4>2, <4>3
    <3>3. CASE ~chal[l].live
      BY <1>2, <3>3 DEF CountAttempt
    <3>. QED
      BY <3>2, <3>3
  <2>4. Moves(a, label)
    BY <2>1, <2>2, <2>3 DEF Moves, Early
  <2>5. pc'[a] = label
    BY <1>1, <2>2 DEF Goto
  <2>6. ~Enrolling(a)'
    BY <2>2, <2>5 DEF Enrolling
  <2>. QED
    BY <1>1, <2>1, <2>2, <2>4, <2>6, QuietKeeps
<1>3. CASE PassLockout(a) \/ WrongCode(a)
  <2>1. UNCHANGED <<row, seen, code, chal, target, count, stored, began>> /\ pc[a] \in {"lockout", "rejected"}
    BY <1>3 DEF PassLockout, WrongCode, copies, answers, history
  <2>2. PICK label \in {"load", "drop", "refused"} : Goto(a, label)
    BY <1>3 DEF PassLockout, WrongCode
  <2>3. Moves(a, label)
    BY <2>1, <2>2 DEF Moves, Early
  <2>4. pc'[a] = label
    BY <1>1, <2>2 DEF Goto
  <2>5. ~Enrolling(a)'
    BY <2>2, <2>4 DEF Enrolling
  <2>. QED
    BY <1>1, <2>1, <2>2, <2>3, <2>5, QuietKeeps
<1>4. CASE Issue(a)
  <2>1. UNCHANGED <<row, seen, code, chal, target, count, stored, began>>
    BY <1>4 DEF Issue, copies, answers, history
  <2>2. PICK label \in {"done", "enabled"} : Goto(a, label) /\ (label = "enabled" => pc[a] = "issueboth")
    BY <1>4 DEF Issue
  <2>3. Moves(a, label)
    BY <2>1, <2>2 DEF Moves, Early
  <2>4. pc'[a] = label
    BY <1>1, <2>2 DEF Goto
  <2>5. Enrolling(a)' => Enrolling(a)
    BY <2>2, <2>4 DEF Enrolling
  <2>. QED
    BY <1>1, <2>1, <2>2, <2>3, <2>5, QuietKeeps
<1>5. CASE DropChallenge(a) \/ ConsumeChallenge(a)
  <2>1. /\ UNCHANGED <<row, seen, code, target, count, stored, began>> /\ pc[a] \in {"drop", "consume"}
        /\ chal' = [chal EXCEPT ![target[a]].live = FALSE]
    BY <1>5 DEF DropChallenge, ConsumeChallenge, copies, history
  <2>2. target[a] \in Logins
    BY <2>1 DEF Challenges, Reached
  <2>3. PICK label \in {"enable", "issue", "refused"} :
               Goto(a, label) /\ (label = "enable" => pc[a] = "consume" /\ chal[target[a]].setup)
    BY <1>5 DEF DropChallenge, ConsumeChallenge, AfterConsume
  <2>4. chal' \in [Logins -> Challenge] /\ \A x \in Logins : chal'[x].setup = chal[x].setup
    BY <2>1 DEF Challenge
  <2>5. Moves(a, label)
    BY <2>1, <2>3, <2>4 DEF Moves, Early
  <2>6. pc'[a] = label
    BY <1>1, <2>3 DEF Goto
  <2>7. Enrolling(a)' => Enrolling(a)
    BY <2>3, <2>6 DEF Enrolling
  <2>. QED
    BY <1>1, <2>1, <2>3, <2>5, <2>7, QuietKeeps
<1>6. CASE AnswerRead(a)
  BY <1>1, <1>6, ReadsKeep
<1>7. CASE CodeStep(a)
  BY <1>7, CodeStepKeeps
<1>8. CASE EnrollStep(a)
  BY <1>8, EnrollStepKeeps
<1>. QED
  BY <1>2, <1>3, <1>4, <1>5, <1>6, <1>7, <1>8 DEF AnswerStep

LEMMA BumpKeeps == ASSUME Base, BumpVersion \/ UNCHANGED vars PROVE Shape' /\ Pending'
<1>. USE DEF Base, Shape
<1>1. UNCHANGED <<pc, seen, code, chal, target, count, stored, began>>
  BY DEF BumpVersion, vars, copies, answers, history
<1>2. row' \in Rows /\ row'.secret = row.secret /\ row.ver <= row'.ver
  <2>1. CASE BumpVersion
    <3>1. row.ver + 1 \in 0..MaxVersion /\ row.ver \in Nat
      BY <2>1, RowFields, BoundsAreNatural DEF BumpVersion
    <3>2. row' = [row EXCEPT !.ver = row.ver + 1]
      BY <2>1 DEF BumpVersion
    <3>3. row' \in Rows /\ row'.secret = row.secret /\ row'.ver = row.ver + 1
      BY <3>1, <3>2 DEF Rows
    <3>. QED
      BY <3>1, <3>3
  <2>2. CASE UNCHANGED vars
    BY <2>2, RowFields, BoundsAreNatural DEF vars
  <2>. QED
    BY <2>1, <2>2
<1>3. Shape'
  BY <1>1, <1>2
<1>4. Onward /\ \A x \in Requests : Stays(x)
  BY <1>1, <1>2 DEF Onward, Issued, Stays
<1>5. \A x \in Requests : HoldInv(x)'
  BY <1>3, <1>4, StaysKept DEF Pending
<1>. QED
  BY <1>2, <1>3, <1>4, <1>5, SoundKept DEF Pending

LEMMA BaseNext == Base /\ [Next]_vars => Base'
<1>. SUFFICES ASSUME Base, [Next]_vars PROVE Shape' /\ Pending'
  BY ChallengesNext DEF Base
<1>1. ASSUME NEW r \in Setups, SetupRead(r) \/ SetupStore(r) PROVE Shape' /\ Pending'
  BY <1>1, ReadsKeep, StoreKeeps DEF SetupStore, Requests, Managers
<1>2. ASSUME NEW r \in Confirms, ConfirmRead(r) \/ EnrollStep(r) PROVE Shape' /\ Pending'
  BY <1>2, ReadsKeep, EnrollStepKeeps DEF Requests, Managers
<1>3. ASSUME NEW r \in Disables, ManageRead(r) \/ CodeStep(r) \/ Disable(r) PROVE Shape' /\ Pending'
  BY <1>3, ReadsKeep, CodeStepKeeps, DisableKeeps DEF Requests, Managers
<1>4. ASSUME NEW r \in Regenerates, ManageRead(r) \/ CodeStep(r) \/ Regenerate(r) PROVE Shape' /\ Pending'
  BY <1>4, ReadsKeep, CodeStepKeeps, RegenerateKeeps DEF Requests, Managers
<1>5. ASSUME NEW l \in Logins, LoginRead(l) \/ LoginStore(l) \/ OpenChallenge(l) \/ ChallengeExpires(l)
      PROVE  Shape' /\ Pending'
  BY <1>5, ReadsKeep, StoreKeeps, OpenKeepsPending, ExpireKeepsPending DEF LoginStore, Requests, Managers
<1>6. ASSUME NEW a \in Answers, AnswerStep(a) PROVE Shape' /\ Pending'
  BY <1>6, AnswerKeepsPending
<1>7. CASE BumpVersion \/ UNCHANGED vars
  BY <1>7, BumpKeeps
<1>. QED
  BY <1>1, <1>2, <1>3, <1>4, <1>5, <1>6, <1>7 DEF Next

LEMMA BaseInit == Init => Base
<1>. SUFFICES ASSUME Init PROVE Base
  OBVIOUS
<1>1. \A b \in BOOLEAN : Blank(b) \in Rows /\ Blank(b).ver = 0 /\ Blank(b).secret = None
  BY BoundsAreNatural DEF Blank, Rows
<1>2. ASSUME NEW b \in BOOLEAN
      PROVE  /\ EnrolledBefore(b) \in Rows /\ EnrolledBefore(b).ver = 0
             /\ EnrolledBefore(b).secret = [key |-> Initial, bound |-> Unbound]
  <2>. DEFINE s == [key |-> Initial, bound |-> Unbound]
              c == [by |-> Initial, left |-> {Initial} \X (1..CodesBefore)]
              u == Blank(b)
  <2>1. s \in Sealed
    BY BoundsAreNatural DEF Sealed, Secrets, Unbound
  <2>2. c \in CodeLists
    BY DEF CodeLists, Codes
  <2>3. EnrolledBefore(b) = [u EXCEPT !.secret = s, !.confirmed = TRUE, !.codes = c]
    BY DEF EnrolledBefore
  <2>4. u \in Rows /\ u.ver = 0
    BY <1>1
  <2>5. s = [key |-> Initial, bound |-> Unbound]
    OBVIOUS
  <2>. HIDE DEF s, c, u
  <2>6. EnrolledBefore(b) \in Rows /\ EnrolledBefore(b).ver = u.ver /\ EnrolledBefore(b).secret = s
    BY <2>1, <2>2, <2>3, <2>4 DEF Rows
  <2>. QED
    BY <2>4, <2>5, <2>6
<1>3. row \in Rows /\ row.ver = 0 /\ row.secret \in {None, [key |-> Initial, bound |-> Unbound]}
  BY <1>1, <1>2 DEF Init
<1>4. \A r \in Requests : seen[r] \in Rows /\ seen[r].ver = 0 /\ pc[r] \in {"idle", "start"}
  BY <1>1 DEF Init
<1>5. Shape
  BY <1>1, <1>3 DEF Init, Shape, NoChallenge, Challenge
<1>6. Challenges
  <2>1. \A a \in Answers : pc[a] \in {"idle", "start"} /\ count[a] = 0
    BY <1>4 DEF Init, Requests
  <2>. QED
    BY <2>1 DEF Challenges, ChallengeUsedOnce, Reached, Won, Looked
<1>7. Pending
  <2>1. Sound(row.secret)
    BY <1>3 DEF Sound
  <2>2. \A r \in Requests : HoldInv(r)
    BY <1>3, <1>4 DEF HoldInv, Enrolling
  <2>. QED
    BY <2>1, <2>2 DEF Pending
<1>. QED
  BY <1>5, <1>6, <1>7 DEF Base

LEMMA BaseAlways == Spec => []Base
BY BaseInit, BaseNext, PTL DEF Spec

-----------------------------------------------------------------------------
(* However many answers to a challenge are sent at once, it is good for     *)
(* max_code_attempts looks at a code and for one login (mfa/service.py      *)
(* complete_challenge).                                                     *)
THEOREM ChallengesHold == Spec => []ChallengeBounded
<1>1. Base => ChallengeBounded
  BY ChallengesBound DEF Base
<1>. QED
  BY <1>1, BaseAlways, PTL

(* A secret stored before a password reset or change is not enabled by a    *)
(* request that began after it (mfa/service.py _pending_secret).            *)
THEOREM PendingDiesWithPassword == Spec => []OldPendingNotEnabled
<1>1. Base => OldPendingNotEnabled
  <2>. SUFFICES ASSUME Base, NEW r \in Confirms \cup Answers, EnabledBy(r)
                PROVE  stored[code[r]] >= began[r]
    BY DEF OldPendingNotEnabled
  <2>1. r \in Requests /\ r \in Enrollers /\ Enrolling(r)
    BY DEF EnabledBy, Enrolling, Enrollers, Requests, Managers
  <2>2. Issued(code[r]) /\ began[r] <= stored[code[r]]
    BY <2>1 DEF Base, Pending, HoldInv, Holds
  <2>3. stored[code[r]] \in Nat /\ began[r] \in Nat
    BY <2>1, <2>2 DEF Base, Shape, Issued, Secrets
  <2>. QED
    BY <2>2, <2>3
<1>. QED
  BY <1>1, BaseAlways, PTL
-----------------------------------------------------------------------------
(* The codes and the enrollment. Every step is one of these moves, by one   *)
(* request, and leaves the place and the copy of every other one alone.     *)
Made   == {"issueboth", "enabled", "done"}
Makers == Confirms \cup Regenerates \cup Answers

Alone(r) ==
    /\ \A x \in Requests \ {r} : pc'[x] = pc[x] /\ seen'[x] = seen[x]
    /\ pc[r] \in Made => pc'[r] \in Made
    /\ pc[r] = "done" => pc'[r] = "done"
    /\ pc[r] = "recover" => pc'[r] # Accepted(r) \/ code[r] \in LeftCodes(row)

Elsewhere == {"store", "issueboth", "enabled"}

SecretKept == row'.secret = row.secret /\ row'.confirmed = row.confirmed

MaybeCleared ==
    /\ row'.codes \in {row.codes, None} /\ row'.step \in {row.step, 0}
    /\ spent' = IF row'.step < row.step THEN {p \in spent : p[2] \in Codes} ELSE spent

Waits(r) ==
    /\ UNCHANGED <<row, spent>>
    /\ EnabledBy(r)' => EnabledBy(r)
    /\ pc'[r] = "store" => seen'[r] = row /\ ~IsEnrolled(row)

Claims(r) ==
    /\ row.step < row'.step /\ row'.codes = row.codes /\ SecretKept /\ pc'[r] \notin Elsewhere
    /\ \E key : spent' = spent \cup {<<r, <<"step", key, row'.step>>>>}

Consumes(r) ==
    /\ code[r] \in LeftCodes(row) /\ LeftCodes(row') = LeftCodes(row) \ {code[r]}
    /\ row'.step = row.step /\ SecretKept /\ pc'[r] \notin Elsewhere
    /\ spent' = spent \cup {<<r, code[r]>>}

Stores(r) ==
    /\ r \in Setups \cup Logins /\ pc[r] = "store" /\ pc'[r] \notin Elsewhere /\ MaybeCleared
    /\ row'.confirmed = (row.confirmed /\ ~seen[r].confirmed)
    /\ row'.secret = row.secret \/ row'.secret # None

Resets(r) == r \in Disables /\ pc'[r] = "done" /\ MaybeCleared

Makes(r) ==
    /\ r \in Makers /\ pc[r] \notin Made /\ pc'[r] \in Made
    /\ row'.codes \in {row.codes, NewCodes(r)} /\ row'.step = row.step /\ UNCHANGED spent
    /\ \/ SecretKept /\ pc'[r] = "done"
       \/ ~row.confirmed /\ row'.confirmed /\ row'.secret # None

Acts(r) == Alone(r) /\ (Waits(r) \/ Claims(r) \/ Consumes(r) \/ Stores(r) \/ Resets(r) \/ Makes(r))

Outside ==
    UNCHANGED <<pc, seen, spent>> /\ row'.codes = row.codes /\ row'.step = row.step /\ SecretKept

(* A request that leaves the row alone.                                     *)
LEMMA WaitsActs ==
    ASSUME Shape, NEW r \in Requests, NEW label, Goto(r, label), UNCHANGED <<row, spent>>,
           pc[r] \notin Made \/ (pc[r] = "issueboth" /\ label = "enabled"),
           label \notin Elsewhere \/ (label = "enabled" /\ pc[r] = "issueboth")
             \/ (label = "store" /\ seen'[r] = row /\ ~IsEnrolled(row)),
           pc[r] = "recover" => label # Accepted(r),
           \A x \in Requests \ {r} : seen'[x] = seen[x]
    PROVE  Acts(r)
<1>1. pc'[r] = label /\ \A x \in Requests \ {r} : pc'[x] = pc[x]
  BY DEF Shape, Goto
<1>2. Alone(r)
  BY <1>1 DEF Alone, Made
<1>3. Waits(r)
  BY <1>1 DEF Waits, Elsewhere, EnabledBy
<1>. QED
  BY <1>2, <1>3 DEF Acts

LEMMA ReadsAct ==
    ASSUME Base, NEW r \in Requests,
           SetupRead(r) \/ ConfirmRead(r) \/ ManageRead(r) \/ LoginRead(r) \/ AnswerRead(r)
    PROVE  Acts(r)
<1>1. /\ UNCHANGED <<row, spent>> /\ pc[r] \in {"start", "load"}
      /\ seen' = [seen EXCEPT ![r] = row]
  BY DEF SetupRead, ConfirmRead, ManageRead, LoginRead, AnswerRead, Load
<1>2. PICK label : /\ Goto(r, label) /\ label \notin {"issueboth", "enabled"}
                   /\ label = "store" => ~IsEnrolled(row)
  <2>1. CASE SetupRead(r)
    BY <2>1 DEF SetupRead
  <2>2. CASE ConfirmRead(r)
    BY <2>2 DEF ConfirmRead
  <2>3. CASE ManageRead(r)
    BY <2>3 DEF ManageRead
  <2>4. CASE LoginRead(r)
    BY <2>4 DEF LoginRead
  <2>5. CASE AnswerRead(r)
    BY <2>5 DEF AnswerRead
  <2>. QED
    BY <2>1, <2>2, <2>3, <2>4, <2>5
<1>3. seen'[r] = row /\ \A x \in Requests \ {r} : seen'[x] = seen[x]
  BY <1>1 DEF Base, Shape
<1>. QED
  BY <1>1, <1>2, <1>3, WaitsActs DEF Base, Made, Elsewhere

(* The steps of an answer that leave the row alone, and the opening of its  *)
(* challenge.                                                               *)
LEMMA AnswersAct ==
    ASSUME Base, NEW r \in Requests,
           \/ \E l \in Logins : CountAttempt(r, l)
           \/ PassLockout(r) \/ WrongCode(r) \/ DropChallenge(r) \/ ConsumeChallenge(r) \/ Issue(r)
           \/ OpenChallenge(r)
    PROVE  Acts(r)
<1>1. UNCHANGED <<row, seen, spent>>
  BY DEF CountAttempt, PassLockout, WrongCode, DropChallenge, ConsumeChallenge, Issue, OpenChallenge,
         copies, history
<1>2. CASE Issue(r)
  <2>1. \/ pc[r] = "issue" /\ Goto(r, "done")
        \/ pc[r] = "issueboth" /\ Goto(r, "enabled")
    BY <1>2 DEF Issue
  <2>. QED
    BY <1>1, <2>1, WaitsActs DEF Base, Made, Elsewhere
<1>3. CASE ~Issue(r)
  <2>1. pc[r] \in {"start", "lockout", "rejected", "drop", "consume", "open", "openset"}
    BY <1>3 DEF CountAttempt, PassLockout, WrongCode, DropChallenge, ConsumeChallenge, OpenChallenge
  <2>2. PICK label \in {"lockout", "drop", "refused", "load", "enable", "issue", "done"} : Goto(r, label)
    BY <1>3 DEF CountAttempt, PassLockout, WrongCode, DropChallenge, ConsumeChallenge, OpenChallenge,
                AfterConsume
  <2>. QED
    BY <1>1, <2>1, <2>2, WaitsActs DEF Base, Made, Elsewhere
<1>. QED
  BY <1>2, <1>3
(* A claim of a time step, successful or not.                               *)
LEMMA ClaimActs ==
    ASSUME Base, NEW r \in Requests, NEW key, NEW step \in 0..Steps, NEW yes, NEW no,
           ClaimStep(r, key, step, yes, no), pc[r] \in {"claim", "code"},
           yes \notin Elsewhere, no \notin Elsewhere
    PROVE  Acts(r)
<1>1. /\ \A x \in Requests \ {r} : seen'[x] = seen[x]
      /\ row'.codes = row.codes /\ SecretKept
      /\ \/ /\ row.step < step /\ row'.step = step /\ Goto(r, yes)
            /\ spent' = spent \cup {<<r, <<"step", key, step>>>>}
         \/ UNCHANGED <<row, spent>> /\ Goto(r, no)
  BY ClaimEffect DEF Base, SecretKept
<1>2. CASE UNCHANGED <<row, spent>> /\ Goto(r, no)
  BY <1>1, <1>2, WaitsActs DEF Base, Made
<1>3. CASE /\ row.step < step /\ row'.step = step /\ Goto(r, yes)
           /\ spent' = spent \cup {<<r, <<"step", key, step>>>>}
  <2>1. pc'[r] = yes /\ \A x \in Requests \ {r} : pc'[x] = pc[x]
    BY <1>3 DEF Base, Shape, Goto
  <2>2. Alone(r)
    BY <1>1, <2>1 DEF Alone, Made
  <2>3. Claims(r)
    BY <1>1, <1>3, <2>1 DEF Claims
  <2>. QED
    BY <2>2, <2>3 DEF Acts
<1>. QED
  BY <1>1, <1>2, <1>3

LEMMA CodeStepActs ==
    ASSUME Base, NEW r \in Requests, CodeStep(r)
    PROVE  Acts(r)
<1>1. Accepted(r) \notin Elsewhere \cup {"recover"} /\ Rejected(r) \notin Elsewhere
      /\ Accepted(r) # Rejected(r)
  BY DEF Accepted, Rejected, Elsewhere
<1>2. ASSUME NEW step \in 0..Steps, VerifyTotp(r, step) PROVE Acts(r)
  <2>1. pc[r] = "code"
    BY <1>2 DEF VerifyTotp
  <2>2. CASE ClaimStep(r, seen[r].secret.key, step, Accepted(r), Rejected(r))
    BY <1>1, <2>1, <2>2, ClaimActs
  <2>3. CASE UNCHANGED <<row, seen, spent>> /\ \E label \in {"refused", Rejected(r)} : Goto(r, label)
    BY <1>1, <2>1, <2>3, WaitsActs DEF Base, Made, Elsewhere
  <2>. QED
    BY <1>2, <2>2, <2>3 DEF VerifyTotp
<1>3. ASSUME NEW c \in Codes, VerifyRecovery(r, c) PROVE Acts(r)
  <2>1. /\ pc[r] = "code" /\ UNCHANGED <<row, seen, spent>>
        /\ \E label \in {"recover", Rejected(r)} : Goto(r, label)
    BY <1>3 DEF VerifyRecovery, history
  <2>. QED
    BY <1>1, <2>1, WaitsActs DEF Base, Made, Elsewhere
<1>4. CASE ConsumeRecovery(r)
  <2>1. /\ \A x \in Requests \ {r} : seen'[x] = seen[x]
        /\ row'.step = row.step /\ SecretKept
        /\ \/ /\ code[r] \in LeftCodes(row) /\ LeftCodes(row') = LeftCodes(row) \ {code[r]}
              /\ spent' = spent \cup {<<r, code[r]>>} /\ Goto(r, Accepted(r))
           \/ UNCHANGED <<row, spent>> /\ Goto(r, Rejected(r))
           \/ UNCHANGED <<row, spent, pc>>
    BY <1>4, ConsumeEffect DEF Base, SecretKept
  <2>2. pc[r] = "recover"
    BY <1>4 DEF ConsumeRecovery
  <2>3. CASE UNCHANGED <<row, spent>> /\ Goto(r, Rejected(r))
    BY <1>1, <2>1, <2>2, <2>3, WaitsActs DEF Base, Made
  <2>4. CASE UNCHANGED <<row, spent, pc>>
    BY <1>1, <2>1, <2>2, <2>4 DEF Acts, Alone, Waits, Made, EnabledBy
  <2>5. CASE /\ code[r] \in LeftCodes(row) /\ LeftCodes(row') = LeftCodes(row) \ {code[r]}
             /\ spent' = spent \cup {<<r, code[r]>>} /\ Goto(r, Accepted(r))
    <3>1. pc'[r] = Accepted(r) /\ \A x \in Requests \ {r} : pc'[x] = pc[x]
      BY <2>5 DEF Base, Shape, Goto
    <3>2. Alone(r)
      BY <2>1, <2>2, <2>5, <3>1 DEF Alone, Made
    <3>3. Consumes(r)
      BY <1>1, <2>1, <2>5, <3>1 DEF Consumes
    <3>. QED
      BY <3>2, <3>3 DEF Acts
  <2>. QED
    BY <2>1, <2>3, <2>4, <2>5
<1>. QED
  BY <1>2, <1>3, <1>4 DEF CodeStep

LEMMA EnrollStepActs ==
    ASSUME Base, NEW r \in Confirms \cup Answers, EnrollStep(r)
    PROVE  Acts(r)
<1>1. r \in Requests /\ r \in Makers
  BY DEF Requests, Managers, Makers
<1>2. ASSUME NEW step \in 0..Steps, ClaimPending(r, step) PROVE Acts(r)
  BY <1>1, <1>2, ClaimActs DEF ClaimPending, Elsewhere
<1>3. CASE Enable(r)
  <2>1. pc[r] = "enable" /\ UNCHANGED spent
    BY <1>3 DEF Enable, history
  <2>2. Enrolling(r) /\ r \in Enrollers
    BY <2>1 DEF Enrolling, Enrollers
  <2>3. code[r] \in Secrets
    BY <1>1, <2>2 DEF Base, Pending, HoldInv, Holds, Issued, Secrets
  <2>4. /\ \A x \in Requests \ {r} : seen'[x] = seen[x]
        /\ row'.step = row.step
        /\ [key |-> code[r], bound |-> Unbound] \in Sealed
        /\ \/ UNCHANGED row /\ row.confirmed /\ \E label \in {"refused", "issue"} : Goto(r, label)
           \/ /\ ~row.confirmed /\ row'.confirmed = TRUE /\ row'.codes = NewCodes(r)
              /\ row'.secret = [key |-> code[r], bound |-> Unbound]
              /\ \E label \in {"enabled", "issueboth"} : Goto(r, label)
    BY <1>3, <2>3, EnableEffect DEF Base
  <2>5. CASE UNCHANGED row /\ \E label \in {"refused", "issue"} : Goto(r, label)
    BY <1>1, <2>1, <2>4, <2>5, WaitsActs DEF Base, Made, Elsewhere
  <2>6. CASE /\ ~row.confirmed /\ row'.confirmed = TRUE /\ row'.codes = NewCodes(r)
             /\ row'.secret = [key |-> code[r], bound |-> Unbound]
             /\ \E label \in {"enabled", "issueboth"} : Goto(r, label)
    <3>1. pc'[r] \in {"enabled", "issueboth"} /\ \A x \in Requests \ {r} : pc'[x] = pc[x]
      BY <1>1, <2>6 DEF Base, Shape, Goto
    <3>2. row'.secret # None
      BY <2>4, <2>6, NoneIsNoValue
    <3>3. Alone(r)
      BY <2>1, <2>4, <3>1 DEF Alone, Made
    <3>4. Makes(r)
      BY <1>1, <2>1, <2>4, <2>6, <3>1, <3>2 DEF Makes, Made
    <3>. QED
      BY <3>3, <3>4 DEF Acts
  <2>. QED
    BY <2>4, <2>5, <2>6
<1>. QED
  BY <1>2, <1>3 DEF EnrollStep

LEMMA StoreActs ==
    ASSUME Base, NEW r \in Setups \cup Logins, SetupStore(r) \/ LoginStore(r)
    PROVE  Acts(r)
<1>1. r \in Requests /\ pc[r] = "store" /\ StorePending(r) /\ \E label \in {"done", "openset"} : Goto(r, label)
  BY DEF SetupStore, LoginStore, Requests, Managers
<1>2. /\ \A x \in Requests \ {r} : seen'[x] = seen[x]
      /\ row'.codes \in {row.codes, None} /\ row'.step \in {row.step, 0}
      /\ row'.confirmed = (row.confirmed /\ ~seen[r].confirmed)
      /\ row'.secret \in {row.secret, [key |-> r, bound |-> seen[r].ver]}
      /\ [key |-> r, bound |-> seen[r].ver] \in Sealed
      /\ spent' = IF row'.step < row.step THEN {p \in spent : p[2] \in Codes} ELSE spent
  BY <1>1, StoreEffect DEF Base
<1>3. pc'[r] \in {"done", "openset"} /\ \A x \in Requests \ {r} : pc'[x] = pc[x]
  BY <1>1 DEF Base, Shape, Goto
<1>4. Alone(r)
  BY <1>1, <1>2, <1>3 DEF Alone, Made
<1>5. row'.secret = row.secret \/ row'.secret # None
  BY <1>2, NoneIsNoValue
<1>6. Stores(r)
  BY <1>1, <1>2, <1>3, <1>5 DEF Stores, MaybeCleared, Elsewhere
<1>. QED
  BY <1>4, <1>6 DEF Acts

LEMMA ManageActs ==
    ASSUME Base, NEW r \in Requests,
           (r \in Disables /\ Disable(r)) \/ (r \in Regenerates /\ Regenerate(r))
    PROVE  Acts(r)
<1>1. pc[r] = "accepted"
  BY DEF Disable, Regenerate
<1>2. CASE r \in Disables /\ Disable(r)
  <2>1. /\ \A x \in Requests \ {r} : seen'[x] = seen[x]
        /\ row'.codes \in {row.codes, None} /\ row'.step \in {row.step, 0}
        /\ spent' = IF row'.step < row.step THEN {p \in spent : p[2] \in Codes} ELSE spent
    BY <1>2, DisableEffect DEF Base
  <2>2. pc'[r] = "done" /\ \A x \in Requests \ {r} : pc'[x] = pc[x]
    BY <1>2 DEF Disable, Base, Shape, Goto
  <2>. QED
    BY <1>1, <1>2, <2>1, <2>2 DEF Acts, Alone, Made, Resets, MaybeCleared
<1>3. CASE r \in Regenerates /\ Regenerate(r)
  <2>1. CASE UNCHANGED <<row, seen, spent>> /\ Goto(r, "refused")
    BY <1>1, <2>1, WaitsActs DEF Base, Made, Elsewhere
  <2>2. CASE /\ \A x \in Requests \ {r} : seen'[x] = seen[x]
             /\ row'.codes \in {row.codes, NewCodes(r)} /\ row'.step = row.step
             /\ row'.secret = row.secret /\ row'.confirmed = row.confirmed
             /\ spent' = spent /\ Goto(r, "done")
    <3>1. pc'[r] = "done" /\ \A x \in Requests \ {r} : pc'[x] = pc[x]
      BY <2>2 DEF Base, Shape, Goto
    <3>. QED
      BY <1>1, <1>3, <2>2, <3>1 DEF Acts, Alone, Made, Makes, Makers, SecretKept
  <2>. QED
    BY <1>3, <2>1, <2>2, RegenerateEffect DEF Base
<1>. QED
  BY <1>2, <1>3

(* Every step is the move of one request, or touches neither the codes nor  *)
(* the enrollment.                                                          *)
LEMMA EveryStepActs ==
    ASSUME Base, [Next]_vars
    PROVE  Outside \/ \E r \in Requests : Acts(r)
<1>1. ASSUME NEW r \in Setups, SetupRead(r) \/ SetupStore(r) PROVE \E x \in Requests : Acts(x)
  BY <1>1, ReadsAct, StoreActs DEF Requests, Managers
<1>2. ASSUME NEW r \in Confirms, ConfirmRead(r) \/ EnrollStep(r) PROVE \E x \in Requests : Acts(x)
  BY <1>2, ReadsAct, EnrollStepActs DEF Requests, Managers
<1>3. ASSUME NEW r \in Disables, ManageRead(r) \/ CodeStep(r) \/ Disable(r) PROVE \E x \in Requests : Acts(x)
  BY <1>3, ReadsAct, CodeStepActs, ManageActs DEF Requests, Managers
<1>4. ASSUME NEW r \in Regenerates, ManageRead(r) \/ CodeStep(r) \/ Regenerate(r)
      PROVE  \E x \in Requests : Acts(x)
  BY <1>4, ReadsAct, CodeStepActs, ManageActs DEF Requests, Managers
<1>5. ASSUME NEW l \in Logins, LoginRead(l) \/ LoginStore(l) \/ OpenChallenge(l)
      PROVE  \E x \in Requests : Acts(x)
  BY <1>5, ReadsAct, StoreActs, AnswersAct DEF Requests, Managers
<1>6. ASSUME NEW l \in Logins, ChallengeExpires(l) PROVE Outside
  BY <1>6 DEF ChallengeExpires, copies, history, Outside, SecretKept
<1>7. ASSUME NEW a \in Answers, AnswerStep(a) PROVE \E x \in Requests : Acts(x)
  BY <1>7, ReadsAct, AnswersAct, CodeStepActs, EnrollStepActs DEF AnswerStep, Requests, Managers
<1>8. CASE BumpVersion
  <2>1. row' = [row EXCEPT !.ver = row.ver + 1] /\ UNCHANGED <<pc, seen, spent>>
    BY <1>8 DEF BumpVersion, copies, history
  <2>2. row'.codes = row.codes /\ row'.step = row.step /\ row'.secret = row.secret /\ row'.confirmed = row.confirmed
    BY <2>1 DEF Base, Shape, Rows
  <2>. QED
    BY <2>1, <2>2 DEF Outside, SecretKept
<1>9. CASE UNCHANGED vars
  BY <1>9 DEF vars, copies, history, Outside, SecretKept
<1>. QED
  BY <1>1, <1>2, <1>3, <1>4, <1>5, <1>6, <1>7, <1>8, <1>9 DEF Next
-----------------------------------------------------------------------------
(* A code that was accepted is in no stored list and its time step is not   *)
(* newer than the last one; the codes a request is still to draw are        *)
(* nowhere yet.                                                             *)
Undrawn(r) ==
    \A i \in 1..CodeCount : <<r, i>> \notin LeftCodes(row) /\ \A p \in spent : p[2] # <<r, i>>

CodesInv ==
    /\ \A p \in spent : p[2] \notin LeftCodes(row)
    /\ \A p \in spent : p[2] \in Codes \/ (p[2][3] \in Nat /\ p[2][3] <= row.step)
    /\ \A r \in Makers : pc[r] \notin Made => Undrawn(r)
    /\ CodesUsedOnce

LEMMA LeftAreCodes == \A u \in Rows : LeftCodes(u) \subseteq Codes
BY RowFields DEF LeftCodes, CodeLists

LEMMA StepIsNoCode == \A k, s : <<"step", k, s>> \notin Codes
BY DEF Codes

(* The codes that are left and the accepted ones only get fewer.            *)
LEMMA FewerCodes ==
    ASSUME CodesInv, LeftCodes(row') \subseteq LeftCodes(row), spent' \subseteq spent,
           \A p \in spent' : p[2] \in Codes \/ row'.step = row.step,
           \A r \in Makers : pc[r] \in Made => pc'[r] \in Made
    PROVE  CodesInv'
<1>1. \A r \in Makers : pc'[r] \notin Made => Undrawn(r)'
  BY DEF CodesInv, Undrawn
<1>. QED
  BY <1>1 DEF CodesInv, CodesUsedOnce

LEMMA ClearedCodes ==
    ASSUME Base, row' \in Rows, CodesInv, MaybeCleared,
           \A r \in Makers : pc[r] \in Made => pc'[r] \in Made
    PROVE  CodesInv'
<1>1. LeftCodes(row') \subseteq LeftCodes(row)
  BY DEF MaybeCleared, LeftCodes
<1>2. row.step \in Nat /\ row'.step \in Nat
  BY RowFields, BoundsAreNatural DEF Base, Shape
<1>3. spent' \subseteq spent /\ \A p \in spent' : p[2] \in Codes \/ row'.step = row.step
  BY <1>2 DEF MaybeCleared
<1>. QED
  BY <1>1, <1>3, FewerCodes

LEMMA ClaimedCodes ==
    ASSUME Base, row' \in Rows, CodesInv, NEW r \in Requests, Claims(r),
           \A x \in Makers : pc[x] \in Made => pc'[x] \in Made
    PROVE  CodesInv'
<1>1. PICK key : spent' = spent \cup {<<r, <<"step", key, row'.step>>>>}
  BY DEF Claims
<1>. DEFINE c == <<"step", key, row'.step>>
<1>2. c \notin Codes /\ c[3] = row'.step
  BY StepIsNoCode
<1>3. row.step \in Nat /\ row'.step \in Nat /\ row.step < row'.step
  BY RowFields, BoundsAreNatural DEF Base, Shape, Claims
<1>4. LeftCodes(row') = LeftCodes(row) /\ LeftCodes(row) \subseteq Codes
  BY LeftAreCodes DEF Claims, LeftCodes, Base, Shape
<1>5. spent' = spent \cup {<<r, c>>} /\ <<r, c>>[2] = c
  BY <1>1
<1>6. \A x \in Makers, i \in 1..CodeCount : <<x, i>> \in Codes
  BY DEF Makers, Codes
<1>. HIDE DEF c
<1>7. \A p \in spent : p[2] # c
  BY <1>2, <1>3 DEF CodesInv
<1>8. CodesUsedOnce'
  BY <1>5, <1>7 DEF CodesInv, CodesUsedOnce
<1>9. \A p \in spent' : p[2] \in Codes \/ (p[2][3] \in Nat /\ p[2][3] <= row'.step)
  BY <1>2, <1>3, <1>5 DEF CodesInv
<1>10. \A x \in Makers : pc'[x] \notin Made => Undrawn(x)'
  BY <1>2, <1>4, <1>5, <1>6 DEF CodesInv, Undrawn
<1>11. \A p \in spent' : p[2] \notin LeftCodes(row')
  BY <1>2, <1>4, <1>5 DEF CodesInv
<1>. QED
  BY <1>8, <1>9, <1>10, <1>11 DEF CodesInv

LEMMA ConsumedCodes ==
    ASSUME Base, CodesInv, NEW r \in Requests, Consumes(r),
           \A x \in Makers : pc[x] \in Made => pc'[x] \in Made
    PROVE  CodesInv'
<1>. DEFINE c == code[r]
<1>1. /\ c \in LeftCodes(row) /\ LeftCodes(row') = LeftCodes(row) \ {c} /\ row'.step = row.step
      /\ spent' = spent \cup {<<r, c>>} /\ <<r, c>>[2] = c
  BY DEF Consumes
<1>2. c \in Codes
  BY <1>1, LeftAreCodes DEF Base, Shape
<1>. HIDE DEF c
<1>3. \A p \in spent : p[2] # c
  BY <1>1 DEF CodesInv
<1>4. CodesUsedOnce'
  BY <1>1, <1>3 DEF CodesInv, CodesUsedOnce
<1>5. \A p \in spent' : p[2] \in Codes \/ (p[2][3] \in Nat /\ p[2][3] <= row'.step)
  BY <1>1, <1>2 DEF CodesInv
<1>6. \A x \in Makers : pc'[x] \notin Made => Undrawn(x)'
  BY <1>1 DEF CodesInv, Undrawn
<1>7. \A p \in spent' : p[2] \notin LeftCodes(row')
  BY <1>1 DEF CodesInv
<1>. QED
  BY <1>4, <1>5, <1>6, <1>7 DEF CodesInv

LEMMA MadeCodes ==
    ASSUME Base, CodesInv, NEW r \in Requests, Makes(r), Alone(r),
           \A x \in Makers : pc[x] \in Made => pc'[x] \in Made
    PROVE  CodesInv'
<1>1. row'.step = row.step /\ spent' = spent /\ r \in Makers /\ pc'[r] \in Made /\ Undrawn(r)
  BY DEF Makes, CodesInv
<1>2. CASE row'.codes = row.codes
  BY <1>1, <1>2, FewerCodes DEF LeftCodes
<1>3. CASE row'.codes = NewCodes(r)
  <2>1. LeftCodes(row') = {<<r, i>> : i \in 1..CodeCount}
    BY <1>1, <1>3, NewCodesTyped, NoneIsNoValue DEF LeftCodes, Makers
  <2>2. \A p \in spent : p[2] \notin LeftCodes(row')
    BY <1>1, <2>1 DEF Undrawn
  <2>3. \A x \in Makers : pc'[x] \notin Made => Undrawn(x)'
    <3>1. \A x \in Makers : pc'[x] \notin Made => x # r /\ Undrawn(x)
      BY <1>1 DEF CodesInv
    <3>. QED
      BY <1>1, <2>1, <3>1 DEF Undrawn
  <2>. QED
    BY <1>1, <2>2, <2>3 DEF CodesInv, CodesUsedOnce
<1>. QED
  BY <1>2, <1>3 DEF Makes

LEMMA CodesNext == Base /\ Base' /\ CodesInv /\ [Next]_vars => CodesInv'
<1>. SUFFICES ASSUME Base, Base', CodesInv, [Next]_vars PROVE CodesInv'
  OBVIOUS
<1>1. row' \in Rows
  BY DEF Base, Shape
<1>2. CASE Outside
  BY <1>2, FewerCodes DEF Outside, LeftCodes
<1>3. ASSUME NEW r \in Requests, Acts(r) PROVE CodesInv'
  <2>1. Alone(r) /\ \A x \in Makers : pc[x] \in Made => pc'[x] \in Made
    BY <1>3 DEF Acts, Alone, Makers, Requests, Managers
  <2>2. CASE Waits(r)
    BY <2>1, <2>2, FewerCodes DEF Waits
  <2>3. CASE Claims(r)
    BY <1>1, <2>1, <2>3, ClaimedCodes
  <2>4. CASE Consumes(r)
    BY <2>1, <2>4, ConsumedCodes
  <2>5. CASE Stores(r) \/ Resets(r)
    BY <1>1, <2>1, <2>5, ClearedCodes DEF Stores, Resets
  <2>6. CASE Makes(r)
    BY <2>1, <2>6, MadeCodes
  <2>. QED
    BY <1>3, <2>2, <2>3, <2>4, <2>5, <2>6 DEF Acts
<1>. QED
  BY <1>2, <1>3, EveryStepActs

LEMMA CodesInit == Init => CodesInv
<1>. SUFFICES ASSUME Init PROVE CodesInv
  OBVIOUS
<1>1. spent = {}
  BY DEF Init
<1>. DEFINE s == [key |-> Initial, bound |-> Unbound]
            c == [by |-> Initial, left |-> {Initial} \X (1..CodesBefore)]
<1>2. c.left = {Initial} \X (1..CodesBefore)
  OBVIOUS
<1>3. LeftCodes(row) \subseteq {Initial} \X (1..CodesBefore)
  <2>1. ASSUME NEW b \in BOOLEAN, row = Blank(b) PROVE row.codes = None
    BY <2>1 DEF Blank
  <2>2. ASSUME NEW b \in BOOLEAN, row = EnrolledBefore(b) PROVE row.codes = c
    <3>1. row = [Blank(b) EXCEPT !.secret = s, !.confirmed = TRUE, !.codes = c]
      BY <2>2 DEF EnrolledBefore
    <3>. HIDE DEF s, c
    <3>. QED
      BY <3>1 DEF Blank
  <2>. HIDE DEF s, c
  <2>3. row.codes \in {None, c}
    BY <2>1, <2>2 DEF Init
  <2>. QED
    BY <1>2, <2>3 DEF LeftCodes
<1>4. \A r \in Makers : r # Initial
  BY RequestsDisjoint DEF Makers, Requests, Managers
<1>5. \A r \in Makers : Undrawn(r)
  BY <1>1, <1>3, <1>4 DEF Undrawn
<1>. QED
  BY <1>1, <1>5 DEF CodesInv, CodesUsedOnce

(* A code is accepted once, however many requests bring it at once and      *)
(* whatever they want with it: a recovery code for ever, a time step until  *)
(* the last one is cleared (mfa/service.py _consume_recovery_code,          *)
(* repository.py claim_totp_step).                                          *)
THEOREM CodesAcceptedOnce == Spec => []CodesUsedOnce
<1>1. CodesInv => CodesUsedOnce
  BY DEF CodesInv
<1>. QED
  BY <1>1, BaseAlways, CodesInit, CodesNext, PTL DEF Spec

(* A recovery code that is accepted belongs to the current set and is still *)
(* unspent, also when a regeneration or a disable overtook the request      *)
(* (mfa/service.py _consume_recovery_code).                                 *)
THEOREM OnlyCurrentCodes == Spec => RecoveryCodeCurrent
<1>1. ASSUME Base, [Next]_vars, NEW r \in Requests, pc[r] = "recover", pc'[r] = Accepted(r)
      PROVE  code[r] \in LeftCodes(row)
  <2>1. pc'[r] # pc[r]
    BY <1>1 DEF Accepted
  <2>2. \A x \in Requests : Acts(x) => x = r
    BY <2>1 DEF Acts, Alone
  <2>3. Acts(r)
    BY <1>1, <2>1, <2>2, EveryStepActs DEF Outside
  <2>. QED
    BY <1>1, <2>3 DEF Acts, Alone
<1>2. Base /\ [Next]_vars =>
        [\A r \in Requests : pc[r] = "recover" /\ pc'[r] = Accepted(r) => code[r] \in LeftCodes(row)]_vars
  BY <1>1
<1>. QED
  BY <1>2, BaseAlways, PTL DEF Spec, RecoveryCodeCurrent

-----------------------------------------------------------------------------
(* Enrollment. Until a disable goes through, a confirmed account has a      *)
(* secret and stays confirmed, so that no second request enables one.       *)
Undisabled == \A d \in Disables : pc[d] # "done"

EnrollInv ==
    /\ row.confirmed => row.secret # None
    /\ \A r \in Setups \cup Logins : pc[r] = "store" => ~seen[r].confirmed
    /\ \A r \in Enrollers : EnabledBy(r) => row.confirmed
    /\ \A r, q \in Enrollers : EnabledBy(r) /\ EnabledBy(q) => r = q

LEMMA EnrollNext ==
    ASSUME Base, Base', EnrollInv, [Next]_vars, Undisabled'
    PROVE  EnrollInv'
<1>1. CASE Outside
  BY <1>1 DEF Outside, SecretKept, EnrollInv, EnabledBy
<1>2. ASSUME NEW r \in Requests, Acts(r) PROVE EnrollInv'
  <2>1. /\ \A x \in Requests \ {r} : pc'[x] = pc[x] /\ seen'[x] = seen[x]
        /\ \A x \in Enrollers \ {r} : EnabledBy(x)' = EnabledBy(x)
    BY <1>2 DEF Acts, Alone, EnabledBy, Enrollers, Requests, Managers
  <2>2. \A x \in (Setups \cup Logins) \ {r} : pc'[x] = "store" => ~seen'[x].confirmed
    BY <2>1 DEF EnrollInv, Requests, Managers
  <2>3. CASE Waits(r)
    <3>1. pc'[r] = "store" => ~seen'[r].confirmed
      BY <2>3 DEF Waits, EnrollInv, IsEnrolled
    <3>2. EnabledBy(r)' => EnabledBy(r)
      BY <2>3 DEF Waits
    <3>. QED
      BY <2>1, <2>2, <2>3, <3>1, <3>2 DEF Waits, EnrollInv
  <2>4. CASE Claims(r) \/ Consumes(r)
    <3>1. pc'[r] # "store" /\ ~EnabledBy(r)' /\ SecretKept
      BY <2>4 DEF Claims, Consumes, Elsewhere, EnabledBy
    <3>. QED
      BY <2>1, <2>2, <3>1 DEF EnrollInv, SecretKept
  <2>5. CASE Stores(r)
    <3>1. pc'[r] # "store" /\ ~EnabledBy(r)'
      BY <2>5 DEF Stores, Elsewhere, EnabledBy
    <3>2. row'.confirmed = row.confirmed
      <4>1. ~seen[r].confirmed /\ row.confirmed \in BOOLEAN
        BY <2>5, RowFields DEF Stores, EnrollInv, Base, Shape
      <4>. QED
        BY <2>5, <4>1 DEF Stores
    <3>3. row'.secret = row.secret \/ row'.secret # None
      BY <2>5 DEF Stores
    <3>. QED
      BY <2>1, <2>2, <3>1, <3>2, <3>3 DEF EnrollInv
  <2>6. CASE Resets(r)
    BY <2>6 DEF Resets, Undisabled
  <2>7. CASE Makes(r) /\ SecretKept /\ pc'[r] = "done"
    <3>1. ~EnabledBy(r)'
      BY <2>7 DEF EnabledBy
    <3>. QED
      BY <2>1, <2>2, <2>7, <3>1 DEF EnrollInv, SecretKept
  <2>8. CASE Makes(r) /\ ~row.confirmed /\ row'.confirmed /\ row'.secret # None
    <3>1. \A x \in Enrollers : ~EnabledBy(x)
      BY <2>8 DEF EnrollInv
    <3>2. pc'[r] # "store"
      BY <2>8 DEF Makes, Made
    <3>. QED
      BY <2>1, <2>2, <2>8, <3>1, <3>2 DEF EnrollInv
  <2>. QED
    BY <1>2, <2>3, <2>4, <2>5, <2>6, <2>7, <2>8 DEF Acts, Makes
<1>. QED
  BY <1>1, <1>2, EveryStepActs

LEMMA UndisabledBefore == Base /\ [Next]_vars /\ Undisabled' => Undisabled
<1>. SUFFICES ASSUME Base, [Next]_vars, NEW d \in Disables, pc[d] = "done" PROVE pc'[d] = "done"
  BY DEF Undisabled
<1>1. d \in Requests
  BY DEF Requests, Managers
<1>. QED
  BY <1>1, EveryStepActs DEF Outside, Acts, Alone, Made

LEMMA EnrollInit == Init => EnrollInv
<1>. SUFFICES ASSUME Init PROVE EnrollInv
  OBVIOUS
<1>1. row.confirmed => row.secret # None
  <2>1. ASSUME NEW b \in BOOLEAN, row = Blank(b) PROVE ~row.confirmed
    BY <2>1 DEF Blank
  <2>2. ASSUME NEW b \in BOOLEAN, row = EnrolledBefore(b)
        PROVE  row.secret = [key |-> Initial, bound |-> Unbound]
    BY <2>2 DEF EnrolledBefore, Blank
  <2>3. [key |-> Initial, bound |-> Unbound] \in Sealed
    BY BoundsAreNatural DEF Sealed, Secrets, Unbound
  <2>. QED
    BY <2>1, <2>2, <2>3, NoneIsNoValue DEF Init
<1>2. \A r \in Requests : pc[r] \in {"start", "idle"}
  BY DEF Init
<1>. QED
  BY <1>1, <1>2 DEF EnrollInv, EnabledBy, Enrollers, Requests, Managers

(* One enrollment hands out one set of recovery codes, however many         *)
(* confirmations of it run at once, while the authenticator is not disabled *)
(* (mfa/service.py _enable).                                                *)
THEOREM CodesHandedOutOnce == Spec => []OneSetOfCodes
<1>1. Init => (Undisabled => EnrollInv)
  BY EnrollInit
<1>2. Base /\ Base' /\ (Undisabled => EnrollInv) /\ [Next]_vars => (Undisabled => EnrollInv)'
  BY EnrollNext, UndisabledBefore
<1>3. (Undisabled => EnrollInv) => OneSetOfCodes
  BY DEF Undisabled, EnrollInv, OneSetOfCodes, Enrollers
<1>. QED
  BY <1>1, <1>2, <1>3, BaseAlways, PTL DEF Spec
=============================================================================
