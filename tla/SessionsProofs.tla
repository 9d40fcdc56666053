--------------------------- MODULE SessionsProofs ---------------------------
(***************************************************************************)
(* Theorems about Sessions. A session that was ended never comes back: a   *)
(* record is written only by the login that created it, once, and by calls *)
(* that find it in the store, and a call ends only sessions whose login    *)
(* has returned. A live session has the one token it names, and the two    *)
(* live as long as each other. A route runs only for a token of the        *)
(* session in the cookie. The limit on sessions is exceeded only by logins *)
(* that overlap.                                                           *)
(***************************************************************************)
EXTENDS Sessions, FiniteSetTheorems, TLAPS

(* The calls that carry a cookie of a session.                              *)
Visitors == Rotations \cup Requests \cup Logouts

(* The functions the argument needs, as functions.                          *)
Shape ==
    /\ sessions = [s \in Sids |-> sessions[s]]
    /\ pc = [o \in Calls |-> pc[o]]
    /\ cookie = [o \in Calls |-> cookie[o]]
    /\ todo = [o \in Calls |-> todo[o]]

(* A record is in the store only after its login has returned.              *)
Created == \A s \in Sids : sessions[s] # NoSession => pc[s] = "done"

(* A call ends only sessions whose login has returned.                      *)
Ending == \A o \in Calls : \A e \in todo[o] : e.sid \in Sids /\ pc[e.sid] = "done"

(* A visitor that has arrived carries the cookie of a session.              *)
Carried == \A o \in Visitors : pc[o] \in {"idle", "start"} \/ cookie[o] \in Sids

(* An ended session has no record, and its login will not write it again.   *)
Ended == ended \subseteq Sids /\ \A s \in ended : sessions[s] = NoSession /\ pc[s] = "done"

Inv == Shape /\ Created /\ Ending /\ Carried /\ Ended

(* A visitor that leaves "start" is dealt with where it arrives.            *)
Leaves(o) == pc[o] # "done" /\ (pc[o] \notin {"idle", "start"} \/ o \notin Visitors)

-----------------------------------------------------------------------------
(* A call that moves on and touches no session keeps the invariant.         *)
LEMMA MovesOn ==
    ASSUME Inv, NEW o \in Calls, NEW label, Leaves(o), Goto(o, label),
           UNCHANGED <<sessions, cookie, todo, ret, ended>>
    PROVE  Inv'
<1>1. \A c \in Calls : pc[c] = "done" => pc'[c] = "done"
  BY DEF Inv, Shape, Leaves, Goto
<1>2. Shape'
  BY DEF Inv, Shape, Goto
<1>3. Created'
  BY <1>1 DEF Inv, Created, Sids, Calls
<1>4. Ending'
  BY <1>1 DEF Inv, Ending, Sids, Calls
<1>5. Carried'
  BY DEF Inv, Shape, Carried, Leaves, Goto, Visitors, Calls
<1>6. Ended'
  BY <1>1 DEF Inv, Ended, Sids, Calls
<1>7. QED
  BY <1>2, <1>3, <1>4, <1>5, <1>6 DEF Inv

(* So does a call that sets out to end live sessions: their logins have     *)
(* returned (_terminate and its callers).                                   *)
LEMMA SetsOut ==
    ASSUME Inv, NEW o \in Calls, NEW next, NEW S \in SUBSET Live, Leaves(o),
           Terminate(o, {Entry(s) : s \in S}, next),
           UNCHANGED <<sessions, ended>>,
           cookie' = [c \in Calls |-> cookie'[c]], \A c \in Visitors : cookie'[c] = cookie[c]
    PROVE  Inv'
<1>1. PICK label : Goto(o, label)
  <2>1. Goto(o, next) \/ Goto(o, "end")
    BY DEF Terminate
  <2>2. QED
    BY <2>1, Zenon
<1>2. \A c \in Calls : pc[c] = "done" => pc'[c] = "done"
  BY <1>1 DEF Inv, Shape, Leaves, Goto
<1>3. Shape'
  BY <1>1 DEF Inv, Shape, Goto, Terminate, ending
<1>4. Created'
  BY <1>2 DEF Inv, Created, Sids, Calls
<1>5. Ending'
  <2>1. \A s \in S : s \in Sids /\ pc[s] = "done" /\ Entry(s).sid = s
    BY DEF Inv, Created, Live, Alive, Entry
  <2>2. \A c \in Calls : \A e \in todo'[c] : e \in todo[c] \/ e \in {Entry(s) : s \in S}
    BY DEF Terminate, ending, Inv, Shape
  <2>3. SUFFICES ASSUME NEW c \in Calls, NEW e \in todo'[c]
                 PROVE  e.sid \in Sids /\ pc'[e.sid] = "done"
    BY DEF Ending
  <2>4. CASE e \in todo[c]
    BY <2>4, <1>2 DEF Inv, Ending, Sids, Calls
  <2>5. CASE e \in {Entry(s) : s \in S}
    BY <2>5, <2>1, <1>2 DEF Sids, Calls
  <2>6. QED
    BY <2>2, <2>4, <2>5
<1>6. Carried'
  BY <1>1 DEF Inv, Shape, Carried, Leaves, Goto, Visitors, Calls
<1>7. Ended'
  BY <1>2 DEF Inv, Ended, Sids, Calls
<1>8. QED
  BY <1>3, <1>4, <1>5, <1>6, <1>7 DEF Inv

(* And a call that writes the record of a live session (validate_session,   *)
(* regenerate_csrf_token).                                                  *)
LEMMA Writes ==
    ASSUME Inv, NEW o \in Calls, NEW label, NEW s \in Live, Leaves(o), Goto(o, label),
           sessions' = [sessions EXCEPT ![s] = sessions'[s]],
           UNCHANGED <<cookie, todo, ret, ended>>
    PROVE  Inv'
<1>1. \A c \in Calls : pc[c] = "done" => pc'[c] = "done"
  BY DEF Inv, Shape, Leaves, Goto
<1>2. s \in Sids /\ sessions[s] # NoSession /\ pc[s] = "done" /\ s \notin ended
  BY DEF Inv, Created, Ended, Live, Alive
<1>3. \A x \in Sids \ {s} : sessions'[x] = sessions[x]
  BY DEF Inv, Shape
<1>4. Shape'
  BY DEF Inv, Shape, Goto
<1>5. Created'
  BY <1>1, <1>2, <1>3 DEF Inv, Created, Sids, Calls
<1>6. Ending'
  BY <1>1 DEF Inv, Ending, Sids, Calls
<1>7. Carried'
  BY DEF Inv, Shape, Carried, Leaves, Goto, Visitors, Calls
<1>8. Ended'
  BY <1>1, <1>2, <1>3 DEF Inv, Ended, Sids, Calls
<1>9. QED
  BY <1>4, <1>5, <1>6, <1>7, <1>8 DEF Inv

(* The remaining steps of the calls, one lemma for each kind of step.       *)
LEMMA EndRecordKeeps == ASSUME Inv, NEW o \in Calls, EndRecord(o) PROVE Inv'
<1>1. PICK e \in todo[o] : /\ sessions' = [sessions EXCEPT ![e.sid] = NoSession]
                           /\ ended' = ended \cup {e.sid}
  BY DEF EndRecord
<1>2. e.sid \in Sids /\ pc[e.sid] = "done"
  BY DEF Inv, Ending
<1>3. pc[o] = "end" /\ Goto(o, "endtoken") /\ UNCHANGED <<cookie, todo, ret>>
  BY DEF EndRecord, sent, ending
<1>4. \A c \in Calls : pc[c] = "done" => pc'[c] = "done"
  BY <1>3 DEF Inv, Shape, Goto
<1>5. Shape'
  BY <1>1, <1>3 DEF Inv, Shape, Goto
<1>6. Created'
  BY <1>1, <1>4 DEF Inv, Shape, Created, Sids, Calls
<1>7. Ending'
  BY <1>3, <1>4 DEF Inv, Ending, Sids, Calls
<1>8. Carried'
  BY <1>3 DEF Inv, Shape, Carried, Goto, Visitors, Calls
<1>9. Ended'
  BY <1>1, <1>2, <1>4 DEF Inv, Shape, Ended, Sids, Calls
<1>10. QED
  BY <1>5, <1>6, <1>7, <1>8, <1>9 DEF Inv

LEMMA EndTokenKeeps == ASSUME Inv, NEW o \in Calls, EndToken(o) PROVE Inv'
<1>1. /\ pc[o] = "endtoken"
      /\ UNCHANGED <<sessions, cookie, ret, ended>>
      /\ todo' = [todo EXCEPT ![o] = @ \ {copy[o]}]
      /\ pc' = [pc EXCEPT ![o] = IF todo[o] = {copy[o]} THEN ret[o] ELSE "end"]
  BY DEF EndToken, Goto, sent, history
<1>2. \A c \in Calls : pc[c] = "done" => pc'[c] = "done"
  BY <1>1 DEF Inv, Shape
<1>3. Shape'
  BY <1>1 DEF Inv, Shape
<1>4. Created'
  BY <1>1, <1>2 DEF Inv, Created, Sids, Calls
<1>5. Ending'
  <2>1. \A c \in Calls : todo'[c] \subseteq todo[c]
    BY <1>1 DEF Inv, Shape
  <2>2. QED
    BY <1>2, <2>1 DEF Inv, Ending, Sids, Calls
<1>6. Carried'
  BY <1>1 DEF Inv, Shape, Carried, Visitors, Calls
<1>7. Ended'
  BY <1>1, <1>2 DEF Inv, Ended, Sids, Calls
<1>8. QED
  BY <1>3, <1>4, <1>5, <1>6, <1>7 DEF Inv

LEMMA ArriveKeeps ==
    ASSUME Inv, NEW o \in Calls, NEW s \in Sids, NEW t \in Tokens \cup {None}, Arrive(o, s, t)
    PROVE  Inv'
<1>1. /\ pc[o] = "start" /\ o \in Visitors
      /\ cookie' = [cookie EXCEPT ![o] = s]
      /\ pc' = [pc EXCEPT ![o] = IF o \in Requests THEN "gate" ELSE "get"]
      /\ UNCHANGED <<sessions, todo, ret, ended>>
  BY DEF Arrive, Goto, Visitors, stored, ending, history
<1>2. \A c \in Calls : pc[c] = "done" => pc'[c] = "done"
  BY <1>1 DEF Inv, Shape
<1>3. Shape'
  BY <1>1 DEF Inv, Shape
<1>4. Created'
  BY <1>1, <1>2 DEF Inv, Created, Sids, Calls
<1>5. Ending'
  BY <1>1, <1>2 DEF Inv, Ending, Sids, Calls
<1>6. Carried'
  BY <1>1 DEF Inv, Shape, Carried, Visitors, Calls
<1>7. Ended'
  BY <1>1, <1>2 DEF Inv, Ended, Sids, Calls
<1>8. QED
  BY <1>3, <1>4, <1>5, <1>6, <1>7 DEF Inv

LEMMA LoginKeeps == ASSUME Inv, NEW l \in Logins, LoginStep(l) PROVE Inv'
<1>0. l \in Calls /\ l \in Sids /\ l \notin Visitors
  BY CallsDisjoint DEF Calls, Sids, Visitors
<1>1. CASE LoginStart(l)
  <2>1. PICK s \in Born \cup {None} :
          /\ cookie' = [cookie EXCEPT ![l] = s]
          /\ Terminate(l, {Entry(x) : x \in {s} \cap Live}, "list")
    BY <1>1 DEF LoginStart
  <2>2. UNCHANGED <<sessions, ended>> /\ Leaves(l)
    BY <1>0, <1>1 DEF LoginStart, Leaves, stored, history
  <2>3. cookie' = [c \in Calls |-> cookie'[c]] /\ \A c \in Visitors : cookie'[c] = cookie[c]
    BY <1>0, <2>1 DEF Inv, Shape
  <2>4. {s} \cap Live \in SUBSET Live
    OBVIOUS
  <2>5. QED
    BY <1>0, <2>1, <2>2, <2>3, <2>4, SetsOut
<1>2. CASE LoginList(l)
  <2>1. PICK out \in SUBSET Live : Terminate(l, {Entry(s) : s \in out}, "token")
    BY <1>2 DEF LoginList
  <2>2. UNCHANGED <<sessions, ended, cookie>> /\ Leaves(l)
    BY <1>0, <1>2 DEF LoginList, Leaves, stored, sent
  <2>3. cookie' = [c \in Calls |-> cookie'[c]]
    BY <2>2 DEF Inv, Shape
  <2>4. QED
    BY <1>0, <2>1, <2>2, <2>3, SetsOut
<1>3. CASE LoginToken(l)
  <2>1. UNCHANGED <<sessions, cookie, todo, ret, ended>> /\ Leaves(l) /\ Goto(l, "create")
    BY <1>0, <1>3 DEF LoginToken, Leaves, sent, ending, history
  <2>2. QED
    BY <1>0, <2>1, MovesOn
<1>4. CASE LoginCreate(l)
  <2>1. /\ pc[l] = "create" /\ pc' = [pc EXCEPT ![l] = "done"]
        /\ \E x : sessions' = [sessions EXCEPT ![l] = x]
        /\ UNCHANGED <<cookie, todo, ret, ended>>
    BY <1>4 DEF LoginCreate, Goto, sent, ending
  <2>2. l \notin ended /\ pc'[l] = "done"
    BY <1>0, <2>1 DEF Inv, Shape, Ended
  <2>3. \A c \in Calls : pc[c] = "done" => pc'[c] = "done"
    BY <2>1 DEF Inv, Shape
  <2>4. \A s \in Sids \ {l} : sessions'[s] = sessions[s]
    BY <2>1 DEF Inv, Shape
  <2>5. Shape'
    BY <2>1 DEF Inv, Shape
  <2>6. Created'
    BY <2>2, <2>3, <2>4 DEF Inv, Created, Sids, Calls
  <2>7. Ending'
    BY <2>1, <2>3 DEF Inv, Ending, Sids, Calls
  <2>8. Carried'
    BY <1>0, <2>1 DEF Inv, Shape, Carried, Visitors, Calls
  <2>9. Ended'
    BY <2>1, <2>2, <2>3, <2>4 DEF Inv, Ended, Sids, Calls
  <2>10. QED
    BY <2>5, <2>6, <2>7, <2>8, <2>9 DEF Inv
<1>5. QED
  BY <1>1, <1>2, <1>3, <1>4 DEF LoginStep

(* validate_session: a session that is overdue is live, and one that is     *)
(* touched is read again by modify.                                         *)
LEMMA ValidateKeeps == ASSUME Inv, NEW o \in Visitors, Validate(o) PROVE Inv'
<1>0. o \in Calls
  BY DEF Visitors, Calls
<1>1. CASE Get(o)
  <2>1. Leaves(o) /\ UNCHANGED <<sessions, ended, cookie>> /\ cookie[o] \in Sids
    BY <1>0, <1>1 DEF Get, Leaves, stored, sent, history, Inv, Carried
  <2>2. cookie' = [c \in Calls |-> cookie'[c]]
    BY <2>1 DEF Inv, Shape
  <2>3. PICK next : \/ Terminate(o, {}, next)
                    \/ Alive(cookie[o]) /\ Terminate(o, {Entry(cookie[o])}, next)
    BY <1>1, Zenon DEF Get
  <2>4. CASE Terminate(o, {}, next)
    <3>1. Terminate(o, {Entry(s) : s \in {}}, next)
      BY <2>4
    <3>2. QED
      BY <1>0, <2>1, <2>2, <3>1, SetsOut
  <2>5. CASE Alive(cookie[o]) /\ Terminate(o, {Entry(cookie[o])}, next)
    <3>1. {cookie[o]} \in SUBSET Live
      BY <2>1, <2>5 DEF Live
    <3>2. {Entry(cookie[o])} = {Entry(s) : s \in {cookie[o]}}
      OBVIOUS
    <3>3. Terminate(o, {Entry(s) : s \in {cookie[o]}}, next)
      BY <2>5, <3>2
    <3>4. QED
      BY <1>0, <2>1, <2>2, <3>1, <3>3, SetsOut
  <2>6. QED
    BY <2>3, <2>4, <2>5
<1>2. CASE Touch(o)
  <2>1. Leaves(o) /\ UNCHANGED <<cookie, todo, ret, ended>> /\ cookie[o] \in Sids
    BY <1>0, <1>2 DEF Touch, Leaves, sent, ending, history, Inv, Carried
  <2>2. CASE Alive(cookie[o])
    <3>1. Goto(o, "slide") /\ cookie[o] \in Live
      BY <1>2, <2>1, <2>2 DEF Touch, Live
    <3>2. sessions' = [sessions EXCEPT ![cookie[o]] = sessions'[cookie[o]]]
      BY <1>2, <2>1, <2>2 DEF Touch, Inv, Shape
    <3>3. QED
      BY <1>0, <2>1, <3>1, <3>2, Writes
  <2>3. CASE ~Alive(cookie[o])
    BY <1>0, <1>2, <2>1, <2>3, MovesOn DEF Touch
  <2>4. QED
    BY <2>2, <2>3
<1>3. CASE Slide(o)
  <2>1. Leaves(o) /\ UNCHANGED <<sessions, cookie, todo, ret, ended>> /\ Goto(o, Validated(o))
    BY <1>0, <1>3 DEF Slide, Leaves, sent, ending
  <2>2. QED
    BY <1>0, <2>1, MovesOn
<1>4. QED
  BY <1>1, <1>2, <1>3 DEF Validate

(* A call that only looks, or only changes tokens, moves on.                *)
LEMMA OthersKeep ==
    ASSUME Inv, NEW o \in Visitors,
           \/ Resolve(o) \/ EnforceCsrf(o) \/ Pass(o) \/ Forbid(o) \/ Route(o)
           \/ RefreshCheck(o) \/ RefreshRead(o) \/ RefreshMint(o) \/ RefreshReplace(o)
    PROVE  Inv'
<1>0. o \in Calls
  BY DEF Visitors, Calls
<1>1. Leaves(o) /\ UNCHANGED <<sessions, cookie, todo, ret, ended>>
  BY DEF Leaves, Resolve, EnforceCsrf, Pass, Forbid, Route, RefreshCheck, RefreshRead, RefreshMint,
         RefreshReplace, stored, sent, ending, history
<1>2. PICK label : Goto(o, label)
  BY Zenon DEF Resolve, EnforceCsrf, Pass, Forbid, Route, RefreshCheck, RefreshRead, RefreshMint,
               RefreshReplace
<1>3. QED
  BY <1>0, <1>1, <1>2, MovesOn

(* Routes and logouts end sessions that they find in the store, and a       *)
(* rotation writes a record only if it finds it.                            *)
LEMMA EndersKeep ==
    ASSUME Inv, NEW o \in Visitors, LogoutAll(o) \/ RevokeByHandle(o) \/ Logout(o) PROVE Inv'
<1>0. o \in Calls
  BY DEF Visitors, Calls
<1>1. Leaves(o) /\ UNCHANGED <<sessions, ended, cookie>>
  BY DEF Leaves, LogoutAll, RevokeByHandle, Logout, stored, sent, history
<1>2. cookie' = [c \in Calls |-> cookie'[c]]
  BY <1>1 DEF Inv, Shape
<1>3. CASE LogoutAll(o)
  <2>1. PICK kept : Terminate(o, {Entry(s) : s \in Live \ kept}, "done")
    BY <1>3 DEF LogoutAll
  <2>2. Live \ kept \in SUBSET Live
    OBVIOUS
  <2>3. QED
    BY <1>0, <1>1, <1>2, <2>1, <2>2, SetsOut
<1>4. CASE RevokeByHandle(o)
  <2>1. PICK x \in Live : Terminate(o, {Entry(x)}, "done")
    BY <1>4 DEF RevokeByHandle
  <2>2. {Entry(x)} = {Entry(s) : s \in {x}} /\ {x} \in SUBSET Live
    BY <2>1
  <2>3. Terminate(o, {Entry(s) : s \in {x}}, "done")
    BY <2>1, <2>2
  <2>4. QED
    BY <1>0, <1>1, <1>2, <2>2, <2>3, SetsOut
<1>5. CASE Logout(o)
  <2>1. Terminate(o, {Entry(s) : s \in {cookie[o]} \cap Live}, "done")
    BY <1>5 DEF Logout
  <2>2. {cookie[o]} \cap Live \in SUBSET Live
    OBVIOUS
  <2>3. QED
    BY <1>0, <1>1, <1>2, <2>1, <2>2, SetsOut
<1>6. QED
  BY <1>3, <1>4, <1>5

LEMMA RotateKeeps == ASSUME Inv, NEW q \in Rotations, RefreshRotate(q) PROVE Inv'
<1>0. q \in Calls /\ q \in Visitors
  BY DEF Visitors, Calls
<1>1. /\ Leaves(q) /\ UNCHANGED <<cookie, todo, ret, ended>> /\ cookie[q] \in Sids
      /\ Goto(q, "replace")
  BY <1>0 DEF RefreshRotate, Leaves, sent, ending, history, Inv, Carried
<1>2. CASE Alive(cookie[q])
  <2>1. cookie[q] \in Live
    BY <1>1, <1>2 DEF Live
  <2>2. sessions' = [sessions EXCEPT ![cookie[q]] = sessions'[cookie[q]]]
    BY <1>1, <1>2 DEF RefreshRotate, Inv, Shape
  <2>3. QED
    BY <1>0, <1>1, <2>1, <2>2, Writes
<1>3. CASE ~Alive(cookie[q])
  BY <1>0, <1>1, <1>3, MovesOn DEF RefreshRotate
<1>4. QED
  BY <1>2, <1>3

LEMMA SweepKeeps == ASSUME Inv, NEW c \in Sweeps, SweepStart(c) \/ SweepLook(c) PROVE Inv'
<1>0. c \in Calls /\ c \notin Visitors
  BY CallsDisjoint DEF Visitors, Calls
<1>1. Leaves(c) /\ UNCHANGED <<sessions, ended, cookie>>
  BY <1>0 DEF Leaves, SweepStart, SweepLook, stored, sent, history
<1>2. CASE SweepStart(c)
  <2>1. UNCHANGED <<todo, ret>> /\ Goto(c, "sweep")
    BY <1>2 DEF SweepStart, ending
  <2>2. QED
    BY <1>0, <1>1, <2>1, MovesOn
<1>3. CASE SweepLook(c)
  <2>1. PICK s \in scan[c] :
          Terminate(c, {Entry(x) : x \in {y \in {s} \cap Live : sessions[y].seen + Idle < now[c]}},
                    "sweep")
    BY <1>3 DEF SweepLook
  <2>2. {y \in {s} \cap Live : sessions[y].seen + Idle < now[c]} \in SUBSET Live
    OBVIOUS
  <2>3. cookie' = [o \in Calls |-> cookie'[o]]
    BY <1>1 DEF Inv, Shape
  <2>4. QED
    BY <1>0, <1>1, <2>1, <2>2, <2>3, SetsOut
<1>4. QED
  BY <1>2, <1>3

-----------------------------------------------------------------------------
LEMMA InvInit == Init => Inv
<1> SUFFICES ASSUME Init PROVE Inv
  OBVIOUS
<1>1. Shape
  <2>1. PICK mix \in Mixes : pc = [o \in Calls |-> IF o \in mix THEN "start" ELSE "idle"]
    BY DEF Init
  <2>2. QED
    BY <2>1 DEF Init, Shape
<1>2. Created /\ Ending /\ Ended
  BY DEF Init, Created, Ending, Ended
<1>3. Carried
  <2>1. PICK mix \in Mixes : pc = [o \in Calls |-> IF o \in mix THEN "start" ELSE "idle"]
    BY DEF Init
  <2>2. QED
    BY <2>1 DEF Carried, Visitors, Calls
<1>4. QED
  BY <1>1, <1>2, <1>3 DEF Inv

LEMMA InvNext == Inv /\ [Next]_vars => Inv'
<1> SUFFICES ASSUME Inv, [Next]_vars PROVE Inv'
  OBVIOUS
<1>1. CASE UNCHANGED <<sessions, pc, cookie, todo, ended>>
  BY <1>1 DEF Inv, Shape, Created, Ending, Carried, Ended
<1>2. CASE Tick
  BY <1>1, <1>2 DEF Tick, stored, sent, ending, history
<1>3. ASSUME NEW o \in Calls, EndRecord(o) \/ EndToken(o) PROVE Inv'
  BY <1>3, EndRecordKeeps, EndTokenKeeps
<1>4. ASSUME NEW o \in Calls, NEW s \in Sids, NEW t \in Tokens \cup {None}, Arrive(o, s, t)
      PROVE  Inv'
  BY <1>4, ArriveKeeps
<1>5. ASSUME NEW l \in Logins, LoginStep(l) PROVE Inv'
  BY <1>5, LoginKeeps
<1>6. ASSUME NEW r \in Requests, RequestStep(r) PROVE Inv'
  <2>1. r \in Visitors
    BY DEF Visitors
  <2>2. QED
    BY <1>6, <2>1, ValidateKeeps, OthersKeep, EndersKeep DEF RequestStep
<1>7. ASSUME NEW q \in Rotations, RefreshStep(q) PROVE Inv'
  <2>1. q \in Visitors
    BY DEF Visitors
  <2>2. QED
    BY <1>7, <2>1, ValidateKeeps, OthersKeep, RotateKeeps DEF RefreshStep
<1>8. ASSUME NEW o \in Logouts, Get(o) \/ EnforceCsrf(o) \/ Logout(o) PROVE Inv'
  <2>1. o \in Visitors
    BY DEF Visitors
  <2>2. QED
    BY <1>8, <2>1, ValidateKeeps, OthersKeep, EndersKeep DEF Validate
<1>9. ASSUME NEW c \in Sweeps, SweepStart(c) \/ SweepLook(c) PROVE Inv'
  BY <1>9, SweepKeeps
<1>10. CASE UNCHANGED vars
  BY <1>1, <1>10 DEF vars
<1>11. QED
  BY <1>2, <1>3, <1>4, <1>5, <1>6, <1>7, <1>8, <1>9, <1>10 DEF Next

(* A session that was logged out, revoked, replaced, evicted or timed out   *)
(* is never accepted again, for any number of logins, requests, rotations,  *)
(* logouts and sweeps and any timeouts (terminate_session,                  *)
(* validate_session, regenerate_csrf_token).                                *)
THEOREM EndedForGood == Spec => []EndedStaysEnded
<1>1. Inv => EndedStaysEnded
  BY DEF Inv, Ended, EndedStaysEnded, Alive
<1>2. QED
  BY InvInit, InvNext, <1>1, PTL DEF Spec
-----------------------------------------------------------------------------
(* The rest of the state. A step is a tick of the clock or a step of one    *)
(* call, which leaves alone what the other calls hold.                      *)
Tables ==
    /\ tokens = [t \in Tokens |-> tokens[t]]
    /\ header = [o \in Calls |-> header[o]]
    /\ gates = [o \in Calls |-> gates[o]]
    /\ need = [o \in Calls |-> need[o]]
    /\ did = [o \in Calls |-> did[o]]
    /\ copy = [o \in Calls |-> copy[o]]
    /\ ret = [o \in Calls |-> ret[o]]
    /\ \A o \in Calls : ret[o] \in {"list", "token", "next", "sweep", "done"}

Step(o) ==
    \/ EndRecord(o) \/ EndToken(o)
    \/ \E s \in Sids, t \in Tokens \cup {None} : Arrive(o, s, t)
    \/ o \in Logins /\ LoginStep(o)
    \/ o \in Requests /\ RequestStep(o)
    \/ o \in Rotations /\ RefreshStep(o)
    \/ o \in Logouts /\ (Get(o) \/ EnforceCsrf(o) \/ Logout(o))
    \/ o \in Sweeps /\ (SweepStart(o) \/ SweepLook(o))

LEMMA StepCases ==
    ASSUME [Next]_vars
    PROVE  Tick \/ UNCHANGED vars \/ \E o \in Calls : Step(o)
<1>1. Logins \subseteq Calls /\ Requests \subseteq Calls /\ Rotations \subseteq Calls /\ Logouts \subseteq Calls
      /\ Sweeps \subseteq Calls
  BY DEF Calls
<1>. QED
  BY <1>1, Zenon DEF Next, Step

(* What the other calls hold.                                               *)
Alone(o) ==
    \A c \in Calls \ {o} :
        /\ pc'[c] = pc[c] /\ cookie'[c] = cookie[c] /\ header'[c] = header[c]
        /\ gates'[c] = gates[c] /\ need'[c] = need[c] /\ did'[c] = did[c]
        /\ copy'[c] = copy[c] /\ todo'[c] = todo[c] /\ ret'[c] = ret[c]

(* The steps that change a record or what a call holds of it, and the       *)
(* labels at which they are taken.                                          *)
Critical == {"create", "slide", "rotate", "replace", "endtoken"}

Works(o) ==
    \/ EndRecord(o) \/ EndToken(o) \/ (o \in Logins /\ (LoginToken(o) \/ LoginCreate(o)))
    \/ (o \in Requests \cup Rotations /\ (Touch(o) \/ Slide(o)))
    \/ (o \in Rotations /\ (RefreshMint(o) \/ RefreshRotate(o) \/ RefreshReplace(o)))

(* The other steps look at the store; some set out to end sessions that     *)
(* they found there.                                                        *)
Looks(o) ==
    /\ UNCHANGED <<clock, sessions, tokens, copy, ended, slid, size>>
    /\ pc[o] \notin Critical \cup {"idle", "done", "end"} /\ pc'[o] \notin Critical \cup {"idle", "start"}
    /\ pc[o] # "start" => cookie'[o] = cookie[o] /\ header'[o] = header[o]
    /\ \/ todo'[o] = todo[o] /\ ret'[o] = ret[o] /\ pc'[o] # "end"
       \/ /\ pc'[o] = "end" /\ todo'[o] # {}
          /\ \A e \in todo'[o] : \E s \in Live : e = Entry(s)

LEMMA TerminateMoves ==
    ASSUME Shape, Tables, NEW o \in Calls, NEW entries, NEW next, Terminate(o, entries, next),
           next \in {"list", "token", "next", "sweep", "done"}
    PROVE  /\ pc' = [c \in Calls |-> pc'[c]] /\ todo' = [c \in Calls |-> todo'[c]]
           /\ ret' = [c \in Calls |-> ret'[c]]
           /\ \A c \in Calls : ret'[c] \in {"list", "token", "next", "sweep", "done"}
           /\ \A c \in Calls \ {o} : pc'[c] = pc[c] /\ todo'[c] = todo[c] /\ ret'[c] = ret[c]
           /\ \/ entries = {} /\ pc'[o] = next /\ todo'[o] = todo[o] /\ ret'[o] = ret[o]
              \/ entries # {} /\ pc'[o] = "end" /\ todo'[o] = entries /\ ret'[o] = next
<1>1. CASE entries = {}
  BY <1>1 DEF Shape, Tables, Terminate, Goto, ending
<1>2. CASE entries # {}
  BY <1>2 DEF Shape, Tables, Terminate, Goto, ending
<1>. QED
  BY <1>1, <1>2

LEMMA WorksAlone ==
    ASSUME Inv, Tables, NEW o \in Calls, Works(o)
    PROVE  Tables' /\ Alone(o)
<1>. USE DEF Inv, Shape, Tables, Alone, Goto, sent, gating, ending, history
<1>1. CASE EndRecord(o)
  BY <1>1 DEF EndRecord
<1>2. CASE EndToken(o)
  BY <1>2 DEF EndToken
<1>3. CASE LoginToken(o)
  BY <1>3 DEF LoginToken
<1>4. CASE LoginCreate(o)
  BY <1>4 DEF LoginCreate
<1>5. CASE Touch(o)
  BY <1>5 DEF Touch
<1>6. CASE Slide(o)
  <2>1. tokens' = [t \in Tokens |-> tokens'[t]]
    BY <1>6 DEF Slide
  <2>2. UNCHANGED <<cookie, header, gates, need, did, copy, todo, ret>> /\ \E label : Goto(o, label)
    BY <1>6 DEF Slide
  <2>. QED
    BY <2>1, <2>2
<1>7. CASE RefreshMint(o)
  BY <1>7 DEF RefreshMint
<1>8. CASE RefreshRotate(o)
  BY <1>8 DEF RefreshRotate
<1>9. CASE RefreshReplace(o)
  BY <1>9 DEF RefreshReplace
<1>. QED
  BY <1>1, <1>2, <1>3, <1>4, <1>5, <1>6, <1>7, <1>8, <1>9 DEF Works

(* A step that ends with _terminate for some live sessions, or with none.   *)
LEMMA TerminateLooks ==
    ASSUME Inv, Tables, NEW o \in Calls, NEW S \in SUBSET Live, NEW next,
           Terminate(o, {Entry(s) : s \in S}, next), next \in {"list", "token", "next", "sweep", "done"},
           pc[o] \notin Critical \cup {"idle", "done", "end"},
           cookie' = [c \in Calls |-> cookie'[c]],
           \A c \in Calls : c # o \/ pc[o] # "start" => cookie'[c] = cookie[c],
           UNCHANGED <<clock, sessions, tokens, header, gates, need, did, copy, ended, slid, size>>
    PROVE  Tables' /\ Alone(o) /\ Looks(o)
<1>. DEFINE E == {Entry(s) : s \in S}
<1>1. /\ ret' = [c \in Calls |-> ret'[c]]
      /\ \A c \in Calls : ret'[c] \in {"list", "token", "next", "sweep", "done"}
      /\ \A c \in Calls \ {o} : pc'[c] = pc[c] /\ todo'[c] = todo[c] /\ ret'[c] = ret[c]
      /\ \/ E = {} /\ pc'[o] = next /\ todo'[o] = todo[o] /\ ret'[o] = ret[o]
         \/ E # {} /\ pc'[o] = "end" /\ todo'[o] = E /\ ret'[o] = next
  BY TerminateMoves DEF Inv
<1>2. \A e \in E : \E s \in Live : e = Entry(s)
  OBVIOUS
<1>. HIDE DEF E
<1>3. Tables' /\ Alone(o)
  BY <1>1 DEF Tables, Alone
<1>4. CASE pc'[o] = next /\ todo'[o] = todo[o] /\ ret'[o] = ret[o]
  BY <1>3, <1>4 DEF Looks, Critical
<1>5. CASE E # {} /\ pc'[o] = "end" /\ todo'[o] = E
  BY <1>2, <1>3, <1>5 DEF Looks, Critical
<1>. QED
  BY <1>1, <1>4, <1>5

(* A step that only moves on.                                               *)
LEMMA MoveLooks ==
    ASSUME Inv, Tables, NEW o \in Calls, NEW label, Goto(o, label),
           label \notin Critical \cup {"idle", "start", "end"},
           pc[o] \notin Critical \cup {"idle", "done", "end"},
           UNCHANGED <<clock, sessions, tokens, cookie, header, copy, todo, ret, ended, slid, size>>,
           need' = [c \in Calls |-> need'[c]], did' = [c \in Calls |-> did'[c]], gates' = [c \in Calls |-> gates'[c]],
           \A c \in Calls \ {o} : need'[c] = need[c] /\ did'[c] = did[c] /\ gates'[c] = gates[c]
    PROVE  Tables' /\ Alone(o) /\ Looks(o)
BY DEF Inv, Shape, Tables, Alone, Looks, Goto, Critical

LEMMA LooksLogin ==
    ASSUME Inv, Tables, NEW o \in Calls, o \in Logins, LoginStart(o) \/ LoginList(o)
    PROVE  Tables' /\ Alone(o) /\ Looks(o)
<1>1. CASE LoginStart(o)
  <2>1. PICK s \in Born \cup {None} : /\ cookie' = [cookie EXCEPT ![o] = s]
                                      /\ Terminate(o, {Entry(x) : x \in {s} \cap Live}, "list")
    BY <1>1 DEF LoginStart
  <2>2. {s} \cap Live \in SUBSET Live
    OBVIOUS
  <2>3. cookie' = [c \in Calls |-> cookie'[c]] /\ \A c \in Calls \ {o} : cookie'[c] = cookie[c]
    BY <2>1 DEF Inv, Shape
  <2>4. pc[o] = "start"
        /\ UNCHANGED <<clock, sessions, tokens, header, gates, need, did, copy, ended, slid, size>>
    BY <1>1 DEF LoginStart, stored, sent, gating, history
  <2>. QED
    BY <2>1, <2>2, <2>3, <2>4, TerminateLooks DEF Critical
<1>2. CASE LoginList(o)
  <2>1. PICK out \in SUBSET Live : Terminate(o, {Entry(s) : s \in out}, "token")
    BY <1>2 DEF LoginList
  <2>2. pc[o] = "list" /\ UNCHANGED cookie
        /\ UNCHANGED <<clock, sessions, tokens, header, gates, need, did, copy, ended, slid, size>>
    BY <1>2 DEF LoginList, stored, sent, gating
  <2>3. cookie' = [c \in Calls |-> cookie'[c]] /\ \A c \in Calls \ {o} : cookie'[c] = cookie[c]
    BY <2>2 DEF Inv, Shape
  <2>. QED
    BY <2>1, <2>2, <2>3, TerminateLooks DEF Critical
<1>. QED
  BY <1>1, <1>2

LEMMA LooksArrive ==
    ASSUME Inv, Tables, NEW o \in Calls, NEW s, NEW t, Arrive(o, s, t)
    PROVE  Tables' /\ Alone(o) /\ Looks(o)
BY DEF Arrive, Inv, Shape, Tables, Alone, Looks, Goto, Critical, stored, ending, history

LEMMA LooksGet ==
    ASSUME Inv, Tables, NEW o \in Visitors, Get(o)
    PROVE  Tables' /\ Alone(o) /\ Looks(o)
<1>0. o \in Calls
  BY DEF Visitors, Calls
<1>1. /\ pc[o] = "get" /\ cookie[o] \in Sids /\ UNCHANGED cookie
      /\ UNCHANGED <<clock, sessions, tokens, header, gates, need, did, copy, ended, slid, size>>
  BY DEF Get, Inv, Carried, stored, sent, gating, history
<1>2. cookie' = [c \in Calls |-> cookie'[c]]
  BY <1>1 DEF Inv, Shape
<1>3. Unresolved(o) \in {"next", "done"} /\ Validated(o) \in {"check", "csrf", "pass"}
  BY DEF Unresolved, Validated
<1>4. CASE ~Alive(cookie[o])
  <2>1. Terminate(o, {Entry(s) : s \in {}}, Unresolved(o))
    BY <1>4 DEF Get
  <2>. QED
    BY <1>0, <1>1, <1>2, <1>3, <2>1, TerminateLooks DEF Critical
<1>5. CASE Alive(cookie[o]) /\ Overdue(cookie[o])
  <2>1. Terminate(o, {Entry(cookie[o])}, Unresolved(o)) /\ {cookie[o]} \in SUBSET Live
    BY <1>1, <1>5 DEF Get, Live
  <2>2. {Entry(cookie[o])} = {Entry(s) : s \in {cookie[o]}}
    OBVIOUS
  <2>3. Terminate(o, {Entry(s) : s \in {cookie[o]}}, Unresolved(o))
    BY <2>1, <2>2
  <2>. QED
    BY <1>0, <1>1, <1>2, <1>3, <2>1, <2>3, TerminateLooks DEF Critical
<1>6. CASE Alive(cookie[o]) /\ ~Overdue(cookie[o])
  <2>1. PICK label \in {"touch", "check", "csrf", "pass"} : Terminate(o, {}, label)
    BY <1>3, <1>6 DEF Get
  <2>2. Goto(o, label) /\ UNCHANGED <<todo, ret>>
    BY <2>1 DEF Terminate, ending
  <2>. QED
    BY <1>0, <1>1, <2>1, <2>2, MoveLooks DEF Tables, Critical
<1>. QED
  BY <1>4, <1>5, <1>6

LEMMA LooksPlain ==
    ASSUME Inv, Tables, NEW o \in Visitors,
           Resolve(o) \/ EnforceCsrf(o) \/ Pass(o) \/ Forbid(o) \/ Route(o) \/ RefreshCheck(o) \/ RefreshRead(o)
    PROVE  Tables' /\ Alone(o) /\ Looks(o)
<1>0. o \in Calls
  BY DEF Visitors, Calls
<1>1. PICK label \in {"get", "csrf", "pass", "done", "terminate", "gate", "route", "kept", "reread", "mint"} :
        Goto(o, label)
  BY DEF Resolve, EnforceCsrf, Pass, Forbid, Route, RefreshCheck, RefreshRead
<1>2. pc[o] \in {"gate", "csrf", "pass", "next", "route", "check", "reread"}
      /\ UNCHANGED <<clock, sessions, tokens, cookie, header, copy, todo, ret, ended, slid, size>>
  BY DEF Resolve, EnforceCsrf, Pass, Forbid, Route, RefreshCheck, RefreshRead, stored, sent, ending, history
<1>3. /\ need' = [c \in Calls |-> need'[c]] /\ did' = [c \in Calls |-> did'[c]]
      /\ gates' = [c \in Calls |-> gates'[c]]
      /\ \A c \in Calls \ {o} : need'[c] = need[c] /\ did'[c] = did[c] /\ gates'[c] = gates[c]
  <2>1. CASE Resolve(o)
    BY <2>1 DEF Resolve, Tables
  <2>2. CASE Pass(o)
    BY <2>2 DEF Pass, Tables
  <2>3. CASE ~Resolve(o) /\ ~Pass(o)
    BY <2>3 DEF EnforceCsrf, Forbid, Route, RefreshCheck, RefreshRead, gating, Tables
  <2>. QED
    BY <2>1, <2>2, <2>3
<1>. QED
  BY <1>0, <1>1, <1>2, <1>3, MoveLooks DEF Critical

LEMMA LooksEnd ==
    ASSUME Inv, Tables, NEW o \in Visitors, LogoutAll(o) \/ RevokeByHandle(o) \/ Logout(o)
    PROVE  Tables' /\ Alone(o) /\ Looks(o)
<1>0. o \in Calls
  BY DEF Visitors, Calls
<1>1. /\ pc[o] \in {"route", "terminate"} /\ UNCHANGED cookie
      /\ UNCHANGED <<clock, sessions, tokens, header, gates, need, did, copy, ended, slid, size>>
  BY DEF LogoutAll, RevokeByHandle, Logout, stored, sent, gating, history
<1>2. cookie' = [c \in Calls |-> cookie'[c]]
  BY <1>1 DEF Inv, Shape
<1>3. PICK S \in SUBSET Live : Terminate(o, {Entry(s) : s \in S}, "done")
  <2>1. CASE LogoutAll(o)
    <3>1. PICK kept : Terminate(o, {Entry(s) : s \in Live \ kept}, "done")
      BY <2>1 DEF LogoutAll
    <3>2. Live \ kept \in SUBSET Live
      OBVIOUS
    <3>. QED
      BY <3>1, <3>2
  <2>2. CASE RevokeByHandle(o)
    <3>1. PICK x \in Live : Terminate(o, {Entry(x)}, "done")
      BY <2>2 DEF RevokeByHandle
    <3>2. {Entry(x)} = {Entry(s) : s \in {x}} /\ {x} \in SUBSET Live
      BY <3>1
    <3>3. Terminate(o, {Entry(s) : s \in {x}}, "done")
      BY <3>1, <3>2
    <3>. QED
      BY <3>2, <3>3
  <2>3. CASE Logout(o)
    <3>1. Terminate(o, {Entry(s) : s \in {cookie[o]} \cap Live}, "done")
      BY <2>3 DEF Logout
    <3>2. {cookie[o]} \cap Live \in SUBSET Live
      OBVIOUS
    <3>. QED
      BY <3>1, <3>2
  <2>. QED
    BY <2>1, <2>2, <2>3
<1>. QED
  BY <1>0, <1>1, <1>2, <1>3, TerminateLooks DEF Critical

LEMMA LooksSweep ==
    ASSUME Inv, Tables, NEW o \in Calls, o \in Sweeps, SweepStart(o) \/ SweepLook(o)
    PROVE  Tables' /\ Alone(o) /\ Looks(o)
<1>1. CASE SweepStart(o)
  <2>1. pc[o] = "start" /\ Goto(o, "sweep")
        /\ UNCHANGED <<clock, sessions, tokens, cookie, header, gates, need, did, copy, todo, ret, ended, slid, size>>
    BY <1>1 DEF SweepStart, stored, sent, gating, ending, history
  <2>. QED
    BY <2>1, MoveLooks DEF Tables, Critical
<1>2. CASE SweepLook(o)
  <2>1. PICK s \in scan[o] :
          Terminate(o, {Entry(x) : x \in {y \in {s} \cap Live : sessions[y].seen + Idle < now[o]}}, "sweep")
    BY <1>2 DEF SweepLook
  <2>2. {y \in {s} \cap Live : sessions[y].seen + Idle < now[o]} \in SUBSET Live
    OBVIOUS
  <2>3. /\ pc[o] = "sweep" /\ UNCHANGED cookie
        /\ UNCHANGED <<clock, sessions, tokens, header, gates, need, did, copy, ended, slid, size>>
    BY <1>2 DEF SweepLook, stored, sent, gating, history
  <2>4. cookie' = [c \in Calls |-> cookie'[c]]
    BY <2>3 DEF Inv, Shape
  <2>. QED
    BY <2>1, <2>2, <2>3, <2>4, TerminateLooks DEF Critical
<1>. QED
  BY <1>1, <1>2

LEMMA StepKinds ==
    ASSUME Inv, Tables, NEW o \in Calls, Step(o)
    PROVE  Tables' /\ Alone(o) /\ (Works(o) \/ Looks(o))
<1>1. CASE Works(o)
  BY <1>1, WorksAlone
<1>2. CASE ~Works(o)
  <2>1. o \in Requests \cup Rotations \cup Logouts => o \in Visitors
    BY DEF Visitors
  <2>2. CASE \E s \in Sids, t \in Tokens \cup {None} : Arrive(o, s, t)
    BY <2>2, LooksArrive
  <2>3. CASE o \in Logins /\ LoginStep(o)
    BY <1>2, <2>3, LooksLogin DEF LoginStep, Works
  <2>4. CASE o \in Requests /\ RequestStep(o)
    BY <1>2, <2>1, <2>4, LooksGet, LooksPlain, LooksEnd DEF RequestStep, Validate, Works
  <2>5. CASE o \in Rotations /\ RefreshStep(o)
    BY <1>2, <2>1, <2>5, LooksGet, LooksPlain DEF RefreshStep, Validate, Works
  <2>6. CASE o \in Logouts /\ (Get(o) \/ EnforceCsrf(o) \/ Logout(o))
    BY <1>2, <2>1, <2>6, LooksGet, LooksPlain, LooksEnd
  <2>7. CASE o \in Sweeps /\ (SweepStart(o) \/ SweepLook(o))
    BY <2>7, LooksSweep
  <2>. QED
    BY <1>2, <2>2, <2>3, <2>4, <2>5, <2>6, <2>7 DEF Step, Works
<1>. QED
  BY <1>1, <1>2
-----------------------------------------------------------------------------
(* What stays as it is: the cookie and the header of a call that has        *)
(* arrived, and a login that has returned.                                  *)
Arrived(o) == pc[o] \notin {"idle", "start"}

Steady ==
    /\ \A v \in Visitors : Arrived(v) => Arrived(v)' /\ cookie'[v] = cookie[v] /\ header'[v] = header[v]
    /\ \A s \in Sids : pc[s] = "done" => pc'[s] = "done"

LEMMA WorksLabels ==
    ASSUME Inv, Tables, NEW o \in Calls, Works(o)
    PROVE  /\ UNCHANGED <<cookie, header>>
           /\ pc[o] \in {"end", "token", "touch", "mint"} \cup Critical
           /\ pc'[o] \notin {"idle", "start"}
<1>1. UNCHANGED <<cookie, header>>
  BY DEF Works, EndRecord, EndToken, LoginToken, LoginCreate, Touch, Slide, RefreshMint, RefreshRotate,
         RefreshReplace, sent
<1>2. pc[o] \in {"end", "token", "touch", "mint"} \cup Critical
  BY DEF Works, EndRecord, EndToken, LoginToken, LoginCreate, Touch, Slide, RefreshMint, RefreshRotate,
         RefreshReplace, Critical
<1>3. PICK label : Goto(o, label) /\ label \notin {"idle", "start"}
  <2>1. ret[o] \notin {"idle", "start"} /\ Unresolved(o) \notin {"idle", "start"}
        /\ Validated(o) \notin {"idle", "start"}
    BY DEF Tables, Unresolved, Validated
  <2>2. CASE EndToken(o)
    BY <2>1, <2>2 DEF EndToken
  <2>3. CASE Touch(o)
    BY <2>1, <2>3 DEF Touch
  <2>4. CASE ~EndToken(o) /\ ~Touch(o)
    BY <2>1, <2>4 DEF Works, EndRecord, LoginToken, LoginCreate, Slide, RefreshMint, RefreshRotate, RefreshReplace
  <2>. QED
    BY <2>2, <2>3, <2>4
<1>. QED
  BY <1>1, <1>2, <1>3 DEF Inv, Shape, Goto

LEMMA StepSteady ==
    ASSUME Inv, Tables, NEW o \in Calls, Step(o)
    PROVE  Steady
<1>1. Alone(o)
  BY StepKinds
<1>2. /\ pc[o] # "done" /\ pc'[o] \notin {"idle", "start"}
      /\ Arrived(o) => cookie'[o] = cookie[o] /\ header'[o] = header[o]
  <2>1. CASE Works(o)
    BY <2>1, WorksLabels DEF Critical
  <2>2. CASE Looks(o)
    BY <2>2 DEF Looks, Arrived
  <2>. QED
    BY <2>1, <2>2, StepKinds
<1>. QED
  BY <1>1, <1>2 DEF Steady, Alone, Arrived, Visitors, Sids, Calls

LEMMA QuietSteady == ASSUME Tick \/ UNCHANGED vars PROVE Steady
BY DEF Tick, vars, sent, Steady, Arrived

(* A token was handed out for a session: the one its login creates or the   *)
(* one in the cookie of its rotation.                                       *)
Of(t, s) == t \in Tokens /\ (t \in Logins \/ Arrived(t)) /\ IssuedFor(t) = s

LEMMA OfStays == ASSUME Steady, NEW t, NEW s, Of(t, s) PROVE Of(t, s)'
<1>1. CASE t \in Logins
  BY <1>1 DEF Of, IssuedFor
<1>2. CASE t \notin Logins
  BY <1>2 DEF Of, IssuedFor, Steady, Visitors, Tokens
<1>. QED
  BY <1>1, <1>2

LEMMA OfOne == ASSUME NEW t, NEW s, NEW r, Of(t, s), Of(t, r) PROVE s = r
BY DEF Of

-----------------------------------------------------------------------------
(* Sessions and their tokens. A stored token is of the session it names; a  *)
(* live session's token is stored; any other token of it is one that a      *)
(* rotation has just minted or is about to delete.                          *)
IsToken(r) == r = [session |-> r.session, exp |-> r.exp]

IsSession(r) == r = [csrf |-> r.csrf, created |-> r.created, seen |-> r.seen, exp |-> r.exp]

Present(s) == sessions[s] # NoSession

Records ==
    /\ \A t \in Tokens : IsToken(tokens[t])
    /\ \A s \in Sids : IsSession(sessions[s])

(* Cookies are of sessions whose login has returned.                        *)
Cookies == \A v \in Visitors : Arrived(v) => cookie[v] \in Sids /\ pc[cookie[v]] = "done"

Bound == \A t \in Tokens : tokens[t].session # None => Of(t, tokens[t].session)

Named == \A s \in Sids : Present(s) => sessions[s].csrf \in Tokens /\ tokens[sessions[s].csrf].session = s

(* Why a token of session s that it does not name is stored.                *)
Rotating(q, s, t) ==
    cookie[q] = s /\ ((pc[q] = "rotate" /\ t = q) \/ (pc[q] = "replace" /\ copy[q].csrf = t))

Others ==
    \A s \in Sids, t \in Tokens : Present(s) /\ tokens[t].session = s /\ t # sessions[s].csrf =>
        \E q \in Rotations : Rotating(q, s, t)

(* What a rotation is about to delete is not named by a session, and will   *)
(* not be.                                                                  *)
Replaced ==
    \A q \in Rotations : pc[q] = "replace" =>
        Of(copy[q].csrf, cookie[q]) /\ \A s \in Sids : Present(s) => sessions[s].csrf # copy[q].csrf

Unused ==
    \A q \in Rotations : pc[q] \notin {"replace", "done"} =>
        /\ \A s \in Sids : Present(s) => sessions[s].csrf # q
        /\ \A p \in Rotations : pc[p] = "replace" => copy[p].csrf # q

(* The token that a login or a rotation is about to bind, if the session    *)
(* has not ended since.                                                     *)
Minted ==
    /\ \A l \in Logins : pc[l] = "create" => tokens[l].session = l
    /\ \A q \in Rotations : pc[q] = "rotate" => tokens[q].session = cookie[q] \/ cookie[q] \in ended

(* A call that ends a session deletes a token of that session.              *)
Endings ==
    /\ \A o \in Calls : \A e \in todo[o] : Of(e.csrf, e.sid)
    /\ \A o \in Calls : pc[o] = "endtoken" => Of(copy[o].csrf, copy[o].sid) /\ copy[o].sid \in ended

CsrfInv ==
    Records /\ Cookies /\ Bound /\ Named /\ Others /\ Replaced /\ Unused /\ Minted /\ Endings
LEMMA NamedOf ==
    ASSUME CsrfInv, NEW s \in Sids, Present(s)
    PROVE  Of(sessions[s].csrf, s)
BY CallsDisjoint DEF CsrfInv, Named, Bound, Sids, Calls

LEMMA VisitorsArrive ==
    ASSUME NEW o \in Visitors, ~Arrived(o), Step(o)
    PROVE  \E s \in Sids, t \in Tokens \cup {None} : Arrive(o, s, t)
<1>1. pc[o] \in {"idle", "start"} /\ o \notin Logins /\ o \notin Sweeps
  BY CallsDisjoint DEF Arrived, Visitors
<1>2. ~EndRecord(o) /\ ~EndToken(o)
  BY <1>1 DEF EndRecord, EndToken
<1>3. ~Validate(o) /\ ~EnforceCsrf(o) /\ ~Logout(o)
  BY <1>1 DEF Validate, Get, Touch, Slide, EnforceCsrf, Logout
<1>4. ~RequestStep(o)
  BY <1>1, <1>3 DEF RequestStep, Resolve, Pass, Forbid, Route, LogoutAll, RevokeByHandle
<1>5. ~RefreshStep(o)
  BY <1>1, <1>3 DEF RefreshStep, RefreshCheck, RefreshRead, RefreshMint, RefreshRotate, RefreshReplace
<1>. QED
  BY <1>1, <1>2, <1>3, <1>4, <1>5 DEF Step, Validate

LEMMA CookiesKept ==
    ASSUME Inv, Tables, Cookies, NEW o \in Calls, Step(o)
    PROVE  Cookies'
<1>1. Alone(o) /\ Steady
  BY StepKinds, StepSteady
<1>2. SUFFICES ASSUME NEW v \in Visitors, Arrived(v)' PROVE cookie'[v] \in Sids /\ pc'[cookie'[v]] = "done"
  BY DEF Cookies
<1>3. CASE Arrived(v)
  BY <1>1, <1>3 DEF Cookies, Steady
<1>4. CASE ~Arrived(v)
  <2>1. v = o
    BY <1>1, <1>2, <1>4 DEF Alone, Arrived, Visitors, Calls
  <2>2. PICK s \in Sids, t \in Tokens \cup {None} : Arrive(o, s, t)
    BY <1>4, <2>1, VisitorsArrive
  <2>3. cookie'[o] = s /\ pc[s] = "done"
    BY <2>2 DEF Arrive, Born, Inv, Shape
  <2>. QED
    BY <1>1, <2>1, <2>3 DEF Steady
<1>. QED
  BY <1>3, <1>4

(* A step that changes no record and takes no call to or from a critical    *)
(* label.                                                                   *)
LEMMA LooksKeepCsrf ==
    ASSUME Inv, Tables, CsrfInv, NEW o \in Calls, Step(o), Looks(o)
    PROVE  CsrfInv'
<1>1. Alone(o) /\ Steady /\ UNCHANGED <<sessions, tokens, copy, ended>>
  BY StepKinds, StepSteady DEF Looks
<1>2. \A c \in Calls : (pc'[c] \in Critical <=> pc[c] \in Critical) /\ (pc[c] \in Critical => pc'[c] = pc[c])
  BY <1>1 DEF Alone, Looks
<1>3. \A q \in Rotations : /\ pc'[q] \notin {"replace", "done"} => pc[q] \notin {"replace", "done"}
                           /\ pc[q] \in {"rotate", "replace"} => cookie'[q] = cookie[q]
                           /\ pc'[q] \in {"rotate", "replace"} => pc'[q] = pc[q]
                           /\ pc[q] \in {"rotate", "replace"} => pc'[q] = pc[q]
  <2>1. pc[o] \notin {"rotate", "replace", "done"} /\ pc'[o] \notin {"rotate", "replace"}
    BY DEF Looks, Critical
  <2>. QED
    BY <1>1, <2>1 DEF Alone, Calls
<1>4. Records' /\ Named'
  BY <1>1 DEF CsrfInv, Records, Named, Present
<1>5. Cookies'
  BY CookiesKept DEF CsrfInv
<1>6. Bound'
  BY <1>1, OfStays DEF CsrfInv, Bound
<1>7. Others'
  BY <1>1, <1>3 DEF CsrfInv, Others, Present, Rotating
<1>8. Replaced'
  BY <1>1, <1>3, OfStays DEF CsrfInv, Replaced, Present
<1>9. Unused'
  BY <1>1, <1>3 DEF CsrfInv, Unused, Present
<1>10. Minted'
  <2>1. \A l \in Logins : pc'[l] = "create" => pc[l] = "create"
    BY <1>2 DEF Critical, Calls
  <2>. QED
    BY <1>1, <1>3, <2>1 DEF CsrfInv, Minted
<1>11. Endings'
  <2>1. ASSUME NEW c \in Calls, NEW e \in todo'[c] PROVE Of(e.csrf, e.sid)
    <3>1. CASE e \in todo[c]
      BY <3>1 DEF CsrfInv, Endings
    <3>2. CASE e \notin todo[c]
      <4>1. c = o
        BY <1>1, <2>1, <3>2 DEF Alone
      <4>2. PICK s \in Live : e = Entry(s)
        BY <2>1, <3>2, <4>1 DEF Looks
      <4>3. Of(sessions[s].csrf, s)
        BY NamedOf DEF Live, Alive, Present
      <4>. QED
        BY <4>2, <4>3 DEF Entry
    <3>. QED
      BY <3>1, <3>2
  <2>2. ASSUME NEW c \in Calls, pc'[c] = "endtoken"
        PROVE  Of(copy[c].csrf, copy[c].sid) /\ copy[c].sid \in ended
    BY <1>2, <2>2 DEF CsrfInv, Endings, Critical
  <2>. QED
    BY <1>1, <2>1, <2>2, OfStays DEF Endings
<1>. QED
  BY <1>4, <1>5, <1>6, <1>7, <1>8, <1>9, <1>10, <1>11 DEF CsrfInv
(* What a working step of one call leaves alone.                            *)
LEMMA WorksFrame ==
    ASSUME Inv, Tables, CsrfInv, NEW o \in Calls, Step(o), Works(o)
    PROVE  /\ Steady /\ Cookies' /\ UNCHANGED <<cookie, header>>
           /\ \A c \in Calls \ {o} : pc'[c] = pc[c] /\ copy'[c] = copy[c] /\ todo'[c] = todo[c]
           /\ Rotations \subseteq Calls /\ Logins \subseteq Calls /\ Sids \subseteq Calls
           /\ None \notin Sids /\ None \notin Tokens /\ Rotations \cap Logins = {}
           /\ Sids = Logins /\ Logins \subseteq Tokens /\ Rotations \subseteq Tokens
<1>1. Alone(o) /\ Steady
  BY StepKinds, StepSteady
<1>2. Cookies'
  BY CookiesKept DEF CsrfInv
<1>3. /\ Rotations \subseteq Calls /\ Logins \subseteq Calls /\ Sids \subseteq Calls
      /\ None \notin Sids /\ None \notin Tokens /\ Rotations \cap Logins = {}
      /\ Sids = Logins /\ Logins \subseteq Tokens /\ Rotations \subseteq Tokens
  BY CallsDisjoint DEF Calls, Sids, Tokens
<1>. QED
  BY <1>1, <1>2, <1>3, WorksLabels DEF Alone

LEMMA EndRecordKeepsCsrf ==
    ASSUME Inv, Tables, CsrfInv, NEW o \in Calls, Step(o), Works(o), EndRecord(o)
    PROVE  CsrfInv'
<1>1. PICK e \in todo[o] : /\ sessions' = [sessions EXCEPT ![e.sid] = NoSession]
                           /\ ended' = ended \cup {e.sid}
                           /\ copy' = [copy EXCEPT ![o] = e]
  BY DEF EndRecord
<1>2. pc[o] = "end" /\ UNCHANGED <<tokens, todo>> /\ pc'[o] = "endtoken" /\ copy'[o] = e /\ e.sid \in ended'
  BY <1>1 DEF EndRecord, Goto, ending, Inv, Shape, Tables
<1>3. /\ Steady /\ Cookies' /\ UNCHANGED cookie /\ Rotations \subseteq Calls /\ Logins \subseteq Calls
      /\ \A c \in Calls \ {o} : pc'[c] = pc[c] /\ copy'[c] = copy[c]
  BY WorksFrame
<1>4. \A s \in Sids : Present(s)' => Present(s) /\ sessions'[s] = sessions[s]
  BY <1>1 DEF Present, Inv, Shape
<1>5. Records'
  <2>1. IsSession(NoSession)
    BY DEF IsSession, NoSession
  <2>2. \A s \in Sids : sessions'[s] = NoSession \/ sessions'[s] = sessions[s]
    BY <1>1 DEF Inv, Shape
  <2>3. \A s \in Sids : IsSession(sessions'[s])
    BY <2>1, <2>2 DEF CsrfInv, Records
  <2>. QED
    BY <1>2, <2>3 DEF CsrfInv, Records
<1>6. Bound'
  BY <1>2, <1>3, OfStays DEF CsrfInv, Bound
<1>7. Named'
  BY <1>2, <1>4 DEF CsrfInv, Named
<1>8. \A q \in Rotations : /\ pc'[q] \in {"rotate", "replace"} => q # o
                           /\ pc[q] \in {"rotate", "replace"} => q # o
  BY <1>2
<1>9. Others'
  BY <1>2, <1>3, <1>4, <1>8 DEF CsrfInv, Others, Rotating
<1>10. Replaced'
  BY <1>3, <1>4, <1>8, OfStays DEF CsrfInv, Replaced
<1>11. Unused'
  BY <1>2, <1>3, <1>4, <1>8 DEF CsrfInv, Unused
<1>12. Minted'
  BY <1>1, <1>2, <1>3 DEF CsrfInv, Minted
<1>13. Endings'
  <2>1. \A c \in Calls : \A x \in todo'[c] : Of(x.csrf, x.sid)'
    BY <1>2, <1>3, OfStays DEF CsrfInv, Endings
  <2>2. ASSUME NEW c \in Calls, pc'[c] = "endtoken"
        PROVE  (Of(copy[c].csrf, copy[c].sid) /\ copy[c].sid \in ended)'
    <3>1. CASE c = o
      BY <1>2, <1>3, <3>1, OfStays DEF CsrfInv, Endings
    <3>2. CASE c # o
      BY <1>1, <1>3, <2>2, <3>2, OfStays DEF CsrfInv, Endings
    <3>. QED
      BY <3>1, <3>2
  <2>. QED
    BY <2>1, <2>2 DEF Endings
<1>. QED
  BY <1>3, <1>5, <1>6, <1>7, <1>9, <1>10, <1>11, <1>12, <1>13 DEF CsrfInv

(* The token that a call deletes after a record is of an ended session.     *)
LEMMA EndTokenKeepsCsrf ==
    ASSUME Inv, Tables, CsrfInv, NEW o \in Calls, Step(o), Works(o), EndToken(o)
    PROVE  CsrfInv'
<1>1. /\ pc[o] = "endtoken" /\ UNCHANGED <<sessions, copy, ended>>
      /\ tokens' = [tokens EXCEPT ![copy[o].csrf] = NoToken]
      /\ todo'[o] \subseteq todo[o] /\ pc'[o] \notin Critical
  BY DEF EndToken, Goto, history, Inv, Shape, Tables, Critical
<1>2. /\ Steady /\ Cookies' /\ UNCHANGED cookie /\ Rotations \subseteq Calls /\ Logins \subseteq Calls
      /\ \A c \in Calls \ {o} : pc'[c] = pc[c] /\ copy'[c] = copy[c] /\ todo'[c] = todo[c]
      /\ None \notin Sids /\ Sids = Logins /\ Logins \subseteq Tokens /\ Rotations \subseteq Tokens
      /\ Rotations \cap Logins = {}
  BY WorksFrame
<1>3. Of(copy[o].csrf, copy[o].sid) /\ copy[o].sid \in ended
  BY <1>1 DEF CsrfInv, Endings
<1>4. \A t \in Tokens : /\ tokens'[t] = NoToken \/ tokens'[t] = tokens[t]
                        /\ t # copy[o].csrf => tokens'[t] = tokens[t]
  BY <1>1 DEF Tables
<1>5. NoToken.session = None /\ IsToken(NoToken)
  BY DEF NoToken, IsToken
<1>6. \A t \in Tokens : tokens'[t].session # None => tokens'[t] = tokens[t]
  BY <1>4, <1>5
<1>7. \A q \in Rotations : /\ pc'[q] \in {"rotate", "replace"} => q # o
                           /\ pc[q] \in {"rotate", "replace"} => q # o
  BY <1>1 DEF Critical
<1>8. Records'
  <2>1. \A t \in Tokens : IsToken(tokens'[t])
    BY <1>4, <1>5 DEF CsrfInv, Records
  <2>. QED
    BY <1>1, <2>1 DEF CsrfInv, Records
<1>9. Bound'
  BY <1>2, <1>6, OfStays DEF CsrfInv, Bound
<1>10. Named'
  <2>1. ASSUME NEW s \in Sids, Present(s) PROVE sessions[s].csrf # copy[o].csrf
    <3>1. Of(sessions[s].csrf, s)
      BY <2>1, NamedOf
    <3>2. s \notin ended
      BY <2>1 DEF Inv, Ended, Present
    <3>. QED
      BY <1>3, <3>1, <3>2, OfOne
  <2>. QED
    BY <1>1, <1>4, <2>1 DEF CsrfInv, Named, Present
<1>11. Others'
  BY <1>1, <1>2, <1>6, <1>7 DEF CsrfInv, Others, Present, Rotating
<1>12. Replaced'
  BY <1>1, <1>2, <1>7, OfStays DEF CsrfInv, Replaced, Present
<1>13. Unused'
  BY <1>1, <1>2, <1>7 DEF CsrfInv, Unused, Present
<1>14. Minted'
  <2>1. ASSUME NEW l \in Logins, pc'[l] = "create" PROVE tokens'[l].session = l
    <3>1. pc[l] = "create"
      BY <1>1, <1>2, <2>1 DEF Critical
    <3>2. l # copy[o].csrf
      BY <1>2, <1>3, <3>1 DEF Of, IssuedFor, Inv, Ended
    <3>. QED
      BY <1>2, <1>4, <3>1, <3>2 DEF CsrfInv, Minted
  <2>2. ASSUME NEW q \in Rotations, pc'[q] = "rotate" PROVE tokens'[q].session = cookie'[q] \/ cookie'[q] \in ended'
    <3>1. pc[q] = "rotate"
      BY <1>2, <1>7, <2>2
    <3>2. CASE q = copy[o].csrf
      BY <1>1, <1>2, <1>3, <3>2 DEF Of, IssuedFor
    <3>3. CASE q # copy[o].csrf
      BY <1>1, <1>2, <1>4, <3>1, <3>3 DEF CsrfInv, Minted
    <3>. QED
      BY <3>2, <3>3
  <2>. QED
    BY <2>1, <2>2 DEF Minted
<1>15. Endings'
  <2>1. \A c \in Calls : todo'[c] \subseteq todo[c] /\ (pc'[c] = "endtoken" => pc[c] = "endtoken")
    BY <1>1, <1>2 DEF Critical
  <2>. QED
    BY <1>1, <1>2, <2>1, OfStays DEF CsrfInv, Endings
<1>. QED
  BY <1>2, <1>8, <1>9, <1>10, <1>11, <1>12, <1>13, <1>14, <1>15 DEF CsrfInv

LEMMA LoginTokenKeepsCsrf ==
    ASSUME Inv, Tables, CsrfInv, NEW o \in Logins, Step(o), Works(o), LoginToken(o)
    PROVE  CsrfInv'
<1>0. o \in Calls /\ o \in Tokens /\ o \in Sids
  BY DEF Calls, Tokens, Sids
<1>1. /\ pc[o] = "token" /\ pc'[o] = "create" /\ UNCHANGED <<sessions, copy, ended, todo>>
      /\ tokens' = [tokens EXCEPT ![o] = [session |-> o, exp |-> clock + Idle]]
  BY <1>0 DEF LoginToken, Goto, ending, history, Inv, Shape
<1>2. /\ Steady /\ Cookies' /\ UNCHANGED cookie /\ Rotations \subseteq Calls /\ Logins \subseteq Calls
      /\ \A c \in Calls \ {o} : pc'[c] = pc[c] /\ copy'[c] = copy[c] /\ todo'[c] = todo[c]
      /\ None \notin Sids /\ Sids = Logins /\ Rotations \cap Logins = {} /\ Rotations \subseteq Tokens
      /\ Logins \subseteq Tokens
  BY <1>0, WorksFrame
<1>3. ~Present(o) /\ \A t \in Tokens \ {o} : tokens'[t] = tokens[t]
  BY <1>0, <1>1 DEF Inv, Created, Present, Tables
<1>4. IsToken(tokens'[o]) /\ tokens'[o].session = o
  BY <1>0, <1>1 DEF Tables, IsToken
<1>5. \A q \in Rotations : q # o
  BY <1>2
<1>6. Records'
  <2>1. \A t \in Tokens : IsToken(tokens'[t])
    BY <1>3, <1>4 DEF CsrfInv, Records
  <2>. QED
    BY <1>1, <2>1 DEF CsrfInv, Records
<1>7. Bound'
  <2>1. Of(o, o)'
    BY <1>0 DEF Of, IssuedFor
  <2>2. ASSUME NEW t \in Tokens, t # o, tokens'[t].session # None PROVE Of(t, tokens[t].session)'
    BY <1>2, <1>3, <2>2, OfStays DEF CsrfInv, Bound
  <2>. QED
    BY <1>4, <2>1, <2>2 DEF Bound
<1>8. Named'
  <2>1. ASSUME NEW s \in Sids, Present(s) PROVE sessions[s].csrf # o
    <3>1. Of(sessions[s].csrf, s)
      BY <2>1, NamedOf
    <3>. QED
      BY <1>3, <2>1, <3>1 DEF Of, IssuedFor
  <2>. QED
    BY <1>1, <1>3, <2>1 DEF CsrfInv, Named, Present
<1>9. Others'
  BY <1>1, <1>2, <1>3, <1>4, <1>5 DEF CsrfInv, Others, Present, Rotating
<1>10. Replaced'
  BY <1>1, <1>2, <1>5, OfStays DEF CsrfInv, Replaced, Present
<1>11. Unused'
  BY <1>1, <1>2, <1>5 DEF CsrfInv, Unused, Present
<1>12. Minted'
  BY <1>1, <1>2, <1>3, <1>4, <1>5 DEF CsrfInv, Minted
<1>13. Endings'
  BY <1>1, <1>2, OfStays DEF CsrfInv, Endings
<1>. QED
  BY <1>2, <1>6, <1>7, <1>8, <1>9, <1>10, <1>11, <1>12, <1>13 DEF CsrfInv

LEMMA LoginCreateKeepsCsrf ==
    ASSUME Inv, Tables, CsrfInv, NEW o \in Logins, Step(o), Works(o), LoginCreate(o)
    PROVE  CsrfInv'
<1>0. o \in Calls /\ o \in Tokens /\ o \in Sids
  BY DEF Calls, Tokens, Sids
<1>1. /\ pc[o] = "create" /\ pc'[o] = "done" /\ UNCHANGED <<tokens, copy, ended, todo>>
      /\ sessions' = [sessions EXCEPT ![o] = [csrf |-> o, created |-> now[o], seen |-> now[o], exp |-> clock + Idle]]
  BY <1>0 DEF LoginCreate, Goto, ending, Inv, Shape
<1>2. /\ Steady /\ Cookies' /\ UNCHANGED cookie /\ Rotations \subseteq Calls /\ Logins \subseteq Calls
      /\ \A c \in Calls \ {o} : pc'[c] = pc[c] /\ copy'[c] = copy[c] /\ todo'[c] = todo[c]
      /\ None \notin Sids /\ Sids = Logins /\ Rotations \cap Logins = {}
  BY <1>0, WorksFrame
<1>3. \A s \in Sids \ {o} : sessions'[s] = sessions[s] /\ (Present(s)' <=> Present(s))
  BY <1>1 DEF Inv, Shape, Present
<1>4. IsSession(sessions'[o]) /\ sessions'[o].csrf = o
  BY <1>0, <1>1 DEF Inv, Shape, IsSession
<1>5. \A q \in Rotations : q # o
  BY <1>2
<1>6. \A t \in Tokens : Of(t, o) => t = o
  <2>1. SUFFICES ASSUME NEW t \in Tokens, Of(t, o), t # o PROVE FALSE
    OBVIOUS
  <2>2. t \in Visitors /\ Arrived(t) /\ cookie[t] = o
    BY <2>1 DEF Of, IssuedFor, Tokens, Visitors
  <2>. QED
    BY <1>1, <2>2 DEF CsrfInv, Cookies
<1>7. Records'
  <2>1. \A s \in Sids : IsSession(sessions'[s])
    BY <1>3, <1>4 DEF CsrfInv, Records
  <2>. QED
    BY <1>1, <2>1 DEF CsrfInv, Records
<1>8. Bound'
  BY <1>1, <1>2, OfStays DEF CsrfInv, Bound
<1>9. Named'
  <2>1. tokens[o].session = o
    BY <1>1 DEF CsrfInv, Minted
  <2>. QED
    BY <1>0, <1>1, <1>3, <1>4, <2>1 DEF CsrfInv, Named
<1>10. Others'
  <2>1. ASSUME NEW t \in Tokens, tokens[t].session = o PROVE t = o
    BY <1>0, <1>2, <1>6, <2>1 DEF CsrfInv, Bound
  <2>. QED
    BY <1>1, <1>2, <1>3, <1>4, <1>5, <2>1 DEF CsrfInv, Others, Rotating
<1>11. Replaced'
  <2>1. ASSUME NEW q \in Rotations, pc[q] = "replace" PROVE copy[q].csrf # o
    <3>1. Of(copy[q].csrf, cookie[q]) /\ q \in Visitors /\ Arrived(q)
      BY <2>1 DEF CsrfInv, Replaced, Visitors, Arrived
    <3>2. cookie[q] # o
      BY <1>1, <3>1 DEF CsrfInv, Cookies
    <3>. QED
      BY <3>1, <3>2 DEF Of, IssuedFor
  <2>. QED
    BY <1>1, <1>2, <1>3, <1>4, <1>5, <2>1, OfStays DEF CsrfInv, Replaced
<1>12. Unused'
  BY <1>1, <1>2, <1>3, <1>4, <1>5 DEF CsrfInv, Unused
<1>13. Minted'
  BY <1>1, <1>2, <1>5 DEF CsrfInv, Minted
<1>14. Endings'
  BY <1>1, <1>2, OfStays DEF CsrfInv, Endings
<1>. QED
  BY <1>2, <1>7, <1>8, <1>9, <1>10, <1>11, <1>12, <1>13, <1>14 DEF CsrfInv
(* A step that leaves the names, and of each token the session it is of.    *)
SameNames ==
    /\ \A s \in Sids : (Present(s)' <=> Present(s)) /\ sessions'[s].csrf = sessions[s].csrf
    /\ \A t \in Tokens : tokens'[t].session = tokens[t].session

LEMMA ValidateKeepsCsrf ==
    ASSUME Inv, Tables, CsrfInv, NEW o \in Calls, Step(o), Works(o), SameNames, Records',
           UNCHANGED <<todo, ended>>, pc[o] \in {"touch", "slide"}, pc'[o] \notin Critical \ {"slide"}
    PROVE  CsrfInv'
<1>1. /\ Steady /\ Cookies' /\ UNCHANGED cookie /\ Rotations \subseteq Calls /\ Logins \subseteq Calls
      /\ \A c \in Calls \ {o} : pc'[c] = pc[c] /\ copy'[c] = copy[c]
      /\ Rotations \subseteq Tokens /\ Logins \subseteq Tokens
  BY WorksFrame
<1>2. \A q \in Calls : /\ pc'[q] \in Critical \ {"slide"} => q # o
                       /\ pc[q] \in Critical \ {"slide"} => q # o
  BY DEF Critical
<1>3. Bound'
  BY <1>1, OfStays DEF CsrfInv, Bound, SameNames
<1>4. Named'
  BY DEF CsrfInv, Named, SameNames
<1>5. Others'
  BY <1>1, <1>2 DEF CsrfInv, Others, SameNames, Rotating, Critical
<1>6. Replaced'
  BY <1>1, <1>2, OfStays DEF CsrfInv, Replaced, SameNames, Critical
<1>7. Unused'
  <2>1. \A q \in Rotations : pc'[q] \notin {"replace", "done"} => pc[q] \notin {"replace", "done"}
    BY <1>1
  <2>. QED
    BY <1>1, <1>2, <2>1 DEF CsrfInv, Unused, SameNames, Critical
<1>8. Minted'
  BY <1>1, <1>2 DEF CsrfInv, Minted, SameNames, Critical
<1>9. Endings'
  BY <1>1, <1>2, OfStays DEF CsrfInv, Endings, Critical
<1>. QED
  BY <1>1, <1>3, <1>4, <1>5, <1>6, <1>7, <1>8, <1>9 DEF CsrfInv

LEMMA TouchMoves ==
    ASSUME Inv, Tables, CsrfInv, NEW o \in Requests \cup Rotations, Touch(o)
    PROVE  /\ SameNames /\ Records' /\ UNCHANGED <<tokens, todo, ended, slid, clock>>
           /\ pc[o] = "touch" /\ pc'[o] \in {"slide", "next", "done"} /\ cookie[o] \in Sids
           /\ \A s \in Sids \ {cookie[o]} : sessions'[s] = sessions[s]
           /\ pc'[o] = "slide" => copy'[o] = Entry(cookie[o]) /\ Present(cookie[o])
                                    /\ sessions'[cookie[o]].exp = clock + Idle
           /\ pc'[o] # "slide" => UNCHANGED <<sessions, copy>>
<1>1. o \in Calls /\ o \in Visitors
  BY DEF Calls, Visitors
<1>2. pc[o] = "touch" /\ UNCHANGED <<tokens, todo, ended, slid, clock>>
  BY DEF Touch, ending, history
<1>3. cookie[o] \in Sids
  BY <1>1, <1>2 DEF Inv, Carried
<1>4. CASE Alive(cookie[o])
  <2>1. PICK s \in Sids : s = cookie[o]
    BY <1>3
  <2>2. /\ sessions' = [sessions EXCEPT ![s].seen = now[o], ![s].exp = clock + Idle]
        /\ copy'[o] = Entry(s) /\ pc'[o] = "slide"
    BY <1>1, <1>4, <2>1 DEF Touch, Goto, Inv, Shape, Tables
  <2>3. sessions[s] = [csrf |-> sessions[s].csrf, created |-> sessions[s].created, seen |-> sessions[s].seen,
                       exp |-> sessions[s].exp]
    BY DEF CsrfInv, Records, IsSession
  <2>4. sessions'[s] = [csrf |-> sessions[s].csrf, created |-> sessions[s].created, seen |-> now[o],
                        exp |-> clock + Idle]
    BY <2>2, <2>3 DEF Inv, Shape
  <2>5. \A x \in Sids \ {s} : sessions'[x] = sessions[x]
    BY <2>2 DEF Inv, Shape
  <2>6. Present(s)
    BY <1>4, <2>1 DEF Alive, Present
  <2>7. sessions[s].csrf \in Tokens /\ None \notin Tokens
    BY <2>6, CallsDisjoint DEF CsrfInv, Named, Tokens, Calls
  <2>8. Present(s)'
    BY <2>4, <2>7 DEF Present, NoSession
  <2>9. SameNames
    <3>1. sessions'[s].csrf = sessions[s].csrf
      BY <2>4
    <3>2. \A x \in Sids \ {s} : Present(x)' <=> Present(x)
      BY <2>5 DEF Present
    <3>. QED
      BY <1>2, <2>5, <2>6, <2>8, <3>1, <3>2 DEF SameNames
  <2>10. Records'
    <3>1. IsSession(sessions'[s])
      BY <2>4 DEF IsSession
    <3>2. \A x \in Sids : IsSession(sessions'[x])
      BY <2>5, <3>1 DEF CsrfInv, Records
    <3>. QED
      BY <1>2, <3>2 DEF CsrfInv, Records
  <2>11. sessions'[s].exp = clock + Idle
    BY <2>4
  <2>. QED
    BY <1>2, <1>3, <2>1, <2>2, <2>5, <2>6, <2>9, <2>10, <2>11
<1>5. CASE ~Alive(cookie[o])
  <2>1. UNCHANGED <<sessions, copy>> /\ Goto(o, Unresolved(o)) /\ Unresolved(o) \in {"next", "done"}
    BY <1>5 DEF Touch, Unresolved
  <2>2. pc'[o] \in {"next", "done"}
    BY <1>1, <2>1 DEF Goto, Inv, Shape
  <2>3. SameNames /\ Records'
    BY <1>2, <2>1 DEF SameNames, Records, CsrfInv, Present
  <2>. QED
    BY <1>2, <1>3, <2>1, <2>2, <2>3
<1>. QED
  BY <1>4, <1>5

LEMMA SlideMoves ==
    ASSUME Inv, Tables, CsrfInv, NEW o \in Requests \cup Rotations, Slide(o)
    PROVE  /\ SameNames /\ Records' /\ UNCHANGED <<sessions, todo, ended, clock, copy>>
           /\ pc[o] = "slide" /\ pc'[o] \notin Critical
           /\ \A t \in Tokens \ {copy[o].csrf} : tokens'[t] = tokens[t]
           /\ copy[o].csrf \in Tokens /\ Valid(copy[o].csrf) => tokens'[copy[o].csrf].exp = clock + Idle
<1>1. o \in Calls
  BY DEF Calls
<1>2. pc[o] = "slide" /\ UNCHANGED <<sessions, todo, ended, clock, copy>>
  BY DEF Slide, ending
<1>3. Goto(o, Validated(o)) /\ Validated(o) \in {"check", "csrf", "pass"}
  BY DEF Slide, Validated
<1>4. pc'[o] \notin Critical
  BY <1>1, <1>3 DEF Goto, Inv, Shape, Critical
<1>5. \A s \in Sids : (Present(s)' <=> Present(s)) /\ sessions'[s].csrf = sessions[s].csrf
  BY <1>2 DEF Present
<1>6. CASE copy[o].csrf \in Tokens /\ Valid(copy[o].csrf)
  <2>1. PICK t \in Tokens : t = copy[o].csrf
    BY <1>6
  <2>2. tokens' = [tokens EXCEPT ![t].exp = clock + Idle]
    BY <1>6, <2>1 DEF Slide
  <2>3. tokens[t] = [session |-> tokens[t].session, exp |-> tokens[t].exp]
    BY DEF CsrfInv, Records, IsToken
  <2>4. tokens'[t] = [session |-> tokens[t].session, exp |-> clock + Idle]
    BY <2>2, <2>3 DEF Tables
  <2>5. \A x \in Tokens \ {t} : tokens'[x] = tokens[x]
    BY <2>2 DEF Tables
  <2>6. tokens'[t].session = tokens[t].session /\ tokens'[t].exp = clock + Idle /\ IsToken(tokens'[t])
    BY <2>4 DEF IsToken
  <2>7. \A x \in Tokens : IsToken(tokens'[x])
    BY <2>5, <2>6 DEF CsrfInv, Records
  <2>8. SameNames
    BY <1>5, <2>5, <2>6 DEF SameNames
  <2>9. Records'
    BY <1>2, <2>7 DEF CsrfInv, Records
  <2>. QED
    BY <1>2, <1>4, <2>1, <2>5, <2>6, <2>8, <2>9
<1>7. CASE ~(copy[o].csrf \in Tokens /\ Valid(copy[o].csrf))
  <2>1. tokens' = tokens
    BY <1>7 DEF Slide, Tables
  <2>2. SameNames
    BY <1>5, <2>1 DEF SameNames
  <2>3. Records'
    BY <1>2, <2>1 DEF CsrfInv, Records
  <2>. QED
    BY <1>2, <1>4, <1>7, <2>1, <2>2, <2>3
<1>. QED
  BY <1>6, <1>7

LEMMA MintKeepsCsrf ==
    ASSUME Inv, Tables, CsrfInv, NEW o \in Rotations, Step(o), Works(o), RefreshMint(o)
    PROVE  CsrfInv'
<1>0. o \in Calls /\ o \in Tokens /\ o \in Visitors
  BY DEF Calls, Tokens, Visitors
<1>1. /\ pc[o] = "mint" /\ pc'[o] = "rotate" /\ UNCHANGED <<sessions, copy, ended, todo>>
      /\ tokens' = [tokens EXCEPT ![o] = [session |-> cookie[o], exp |-> clock + Idle]]
  BY <1>0 DEF RefreshMint, Goto, ending, history, Inv, Shape
<1>2. /\ Steady /\ Cookies' /\ UNCHANGED cookie /\ Rotations \subseteq Calls /\ Logins \subseteq Calls
      /\ \A c \in Calls \ {o} : pc'[c] = pc[c] /\ copy'[c] = copy[c] /\ todo'[c] = todo[c]
      /\ None \notin Sids /\ Sids = Logins /\ Rotations \cap Logins = {} /\ Rotations \subseteq Tokens
      /\ Logins \subseteq Tokens
  BY <1>0, WorksFrame
<1>3. \A t \in Tokens \ {o} : tokens'[t] = tokens[t]
  BY <1>1 DEF Tables
<1>4. IsToken(tokens'[o]) /\ tokens'[o].session = cookie[o]
  BY <1>0, <1>1 DEF Tables, IsToken
<1>5. /\ \A s \in Sids : Present(s) => sessions[s].csrf # o
      /\ \A p \in Rotations : pc[p] = "replace" => copy[p].csrf # o
  BY <1>1 DEF CsrfInv, Unused
<1>6. Records'
  <2>1. \A t \in Tokens : IsToken(tokens'[t])
    BY <1>3, <1>4 DEF CsrfInv, Records
  <2>. QED
    BY <1>1, <2>1 DEF CsrfInv, Records
<1>7. Bound'
  <2>1. Of(o, cookie[o])
    BY <1>0, <1>1, <1>2 DEF Of, IssuedFor, Arrived
  <2>2. ASSUME NEW t \in Tokens, tokens'[t].session # None PROVE Of(t, tokens[t].session)'
    <3>1. Of(t, tokens'[t].session)
      <4>1. CASE t = o
        BY <1>4, <2>1, <4>1
      <4>2. CASE t # o
        BY <1>3, <2>2, <4>2 DEF CsrfInv, Bound
      <4>. QED
        BY <4>1, <4>2
    <3>. QED
      BY <1>2, <3>1, OfStays
  <2>. QED
    BY <2>2 DEF Bound
<1>8. Named'
  BY <1>1, <1>3, <1>5 DEF CsrfInv, Named, Present
<1>9. Others'
  <2>1. SUFFICES ASSUME NEW s \in Sids, NEW t \in Tokens, Present(s), tokens'[t].session = s, t # sessions[s].csrf
                 PROVE  \E q \in Rotations : Rotating(q, s, t)'
    BY <1>1 DEF Others, Present
  <2>2. CASE t = o
    BY <1>1, <1>2, <1>4, <2>1, <2>2 DEF Rotating
  <2>3. CASE t # o
    <3>1. PICK q \in Rotations : Rotating(q, s, t)
      BY <1>3, <2>1, <2>3 DEF CsrfInv, Others
    <3>2. q # o
      BY <1>1, <3>1 DEF Rotating
    <3>. QED
      BY <1>2, <3>1, <3>2 DEF Rotating
  <2>. QED
    BY <2>2, <2>3
<1>10. Replaced'
  BY <1>1, <1>2, OfStays DEF CsrfInv, Replaced, Present
<1>11. Unused'
  BY <1>1, <1>2 DEF CsrfInv, Unused, Present
<1>12. Minted'
  <2>1. \A l \in Logins : l # o
    BY <1>2
  <2>2. \A l \in Logins : pc'[l] = "create" => tokens'[l].session = l
    BY <1>2, <1>3, <2>1 DEF CsrfInv, Minted
  <2>3. ASSUME NEW q \in Rotations, pc'[q] = "rotate" PROVE tokens'[q].session = cookie'[q] \/ cookie'[q] \in ended'
    <3>1. CASE q = o
      BY <1>2, <1>4, <3>1
    <3>2. CASE q # o
      BY <1>1, <1>2, <1>3, <2>3, <3>2 DEF CsrfInv, Minted
    <3>. QED
      BY <3>1, <3>2
  <2>. QED
    BY <2>2, <2>3 DEF Minted
<1>13. Endings'
  BY <1>1, <1>2, OfStays DEF CsrfInv, Endings
<1>. QED
  BY <1>2, <1>6, <1>7, <1>8, <1>9, <1>10, <1>11, <1>12, <1>13 DEF CsrfInv

LEMMA ReplaceKeepsCsrf ==
    ASSUME Inv, Tables, CsrfInv, NEW o \in Rotations, Step(o), Works(o), RefreshReplace(o)
    PROVE  CsrfInv'
<1>0. o \in Calls /\ o \in Tokens /\ o \in Visitors
  BY DEF Calls, Tokens, Visitors
<1>1. /\ pc[o] = "replace" /\ pc'[o] = "done" /\ UNCHANGED <<sessions, copy, ended, todo>>
      /\ tokens' = [tokens EXCEPT ![copy[o].csrf] = NoToken]
  BY <1>0 DEF RefreshReplace, Goto, ending, history, Inv, Shape
<1>2. /\ Steady /\ Cookies' /\ UNCHANGED cookie /\ Rotations \subseteq Calls /\ Logins \subseteq Calls
      /\ \A c \in Calls \ {o} : pc'[c] = pc[c] /\ copy'[c] = copy[c] /\ todo'[c] = todo[c]
      /\ None \notin Sids /\ Sids = Logins /\ Rotations \cap Logins = {} /\ Rotations \subseteq Tokens
      /\ Logins \subseteq Tokens
  BY <1>0, WorksFrame
<1>3. /\ Of(copy[o].csrf, cookie[o]) /\ pc[cookie[o]] = "done"
      /\ \A s \in Sids : Present(s) => sessions[s].csrf # copy[o].csrf
  BY <1>0, <1>1 DEF CsrfInv, Replaced, Cookies, Arrived
<1>4. \A t \in Tokens : /\ tokens'[t] = NoToken \/ tokens'[t] = tokens[t]
                        /\ t # copy[o].csrf => tokens'[t] = tokens[t]
                        /\ t = copy[o].csrf => tokens'[t] = NoToken
  BY <1>1 DEF Tables
<1>5. NoToken.session = None /\ IsToken(NoToken)
  BY DEF NoToken, IsToken
<1>6. \A t \in Tokens : tokens'[t].session # None => tokens'[t] = tokens[t] /\ t # copy[o].csrf
  BY <1>4, <1>5
<1>7. Records'
  <2>1. \A t \in Tokens : IsToken(tokens'[t])
    BY <1>4, <1>5 DEF CsrfInv, Records
  <2>. QED
    BY <1>1, <2>1 DEF CsrfInv, Records
<1>8. Bound'
  BY <1>2, <1>6, OfStays DEF CsrfInv, Bound
<1>9. Named'
  BY <1>1, <1>3, <1>4 DEF CsrfInv, Named, Present
<1>10. Others'
  <2>1. SUFFICES ASSUME NEW s \in Sids, NEW t \in Tokens, Present(s), tokens'[t].session = s, t # sessions[s].csrf
                 PROVE  \E q \in Rotations : Rotating(q, s, t)'
    BY <1>1 DEF Others, Present
  <2>2. tokens[t].session = s /\ t # copy[o].csrf
    BY <1>2, <1>6, <2>1
  <2>3. PICK q \in Rotations : Rotating(q, s, t)
    BY <2>1, <2>2 DEF CsrfInv, Others
  <2>4. q # o
    BY <1>1, <2>2, <2>3 DEF Rotating
  <2>. QED
    BY <1>2, <2>3, <2>4 DEF Rotating
<1>11. Replaced'
  BY <1>1, <1>2, OfStays DEF CsrfInv, Replaced, Present
<1>12. Unused'
  BY <1>1, <1>2 DEF CsrfInv, Unused, Present
<1>13. Minted'
  <2>1. \A l \in Logins : l # o
    BY <1>2
  <2>2. ASSUME NEW l \in Logins, pc'[l] = "create" PROVE tokens'[l].session = l
    <3>1. pc[l] = "create"
      BY <1>2, <2>1, <2>2
    <3>2. l # copy[o].csrf
      BY <1>3, <3>1 DEF Of, IssuedFor
    <3>. QED
      BY <1>2, <1>4, <3>1, <3>2 DEF CsrfInv, Minted
  <2>3. ASSUME NEW q \in Rotations, pc'[q] = "rotate" PROVE tokens'[q].session = cookie'[q] \/ cookie'[q] \in ended'
    <3>1. pc[q] = "rotate"
      BY <1>1, <1>2, <2>3
    <3>2. q # copy[o].csrf
      BY <1>1, <3>1 DEF CsrfInv, Unused
    <3>. QED
      BY <1>1, <1>2, <1>4, <3>1, <3>2 DEF CsrfInv, Minted
  <2>. QED
    BY <2>2, <2>3 DEF Minted
<1>14. Endings'
  BY <1>1, <1>2, OfStays DEF CsrfInv, Endings
<1>. QED
  BY <1>2, <1>7, <1>8, <1>9, <1>10, <1>11, <1>12, <1>13, <1>14 DEF CsrfInv
(* The binding of a new token, if the session is still there.               *)
LEMMA RotateMoves ==
    ASSUME Inv, Tables, CsrfInv, NEW o \in Rotations, RefreshRotate(o)
    PROVE  /\ pc[o] = "rotate" /\ pc'[o] = "replace" /\ UNCHANGED <<tokens, todo, ended, slid, clock>>
           /\ cookie[o] \in Sids /\ Records'
           /\ \A s \in Sids \ {cookie[o]} : sessions'[s] = sessions[s]
           /\ \/ /\ Present(cookie[o]) /\ copy'[o] = Entry(cookie[o]) /\ Present(cookie[o])'
                 /\ sessions'[cookie[o]].csrf = o /\ sessions'[cookie[o]].exp = clock + Idle
              \/ UNCHANGED sessions /\ copy'[o] = [sid |-> cookie[o], csrf |-> o]
<1>1. o \in Calls /\ o \in Visitors /\ o \in Tokens
  BY DEF Calls, Visitors, Tokens
<1>2. pc[o] = "rotate" /\ pc'[o] = "replace" /\ UNCHANGED <<tokens, todo, ended, slid, clock>>
  BY <1>1 DEF RefreshRotate, Goto, ending, history, Inv, Shape
<1>3. cookie[o] \in Sids
  BY <1>1, <1>2 DEF Inv, Carried
<1>4. CASE Alive(cookie[o])
  <2>1. PICK s \in Sids : s = cookie[o]
    BY <1>3
  <2>2. /\ sessions' = [sessions EXCEPT ![s].csrf = o, ![s].exp = clock + Idle]
        /\ copy'[o] = Entry(s)
    BY <1>1, <1>4, <2>1 DEF RefreshRotate, Tables
  <2>3. sessions[s] = [csrf |-> sessions[s].csrf, created |-> sessions[s].created, seen |-> sessions[s].seen,
                       exp |-> sessions[s].exp]
    BY DEF CsrfInv, Records, IsSession
  <2>4. sessions'[s] = [csrf |-> o, created |-> sessions[s].created, seen |-> sessions[s].seen,
                        exp |-> clock + Idle]
    BY <2>2, <2>3 DEF Inv, Shape
  <2>5. \A x \in Sids \ {s} : sessions'[x] = sessions[x]
    BY <2>2 DEF Inv, Shape
  <2>6. Present(s)
    BY <1>4, <2>1 DEF Alive, Present
  <2>7. o # None
    BY <1>1, CallsDisjoint
  <2>8. Present(s)' /\ sessions'[s].csrf = o /\ sessions'[s].exp = clock + Idle
    BY <2>4, <2>7 DEF Present, NoSession
  <2>9. Records'
    <3>1. IsSession(sessions'[s])
      BY <2>4 DEF IsSession
    <3>2. \A x \in Sids : IsSession(sessions'[x])
      BY <2>5, <3>1 DEF CsrfInv, Records
    <3>. QED
      BY <1>2, <3>2 DEF CsrfInv, Records
  <2>10. UNCHANGED cookie
    BY DEF RefreshRotate, sent
  <2>. QED
    BY <1>2, <1>3, <2>1, <2>2, <2>5, <2>6, <2>8, <2>9, <2>10
<1>5. CASE ~Alive(cookie[o])
  <2>1. UNCHANGED sessions /\ copy' = [copy EXCEPT ![o] = [sid |-> cookie[o], csrf |-> o]]
    BY <1>5 DEF RefreshRotate
  <2>2. copy'[o] = [sid |-> cookie[o], csrf |-> o]
    BY <1>1, <2>1 DEF Tables
  <2>3. Records'
    BY <1>2, <2>1 DEF CsrfInv, Records
  <2>. QED
    BY <1>2, <1>3, <2>1, <2>2, <2>3
<1>. QED
  BY <1>4, <1>5

LEMMA RotateKeepsCsrf ==
    ASSUME Inv, Tables, CsrfInv, NEW o \in Rotations, Step(o), Works(o), RefreshRotate(o)
    PROVE  CsrfInv'
<1>0. o \in Calls /\ o \in Tokens /\ o \in Visitors
  BY DEF Calls, Tokens, Visitors
<1>1. /\ pc[o] = "rotate" /\ pc'[o] = "replace" /\ UNCHANGED <<tokens, todo, ended>> /\ Records'
      /\ cookie[o] \in Sids /\ \A s \in Sids \ {cookie[o]} : sessions'[s] = sessions[s]
  BY RotateMoves
<1>2. /\ Steady /\ Cookies' /\ UNCHANGED cookie /\ Rotations \subseteq Calls /\ Logins \subseteq Calls
      /\ \A c \in Calls \ {o} : pc'[c] = pc[c] /\ copy'[c] = copy[c]
      /\ None \notin Sids /\ Sids = Logins /\ Rotations \cap Logins = {} /\ Rotations \subseteq Tokens
      /\ Logins \subseteq Tokens
  BY <1>0, WorksFrame
<1>3. /\ \A s \in Sids : Present(s) => sessions[s].csrf # o
      /\ \A p \in Rotations : pc[p] = "replace" => copy[p].csrf # o
  BY <1>1 DEF CsrfInv, Unused
<1>4. Of(o, cookie[o])
  BY <1>0, <1>1, <1>2 DEF Of, IssuedFor, Arrived
<1>5. Bound'
  BY <1>1, <1>2, OfStays DEF CsrfInv, Bound
<1>6. Minted'
  <2>1. \A l \in Logins : l # o
    BY <1>2
  <2>. QED
    BY <1>1, <1>2, <2>1 DEF CsrfInv, Minted
<1>7. Endings'
  BY <1>1, <1>2, OfStays DEF CsrfInv, Endings
<1>8. CASE /\ Present(cookie[o]) /\ copy'[o] = Entry(cookie[o]) /\ Present(cookie[o])'
           /\ sessions'[cookie[o]].csrf = o
  <2>1. PICK s \in Sids : s = cookie[o]
    BY <1>1
  <2>2. /\ Present(s) /\ Present(s)' /\ sessions'[s].csrf = o /\ copy'[o].csrf = sessions[s].csrf
        /\ \A x \in Sids \ {s} : sessions'[x] = sessions[x] /\ (Present(x)' <=> Present(x))
        /\ cookie'[o] = s
    BY <1>1, <1>2, <1>8, <2>1 DEF Entry, Present
  <2>3. \A x \in Sids : Present(x)' <=> Present(x)
    BY <2>2
  <2>4. tokens[o].session = s
    <3>1. s \notin ended
      BY <2>2 DEF Inv, Ended, Present
    <3>. QED
      BY <1>1, <2>1, <3>1 DEF CsrfInv, Minted
  <2>5. Named'
    BY <1>0, <1>1, <2>2, <2>4 DEF CsrfInv, Named
  <2>6. Others'
    <3>1. SUFFICES ASSUME NEW x \in Sids, NEW t \in Tokens, Present(x), tokens[t].session = x, t # sessions'[x].csrf
                   PROVE  \E q \in Rotations : Rotating(q, x, t)'
      BY <1>1, <2>3 DEF Others
    <3>2. CASE x = s /\ t = sessions[s].csrf
      BY <1>1, <2>2, <3>2 DEF Rotating
    <3>3. CASE ~(x = s /\ t = sessions[s].csrf)
      <4>1. t # sessions[x].csrf
        BY <2>2, <3>1, <3>3
      <4>2. PICK q \in Rotations : Rotating(q, x, t)
        BY <3>1, <4>1 DEF CsrfInv, Others
      <4>3. q # o
        <5>1. CASE q = o
          <6>1. x = s /\ t = o
            BY <1>1, <2>1, <4>2, <5>1 DEF Rotating
          <6>. QED
            BY <2>2, <3>1, <6>1
        <5>. QED
          BY <5>1
      <4>. QED
        BY <1>2, <4>2, <4>3 DEF Rotating
    <3>. QED
      BY <3>2, <3>3
  <2>7. Replaced'
    <3>1. ASSUME NEW q \in Rotations, pc'[q] = "replace"
          PROVE  /\ Of(copy[q].csrf, cookie[q])'
                 /\ \A x \in Sids : Present(x)' => sessions'[x].csrf # copy'[q].csrf
      <4>1. CASE q = o
        <5>1. Of(sessions[s].csrf, s)
          BY <2>2, NamedOf
        <5>2. (Of(copy[q].csrf, cookie[q]))'
          BY <1>2, <2>2, <4>1, <5>1, OfStays
        <5>3. \A x \in Sids \ {s} : Present(x) => sessions[x].csrf # sessions[s].csrf
          BY <2>2 DEF CsrfInv, Named
        <5>4. o # sessions[s].csrf
          BY <1>3, <2>2
        <5>. QED
          BY <2>2, <4>1, <5>2, <5>3, <5>4
      <4>2. CASE q # o
        <5>1. pc[q] = "replace" /\ copy'[q] = copy[q] /\ cookie'[q] = cookie[q]
          BY <1>2, <3>1, <4>2
        <5>2. Of(copy[q].csrf, cookie[q]) /\ copy[q].csrf # o
              /\ \A x \in Sids : Present(x) => sessions[x].csrf # copy[q].csrf
          BY <1>3, <5>1 DEF CsrfInv, Replaced
        <5>3. Of(copy[q].csrf, cookie[q])'
          BY <1>2, <5>1, <5>2, OfStays
        <5>. QED
          BY <2>2, <5>1, <5>2, <5>3
      <4>. QED
        BY <4>1, <4>2
    <3>. QED
      BY <3>1 DEF Replaced
  <2>8. Unused'
    <3>1. SUFFICES ASSUME NEW q \in Rotations, pc'[q] \notin {"replace", "done"}
                   PROVE  /\ \A x \in Sids : Present(x)' => sessions'[x].csrf # q
                          /\ \A p \in Rotations : pc'[p] = "replace" => copy'[p].csrf # q
      BY DEF Unused
    <3>2. q # o /\ pc[q] \notin {"replace", "done"}
      BY <1>1, <1>2, <3>1
    <3>3. /\ \A x \in Sids : Present(x) => sessions[x].csrf # q
          /\ \A p \in Rotations : pc[p] = "replace" => copy[p].csrf # q
      BY <3>2 DEF CsrfInv, Unused
    <3>. QED
      BY <1>2, <2>2, <3>2, <3>3
  <2>. QED
    BY <1>1, <1>2, <1>5, <1>6, <1>7, <2>5, <2>6, <2>7, <2>8 DEF CsrfInv
<1>9. CASE UNCHANGED sessions /\ copy'[o] = [sid |-> cookie[o], csrf |-> o]
  <2>1. copy'[o].csrf = o
    BY <1>9
  <2>2. Named'
    BY <1>1, <1>9 DEF CsrfInv, Named, Present
  <2>3. Others'
    <3>1. SUFFICES ASSUME NEW x \in Sids, NEW t \in Tokens, Present(x), tokens[t].session = x, t # sessions[x].csrf
                   PROVE  \E q \in Rotations : Rotating(q, x, t)'
      BY <1>1, <1>9 DEF Others, Present
    <3>2. PICK q \in Rotations : Rotating(q, x, t)
      BY <3>1 DEF CsrfInv, Others
    <3>3. CASE q = o
      BY <1>1, <1>2, <2>1, <3>2, <3>3 DEF Rotating
    <3>4. CASE q # o
      BY <1>2, <3>2, <3>4 DEF Rotating
    <3>. QED
      BY <3>3, <3>4
  <2>4. Replaced'
    <3>1. ASSUME NEW q \in Rotations, pc'[q] = "replace"
          PROVE  /\ Of(copy[q].csrf, cookie[q])'
                 /\ \A x \in Sids : Present(x) => sessions[x].csrf # copy'[q].csrf
      <4>1. CASE q = o
        <5>1. Of(copy[q].csrf, cookie[q])'
          BY <1>2, <1>4, <2>1, <4>1, OfStays
        <5>. QED
          BY <1>3, <2>1, <4>1, <5>1
      <4>2. CASE q # o
        <5>1. pc[q] = "replace" /\ copy'[q] = copy[q] /\ cookie'[q] = cookie[q]
          BY <1>2, <3>1, <4>2
        <5>2. Of(copy[q].csrf, cookie[q])
              /\ \A x \in Sids : Present(x) => sessions[x].csrf # copy[q].csrf
          BY <5>1 DEF CsrfInv, Replaced
        <5>3. Of(copy[q].csrf, cookie[q])'
          BY <1>2, <5>1, <5>2, OfStays
        <5>. QED
          BY <5>1, <5>2, <5>3
      <4>. QED
        BY <4>1, <4>2
    <3>. QED
      BY <1>9, <3>1 DEF Replaced, Present
  <2>5. Unused'
    <3>1. SUFFICES ASSUME NEW q \in Rotations, pc'[q] \notin {"replace", "done"}
                   PROVE  /\ \A x \in Sids : Present(x) => sessions[x].csrf # q
                          /\ \A p \in Rotations : pc'[p] = "replace" => copy'[p].csrf # q
      BY <1>9 DEF Unused, Present
    <3>2. q # o /\ pc[q] \notin {"replace", "done"}
      BY <1>1, <1>2, <3>1
    <3>3. /\ \A x \in Sids : Present(x) => sessions[x].csrf # q
          /\ \A p \in Rotations : pc[p] = "replace" => copy[p].csrf # q
      BY <3>2 DEF CsrfInv, Unused
    <3>. QED
      BY <1>2, <2>1, <3>2, <3>3
  <2>. QED
    BY <1>1, <1>2, <1>5, <1>6, <1>7, <2>2, <2>3, <2>4, <2>5 DEF CsrfInv
<1>. QED
  BY <1>8, <1>9, RotateMoves

LEMMA CsrfInit == Init => Tables /\ CsrfInv
<1>. SUFFICES ASSUME Init PROVE Tables /\ CsrfInv
  OBVIOUS
<1>1. Tables
  BY DEF Init, Tables
<1>2. \A o \in Calls : pc[o] \in {"idle", "start"}
  BY DEF Init
<1>3. \A s \in Sids : ~Present(s) /\ IsSession(sessions[s])
  BY DEF Init, Present, IsSession, NoSession
<1>4. \A t \in Tokens : tokens[t].session = None /\ IsToken(tokens[t])
  BY DEF Init, NoToken, IsToken
<1>5. Rotations \subseteq Calls /\ Visitors \subseteq Calls /\ Logins \subseteq Calls
  BY DEF Visitors, Calls
<1>6. Records /\ Bound /\ Named /\ Others
  BY <1>3, <1>4 DEF Records, Bound, Named, Others
<1>7. Cookies /\ Replaced /\ Unused /\ Minted
  BY <1>2, <1>3, <1>5 DEF Cookies, Arrived, Replaced, Unused, Minted
<1>8. Endings
  BY <1>2 DEF Init, Endings
<1>. QED
  BY <1>1, <1>6, <1>7, <1>8 DEF CsrfInv

LEMMA CsrfQuiet ==
    ASSUME Tables, CsrfInv, UNCHANGED <<sessions, tokens, pc, cookie, header, gates, need, did, copy, todo, ret, ended>>
    PROVE  Tables' /\ CsrfInv'
<1>1. Tables'
  BY DEF Tables
<1>2. Records' /\ Cookies' /\ Named'
  BY DEF CsrfInv, Records, Cookies, Named, Arrived, Present
<1>3. \A t, s : Of(t, s)' <=> Of(t, s)
  BY DEF Of, Arrived, IssuedFor
<1>4. Bound' /\ Replaced' /\ Endings'
  BY <1>3 DEF CsrfInv, Bound, Replaced, Endings, Present
<1>5. Others' /\ Unused' /\ Minted'
  BY DEF CsrfInv, Others, Rotating, Unused, Minted, Present
<1>. QED
  BY <1>1, <1>2, <1>4, <1>5 DEF CsrfInv

LEMMA CsrfNext == Inv /\ Tables /\ CsrfInv /\ [Next]_vars => Tables' /\ CsrfInv'
<1>. SUFFICES ASSUME Inv, Tables, CsrfInv, [Next]_vars PROVE Tables' /\ CsrfInv'
  OBVIOUS
<1>1. CASE Tick \/ UNCHANGED vars
  BY <1>1, CsrfQuiet DEF Tick, vars, stored, sent, gating, ending, history
<1>2. ASSUME NEW o \in Calls, Step(o) PROVE Tables' /\ CsrfInv'
  <2>1. Tables'
    BY <1>2, StepKinds
  <2>2. CASE Looks(o)
    BY <1>2, <2>1, <2>2, LooksKeepCsrf
  <2>3. CASE Works(o)
    <3>1. CASE EndRecord(o)
      BY <1>2, <2>1, <2>3, <3>1, EndRecordKeepsCsrf
    <3>2. CASE EndToken(o)
      BY <1>2, <2>1, <2>3, <3>2, EndTokenKeepsCsrf
    <3>3. CASE o \in Logins /\ LoginToken(o)
      BY <1>2, <2>1, <2>3, <3>3, LoginTokenKeepsCsrf
    <3>4. CASE o \in Logins /\ LoginCreate(o)
      BY <1>2, <2>1, <2>3, <3>4, LoginCreateKeepsCsrf
    <3>5. CASE o \in Requests \cup Rotations /\ Touch(o)
      <4>1. /\ SameNames /\ Records' /\ UNCHANGED <<todo, ended>>
            /\ pc[o] = "touch" /\ pc'[o] \in {"slide", "next", "done"}
        BY <3>5, TouchMoves
      <4>. QED
        BY <1>2, <2>1, <2>3, <4>1, ValidateKeepsCsrf DEF Critical
    <3>6. CASE o \in Requests \cup Rotations /\ Slide(o)
      <4>1. /\ SameNames /\ Records' /\ UNCHANGED <<todo, ended>>
            /\ pc[o] = "slide" /\ pc'[o] \notin Critical
        BY <3>6, SlideMoves
      <4>. QED
        BY <1>2, <2>1, <2>3, <4>1, ValidateKeepsCsrf DEF Critical
    <3>7. CASE o \in Rotations /\ RefreshMint(o)
      BY <1>2, <2>1, <2>3, <3>7, MintKeepsCsrf
    <3>8. CASE o \in Rotations /\ RefreshRotate(o)
      BY <1>2, <2>1, <2>3, <3>8, RotateKeepsCsrf
    <3>9. CASE o \in Rotations /\ RefreshReplace(o)
      BY <1>2, <2>1, <2>3, <3>9, ReplaceKeepsCsrf
    <3>. QED
      BY <2>3, <3>1, <3>2, <3>3, <3>4, <3>5, <3>6, <3>7, <3>8, <3>9, Zenon DEF Works
  <2>. QED
    BY <1>2, <2>2, <2>3, StepKinds
<1>. QED
  BY <1>1, <1>2, StepCases

LEMMA CsrfAlways == Spec => [](Inv /\ Tables /\ CsrfInv)
BY InvInit, InvNext, CsrfInit, CsrfNext, PTL DEF Spec

(* Between calls a live session has exactly one stored CSRF token, the one  *)
(* it names, however many rotations overlap each other, a logout or a sweep *)
(* (manager.py regenerate_csrf_token, _terminate, create_session).          *)
THEOREM OneTokenEach == Spec => []OneTokenPerSession
<1>1. CsrfInv => OneTokenPerSession
  <2>. SUFFICES ASSUME CsrfInv, NEW s \in Live, Quiet(s)
                PROVE  {t \in Tokens : tokens[t].session = s} = {sessions[s].csrf}
    BY DEF OneTokenPerSession
  <2>1. s \in Sids /\ Present(s)
    BY DEF Live, Alive, Present
  <2>2. sessions[s].csrf \in Tokens /\ tokens[sessions[s].csrf].session = s
    BY <2>1 DEF CsrfInv, Named
  <2>3. ASSUME NEW t \in Tokens, tokens[t].session = s PROVE t = sessions[s].csrf
    <3>1. SUFFICES ASSUME t # sessions[s].csrf PROVE FALSE
      OBVIOUS
    <3>2. PICK q \in Rotations : Rotating(q, s, t)
      BY <2>1, <2>3, <3>1 DEF CsrfInv, Others
    <3>. QED
      BY <3>2 DEF Rotating, Quiet, Calls
  <2>. QED
    BY <2>2, <2>3
<1>. QED
  BY <1>1, CsrfAlways, PTL
-----------------------------------------------------------------------------
(* How long a session and its token are kept. A token that a slide has      *)
(* prolonged lasts as long as its session, or a call that has touched the   *)
(* session has yet to slide that token.                                     *)
Times ==
    /\ clock \in Nat
    /\ \A s \in Sids : sessions[s].exp \in Nat /\ sessions[s].exp <= clock + Idle
    /\ \A t \in Tokens : tokens[t].exp \in Nat

Sliding(o, s) == pc[o] = "slide" /\ cookie[o] = s /\ copy[o].csrf = sessions[s].csrf

Lasting ==
    \A s \in Sids : Present(s) /\ sessions[s].csrf \in slid =>
        tokens[sessions[s].csrf].exp >= sessions[s].exp \/ \E o \in Visitors : Sliding(o, s)

Unslid ==
    /\ \A q \in Rotations : pc[q] \notin {"replace", "done"} => q \notin slid
    /\ \A l \in Logins : pc[l] # "done" => l \notin slid

Copied == \A o \in Calls : pc[o] = "slide" => copy[o].csrf \in Tokens

KeptInv == Times /\ Lasting /\ Unslid /\ Copied

(* A step that leaves the records of the sessions that stay, the tokens     *)
(* they name and what was slid.                                             *)
LEMMA KeptSame ==
    ASSUME KeptInv, Steady, NEW o \in Calls, Alone(o), UNCHANGED slid, Times',
           \A s \in Sids : Present(s)' =>
               /\ Present(s) /\ sessions'[s] = sessions[s]
               /\ tokens'[sessions[s].csrf] = tokens[sessions[s].csrf],
           pc[o] # "slide", pc'[o] # "slide",
           pc[o] \notin {"replace", "done"} \/ pc'[o] \in {"replace", "done"}
    PROVE  KeptInv'
<1>1. Rotations \subseteq Calls /\ Visitors \subseteq Calls /\ Sids = Logins
  BY DEF Visitors, Calls, Sids
<1>2. \A c \in Calls : pc[c] = "slide" => pc'[c] = "slide" /\ cookie'[c] = cookie[c] /\ copy'[c] = copy[c]
  BY DEF Alone
<1>3. \A s \in Sids, c \in Visitors : Present(s)' /\ Sliding(c, s) => Sliding(c, s)'
  BY <1>1, <1>2 DEF Sliding
<1>4. Lasting'
  <2>1. SUFFICES ASSUME NEW s \in Sids, Present(s)', sessions'[s].csrf \in slid'
                 PROVE  tokens'[sessions'[s].csrf].exp >= sessions'[s].exp \/ \E c \in Visitors : Sliding(c, s)'
    BY DEF Lasting
  <2>2. /\ Present(s) /\ sessions'[s] = sessions[s] /\ sessions[s].csrf \in slid
        /\ tokens'[sessions[s].csrf] = tokens[sessions[s].csrf]
    BY <2>1
  <2>3. tokens[sessions[s].csrf].exp >= sessions[s].exp \/ \E c \in Visitors : Sliding(c, s)
    BY <2>2 DEF KeptInv, Lasting
  <2>. QED
    BY <1>3, <2>1, <2>2, <2>3
<1>5. Unslid'
  <2>1. \A q \in Rotations : pc'[q] \notin {"replace", "done"} => pc[q] \notin {"replace", "done"}
    BY <1>1 DEF Alone
  <2>. QED
    BY <1>1, <2>1 DEF KeptInv, Unslid, Steady
<1>6. Copied'
  BY DEF KeptInv, Copied, Alone
<1>. QED
  BY <1>4, <1>5, <1>6 DEF KeptInv

LEMMA TimesSame ==
    ASSUME KeptInv, UNCHANGED clock,
           \A s \in Sids : \/ sessions'[s] = sessions[s] \/ sessions'[s] = NoSession
                           \/ sessions'[s].exp = clock + Idle,
           \A t \in Tokens : \/ tokens'[t] = tokens[t] \/ tokens'[t] = NoToken
                             \/ tokens'[t].exp = clock + Idle
    PROVE  Times'
<1>1. NoSession.exp = 0 /\ NoToken.exp = 0
  BY DEF NoSession, NoToken
<1>2. clock \in Nat /\ Idle \in Nat
  BY BoundsAssumption DEF KeptInv, Times
<1>3. \A s \in Sids : sessions'[s].exp \in Nat /\ sessions'[s].exp <= clock + Idle
  BY <1>1, <1>2 DEF KeptInv, Times
<1>4. \A t \in Tokens : tokens'[t].exp \in Nat
  BY <1>1, <1>2 DEF KeptInv, Times
<1>. QED
  BY <1>2, <1>3, <1>4 DEF Times

(* The steps that end a session or delete a token, and those that store a   *)
(* new one: none of them touches the token that a session names.            *)
LEMMA EndersKeepKept ==
    ASSUME Inv, Tables, CsrfInv, CsrfInv', KeptInv, NEW o \in Calls, Step(o),
           EndRecord(o) \/ EndToken(o) \/ (o \in Rotations /\ RefreshReplace(o))
    PROVE  KeptInv'
<1>1. Alone(o) /\ Steady
  BY StepKinds, StepSteady
<1>2. UNCHANGED <<clock, slid>>
  BY DEF EndRecord, EndToken, RefreshReplace, history
<1>3. \A s \in Sids : sessions'[s] = sessions[s] \/ sessions'[s] = NoSession
  <2>1. CASE EndRecord(o)
    BY <2>1 DEF EndRecord, Inv, Shape
  <2>2. CASE ~EndRecord(o)
    BY <2>2 DEF EndToken, RefreshReplace
  <2>. QED
    BY <2>1, <2>2
<1>4. \A t \in Tokens : tokens'[t] = tokens[t] \/ tokens'[t] = NoToken
  <2>1. CASE EndRecord(o)
    BY <2>1 DEF EndRecord
  <2>2. CASE ~EndRecord(o)
    BY <2>2 DEF EndToken, RefreshReplace, Tables
  <2>. QED
    BY <2>1, <2>2
<1>5. Times'
  BY <1>2, <1>3, <1>4, TimesSame
<1>6. ASSUME NEW s \in Sids, Present(s)'
      PROVE  /\ Present(s) /\ sessions'[s] = sessions[s]
             /\ tokens'[sessions[s].csrf] = tokens[sessions[s].csrf]
  <2>1. Present(s) /\ sessions'[s] = sessions[s]
    BY <1>3, <1>6 DEF Present
  <2>2. sessions[s].csrf \in Tokens /\ tokens'[sessions[s].csrf].session = s
    BY <1>6, <2>1 DEF CsrfInv, Named
  <2>3. s # None
    BY CallsDisjoint DEF Sids, Calls
  <2>. QED
    BY <1>4, <2>1, <2>2, <2>3 DEF NoToken
<1>7. /\ pc[o] # "slide" /\ pc'[o] # "slide"
      /\ pc[o] \notin {"replace", "done"} \/ pc'[o] \in {"replace", "done"}
  <2>1. CASE EndRecord(o)
    BY <2>1 DEF EndRecord, Goto, Inv, Shape
  <2>2. CASE EndToken(o)
    BY <2>2 DEF EndToken, Goto, Inv, Shape, Tables
  <2>3. CASE RefreshReplace(o)
    BY <2>3 DEF RefreshReplace, Goto, Inv, Shape
  <2>. QED
    BY <2>1, <2>2, <2>3
<1>. QED
  BY <1>1, <1>2, <1>5, <1>6, <1>7, KeptSame

LEMMA MintersKeepKept ==
    ASSUME Inv, Tables, CsrfInv, KeptInv, NEW o \in Calls, Step(o),
           (o \in Logins /\ LoginToken(o)) \/ (o \in Rotations /\ RefreshMint(o))
    PROVE  KeptInv'
<1>1. Alone(o) /\ Steady
  BY StepKinds, StepSteady
<1>2. /\ UNCHANGED <<clock, sessions, slid>> /\ o \in Tokens
      /\ pc[o] \in {"token", "mint"} /\ pc'[o] \in {"create", "rotate"}
      /\ \E x : tokens' = [tokens EXCEPT ![o] = [session |-> x, exp |-> clock + Idle]]
  BY DEF LoginToken, RefreshMint, history, Goto, Inv, Shape, Tokens
<1>3. /\ \A t \in Tokens \ {o} : tokens'[t] = tokens[t]
      /\ tokens'[o].exp = clock + Idle
  BY <1>2 DEF Tables
<1>4. Times'
  BY <1>2, <1>3, TimesSame
<1>5. ASSUME NEW s \in Sids, Present(s) PROVE sessions[s].csrf \in Tokens \ {o}
  <2>1. Of(sessions[s].csrf, s)
    BY <1>5, NamedOf
  <2>2. CASE o \in Rotations
    BY <1>2, <1>5, <2>1, <2>2 DEF CsrfInv, Unused, Of
  <2>3. CASE o \in Logins
    <3>1. pc[s] = "done"
      BY <1>5 DEF Inv, Created, Present
    <3>. QED
      BY <1>2, <2>1, <2>3, <3>1 DEF Of, IssuedFor
  <2>. QED
    BY <2>2, <2>3
<1>6. \A s \in Sids : Present(s)' => /\ Present(s) /\ sessions'[s] = sessions[s]
                                     /\ tokens'[sessions[s].csrf] = tokens[sessions[s].csrf]
  BY <1>2, <1>3, <1>5 DEF Present
<1>. QED
  BY <1>1, <1>2, <1>4, <1>6, KeptSame

LEMMA LooksKeepKept ==
    ASSUME Inv, Tables, CsrfInv, KeptInv, NEW o \in Calls, Step(o), Looks(o)
    PROVE  KeptInv'
<1>1. Alone(o) /\ Steady
  BY StepKinds, StepSteady
<1>2. UNCHANGED <<clock, sessions, tokens, slid>> /\ pc[o] # "slide" /\ pc'[o] # "slide"
      /\ pc[o] \notin {"replace", "done"}
  BY DEF Looks, Critical
<1>3. Times'
  BY <1>2 DEF KeptInv, Times
<1>4. \A s \in Sids : Present(s)' => /\ Present(s) /\ sessions'[s] = sessions[s]
                                     /\ tokens'[sessions[s].csrf] = tokens[sessions[s].csrf]
  BY <1>2 DEF Present
<1>. QED
  BY <1>1, <1>2, <1>3, <1>4, KeptSame
(* A session that has just got a token has not had it slid.                 *)
LEMMA NamersKeepKept ==
    ASSUME Inv, Tables, CsrfInv, KeptInv, NEW o \in Calls, Step(o), NEW x \in Sids,
           \A s \in Sids \ {x} : sessions'[s] = sessions[s],
           sessions'[x].csrf = o, o \notin slid, sessions'[x].exp = clock + Idle,
           UNCHANGED <<clock, tokens, slid>>, pc[o] \in {"create", "rotate"}, pc'[o] \in {"replace", "done"}
    PROVE  KeptInv'
<1>1. Alone(o) /\ Steady
  BY StepKinds, StepSteady
<1>2. Rotations \subseteq Calls /\ Visitors \subseteq Calls /\ Sids = Logins
  BY DEF Visitors, Calls, Sids
<1>3. Times'
  BY TimesSame
<1>4. Lasting'
  <2>1. SUFFICES ASSUME NEW s \in Sids, Present(s)', sessions'[s].csrf \in slid'
                 PROVE  tokens'[sessions'[s].csrf].exp >= sessions'[s].exp \/ \E c \in Visitors : Sliding(c, s)'
    BY DEF Lasting
  <2>2. s # x
    BY <2>1
  <2>3. sessions'[s] = sessions[s] /\ Present(s) /\ sessions[s].csrf \in slid
    BY <2>1, <2>2 DEF Present
  <2>4. CASE tokens[sessions[s].csrf].exp >= sessions[s].exp
    BY <2>3, <2>4
  <2>5. ASSUME NEW c \in Visitors, Sliding(c, s) PROVE Sliding(c, s)'
    <3>1. c # o /\ c \in Calls
      BY <1>2, <2>5 DEF Sliding
    <3>. QED
      BY <1>1, <2>3, <2>5, <3>1 DEF Sliding, Alone
  <2>. QED
    BY <2>3, <2>4, <2>5 DEF KeptInv, Lasting
<1>5. Unslid'
  <2>1. \A q \in Rotations : pc'[q] \notin {"replace", "done"} => pc[q] \notin {"replace", "done"}
    BY <1>1, <1>2 DEF Alone
  <2>. QED
    BY <1>1, <1>2, <2>1 DEF KeptInv, Unslid, Steady
<1>6. Copied'
  BY <1>1 DEF KeptInv, Copied, Alone
<1>. QED
  BY <1>3, <1>4, <1>5, <1>6 DEF KeptInv

LEMMA CreateKeepsKept ==
    ASSUME Inv, Tables, CsrfInv, KeptInv, NEW o \in Logins, Step(o), LoginCreate(o)
    PROVE  KeptInv'
<1>0. o \in Calls /\ o \in Sids
  BY DEF Calls, Sids
<1>1. /\ pc[o] = "create" /\ pc'[o] = "done" /\ UNCHANGED <<clock, tokens, slid>>
      /\ sessions' = [sessions EXCEPT ![o] = [csrf |-> o, created |-> now[o], seen |-> now[o], exp |-> clock + Idle]]
  BY <1>0 DEF LoginCreate, Goto, Inv, Shape
<1>2. /\ \A s \in Sids \ {o} : sessions'[s] = sessions[s]
      /\ sessions'[o].csrf = o /\ sessions'[o].exp = clock + Idle
  BY <1>0, <1>1 DEF Inv, Shape
<1>3. o \notin slid
  BY <1>1 DEF KeptInv, Unslid
<1>. QED
  BY <1>0, <1>1, <1>2, <1>3, NamersKeepKept

LEMMA RotateKeepsKept ==
    ASSUME Inv, Tables, CsrfInv, KeptInv, NEW o \in Rotations, Step(o), RefreshRotate(o)
    PROVE  KeptInv'
<1>0. o \in Calls
  BY DEF Calls
<1>1. /\ pc[o] = "rotate" /\ pc'[o] = "replace" /\ UNCHANGED <<tokens, slid, clock>> /\ cookie[o] \in Sids
      /\ \A s \in Sids \ {cookie[o]} : sessions'[s] = sessions[s]
  BY RotateMoves
<1>2. o \notin slid
  BY <1>1 DEF KeptInv, Unslid
<1>3. CASE sessions'[cookie[o]].csrf = o /\ sessions'[cookie[o]].exp = clock + Idle
  BY <1>0, <1>1, <1>2, <1>3, NamersKeepKept
<1>4. CASE UNCHANGED sessions
  <2>1. Alone(o) /\ Steady
    BY <1>0, StepKinds, StepSteady
  <2>2. Times'
    BY <1>1, <1>4 DEF KeptInv, Times
  <2>3. \A s \in Sids : Present(s)' => /\ Present(s) /\ sessions'[s] = sessions[s]
                                       /\ tokens'[sessions[s].csrf] = tokens[sessions[s].csrf]
    BY <1>1, <1>4 DEF Present
  <2>. QED
    BY <1>0, <1>1, <2>1, <2>2, <2>3, KeptSame
<1>. QED
  BY <1>3, <1>4, RotateMoves

LEMMA TouchKeepsKept ==
    ASSUME Inv, Tables, CsrfInv, KeptInv, NEW o \in Requests \cup Rotations, Step(o), Touch(o)
    PROVE  KeptInv'
<1>0. o \in Calls /\ o \in Visitors /\ Rotations \subseteq Calls /\ Visitors \subseteq Calls /\ Sids = Logins
  BY DEF Calls, Visitors, Sids
<1>1. Alone(o) /\ Steady
  BY <1>0, StepKinds, StepSteady
<1>2. /\ SameNames /\ UNCHANGED <<tokens, slid, clock>> /\ pc[o] = "touch" /\ pc'[o] \in {"slide", "next", "done"}
      /\ cookie[o] \in Sids /\ \A s \in Sids \ {cookie[o]} : sessions'[s] = sessions[s]
      /\ pc'[o] = "slide" => copy'[o] = Entry(cookie[o]) /\ Present(cookie[o])
                               /\ sessions'[cookie[o]].exp = clock + Idle
      /\ pc'[o] # "slide" => UNCHANGED <<sessions, copy>>
  BY TouchMoves
<1>3. CASE pc'[o] = "slide"
  <2>1. PICK x \in Sids : x = cookie[o]
    BY <1>2
  <2>2. copy'[o].csrf = sessions[x].csrf /\ Present(x) /\ sessions'[x].exp = clock + Idle /\ cookie'[o] = x
    BY <1>0, <1>1, <1>2, <1>3, <2>1 DEF Entry, Steady, Arrived
  <2>3. Times'
    BY <1>2, <2>1, <2>2, TimesSame
  <2>4. Lasting'
    <3>1. SUFFICES ASSUME NEW s \in Sids, Present(s)', sessions'[s].csrf \in slid'
                   PROVE  tokens'[sessions'[s].csrf].exp >= sessions'[s].exp \/ \E c \in Visitors : Sliding(c, s)'
      BY DEF Lasting
    <3>2. CASE s = x
      <4>1. Sliding(o, s)'
        BY <1>2, <1>3, <2>2, <3>2 DEF Sliding, SameNames
      <4>. QED
        BY <1>0, <4>1
    <3>3. CASE s # x
      <4>1. sessions'[s] = sessions[s] /\ Present(s) /\ sessions[s].csrf \in slid
        BY <1>2, <2>1, <3>1, <3>3 DEF Present
      <4>2. CASE tokens[sessions[s].csrf].exp >= sessions[s].exp
        BY <1>2, <4>1, <4>2
      <4>3. ASSUME NEW c \in Visitors, Sliding(c, s) PROVE Sliding(c, s)'
        <5>1. c # o /\ c \in Calls
          BY <1>0, <1>2, <4>3 DEF Sliding
        <5>. QED
          BY <1>1, <4>1, <4>3, <5>1 DEF Sliding, Alone
      <4>. QED
        BY <4>1, <4>2, <4>3 DEF KeptInv, Lasting
    <3>. QED
      BY <3>2, <3>3
  <2>5. Unslid'
    <3>1. \A q \in Rotations : pc'[q] \notin {"replace", "done"} => pc[q] \notin {"replace", "done"}
      BY <1>0, <1>1, <1>2 DEF Alone
    <3>. QED
      BY <1>0, <1>1, <1>2, <3>1 DEF KeptInv, Unslid, Steady
  <2>6. Copied'
    <3>1. sessions[x].csrf \in Tokens
      BY <2>2 DEF CsrfInv, Named
    <3>. QED
      BY <1>1, <2>2, <3>1 DEF KeptInv, Copied, Alone
  <2>. QED
    BY <2>3, <2>4, <2>5, <2>6 DEF KeptInv
<1>4. CASE pc'[o] # "slide"
  <2>1. Times'
    BY <1>2, <1>4 DEF KeptInv, Times
  <2>2. \A s \in Sids : Present(s)' => /\ Present(s) /\ sessions'[s] = sessions[s]
                                       /\ tokens'[sessions[s].csrf] = tokens[sessions[s].csrf]
    BY <1>2, <1>4 DEF Present
  <2>. QED
    BY <1>0, <1>1, <1>2, <1>4, <2>1, <2>2, KeptSame
<1>. QED
  BY <1>3, <1>4

LEMMA SlideKeepsKept ==
    ASSUME Inv, Tables, CsrfInv, KeptInv, NEW o \in Requests \cup Rotations, Step(o), Slide(o)
    PROVE  KeptInv'
<1>0. o \in Calls /\ o \in Visitors /\ Rotations \subseteq Calls /\ Visitors \subseteq Calls /\ Sids = Logins
      /\ None \notin Tokens
  BY CallsDisjoint DEF Calls, Visitors, Sids, Tokens
<1>1. Alone(o) /\ Steady
  BY <1>0, StepKinds, StepSteady
<1>2. /\ UNCHANGED <<sessions, clock, copy>> /\ pc[o] = "slide" /\ pc'[o] \notin Critical
      /\ \A t \in Tokens \ {copy[o].csrf} : tokens'[t] = tokens[t]
      /\ copy[o].csrf \in Tokens /\ Valid(copy[o].csrf) => tokens'[copy[o].csrf].exp = clock + Idle
  BY SlideMoves
<1>3. PICK t \in Tokens : t = copy[o].csrf
  BY <1>0, <1>2 DEF KeptInv, Copied
<1>4. /\ slid' \subseteq slid \cup {t}
      /\ t \in slid' => Valid(t) /\ t = sessions[cookie[o]].csrf
  BY <1>3 DEF Slide
<1>5. ~Valid(t) => tokens' = tokens
  BY <1>3 DEF Slide
<1>6. Times'
  <2>1. \A u \in Tokens : tokens'[u] = tokens[u] \/ tokens'[u].exp = clock + Idle
    BY <1>2, <1>3, <1>5
  <2>. QED
    BY <1>2, <2>1, TimesSame
<1>7. cookie[o] \in Sids
  BY <1>0, <1>2 DEF Inv, Carried
<1>8. t \in slid' => Present(cookie[o])
  BY <1>0, <1>4, <1>7 DEF Present, NoSession
<1>9. Lasting'
  <2>1. SUFFICES ASSUME NEW s \in Sids, Present(s), sessions[s].csrf \in slid'
                 PROVE  tokens'[sessions[s].csrf].exp >= sessions[s].exp \/ \E c \in Visitors : Sliding(c, s)'
    BY <1>2 DEF Lasting, Present
  <2>2. CASE sessions[s].csrf = t
    <3>1. tokens'[t].exp = clock + Idle
      BY <1>2, <1>3, <1>4, <2>1, <2>2
    <3>2. sessions[s].exp \in Nat /\ sessions[s].exp <= clock + Idle
      BY DEF KeptInv, Times
    <3>3. clock + Idle \in Nat
      BY BoundsAssumption DEF KeptInv, Times
    <3>. QED
      BY <2>2, <3>1, <3>2, <3>3
  <2>3. CASE sessions[s].csrf # t
    <3>1. sessions[s].csrf \in slid /\ sessions[s].csrf \in Tokens
      BY <1>4, <2>1, <2>3 DEF CsrfInv, Named
    <3>2. tokens'[sessions[s].csrf] = tokens[sessions[s].csrf]
      BY <1>2, <1>3, <2>3, <3>1
    <3>3. CASE tokens[sessions[s].csrf].exp >= sessions[s].exp
      BY <3>2, <3>3
    <3>4. ASSUME NEW c \in Visitors, Sliding(c, s) PROVE Sliding(c, s)'
      <4>1. c # o /\ c \in Calls
        BY <1>0, <1>3, <2>3, <3>4 DEF Sliding
      <4>. QED
        BY <1>1, <1>2, <3>4, <4>1 DEF Sliding, Alone
    <3>. QED
      BY <2>1, <3>1, <3>3, <3>4 DEF KeptInv, Lasting
  <2>. QED
    BY <2>2, <2>3
<1>10. Unslid'
  <2>1. t \in slid' => /\ \A q \in Rotations : pc[q] \notin {"replace", "done"} => q # t
                       /\ \A l \in Logins : pc[l] # "done" => l # t
    <3>1. SUFFICES ASSUME t \in slid'
                   PROVE  /\ \A q \in Rotations : pc[q] \notin {"replace", "done"} => q # t
                          /\ \A l \in Logins : pc[l] # "done" => l # t
      OBVIOUS
    <3>2. Present(cookie[o]) /\ t = sessions[cookie[o]].csrf
      BY <1>4, <1>8, <3>1
    <3>3. Of(t, cookie[o]) /\ pc[cookie[o]] = "done"
      BY <1>7, <3>2, NamedOf DEF Inv, Created, Present
    <3>4. \A l \in Logins : pc[l] # "done" => l # t
      BY <3>3 DEF Of, IssuedFor
    <3>5. \A q \in Rotations : pc[q] \notin {"replace", "done"} => q # t
      BY <1>7, <3>2 DEF CsrfInv, Unused
    <3>. QED
      BY <3>4, <3>5
  <2>2. \A q \in Rotations : pc'[q] \notin {"replace", "done"} => pc[q] \notin {"replace", "done"}
    BY <1>0, <1>1, <1>2 DEF Alone
  <2>3. \A l \in Logins : pc'[l] # "done" => pc[l] # "done"
    BY <1>0, <1>1 DEF Steady
  <2>. QED
    BY <1>4, <2>1, <2>2, <2>3 DEF KeptInv, Unslid
<1>11. Copied'
  BY <1>1, <1>2 DEF KeptInv, Copied, Alone, Critical
<1>. QED
  BY <1>6, <1>9, <1>10, <1>11 DEF KeptInv

LEMMA KeptInit == Init => KeptInv
<1>. SUFFICES ASSUME Init PROVE KeptInv
  OBVIOUS
<1>1. \A o \in Calls : pc[o] \in {"idle", "start"}
  BY DEF Init
<1>2. Times
  BY BoundsAssumption DEF Init, Times, NoSession, NoToken
<1>3. Lasting /\ Unslid
  BY DEF Init, Lasting, Unslid
<1>4. Copied
  BY <1>1 DEF Copied
<1>. QED
  BY <1>2, <1>3, <1>4 DEF KeptInv

LEMMA KeptNext == Inv /\ Tables /\ CsrfInv /\ CsrfInv' /\ KeptInv /\ [Next]_vars => KeptInv'
<1>. SUFFICES ASSUME Inv, Tables, CsrfInv, CsrfInv', KeptInv, [Next]_vars PROVE KeptInv'
  OBVIOUS
<1>1. CASE Tick \/ UNCHANGED vars
  <2>1. UNCHANGED <<sessions, tokens, pc, cookie, copy, slid>> /\ (clock' = clock + 1 \/ clock' = clock)
    BY <1>1 DEF Tick, vars, stored, sent, history
  <2>2. Times'
    BY <2>1, BoundsAssumption DEF KeptInv, Times
  <2>3. Lasting' /\ Unslid' /\ Copied'
    BY <2>1 DEF KeptInv, Lasting, Sliding, Present, Unslid, Copied
  <2>. QED
    BY <2>2, <2>3 DEF KeptInv
<1>2. ASSUME NEW o \in Calls, Step(o) PROVE KeptInv'
  <2>1. CASE Looks(o)
    BY <1>2, <2>1, LooksKeepKept
  <2>2. CASE EndRecord(o) \/ EndToken(o) \/ (o \in Rotations /\ RefreshReplace(o))
    BY <1>2, <2>2, EndersKeepKept
  <2>3. CASE (o \in Logins /\ LoginToken(o)) \/ (o \in Rotations /\ RefreshMint(o))
    BY <1>2, <2>3, MintersKeepKept
  <2>4. CASE o \in Logins /\ LoginCreate(o)
    BY <1>2, <2>4, CreateKeepsKept
  <2>5. CASE o \in Requests \cup Rotations /\ Touch(o)
    BY <1>2, <2>5, TouchKeepsKept
  <2>6. CASE o \in Requests \cup Rotations /\ Slide(o)
    BY <1>2, <2>6, SlideKeepsKept
  <2>7. CASE o \in Rotations /\ RefreshRotate(o)
    BY <1>2, <2>7, RotateKeepsKept
  <2>. QED
    BY <1>2, <2>1, <2>2, <2>3, <2>4, <2>5, <2>6, <2>7, StepKinds, Zenon DEF Works
<1>. QED
  BY <1>1, <1>2, StepCases

LEMMA KeptAlways == Spec => []KeptInv
<1>1. (Inv /\ Tables /\ CsrfInv) /\ (Inv /\ Tables /\ CsrfInv)' /\ KeptInv /\ [Next]_vars => KeptInv'
  BY KeptNext
<1>. QED
  BY <1>1, KeptInit, CsrfAlways, PTL DEF Spec

(* Once activity has slid a session's token, the token does not expire      *)
(* before the session, whatever rotations and other activity overlap with   *)
(* it (manager.py validate_session, regenerate_csrf_token).                 *)
THEOREM TokenLastsWithSession == Spec => []KeptAliveTogether
<1>1. KeptInv => KeptAliveTogether
  <2>. SUFFICES ASSUME KeptInv, NEW s \in Live, Quiet(s), sessions[s].csrf \in slid
                PROVE  tokens[sessions[s].csrf].exp >= sessions[s].exp
    BY DEF KeptAliveTogether
  <2>1. s \in Sids /\ Present(s)
    BY DEF Live, Alive, Present
  <2>2. ~\E o \in Visitors : Sliding(o, s)
    BY DEF Sliding, Quiet, Visitors, Calls
  <2>. QED
    BY <2>1, <2>2 DEF KeptInv, Lasting
<1>. QED
  BY <1>1, KeptAlways, PTL
-----------------------------------------------------------------------------
(* What a request has shown at the gates. Its token is its own once the     *)
(* check of it is done, in the current gate or in an earlier one; the last  *)
(* gate asks for the check, and a gate that was not resolved is not the     *)
(* last one.                                                                *)
Own(o) == Of(header[o], cookie[o])

AtGate == {"get", "touch", "slide", "csrf", "pass"}

GateOf(r) ==
    /\ ~Arrived(r) => did[r] = {}
    /\ "csrf" \in did[r] => Own(r)
    /\ pc[r] = "pass" /\ "csrf" \in need[r] => Own(r)
    /\ pc[r] \in AtGate /\ ~(gates[r] > 1) => "csrf" \in need[r] \/ "csrf" \in did[r]
    /\ pc[r] \in {"route", "terminate"} => Own(r)
    /\ pc[r] = "next" => gates[r] > 1
    /\ pc[r] \in {"end", "endtoken"} /\ ret[r] = "next" => gates[r] > 1

GatesInv ==
    /\ \A v \in Visitors : Arrived(v) => header[v] \in Tokens \cup {None}
    /\ \A r \in Requests : GateOf(r)
    /\ \A o \in Logouts : pc[o] \in {"route", "terminate"} => Own(o)

LEMMA OwnStays == ASSUME Steady, NEW v \in Visitors, Arrived(v), Own(v) PROVE Own(v)'
<1>1. header'[v] = header[v] /\ cookie'[v] = cookie[v]
  BY DEF Steady
<1>2. PICK t, s : t = header[v] /\ s = cookie[v]
  OBVIOUS
<1>3. Of(t, s)'
  BY <1>2, OfStays DEF Own
<1>. QED
  BY <1>1, <1>2, <1>3 DEF Own

(* A token that passes the check was issued for the session in the cookie.  *)
LEMMA GoodIsOwn ==
    ASSUME CsrfInv, GatesInv, NEW v \in Visitors, Arrived(v), GoodToken(v)
    PROVE  Own(v)
<1>1. header[v] \in Tokens /\ tokens[header[v]].session = cookie[v]
  BY DEF GatesInv, GoodToken
<1>2. cookie[v] # None
  BY CallsDisjoint DEF CsrfInv, Cookies, Sids, Calls
<1>. QED
  BY <1>1, <1>2 DEF CsrfInv, Bound, Own

LEMMA HeadersKept ==
    ASSUME Inv, Tables, GatesInv, NEW o \in Calls, Step(o)
    PROVE  \A v \in Visitors : Arrived(v)' => header'[v] \in Tokens \cup {None}
<1>1. Alone(o) /\ Steady
  BY StepKinds, StepSteady
<1>2. SUFFICES ASSUME NEW v \in Visitors, Arrived(v)' PROVE header'[v] \in Tokens \cup {None}
  OBVIOUS
<1>3. CASE Arrived(v)
  BY <1>1, <1>3 DEF GatesInv, Steady
<1>4. CASE ~Arrived(v)
  <2>1. v = o
    BY <1>1, <1>2, <1>4 DEF Alone, Arrived, Visitors, Calls
  <2>2. PICK s \in Sids, t \in Tokens \cup {None} : Arrive(o, s, t)
    BY <1>4, <2>1, VisitorsArrive
  <2>3. header'[o] = t
    BY <2>2 DEF Arrive, Tables
  <2>. QED
    BY <2>1, <2>3
<1>. QED
  BY <1>3, <1>4

LEMMA OtherGates ==
    ASSUME Steady, NEW o \in Calls, Alone(o), NEW r \in Requests, r # o, GateOf(r)
    PROVE  GateOf(r)'
<1>1. r \in Visitors /\ r \in Calls
  BY DEF Visitors, Calls
<1>2. Own(r) /\ Arrived(r) => Own(r)'
  BY <1>1, OwnStays
<1>3. pc'[r] = pc[r] /\ gates'[r] = gates[r] /\ need'[r] = need[r] /\ did'[r] = did[r] /\ ret'[r] = ret[r]
  BY <1>1 DEF Alone
<1>. QED
  BY <1>2, <1>3 DEF GateOf, Arrived, AtGate

(* The steps of a request itself.                                           *)
LEMMA EndKeepsGate ==
    ASSUME Inv, Tables, Steady, NEW r \in Requests, GateOf(r), EndRecord(r) \/ EndToken(r)
    PROVE  GateOf(r)'
<1>1. r \in Visitors /\ r \in Calls
  BY DEF Visitors, Calls
<1>2. /\ pc[r] \in {"end", "endtoken"} /\ UNCHANGED <<gates, need, did, ret>>
      /\ pc'[r] \in {"end", "endtoken", "list", "token", "sweep", "done"} \/ (pc'[r] = "next" /\ ret[r] = "next")
  BY <1>1 DEF EndRecord, EndToken, Goto, gating, ending, Inv, Shape, Tables
<1>3. Own(r) => Own(r)'
  BY <1>1, <1>2, OwnStays DEF Arrived
<1>. QED
  BY <1>2, <1>3 DEF GateOf, Arrived, AtGate

LEMMA ArriveKeepsGate ==
    ASSUME Inv, Tables, NEW r \in Requests, GateOf(r), NEW s, NEW t, Arrive(r, s, t)
    PROVE  GateOf(r)'
<1>1. r \in Calls
  BY DEF Calls
<1>2. pc[r] = "start" /\ pc'[r] = "gate" /\ UNCHANGED did
  BY <1>1 DEF Arrive, Goto, Inv, Shape
<1>. QED
  BY <1>2 DEF GateOf, Arrived, AtGate

(* What the last gate has yet to check, or an earlier one has checked.      *)
LEMMA ResolveKeepsGate ==
    ASSUME Inv, Tables, Steady, NEW r \in Requests, GateOf(r), Resolve(r)
    PROVE  GateOf(r)'
<1>1. r \in Visitors /\ r \in Calls
  BY DEF Visitors, Calls
<1>2. pc[r] = "gate" /\ UNCHANGED <<gates, did, ret>>
  BY DEF Resolve, ending
<1>3. PICK wanted \in (IF gates[r] > 1 THEN Middleware \cup Limiter \cup CurrentUser ELSE CurrentUser),
           known \in Selected(r) :
         /\ need' = [need EXCEPT ![r] = Missing(known, wanted)]
         /\ Goto(r, IF "principal" \notin known \/ "activity" \in Missing(known, wanted) THEN "get"
                    ELSE IF "csrf" \in Missing(known, wanted) THEN "csrf" ELSE "pass")
  BY DEF Resolve
<1>4. need'[r] = Missing(known, wanted) /\ known \in {did[r], {}}
  BY <1>1, <1>3 DEF Tables, Selected
<1>5. pc'[r] \in {"get", "csrf", "pass"} /\ (pc'[r] = "pass" => "csrf" \notin need'[r])
  BY <1>1, <1>3, <1>4 DEF Goto, Inv, Shape
<1>6. ~(gates[r] > 1) => "csrf" \in need'[r] \/ "csrf" \in did[r]
  <2>1. SUFFICES ASSUME ~(gates[r] > 1) PROVE "csrf" \in need'[r] \/ "csrf" \in did[r]
    OBVIOUS
  <2>2. "csrf" \in wanted
    BY <1>3, <2>1 DEF CurrentUser, Checks
  <2>3. "csrf" \in Missing(known, wanted) \/ "csrf" \in known
    BY <2>2 DEF Missing
  <2>. QED
    BY <1>4, <2>3
<1>7. Own(r) => Own(r)'
  BY <1>1, <1>2, OwnStays DEF Arrived
<1>. QED
  BY <1>2, <1>5, <1>6, <1>7 DEF GateOf, Arrived, AtGate

LEMMA GetKeepsGate ==
    ASSUME Inv, Tables, Steady, NEW r \in Requests, GateOf(r), Get(r)
    PROVE  GateOf(r)'
<1>1. r \in Visitors /\ r \in Calls /\ r \notin Rotations /\ r \notin Logouts
  BY CallsDisjoint DEF Visitors, Calls
<1>2. pc[r] = "get" /\ UNCHANGED <<gates, need, did>>
  BY DEF Get, gating
<1>3. Own(r) => Own(r)'
  BY <1>1, <1>2, OwnStays DEF Arrived
<1>4. /\ Unresolved(r) \in {"next", "done"} /\ (Unresolved(r) = "next" => gates[r] > 1)
      /\ Validated(r) \in {"csrf", "pass"} /\ (Validated(r) = "pass" => "csrf" \notin need[r])
  BY <1>1 DEF Unresolved, Validated
<1>5. CASE ~Alive(cookie[r]) \/ Overdue(cookie[r])
  <2>1. PICK E : Terminate(r, E, Unresolved(r))
    BY <1>5 DEF Get
  <2>2. \/ pc'[r] = Unresolved(r)
        \/ pc'[r] = "end" /\ ret'[r] = Unresolved(r)
    BY <1>1, <1>4, <2>1, TerminateMoves DEF Inv
  <2>. QED
    BY <1>2, <1>3, <1>4, <2>2 DEF GateOf, Arrived, AtGate
<1>6. CASE ~(~Alive(cookie[r]) \/ Overdue(cookie[r]))
  <2>1. Terminate(r, {}, IF "activity" \in need[r] THEN "touch" ELSE Validated(r))
    BY <1>6 DEF Get
  <2>2. pc'[r] = IF "activity" \in need[r] THEN "touch" ELSE Validated(r)
    BY <1>1, <2>1 DEF Terminate, Goto, Inv, Shape
  <2>3. pc'[r] \in {"touch", "csrf", "pass"} /\ (pc'[r] = "pass" => "csrf" \notin need[r])
    BY <1>4, <2>2
  <2>. QED
    BY <1>2, <1>3, <2>3 DEF GateOf, Arrived, AtGate
<1>. QED
  BY <1>5, <1>6

LEMMA ValidateKeepsGate ==
    ASSUME Inv, Tables, Steady, NEW r \in Requests, GateOf(r), Touch(r) \/ Slide(r)
    PROVE  GateOf(r)'
<1>1. r \in Visitors /\ r \in Calls /\ r \notin Rotations /\ r \notin Logouts
  BY CallsDisjoint DEF Visitors, Calls
<1>2. pc[r] \in {"touch", "slide"} /\ UNCHANGED <<gates, need, did, ret>>
  BY DEF Touch, Slide, gating, ending
<1>3. Own(r) => Own(r)'
  BY <1>1, <1>2, OwnStays DEF Arrived
<1>4. /\ Unresolved(r) \in {"next", "done"} /\ (Unresolved(r) = "next" => gates[r] > 1)
      /\ Validated(r) \in {"csrf", "pass"} /\ (Validated(r) = "pass" => "csrf" \notin need[r])
  BY <1>1 DEF Unresolved, Validated
<1>5. pc'[r] = "slide" \/ pc'[r] = Unresolved(r) \/ pc'[r] = Validated(r)
  <2>1. CASE Touch(r)
    BY <1>1, <2>1 DEF Touch, Goto, Inv, Shape
  <2>2. CASE Slide(r)
    BY <1>1, <2>2 DEF Slide, Goto, Inv, Shape
  <2>. QED
    BY <2>1, <2>2
<1>. QED
  BY <1>2, <1>3, <1>4, <1>5 DEF GateOf, Arrived, AtGate

LEMMA EnforceKeepsGate ==
    ASSUME Inv, Tables, CsrfInv, GatesInv, Steady, NEW r \in Requests, EnforceCsrf(r)
    PROVE  GateOf(r)'
<1>1. r \in Visitors /\ r \in Calls /\ r \notin Logouts /\ GateOf(r)
  BY CallsDisjoint DEF Visitors, Calls, GatesInv
<1>2. pc[r] = "csrf" /\ UNCHANGED <<gates, need, did, ret>> /\ Arrived(r)
  BY DEF EnforceCsrf, gating, ending, Arrived
<1>3. pc'[r] = "done" \/ (pc'[r] = "pass" /\ GoodToken(r))
  BY <1>1 DEF EnforceCsrf, Goto, Inv, Shape
<1>4. Own(r) \/ GoodToken(r) => Own(r)'
  BY <1>1, <1>2, OwnStays, GoodIsOwn
<1>. QED
  BY <1>1, <1>2, <1>3, <1>4 DEF GateOf, Arrived, AtGate

LEMMA PassKeepsGate ==
    ASSUME Inv, Tables, Steady, NEW r \in Requests, GateOf(r), Pass(r)
    PROVE  GateOf(r)'
<1>1. r \in Visitors /\ r \in Calls
  BY DEF Visitors, Calls
<1>2. pc[r] \in {"pass", "next"} /\ UNCHANGED <<need, ret>> /\ Arrived(r)
  BY DEF Pass, ending, Arrived
<1>3. pc'[r] = IF gates[r] > 1 THEN "gate" ELSE "route"
  BY <1>1 DEF Pass, Goto, Inv, Shape
<1>4. did'[r] = IF pc[r] = "pass" THEN did[r] \cup {"principal"} \cup need[r] ELSE {}
  BY <1>1 DEF Pass, Tables
<1>5. Own(r) => Own(r)'
  BY <1>1, <1>2, OwnStays
<1>6. "csrf" \in did'[r] => Own(r)
  BY <1>4 DEF GateOf
<1>7. ~(gates[r] > 1) => Own(r)
  BY <1>2 DEF GateOf, AtGate
<1>. QED
  BY <1>2, <1>3, <1>5, <1>6, <1>7 DEF GateOf, Arrived, AtGate

LEMMA LeaveKeepsGate ==
    ASSUME Inv, Tables, Steady, NEW r \in Requests, GateOf(r),
           Forbid(r) \/ Route(r) \/ LogoutAll(r) \/ RevokeByHandle(r)
    PROVE  GateOf(r)'
<1>1. r \in Visitors /\ r \in Calls
  BY DEF Visitors, Calls
<1>2. pc[r] \in {"pass", "route"} /\ UNCHANGED <<gates, need, did>> /\ Arrived(r)
  BY DEF Forbid, Route, LogoutAll, RevokeByHandle, gating, Arrived
<1>3. pc'[r] = "done" \/ (pc'[r] = "end" /\ ret'[r] = "done")
  <2>1. CASE Forbid(r) \/ Route(r)
    BY <1>1, <2>1 DEF Forbid, Route, Goto, Inv, Shape
  <2>2. CASE LogoutAll(r) \/ RevokeByHandle(r)
    <3>1. PICK E : Terminate(r, E, "done")
      BY <2>2 DEF LogoutAll, RevokeByHandle
    <3>. QED
      BY <1>1, <3>1, TerminateMoves DEF Inv
  <2>. QED
    BY <2>1, <2>2
<1>4. Own(r) => Own(r)'
  BY <1>1, <1>2, OwnStays
<1>. QED
  BY <1>2, <1>3, <1>4 DEF GateOf, Arrived, AtGate

LEMMA RequestKeepsGate ==
    ASSUME Inv, Tables, CsrfInv, GatesInv, NEW r \in Requests, Step(r)
    PROVE  GateOf(r)'
<1>1. r \in Calls /\ r \notin Logins /\ r \notin Rotations /\ r \notin Logouts /\ r \notin Sweeps /\ GateOf(r)
  BY CallsDisjoint DEF Calls, GatesInv
<1>2. Steady
  BY <1>1, StepSteady
<1>3. CASE EndRecord(r) \/ EndToken(r)
  BY <1>1, <1>2, <1>3, EndKeepsGate
<1>4. CASE \E s \in Sids, t \in Tokens \cup {None} : Arrive(r, s, t)
  BY <1>1, <1>4, ArriveKeepsGate
<1>5. CASE RequestStep(r)
  BY <1>1, <1>2, <1>5, ResolveKeepsGate, GetKeepsGate, ValidateKeepsGate, EnforceKeepsGate, PassKeepsGate,
     LeaveKeepsGate DEF RequestStep, Validate
<1>. QED
  BY <1>1, <1>3, <1>4, <1>5 DEF Step

LEMMA LogoutKeepsOwn ==
    ASSUME Inv, Tables, CsrfInv, GatesInv, NEW o \in Logouts, Step(o), pc'[o] \in {"route", "terminate"}
    PROVE  Own(o)'
<1>1. o \in Calls /\ o \in Visitors /\ o \notin Logins /\ o \notin Rotations /\ o \notin Requests /\ o \notin Sweeps
  BY CallsDisjoint DEF Calls, Visitors
<1>2. Steady
  BY <1>1, StepSteady
<1>3. ~EndRecord(o) /\ ~EndToken(o)
  BY <1>1 DEF EndRecord, EndToken, Goto, Inv, Shape, Tables
<1>4. ~\E s \in Sids, t \in Tokens \cup {None} : Arrive(o, s, t)
  BY <1>1 DEF Arrive, Goto, Inv, Shape
<1>5. ~Get(o)
  <2>1. Unresolved(o) = "done" /\ Validated(o) = "csrf"
    BY <1>1 DEF Unresolved, Validated
  <2>2. Get(o) => \E E : Terminate(o, E, "done") \/ Terminate(o, {}, "touch") \/ Terminate(o, {}, "csrf")
    BY <2>1 DEF Get
  <2>. QED
    BY <1>1, <2>2 DEF Terminate, Goto, Inv, Shape
<1>6. ~Logout(o)
  <2>1. Logout(o) => \E E : Terminate(o, E, "done")
    BY DEF Logout
  <2>. QED
    BY <1>1, <2>1 DEF Terminate, Goto, Inv, Shape
<1>7. EnforceCsrf(o)
  BY <1>1, <1>3, <1>4, <1>5, <1>6 DEF Step
<1>8. Arrived(o) /\ GoodToken(o)
  BY <1>1, <1>7 DEF EnforceCsrf, Goto, Inv, Shape, Arrived
<1>. QED
  BY <1>1, <1>2, <1>8, GoodIsOwn, OwnStays

LEMMA GatesNext == Inv /\ Tables /\ CsrfInv /\ GatesInv /\ [Next]_vars => GatesInv'
<1>. SUFFICES ASSUME Inv, Tables, CsrfInv, GatesInv, [Next]_vars PROVE GatesInv'
  OBVIOUS
<1>1. CASE Tick \/ UNCHANGED vars
  BY <1>1 DEF Tick, vars, sent, gating, ending, GatesInv, GateOf, Arrived, Own, Of, IssuedFor, AtGate
<1>2. ASSUME NEW o \in Calls, Step(o) PROVE GatesInv'
  <2>1. Alone(o) /\ Steady
    BY <1>2, StepKinds, StepSteady
  <2>2. \A r \in Requests : GateOf(r)'
    BY <1>2, <2>1, OtherGates, RequestKeepsGate DEF GatesInv
  <2>3. ASSUME NEW l \in Logouts, pc'[l] \in {"route", "terminate"} PROVE Own(l)'
    <3>1. CASE l = o
      BY <1>2, <2>3, <3>1, LogoutKeepsOwn
    <3>2. CASE l # o
      <4>1. l \in Visitors /\ pc[l] \in {"route", "terminate"}
        BY <2>1, <2>3, <3>2 DEF Alone, Visitors, Calls
      <4>. QED
        BY <2>1, <4>1, OwnStays DEF GatesInv, Arrived
    <3>. QED
      BY <3>1, <3>2
  <2>. QED
    BY <1>2, <2>2, <2>3, HeadersKept DEF GatesInv
<1>. QED
  BY <1>1, <1>2, StepCases

LEMMA GatesInit == Init => GatesInv
<1>. SUFFICES ASSUME Init PROVE GatesInv
  OBVIOUS
<1>1. \A o \in Calls : pc[o] \in {"idle", "start"} /\ did[o] = {}
  BY DEF Init
<1>2. Visitors \subseteq Calls /\ Requests \subseteq Calls /\ Logouts \subseteq Calls
  BY DEF Visitors, Calls
<1>. QED
  BY <1>1, <1>2 DEF GatesInv, GateOf, Arrived, AtGate

(* No route of a request with an unsafe method runs, and no logout ends a   *)
(* session, without a token that was issued for the session in the cookie,  *)
(* whatever gates resolved and cached the principal before (resolution.py   *)
(* resolve, transport.py revalidate, enforce_csrf).                         *)
THEOREM RoutesNeedOwnToken == Spec => []OwnTokenAtRoute
<1>1. GatesInv => OwnTokenAtRoute
  <2>. SUFFICES ASSUME GatesInv, NEW o \in Requests \cup Logouts, pc[o] \in {"route", "terminate"}
                PROVE  header[o] # None /\ IssuedFor(header[o]) = cookie[o]
    BY DEF OwnTokenAtRoute
  <2>1. Own(o)
    BY DEF GatesInv, GateOf
  <2>. QED
    BY <2>1, CallsDisjoint DEF Own, Of, Tokens, Calls
<1>. QED
  BY <1>1, GatesInit, GatesNext, CsrfAlways, PTL DEF Spec
-----------------------------------------------------------------------------
(* The session limit. A login that has listed the sessions knows a set of   *)
(* fewer than max_sessions that bounds the live ones, but for those it is   *)
(* about to end and those created since.                                    *)
Listed(l) == pc[l] \in {"token", "create"} \/ (pc[l] \in {"end", "endtoken"} /\ ret[l] = "token")

Doomed(l) == {e.sid : e \in todo[l]}

Bounds(K, l) == Live \subseteq K \cup since[l] \cup Doomed(l)

Few(K) == IsFiniteSet(K) /\ Cardinality(K) <= MaxSessions - 1

(* A login that ends sessions goes on with its list or its token.           *)
Returning == \A l \in Logins : pc[l] \in {"end", "endtoken"} => ret[l] \in {"list", "token"}

LimitInv ==
    /\ Returning
    /\ since = [l \in Logins |-> since[l]] /\ size = [l \in Logins |-> size[l]]
    /\ IsFiniteSet(Live)
    /\ \A l \in Logins : IsFiniteSet(since[l])
    /\ \A o \in Calls : pc[o] \notin {"end", "endtoken"} => todo[o] = {}
    /\ \A l \in Logins : Listed(l) => \E K \in SUBSET Sids : Few(K) /\ Bounds(K, l)
    /\ \A l \in Logins : pc[l] = "done" => size[l] <= MaxSessions + Cardinality(since[l])

(* Only the creation of a session adds a live one.                          *)
LEMMA LiveShrinks ==
    ASSUME Inv, Tables, CsrfInv, NEW o \in Calls, Step(o), ~(o \in Logins /\ LoginCreate(o))
    PROVE  Live' \subseteq Live
<1>1. UNCHANGED clock
  BY StepKinds DEF Looks, Works, EndRecord, EndToken, LoginToken, Touch, Slide, RefreshMint, RefreshRotate,
         RefreshReplace
<1>2. \A s \in Sids : sessions'[s] = sessions[s] \/ sessions'[s] = NoSession \/ s \in Live
  <2>1. CASE Looks(o)
    BY <2>1 DEF Looks
  <2>2. CASE EndRecord(o)
    BY <2>2 DEF EndRecord, Inv, Shape
  <2>3. CASE EndToken(o) \/ LoginToken(o) \/ Slide(o) \/ RefreshMint(o) \/ RefreshReplace(o)
    BY <2>3 DEF EndToken, LoginToken, Slide, RefreshMint, RefreshReplace, history
  <2>4. CASE Touch(o)
    BY <2>4 DEF Touch, Inv, Shape, Live
  <2>5. CASE RefreshRotate(o)
    BY <2>5 DEF RefreshRotate, Inv, Shape, Live
  <2>. QED
    BY <2>1, <2>2, <2>3, <2>4, <2>5, StepKinds DEF Works
<1>. QED
  BY <1>1, <1>2 DEF Live, Alive

(* The steps before and after those of a login that concern the limit.      *)
LEMMA SinceSame ==
    ASSUME NEW o \in Calls, Step(o), ~(o \in Logins /\ (LoginCreate(o) \/ LoginList(o)))
    PROVE  UNCHANGED <<since, size>>
<1>1. CASE EndRecord(o) \/ EndToken(o)
  BY <1>1 DEF EndRecord, EndToken, history
<1>2. CASE \E s \in Sids, t \in Tokens \cup {None} : Arrive(o, s, t)
  BY <1>2 DEF Arrive, history
<1>3. CASE o \in Logins /\ LoginStep(o)
  BY <1>3 DEF LoginStep, LoginStart, LoginToken, history
<1>4. CASE Validate(o)
  BY <1>4 DEF Validate, Get, Touch, Slide, history
<1>5. CASE RequestStep(o) \/ EnforceCsrf(o) \/ Logout(o)
  BY <1>4, <1>5 DEF RequestStep, Resolve, EnforceCsrf, Pass, Forbid, Route, LogoutAll, RevokeByHandle, Logout, history
<1>6. CASE RefreshStep(o)
  BY <1>4, <1>6 DEF RefreshStep, RefreshCheck, RefreshRead, RefreshMint, RefreshRotate, RefreshReplace, history
<1>7. CASE SweepStart(o) \/ SweepLook(o)
  BY <1>7 DEF SweepStart, SweepLook, history
<1>. QED
  BY <1>1, <1>2, <1>3, <1>4, <1>5, <1>6, <1>7 DEF Step, Validate

(* What a call has yet to end, and where a login goes.                      *)
LEMMA EntriesKept ==
    ASSUME Inv, Tables, LimitInv, NEW o \in Calls, Step(o)
    PROVE  \A c \in Calls : pc'[c] \notin {"end", "endtoken"} => todo'[c] = {}
<1>1. Alone(o)
  BY StepKinds
<1>2. pc'[o] \notin {"end", "endtoken"} => todo'[o] = {}
  <2>1. CASE Looks(o)
    BY <2>1 DEF Looks, LimitInv, Critical
  <2>2. CASE EndRecord(o)
    BY <2>2 DEF EndRecord, Goto, Inv, Shape
  <2>3. CASE EndToken(o)
    BY <2>3 DEF EndToken, Goto, Inv, Shape
  <2>4. CASE Works(o) /\ ~EndRecord(o) /\ ~EndToken(o)
    <3>1. UNCHANGED todo /\ pc[o] \notin {"end", "endtoken"}
      BY <2>4 DEF Works, LoginToken, LoginCreate, Touch, Slide, RefreshMint, RefreshRotate, RefreshReplace, ending
    <3>. QED
      BY <3>1 DEF LimitInv
  <2>. QED
    BY <2>1, <2>2, <2>3, <2>4, StepKinds
<1>. QED
  BY <1>1, <1>2 DEF LimitInv, Alone

LEMMA ReturnsKept ==
    ASSUME Inv, Tables, LimitInv, NEW o \in Calls, Step(o)
    PROVE  Returning'
<1>. SUFFICES ASSUME NEW l \in Logins, pc'[l] \in {"end", "endtoken"} PROVE ret'[l] \in {"list", "token"}
  BY DEF Returning
<1>1. Alone(o) /\ l \in Calls /\ Rotations \cap Logins = {} /\ Requests \cap Logins = {} /\ Logouts \cap Logins = {}
      /\ Sweeps \cap Logins = {} /\ Visitors \cap Logins = {}
  BY StepKinds, CallsDisjoint DEF Calls, Visitors
<1>2. CASE l # o
  BY <1>1, <1>2 DEF Alone, LimitInv, Returning
<1>3. CASE l = o
  <2>1. CASE EndRecord(o) \/ EndToken(o)
    <3>1. pc[o] \in {"end", "endtoken"} /\ UNCHANGED ret
      BY <2>1 DEF EndRecord, EndToken, ending
    <3>. QED
      BY <1>3, <3>1 DEF LimitInv, Returning
  <2>2. CASE LoginStart(o)
    <3>1. PICK E : Terminate(o, E, "list")
      BY <2>2 DEF LoginStart
    <3>. QED
      BY <1>3, <3>1, TerminateMoves DEF Inv
  <2>3. CASE LoginList(o)
    <3>1. PICK E : Terminate(o, E, "token")
      BY <2>3 DEF LoginList
    <3>. QED
      BY <1>3, <3>1, TerminateMoves DEF Inv
  <2>4. CASE LoginToken(o) \/ LoginCreate(o)
    BY <1>3, <2>4 DEF LoginToken, LoginCreate, Goto, Inv, Shape
  <2>5. ~\E s \in Sids, t \in Tokens \cup {None} : Arrive(o, s, t)
    BY <1>1, <1>3 DEF Arrive, Visitors
  <2>. QED
    BY <1>1, <1>3, <2>1, <2>2, <2>3, <2>4, <2>5 DEF Step, LoginStep
<1>. QED
  BY <1>2, <1>3

LEMMA DoomedKept ==
    ASSUME Inv, Tables, CsrfInv, LimitInv, NEW o \in Calls, Step(o), ~(o \in Logins /\ LoginList(o)),
           NEW l \in Logins, Listed(l)'
    PROVE  Listed(l) /\ Doomed(l) \cap Live' \subseteq Doomed(l)'
<1>1. Alone(o) /\ l \in Calls /\ Rotations \cap Logins = {} /\ Requests \cap Logins = {} /\ Logouts \cap Logins = {}
      /\ Sweeps \cap Logins = {} /\ Visitors \cap Logins = {}
  BY StepKinds, CallsDisjoint DEF Calls, Visitors
<1>2. CASE l # o
  <2>1. pc'[l] = pc[l] /\ ret'[l] = ret[l] /\ todo'[l] = todo[l]
    BY <1>1, <1>2 DEF Alone
  <2>. QED
    BY <2>1 DEF Listed, Doomed
<1>3. CASE l = o
  <2>1. CASE EndRecord(o)
    <3>1. pc[o] = "end" /\ pc'[o] = "endtoken" /\ UNCHANGED <<todo, ret>>
      BY <2>1 DEF EndRecord, Goto, ending, Inv, Shape
    <3>. QED
      BY <1>3, <3>1 DEF Listed, Doomed
  <2>2. CASE EndToken(o)
    <3>1. /\ pc[o] = "endtoken" /\ UNCHANGED <<ret, sessions>>
          /\ todo'[o] = todo[o] \ {copy[o]}
          /\ pc'[o] = IF todo[o] = {copy[o]} THEN ret[o] ELSE "end"
      BY <2>2 DEF EndToken, Goto, Inv, Shape
    <3>2. ret[o] = "token"
      BY <1>3, <3>1 DEF Listed, Tables
    <3>3. copy[o].sid \notin Live'
      BY <3>1 DEF CsrfInv, Endings, Inv, Ended, Live, Alive
    <3>4. ASSUME NEW s \in Doomed(l), s \in Live' PROVE s \in Doomed(l)'
      <4>1. PICK e \in todo[o] : e.sid = s
        BY <1>3, <3>4 DEF Doomed
      <4>2. e \in todo'[o]
        BY <3>1, <3>3, <3>4, <4>1
      <4>. QED
        BY <1>3, <4>1, <4>2 DEF Doomed
    <3>. QED
      BY <1>3, <3>1, <3>2, <3>4 DEF Listed
  <2>3. CASE LoginStart(o)
    <3>1. PICK E : Terminate(o, E, "list")
      BY <2>3 DEF LoginStart
    <3>2. pc'[o] = "list" \/ (pc'[o] = "end" /\ ret'[o] = "list")
      BY <3>1, TerminateMoves DEF Inv
    <3>. QED
      BY <1>3, <3>2 DEF Listed
  <2>4. CASE LoginToken(o)
    <3>1. pc[o] = "token" /\ UNCHANGED todo
      BY <2>4 DEF LoginToken, ending
    <3>. QED
      BY <1>3, <3>1 DEF Listed, Doomed
  <2>5. CASE LoginCreate(o)
    <3>1. pc'[o] = "done"
      BY <2>5 DEF LoginCreate, Goto, Inv, Shape
    <3>. QED
      BY <1>3, <3>1 DEF Listed
  <2>6. ~\E s \in Sids, t \in Tokens \cup {None} : Arrive(o, s, t)
    BY <1>1, <1>3 DEF Arrive, Visitors
  <2>. QED
    BY <1>1, <1>3, <2>1, <2>2, <2>3, <2>4, <2>5, <2>6 DEF Step, LoginStep
<1>. QED
  BY <1>2, <1>3

LEMMA OthersKeepLimit ==
    ASSUME Inv, Tables, CsrfInv, LimitInv, NEW o \in Calls, Step(o), 
           ~(o \in Logins /\ (LoginCreate(o) \/ LoginList(o)))
    PROVE  LimitInv'
<1>1. Alone(o) /\ Logins \subseteq Calls /\ UNCHANGED <<since, size>> /\ Live' \subseteq Live
  BY StepKinds, SinceSame, LiveShrinks DEF Calls
<1>2. IsFiniteSet(Live')
  BY <1>1, FS_Subset DEF LimitInv
<1>3. ASSUME NEW l \in Logins, Listed(l)' PROVE \E K \in SUBSET Sids : Few(K) /\ Bounds(K, l)'
  <2>1. Listed(l) /\ Doomed(l) \cap Live' \subseteq Doomed(l)'
    BY <1>3, DoomedKept
  <2>2. PICK K \in SUBSET Sids : Few(K) /\ Bounds(K, l)
    BY <2>1 DEF LimitInv
  <2>. QED
    BY <1>1, <2>1, <2>2 DEF Bounds
<1>4. ASSUME NEW l \in Logins, pc'[l] = "done" PROVE pc[l] = "done"
  <2>1. CASE l # o
    BY <1>1, <1>4, <2>1 DEF Alone
  <2>2. CASE l = o
    <3>1. l \notin Visitors /\ l \notin Requests /\ l \notin Rotations /\ l \notin Logouts /\ l \notin Sweeps
      BY CallsDisjoint DEF Visitors
    <3>2. ~EndRecord(o)
      BY <1>4, <2>2 DEF EndRecord, Goto, Inv, Shape
    <3>3. ~LoginToken(o)
      BY <1>4, <2>2 DEF LoginToken, Goto, Inv, Shape
    <3>4. ~LoginStart(o)
      <4>1. LoginStart(o) => \E E : Terminate(o, E, "list")
        BY DEF LoginStart
      <4>. QED
        BY <1>4, <2>2, <4>1, TerminateMoves DEF Inv
    <3>5. ~\E s \in Sids, t \in Tokens \cup {None} : Arrive(o, s, t)
      BY <2>2, <3>1 DEF Arrive, Visitors
    <3>6. EndToken(o)
      BY <2>2, <3>1, <3>2, <3>3, <3>4, <3>5 DEF Step, LoginStep
    <3>. QED
      BY <1>4, <2>2, <3>6 DEF EndToken, Goto, LimitInv, Returning, Inv, Shape
  <2>. QED
    BY <2>1, <2>2
<1>. QED
  BY <1>1, <1>2, <1>3, <1>4, EntriesKept, ReturnsKept DEF LimitInv, Few
(* The other logins' bounds when a login lists the sessions, which leaves   *)
(* the records alone.                                                       *)
LEMMA ListKeepsLimit ==
    ASSUME Inv, Tables, CsrfInv, LimitInv, NEW o \in Logins, LoginList(o)
    PROVE  LimitInv'
<1>1. o \in Calls /\ Step(o) /\ Logins \subseteq Calls
  BY DEF Calls, Step, LoginStep
<1>2. Alone(o) /\ UNCHANGED <<sessions, clock, size>> /\ Live' = Live
  BY <1>1, StepKinds DEF LoginList, stored, Live, Alive
<1>3. /\ since' = [l \in Logins |-> since'[l]] /\ since'[o] = {}
      /\ \A l \in Logins \ {o} : since'[l] = since[l]
  BY DEF LoginList, LimitInv
<1>4. PICK out \in SUBSET Live :
         /\ Cardinality(out) = Excess(Cardinality(Live))
         /\ Terminate(o, {Entry(s) : s \in out}, "token")
  BY DEF LoginList
<1>5. IsFiniteSet(Live)
  BY DEF LimitInv
<1>6. Few(Live \ out)
  <2>1. Cardinality(Live) \in Nat
    BY <1>5, FS_CardinalityType
  <2>2. IsFiniteSet(Live \ out) /\ Cardinality(Live \ out) = Cardinality(Live) - Cardinality(Live \cap out)
    BY <1>5, FS_Difference
  <2>3. Live \cap out = out
    OBVIOUS
  <2>4. \A n, k \in Nat : k = Excess(n) => n - k <= MaxSessions - 1
    BY BoundsAssumption DEF Excess
  <2>5. Cardinality(out) \in Nat
    BY <1>5, FS_Subset, FS_CardinalityType
  <2>6. Cardinality(Live \ out) = Cardinality(Live) - Cardinality(out)
    BY <2>2, <2>3
  <2>7. Cardinality(Live) - Cardinality(out) <= MaxSessions - 1
    BY <1>4, <2>1, <2>4, <2>5
  <2>. QED
    BY <2>2, <2>6, <2>7 DEF Few
<1>7. pc[o] = "list" /\ todo[o] = {}
  BY <1>1 DEF LoginList, LimitInv
<1>8. todo'[o] = {Entry(s) : s \in out}
  BY <1>1, <1>4, <1>7, TerminateMoves DEF Inv
<1>9. pc'[o] \in {"token", "end"}
  BY <1>1, <1>4, TerminateMoves DEF Inv
<1>10. ASSUME NEW l \in Logins, Listed(l)' PROVE \E K \in SUBSET Sids : Few(K) /\ Bounds(K, l)'
  <2>1. CASE l # o
    <3>1. pc'[l] = pc[l] /\ ret'[l] = ret[l] /\ todo'[l] = todo[l]
      BY <1>1, <1>2, <2>1 DEF Alone
    <3>2. Listed(l)
      BY <1>10, <3>1 DEF Listed
    <3>3. PICK K \in SUBSET Sids : Few(K) /\ Bounds(K, l)
      BY <3>2 DEF LimitInv
    <3>. QED
      BY <1>2, <1>3, <2>1, <3>1, <3>3 DEF Bounds, Doomed
  <2>2. CASE l = o
    <3>1. out \subseteq Doomed(o)'
      <4>. SUFFICES ASSUME NEW s \in out PROVE s \in Doomed(o)'
        OBVIOUS
      <4>1. Entry(s) \in todo'[o] /\ Entry(s).sid = s
        BY <1>8 DEF Entry
      <4>. QED
        BY <4>1 DEF Doomed
    <3>2. Live \ out \in SUBSET Sids
      BY DEF Live
    <3>3. Bounds(Live \ out, o)'
      BY <1>2, <3>1 DEF Bounds
    <3>. QED
      BY <1>2, <1>6, <2>2, <3>2, <3>3
  <2>. QED
    BY <2>1, <2>2
<1>11. ASSUME NEW l \in Logins, pc'[l] = "done" PROVE l # o /\ pc[l] = "done"
  BY <1>1, <1>2, <1>9, <1>11 DEF Alone
<1>12. \A l \in Logins : IsFiniteSet(since'[l])
  BY <1>3, FS_EmptySet DEF LimitInv
<1>. QED
  BY <1>1, <1>2, <1>3, <1>10, <1>11, <1>12, EntriesKept, ReturnsKept DEF LimitInv, Few

(* A login that creates its session: the one it adds is among those the     *)
(* others know were created since they listed.                              *)
LEMMA CreateKeepsLimit ==
    ASSUME Inv, Tables, CsrfInv, LimitInv, NEW o \in Logins, LoginCreate(o)
    PROVE  LimitInv'
<1>1. o \in Calls /\ Step(o) /\ Logins \subseteq Calls /\ pc[o] = "create"
  BY DEF Calls, Step, LoginStep, LoginCreate
<1>2. Alone(o) /\ pc'[o] = "done" /\ UNCHANGED <<clock, todo, ret>>
  BY <1>1, StepKinds DEF LoginCreate, ending, Goto, Inv, Shape
<1>3. Live' \subseteq Live \cup {o}
  BY <1>2 DEF LoginCreate, Live, Alive, Inv, Shape
<1>4. /\ since' = [l \in Logins |-> since'[l]] /\ size' = [l \in Logins |-> size'[l]]
      /\ size'[o] = Cardinality(Live) + 1 /\ since'[o] = since[o]
      /\ \A l \in Logins \ {o} : size'[l] = size[l]
      /\ \A l \in Logins : since'[l] = IF pc[l] \in {"idle", "start", "done"} \/ l = o THEN since[l]
                                       ELSE since[l] \cup {o}
  BY DEF LoginCreate, LimitInv
<1>5. IsFiniteSet(Live')
  <2>1. IsFiniteSet(Live \cup {o})
    BY FS_AddElement DEF LimitInv
  <2>. QED
    BY <1>3, <2>1, FS_Subset
<1>6. \A l \in Logins : IsFiniteSet(since'[l])
  <2>. SUFFICES ASSUME NEW l \in Logins PROVE IsFiniteSet(since'[l])
    OBVIOUS
  <2>1. IsFiniteSet(since[l])
    BY DEF LimitInv
  <2>2. IsFiniteSet(since[l] \cup {o})
    BY <2>1, FS_AddElement
  <2>. QED
    BY <1>4, <2>1, <2>2
<1>7. ASSUME NEW l \in Logins, Listed(l)' PROVE \E K \in SUBSET Sids : Few(K) /\ Bounds(K, l)'
  <2>1. l # o
    BY <1>2, <1>7 DEF Listed
  <2>2. pc'[l] = pc[l] /\ ret'[l] = ret[l] /\ todo'[l] = todo[l]
    BY <1>1, <1>2, <2>1 DEF Alone
  <2>3. Listed(l) /\ pc[l] \notin {"idle", "start", "done"}
    BY <1>7, <2>2 DEF Listed
  <2>4. PICK K \in SUBSET Sids : Few(K) /\ Bounds(K, l)
    BY <2>3 DEF LimitInv
  <2>5. since'[l] = since[l] \cup {o}
    BY <1>4, <2>1, <2>3
  <2>. QED
    BY <1>3, <2>2, <2>4, <2>5 DEF Bounds, Doomed
<1>8. Cardinality(Live) + 1 <= MaxSessions + Cardinality(since[o])
  <2>1. todo[o] = {} /\ Listed(o) /\ IsFiniteSet(since[o]) /\ IsFiniteSet(Live)
    BY <1>1 DEF LimitInv, Listed
  <2>2. PICK K \in SUBSET Sids : Few(K) /\ Bounds(K, o)
    BY <2>1 DEF LimitInv
  <2>3. Live \subseteq K \cup since[o]
    BY <2>1, <2>2 DEF Bounds, Doomed
  <2>4. IsFiniteSet(K) /\ Cardinality(K) <= MaxSessions - 1
    BY <2>2 DEF Few
  <2>5. /\ IsFiniteSet(K \cup since[o])
        /\ Cardinality(K \cup since[o]) = Cardinality(K) + Cardinality(since[o]) - Cardinality(K \cap since[o])
    BY <2>1, <2>4, FS_Union
  <2>6. Cardinality(Live) <= Cardinality(K \cup since[o])
    BY <2>3, <2>5, FS_Subset
  <2>7. IsFiniteSet(K \cap since[o])
    BY <2>4, FS_Intersection
  <2>8. /\ Cardinality(Live) \in Nat /\ Cardinality(K) \in Nat /\ Cardinality(since[o]) \in Nat
        /\ Cardinality(K \cap since[o]) \in Nat
    BY <2>1, <2>4, <2>7, FS_CardinalityType
  <2>. QED
    BY <2>4, <2>5, <2>6, <2>8, BoundsAssumption
<1>9. ASSUME NEW l \in Logins, pc'[l] = "done" PROVE size'[l] <= MaxSessions + Cardinality(since'[l])
  <2>1. CASE l = o
    BY <1>4, <1>8, <2>1
  <2>2. CASE l # o
    <3>1. pc[l] = "done"
      BY <1>1, <1>2, <1>9, <2>2 DEF Alone
    <3>2. since'[l] = since[l] /\ size'[l] = size[l]
      BY <1>4, <2>2, <3>1
    <3>. QED
      BY <3>1, <3>2 DEF LimitInv
  <2>. QED
    BY <2>1, <2>2
<1>. QED
  BY <1>1, <1>4, <1>5, <1>6, <1>7, <1>9, EntriesKept, ReturnsKept DEF LimitInv, Few

LEMMA LimitInit == Init => LimitInv
<1>. SUFFICES ASSUME Init PROVE LimitInv
  OBVIOUS
<1>1. Live = {} /\ IsFiniteSet({})
  BY FS_EmptySet DEF Init, Live, Alive
<1>2. \A o \in Calls : pc[o] \in {"idle", "start"} /\ todo[o] = {}
  BY DEF Init
<1>3. Logins \subseteq Calls
  BY DEF Calls
<1>4. \A l \in Logins : ~Listed(l) /\ pc[l] # "done" /\ since[l] = {}
  BY <1>2, <1>3 DEF Listed, Init
<1>5. since = [l \in Logins |-> since[l]] /\ size = [l \in Logins |-> size[l]]
  BY DEF Init
<1>. QED
  BY <1>1, <1>2, <1>3, <1>4, <1>5 DEF LimitInv, Returning

LEMMA LimitNext == Inv /\ Tables /\ CsrfInv /\ KeptInv /\ LimitInv /\ [Next]_vars => LimitInv'
<1>. SUFFICES ASSUME Inv, Tables, CsrfInv, KeptInv, LimitInv, [Next]_vars PROVE LimitInv'
  OBVIOUS
<1>1. CASE Tick \/ UNCHANGED vars
  <2>1. UNCHANGED <<sessions, pc, todo, ret, since, size>>
    BY <1>1 DEF Tick, vars, stored, ending, history
  <2>2. Live' \subseteq Live
    <3>1. \A s \in Sids : sessions[s].exp \in Nat
      BY DEF KeptInv, Times
    <3>2. clock \in Nat /\ clock' \in {clock, clock + 1}
      BY <1>1 DEF Tick, vars, KeptInv, Times
    <3>. QED
      BY <2>1, <3>1, <3>2 DEF Live, Alive
  <2>3. IsFiniteSet(Live')
    BY <2>2, FS_Subset DEF LimitInv
  <2>4. ASSUME NEW l \in Logins, Listed(l)' PROVE \E K \in SUBSET Sids : Few(K) /\ Bounds(K, l)'
    <3>1. PICK K \in SUBSET Sids : Few(K) /\ Bounds(K, l)
      BY <2>1, <2>4 DEF LimitInv, Listed
    <3>. QED
      BY <2>1, <2>2, <3>1 DEF Bounds, Doomed
  <2>. QED
    BY <2>1, <2>3, <2>4 DEF LimitInv, Returning, Few
<1>2. ASSUME NEW o \in Calls, Step(o) PROVE LimitInv'
  BY <1>2, OthersKeepLimit, ListKeepsLimit, CreateKeepsLimit
<1>. QED
  BY <1>1, <1>2, StepCases

(* A login leaves its user with at most max_sessions live sessions, and one *)
(* more for each login that created its session between this one's listing  *)
(* and its own creation: the limit is exceeded by racing logins only, and   *)
(* by no more than they are (manager.py _enforce_session_limit,             *)
(* create_session).                                                         *)
THEOREM LimitKept == Spec => []LimitHolds
<1>1. LimitInv => LimitHolds
  BY DEF LimitInv, LimitHolds, Born, Sids
<1>. QED
  BY <1>1, LimitInit, LimitNext, CsrfAlways, KeptAlways, PTL DEF Spec
=============================================================================
