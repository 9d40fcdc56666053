--------------------------- MODULE AccountsProofs ---------------------------
(***************************************************************************)
(* Theorems about Accounts, for any number of accounts, calls, flows and   *)
(* providers and any answers of the providers.                             *)
(***************************************************************************)
EXTENDS Accounts, WellFoundedInduction, TLAPS

(* The functions of the state, and what a call remembers of an account.     *)
Shape ==
    /\ pc = [o \in Calls |-> pc[o]] /\ given = [o \in Calls |-> given[o]]
    /\ target = [o \in Calls |-> target[o]] /\ copy = [o \in Calls |-> copy[o]]
    /\ era = [o \in Calls |-> era[o]]
    /\ states = [f \in Flows |-> states[f]] /\ started = [f \in Flows |-> started[f]]
    /\ cookie = [b \in Browsers |-> cookie[b]]

(* Only the call o moves.                                                   *)
Alone(o) ==
    \A x \in Calls \ {o} : /\ pc'[x] = pc[x] /\ given'[x] = given[x] /\ target'[x] = target[x]
                           /\ copy'[x] = copy[x] /\ era'[x] = era[x]

Keeps(o) == target'[o] = target[o] /\ copy'[o] = copy[o] /\ era'[o] = era[o]

LEMMA RegisterMoves ==
    ASSUME Shape, NEW r \in Registrations, RegisterStep(r)
    PROVE  /\ Shape' /\ Alone(r) /\ Keeps(r)
           /\ UNCHANGED <<used, states, cookie, started, sessions, proved, claims, late>>
           /\ pc[r] \in {"start", "email", "name", "existing", "existingname", "insert", "send"}
           /\ pc'[r] \notin {"idle", "start"}
<1>1. r \in Calls
  BY DEF Calls
<1>. USE <1>1 DEF Shape, Alone, Keeps, links, oauth, working, history, Goto
<1>2. CASE Submit(r)
  BY <1>2 DEF Submit, Takes
<1>3. CASE LookEmail(r) \/ LookName(r) \/ ExistingEmail(r) \/ ExistingName(r)
  BY <1>3 DEF LookEmail, LookName, ExistingEmail, ExistingName
<1>4. CASE Insert(r)
  BY <1>4 DEF Insert
<1>5. CASE RegisterSend(r)
  BY <1>5 DEF RegisterSend
<1>. QED
  BY <1>2, <1>3, <1>4, <1>5 DEF RegisterStep

LEMMA RequestMoves ==
    ASSUME Shape, NEW q \in Requests, RequestVerification(q)
    PROVE  /\ Shape' /\ Alone(q) /\ Keeps(q)
           /\ UNCHANGED <<rows, used, states, cookie, started, sessions, proved, claims, late>>
BY DEF RequestVerification, Shape, Alone, Keeps, links, oauth, working, history, Goto, Calls

LEMMA ChangeMoves ==
    ASSUME Shape, NEW g \in Changes, ChangeStep(g)
    PROVE  /\ Shape' /\ Alone(g)
           /\ UNCHANGED <<rows, used, states, cookie, started, sessions, proved, claims, late>>
           /\ pc[g] \in {"start", "mint"} /\ pc'[g] \in {"mint", "done"}
<1>1. g \in Calls
  BY DEF Calls
<1>. USE <1>1 DEF Shape, Alone, links, oauth, working, history, Goto
<1>2. CASE ChangeRead(g)
  BY <1>2 DEF ChangeRead, Takes, Reads, Holds
<1>3. CASE ChangeMint(g)
  BY <1>3 DEF ChangeMint
<1>. QED
  BY <1>2, <1>3 DEF ChangeStep

LEMMA ConfirmMoves ==
    ASSUME Shape, NEW k \in Confirms, ConfirmStep(k)
    PROVE  /\ Shape' /\ Alone(k)
           /\ UNCHANGED <<mailed, states, cookie, started, sessions, claims, late>>
           /\ \/ Redeem(k) /\ pc'[k] \in {"refused", "consume", "available"} /\ UNCHANGED <<rows, used>>
              \/ /\ Keeps(k) /\ given'[k] = given[k] /\ UNCHANGED proved
                 /\ \/ Available(k) /\ pc'[k] \in {"duplicate", "consume"} /\ UNCHANGED <<rows, used>>
                    \/ Consume(k) /\ pc'[k] \in {"refused", "write", "done", "mark"} /\ UNCHANGED rows
                    \/ MarkVerified(k) /\ pc'[k] = "done" /\ UNCHANGED used
                    \/ WriteEmail(k) /\ pc'[k] \in {"duplicate", "changed"} /\ UNCHANGED used
<1>1. k \in Calls
  BY DEF Calls
<1>. USE <1>1 DEF Shape, Alone, Keeps, links, oauth, working, history, Goto
<1>2. CASE Redeem(k)
  BY <1>2 DEF Redeem, Takes, Reads, Holds
<1>3. CASE Available(k)
  BY <1>3 DEF Available
<1>4. CASE Consume(k)
  BY <1>4 DEF Consume
<1>5. CASE MarkVerified(k)
  BY <1>5 DEF MarkVerified
<1>6. CASE WriteEmail(k)
  BY <1>6 DEF WriteEmail
<1>. QED
  BY <1>2, <1>3, <1>4, <1>5, <1>6 DEF ConfirmStep

LEMMA LoginMoves ==
    ASSUME Shape, NEW l \in Logins, LoginRead(l) \/ LoginIssue(l) \/ Enroll(l)
    PROVE  /\ Shape' /\ Alone(l)
           /\ UNCHANGED <<mailed, used, states, cookie, started, proved, claims>>
<1>1. l \in Calls
  BY DEF Calls
<1>. USE <1>1 DEF Shape, Alone, links, oauth, working, history, Goto
<1>2. CASE LoginRead(l)
  BY <1>2 DEF LoginRead, Reads, Holds
<1>3. CASE LoginIssue(l)
  BY <1>3 DEF LoginIssue
<1>4. CASE Enroll(l)
  BY <1>4 DEF Enroll
<1>. QED
  BY <1>2, <1>3, <1>4

LEMMA PasswordMoves ==
    ASSUME Shape, NEW w \in SetPasswords, SetPasswordRead(w) \/ SetPassword(w)
    PROVE  /\ Shape' /\ Alone(w)
           /\ UNCHANGED <<mailed, used, states, cookie, started, sessions, proved, claims, late>>
           /\ pc[w] \in {"start", "set"} /\ pc'[w] \in {"set", "done"}
<1>1. w \in Calls
  BY DEF Calls
<1>. USE <1>1 DEF Shape, Alone, links, oauth, working, history, Goto
<1>2. CASE SetPasswordRead(w)
  BY <1>2 DEF SetPasswordRead, Reads, Holds
<1>3. CASE SetPassword(w)
  BY <1>3 DEF SetPassword
<1>. QED
  BY <1>2, <1>3

LEMMA DisableMoves ==
    ASSUME Shape, NEW d \in Disables, Disable(d)
    PROVE  /\ Shape' /\ Alone(d) /\ Keeps(d)
           /\ UNCHANGED <<mailed, used, states, cookie, started, sessions, proved, claims, late>>
BY DEF Disable, Shape, Alone, Keeps, links, oauth, working, history, Goto, Calls
(* A callback that has taken its state out of the store and goes on.        *)
Ahead == {"byid", "byemail", "link", "bump", "evict", "name", "create", "retry", "resolved", "in", "challenged"}
Taken == Ahead \cup {"exchange"}

CookieCleared == \A b \in Browsers : cookie'[b] \in {cookie[b], None}

LEMMA AnswerClears ==
    ASSUME Shape, NEW c, NEW label, Answer(c, label)
    PROVE  Goto(c, label) /\ cookie' = [b \in Browsers |-> cookie'[b]] /\ CookieCleared
BY DEF Answer, Shape, CookieCleared

(* The steps of a callback after the exchange.                              *)
FindsOrMakes(c) ==
    \/ FindByOAuth(c) \/ FindByEmail(c) \/ Link(c) \/ Bump(c) \/ Evict(c)
    \/ UniqueUsername(c) \/ CreateUser(c) \/ SignIn(c)

LEMMA FinderMoves ==
    ASSUME Shape, NEW c \in Callbacks, FindsOrMakes(c)
    PROVE  /\ Shape' /\ Alone(c) /\ CookieCleared /\ given'[c] = given[c]
           /\ UNCHANGED <<mailed, used, started, states>>
           /\ pc[c] \in Ahead \ {"in", "challenged"} /\ pc'[c] \in Ahead \cup {"refused", "error"}
<1>1. c \in Calls
  BY DEF Calls
<1>2. UNCHANGED cookie => CookieCleared
  BY DEF CookieCleared
<1>. USE <1>1, <1>2 DEF Shape, Alone, links, oauth, working, history, Goto, Ahead
<1>3. CASE FindByOAuth(c)
  BY <1>3, AnswerClears DEF FindByOAuth, Reads, Holds
<1>4. CASE FindByEmail(c)
  BY <1>4, AnswerClears DEF FindByEmail, Reads, Holds
<1>5. CASE Link(c)
  BY <1>5, AnswerClears DEF Link, Holds
<1>6. CASE Bump(c)
  BY <1>6 DEF Bump, Holds
<1>7. CASE Evict(c)
  BY <1>7 DEF Evict
<1>8. CASE UniqueUsername(c)
  BY <1>8 DEF UniqueUsername
<1>9. CASE CreateUser(c)
  BY <1>9, AnswerClears DEF CreateUser, Holds
<1>10. CASE SignIn(c)
  BY <1>10, AnswerClears DEF SignIn
<1>. QED
  BY <1>3, <1>4, <1>5, <1>6, <1>7, <1>8, <1>9, <1>10 DEF FindsOrMakes

LEMMA ArriverMoves ==
    ASSUME Shape, NEW c \in Callbacks,
           (\E b \in Browsers, f \in Flows, p \in Providers : Arrive(c, b, f, p)) \/ TakeState(c) \/ Exchange(c)
    PROVE  /\ Shape' /\ Alone(c) /\ Keeps(c) /\ CookieCleared
           /\ UNCHANGED <<rows, mailed, used, sessions, started, proved, claims, late>>
           /\ pc[c] \in {"start", "take", "exchange"} /\ pc'[c] \in {"take", "exchange", "byid", "refused"}
<1>1. c \in Calls
  BY DEF Calls
<1>2. UNCHANGED cookie => CookieCleared
  BY DEF CookieCleared
<1>. USE <1>1, <1>2 DEF Shape, Alone, Keeps, links, oauth, working, history, Goto
<1>3. ASSUME NEW b \in Browsers, NEW f \in Flows, NEW p \in Providers, Arrive(c, b, f, p)
      PROVE  /\ Shape' /\ Alone(c) /\ Keeps(c) /\ CookieCleared
             /\ UNCHANGED <<rows, mailed, used, sessions, started, proved, claims, late>>
             /\ pc[c] \in {"start", "take", "exchange"} /\ pc'[c] \in {"take", "exchange", "byid", "refused"}
  <2>1. /\ pc[c] = "start" /\ UNCHANGED <<rows, links, states, sessions, working, name, history>>
        /\ given' = [given EXCEPT ![c] = [browser |-> b, flow |-> f, provider |-> p, payload |-> None]]
    BY <1>3 DEF Arrive, Takes
  <2>2. \/ Goto(c, "take") /\ UNCHANGED cookie
        \/ Answer(c, "refused")
    BY <1>3 DEF Arrive
  <2>3. PICK label \in {"take", "refused"} :
          Goto(c, label) /\ CookieCleared /\ cookie' = [d \in Browsers |-> cookie'[d]]
    <3>1. CASE Goto(c, "take") /\ UNCHANGED cookie
      BY <3>1
    <3>2. CASE Answer(c, "refused")
      BY <3>2, AnswerClears
    <3>. QED
      BY <2>2, <3>1, <3>2
  <2>. QED
    BY <2>1, <2>3
<1>4. CASE TakeState(c)
  BY <1>4, AnswerClears DEF TakeState
<1>5. CASE Exchange(c)
  BY <1>5, AnswerClears DEF Exchange, Takes
<1>. QED
  BY <1>3, <1>4, <1>5

LEMMA AuthorizeMoves ==
    ASSUME Shape, NEW f \in Flows, NEW b \in Browsers, NEW p \in Providers, Authorize(f, b, p)
    PROVE  /\ Shape'
           /\ UNCHANGED <<rows, mailed, used, sessions, pc, given, target, copy, era, proved, claims, late>>
BY DEF Authorize, Shape, links, working

(* Every step but the start of a flow is a step of one call.                *)
LEMMA ShapeNext == Shape /\ [Next]_vars => Shape'
<1>. SUFFICES ASSUME Shape, [Next]_vars PROVE Shape'
  OBVIOUS
<1>1. CASE UNCHANGED vars
  BY <1>1 DEF vars, Shape
<1>2. ASSUME NEW c \in Callbacks, CallbackStep(c) PROVE Shape'
  BY <1>2, FinderMoves, ArriverMoves DEF CallbackStep, FindsOrMakes
<1>. QED
  BY <1>1, <1>2, RegisterMoves, RequestMoves, ChangeMoves, ConfirmMoves, LoginMoves, PasswordMoves,
     DisableMoves, AuthorizeMoves DEF Next

-----------------------------------------------------------------------------
(* Flows. A cookie holds a flow that its browser started; a callback that   *)
(* found its state has the flow for itself.                                 *)
Flowing == Taken \cup {"take"}

IsArrival(u) == u = [browser |-> u.browser, flow |-> u.flow, provider |-> u.provider, payload |-> u.payload]

FlowsInv ==
    /\ \A b \in Browsers : cookie[b] # None => cookie[b] \in Flows /\ started[cookie[b]] = b
    /\ \A c \in Callbacks : pc[c] \in Flowing =>
         /\ given[c].flow \in Flows /\ given[c].browser \in Browsers /\ given[c].provider \in Providers
         /\ started[given[c].flow] = given[c].browser
         /\ IsArrival(given[c])
    /\ \A c \in Callbacks : pc[c] \in Taken => states[given[c].flow] = None
    /\ \A c, d \in Callbacks : pc[c] \in Taken /\ pc[d] \in Taken /\ given[c].flow = given[d].flow => c = d

(* A step of another kind of call.                                          *)
LEMMA OthersKeepFlows ==
    ASSUME FlowsInv, NEW o \in Calls \ Callbacks, Alone(o), UNCHANGED <<states, cookie, started>>
    PROVE  FlowsInv'
<1>1. \A c \in Callbacks : pc'[c] = pc[c] /\ given'[c] = given[c]
  BY DEF Alone, Calls
<1>. QED
  BY <1>1 DEF FlowsInv

LEMMA FindersKeepFlows ==
    ASSUME Shape, FlowsInv, NEW c \in Callbacks, FindsOrMakes(c)
    PROVE  FlowsInv'
<1>1. /\ Alone(c) /\ CookieCleared /\ given'[c] = given[c] /\ UNCHANGED <<started, states>>
      /\ pc[c] \in Taken /\ pc'[c] \in Taken \cup {"refused", "error"}
  BY FinderMoves DEF Taken
<1>2. \A d \in Callbacks : given'[d] = given[d] /\ (pc'[d] \in Taken => pc[d] \in Taken)
                             /\ (pc'[d] \in Flowing => pc[d] \in Flowing)
  BY <1>1 DEF Alone, Calls, Flowing, Taken, Ahead
<1>. QED
  BY <1>1, <1>2 DEF FlowsInv, CookieCleared

LEMMA ArriveKeepsFlows ==
    ASSUME Shape, FlowsInv, NEW c \in Callbacks, NEW b \in Browsers, NEW f \in Flows, NEW p \in Providers,
           Arrive(c, b, f, p)
    PROVE  FlowsInv'
<1>1. /\ Alone(c) /\ CookieCleared /\ UNCHANGED <<started, states>> /\ c \in Calls
      /\ given'[c] = [browser |-> b, flow |-> f, provider |-> p, payload |-> None]
  BY ArriverMoves DEF Arrive, Takes, history, Shape, Calls
<1>2. pc'[c] \in {"take", "refused"} /\ (pc'[c] = "take" => cookie[b] = f)
  BY <1>1, AnswerClears DEF Arrive, Shape, Goto
<1>3. \A d \in Callbacks \ {c} : given'[d] = given[d] /\ pc'[d] = pc[d]
  BY <1>1 DEF Alone, Calls
<1>4. pc'[c] \notin Taken
  BY <1>2 DEF Taken, Ahead
<1>5. pc'[c] = "take" => started[f] = b
  BY <1>2, CallsDisjoint DEF FlowsInv
<1>6. pc'[c] \in Flowing => pc'[c] = "take"
  BY <1>4 DEF Flowing
<1>7. IsArrival(given'[c])
  BY <1>1 DEF IsArrival
<1>8. \A d \in Callbacks : pc'[d] \in Flowing =>
         /\ given'[d].flow \in Flows /\ given'[d].browser \in Browsers /\ given'[d].provider \in Providers
         /\ started'[given'[d].flow] = given'[d].browser
         /\ IsArrival(given'[d])
  BY <1>1, <1>3, <1>5, <1>6, <1>7 DEF FlowsInv
<1>. QED
  BY <1>1, <1>3, <1>4, <1>8 DEF FlowsInv, CookieCleared

LEMMA TakeKeepsFlows ==
    ASSUME Shape, FlowsInv, NEW c \in Callbacks, TakeState(c)
    PROVE  FlowsInv'
<1>1. /\ Alone(c) /\ CookieCleared /\ UNCHANGED <<started, given>> /\ c \in Calls /\ pc[c] = "take"
      /\ states' = [states EXCEPT ![given[c].flow] = None]
  BY ArriverMoves DEF TakeState, history, Calls
<1>2. pc'[c] \in {"exchange", "refused"} /\ (pc'[c] = "exchange" => states[given[c].flow] = given[c].provider)
  BY <1>1, AnswerClears DEF TakeState, Shape, Goto
<1>3. \A d \in Callbacks \ {c} : pc'[d] = pc[d]
  BY <1>1 DEF Alone, Calls
<1>4. given[c].flow \in Flows /\ given[c].provider # None
  BY <1>1, CallsDisjoint DEF FlowsInv, Flowing
<1>5. pc'[c] = "exchange" => \A d \in Callbacks : pc[d] \in Taken => given[d].flow # given[c].flow
  BY <1>2, <1>4 DEF FlowsInv
<1>6. states'[given[c].flow] = None /\ \A f \in Flows \ {given[c].flow} : states'[f] = states[f]
  BY <1>1, <1>4 DEF Shape
<1>7. "refused" \notin Flowing /\ "exchange" \in Taken /\ "refused" \notin Taken /\ pc[c] \in Flowing
      /\ Taken \subseteq Flowing
  BY <1>1 DEF Flowing, Taken, Ahead
<1>8. \A d \in Callbacks : pc'[d] \in Taken => states'[given[d].flow] = None
  BY <1>2, <1>3, <1>4, <1>6, <1>7 DEF FlowsInv
<1>. QED
  BY <1>1, <1>2, <1>3, <1>5, <1>7, <1>8 DEF FlowsInv, CookieCleared

LEMMA ExchangeKeepsFlows ==
    ASSUME Shape, FlowsInv, NEW c \in Callbacks, Exchange(c)
    PROVE  FlowsInv'
<1>1. /\ Alone(c) /\ CookieCleared /\ UNCHANGED <<started, states>> /\ c \in Calls /\ pc[c] = "exchange"
  BY ArriverMoves DEF Exchange, history, Calls
<1>2. \/ /\ pc'[c] = "byid"
         /\ \E d \in Payloads : given'[c] = [given[c] EXCEPT !.payload = d]
      \/ pc'[c] = "refused"
  <2>1. CASE (\E d \in Payloads : Takes(c, [given[c] EXCEPT !.payload = d])) /\ Goto(c, "byid")
    BY <1>1, <2>1 DEF Shape, Takes, Goto
  <2>2. CASE Answer(c, "refused")
    BY <1>1, <2>2, AnswerClears DEF Shape, Goto
  <2>. QED
    BY <2>1, <2>2 DEF Exchange
<1>3. pc[c] \in Taken /\ "refused" \notin Flowing /\ Taken \subseteq Flowing
  BY <1>1 DEF Taken, Flowing, Ahead
<1>4. \A d \in Callbacks \ {c} : given'[d] = given[d] /\ pc'[d] = pc[d]
  BY <1>1 DEF Alone, Calls
<1>5. pc'[c] = "byid" => /\ given'[c].flow = given[c].flow /\ given'[c].browser = given[c].browser
                         /\ given'[c].provider = given[c].provider
                         /\ IsArrival(given'[c])
  <2>1. IsArrival(given[c])
    BY <1>3 DEF FlowsInv
  <2>. QED
    BY <1>2, <2>1 DEF IsArrival
<1>6. pc'[c] \in Flowing => pc'[c] = "byid"
  BY <1>2, <1>3
<1>7. \A d \in Callbacks : pc'[d] \in Taken => pc[d] \in Taken /\ given'[d].flow = given[d].flow
  BY <1>3, <1>4, <1>5, <1>6
<1>8. \A d \in Callbacks : pc'[d] \in Flowing =>
         /\ given'[d].flow \in Flows /\ given'[d].browser \in Browsers /\ given'[d].provider \in Providers
         /\ started'[given'[d].flow] = given'[d].browser
         /\ IsArrival(given'[d])
  BY <1>1, <1>3, <1>4, <1>5, <1>6 DEF FlowsInv
<1>. QED
  BY <1>1, <1>7, <1>8 DEF FlowsInv, CookieCleared

LEMMA AuthorizeKeepsFlows ==
    ASSUME Shape, FlowsInv, NEW f \in Flows, NEW b \in Browsers, NEW p \in Providers, Authorize(f, b, p)
    PROVE  FlowsInv'
<1>1. /\ UNCHANGED <<pc, given>> /\ started[f] = None /\ started' = [started EXCEPT ![f] = b]
      /\ states' = [states EXCEPT ![f] = p] /\ cookie' = [cookie EXCEPT ![b] = f]
  BY DEF Authorize
<1>2. \A c \in Callbacks : pc[c] \in Flowing => given[c].flow \in Flows \ {f}
  BY <1>1, CallsDisjoint DEF FlowsInv
<1>3. \A x \in Browsers : cookie[x] # None => cookie[x] # f
  BY <1>1, CallsDisjoint DEF FlowsInv
<1>4. /\ started'[f] = b /\ \A x \in Flows \ {f} : started'[x] = started[x] /\ states'[x] = states[x]
      /\ cookie'[b] = f /\ \A x \in Browsers \ {b} : cookie'[x] = cookie[x]
  BY <1>1 DEF Shape
<1>5. \A x \in Browsers : cookie'[x] # None => cookie'[x] \in Flows /\ started'[cookie'[x]] = x
  BY <1>3, <1>4 DEF FlowsInv
<1>6. Taken \subseteq Flowing
  BY DEF Flowing
<1>. QED
  BY <1>1, <1>2, <1>4, <1>5, <1>6 DEF FlowsInv

LEMMA FlowsNext == Shape /\ FlowsInv /\ [Next]_vars => FlowsInv'
<1>. SUFFICES ASSUME Shape, FlowsInv, [Next]_vars PROVE FlowsInv'
  OBVIOUS
<1>1. \A o \in Registrations \cup Requests \cup Changes \cup Confirms \cup Logins \cup SetPasswords \cup Disables :
        o \in Calls \ Callbacks
  BY CallsDisjoint DEF Calls
<1>2. ASSUME NEW r \in Registrations, RegisterStep(r) PROVE FlowsInv'
  BY <1>1, <1>2, RegisterMoves, OthersKeepFlows
<1>3. ASSUME NEW q \in Requests, RequestVerification(q) PROVE FlowsInv'
  BY <1>1, <1>3, RequestMoves, OthersKeepFlows
<1>4. ASSUME NEW g \in Changes, ChangeStep(g) PROVE FlowsInv'
  BY <1>1, <1>4, ChangeMoves, OthersKeepFlows
<1>5. ASSUME NEW k \in Confirms, ConfirmStep(k) PROVE FlowsInv'
  BY <1>1, <1>5, ConfirmMoves, OthersKeepFlows
<1>6. ASSUME NEW l \in Logins, LoginRead(l) \/ LoginIssue(l) \/ Enroll(l) PROVE FlowsInv'
  BY <1>1, <1>6, LoginMoves, OthersKeepFlows
<1>7. ASSUME NEW w \in SetPasswords, SetPasswordRead(w) \/ SetPassword(w) PROVE FlowsInv'
  BY <1>1, <1>7, PasswordMoves, OthersKeepFlows
<1>8. ASSUME NEW d \in Disables, Disable(d) PROVE FlowsInv'
  BY <1>1, <1>8, DisableMoves, OthersKeepFlows
<1>9. ASSUME NEW c \in Callbacks, CallbackStep(c) PROVE FlowsInv'
  BY <1>9, ArriveKeepsFlows, TakeKeepsFlows, ExchangeKeepsFlows, FindersKeepFlows DEF CallbackStep, FindsOrMakes
<1>10. CASE UNCHANGED vars
  BY <1>10 DEF vars, FlowsInv
<1>. QED
  BY <1>2, <1>3, <1>4, <1>5, <1>6, <1>7, <1>8, <1>9, <1>10, AuthorizeKeepsFlows DEF Next

LEMMA ShapeInit == Init => Shape
BY DEF Init, Shape

LEMMA ShapeAlways == Spec => []Shape
BY ShapeInit, ShapeNext, PTL DEF Spec

LEMMA FlowsInit == Init => FlowsInv
<1>. SUFFICES ASSUME Init PROVE FlowsInv
  OBVIOUS
<1>1. \A c \in Callbacks : pc[c] \in {"idle", "start"}
  BY DEF Init, Calls
<1>2. \A c \in Callbacks : pc[c] \notin Flowing /\ pc[c] \notin Taken
  BY <1>1 DEF Flowing, Taken, Ahead
<1>. QED
  BY <1>2 DEF Init, FlowsInv

(* One flow signs in at most once, and only the browser that started it,    *)
(* however often and wherever its callback is delivered                     *)
(* (oauth/router.py callback).                                              *)
THEOREM FlowSignsInOnce == Spec => []OneLoginPerFlow
<1>2. FlowsInv => OneLoginPerFlow
  <2>1. {"in", "challenged"} \subseteq Taken /\ Taken \subseteq Flowing
    BY DEF Taken, Ahead, Flowing
  <2>. QED
    BY <2>1 DEF FlowsInv, OneLoginPerFlow
<1>. QED
  BY <1>2, FlowsInit, ShapeAlways, FlowsNext, PTL DEF Spec
-----------------------------------------------------------------------------
(* Links. A change that is about to be written has its link among the used  *)
(* ones, and for itself.                                                    *)
Past == {"write", "changed"}

UsedInv ==
    /\ \A k \in Confirms : pc[k] \in Past => given[k] \in used
    /\ \A j, k \in Confirms : pc[j] \in Past /\ pc[k] \in Past /\ given[j] = given[k] => j = k

LEMMA OthersKeepUsed ==
    ASSUME UsedInv, NEW o \in Calls \ Confirms, Alone(o), UNCHANGED used
    PROVE  UsedInv'
<1>1. \A k \in Confirms : pc'[k] = pc[k] /\ given'[k] = given[k]
  BY DEF Alone, Calls
<1>. QED
  BY <1>1 DEF UsedInv

LEMMA ConfirmKeepsUsed ==
    ASSUME Shape, UsedInv, NEW k \in Confirms, ConfirmStep(k)
    PROVE  UsedInv'
<1>1. k \in Calls /\ \A j \in Confirms \ {k} : pc'[j] = pc[j] /\ given'[j] = given[j]
  BY ConfirmMoves DEF Alone, Calls
<1>2. CASE pc'[k] \notin Past /\ used \subseteq used'
  BY <1>1, <1>2 DEF UsedInv
<1>3. CASE Consume(k) /\ pc'[k] \in Past
  <2>1. given[k] \notin used /\ used' = used \cup {given[k]} /\ given'[k] = given[k]
    BY <1>1, <1>3 DEF Consume, Shape, Goto, Past
  <2>. QED
    BY <1>1, <2>1 DEF UsedInv
<1>4. CASE WriteEmail(k) /\ UNCHANGED used /\ given'[k] = given[k]
  <2>1. pc[k] \in Past
    BY <1>4 DEF WriteEmail, Past
  <2>. QED
    BY <1>1, <1>4, <2>1 DEF UsedInv
<1>5. Consume(k) => used \subseteq used'
  BY DEF Consume
<1>. QED
  BY <1>2, <1>3, <1>4, <1>5, ConfirmMoves DEF Past

LEMMA UsedNext == Shape /\ UsedInv /\ [Next]_vars => UsedInv'
<1>. SUFFICES ASSUME Shape, UsedInv, [Next]_vars PROVE UsedInv'
  OBVIOUS
<1>1. \A o \in Registrations \cup Requests \cup Changes \cup Callbacks \cup Logins \cup SetPasswords \cup Disables :
        o \in Calls \ Confirms
  BY CallsDisjoint DEF Calls
<1>2. ASSUME NEW r \in Registrations, RegisterStep(r) PROVE UsedInv'
  BY <1>1, <1>2, RegisterMoves, OthersKeepUsed
<1>3. ASSUME NEW q \in Requests, RequestVerification(q) PROVE UsedInv'
  BY <1>1, <1>3, RequestMoves, OthersKeepUsed
<1>4. ASSUME NEW g \in Changes, ChangeStep(g) PROVE UsedInv'
  BY <1>1, <1>4, ChangeMoves, OthersKeepUsed
<1>5. ASSUME NEW l \in Logins, LoginRead(l) \/ LoginIssue(l) \/ Enroll(l) PROVE UsedInv'
  BY <1>1, <1>5, LoginMoves, OthersKeepUsed
<1>6. ASSUME NEW w \in SetPasswords, SetPasswordRead(w) \/ SetPassword(w) PROVE UsedInv'
  BY <1>1, <1>6, PasswordMoves, OthersKeepUsed
<1>7. ASSUME NEW d \in Disables, Disable(d) PROVE UsedInv'
  BY <1>1, <1>7, DisableMoves, OthersKeepUsed
<1>8. ASSUME NEW c \in Callbacks, CallbackStep(c) PROVE UsedInv'
  BY <1>1, <1>8, ArriverMoves, FinderMoves, OthersKeepUsed DEF CallbackStep, FindsOrMakes
<1>9. ASSUME NEW f \in Flows, NEW b \in Browsers, NEW p \in Providers, Authorize(f, b, p) PROVE UsedInv'
  BY <1>9, AuthorizeMoves DEF UsedInv
<1>10. CASE UNCHANGED vars
  BY <1>10 DEF vars, UsedInv
<1>. QED
  BY <1>2, <1>3, <1>4, <1>5, <1>6, <1>7, <1>8, <1>9, <1>10, ConfirmKeepsUsed DEF Next

(* A link moves an account to its address at most once, also when the       *)
(* account has moved back meanwhile (email/service.py _consume).            *)
THEOREM LinkMovesOnce == Spec => []ChangeAppliedOnce
<1>1. Init => UsedInv
  <2>. SUFFICES ASSUME Init PROVE UsedInv
    OBVIOUS
  <2>1. \A k \in Confirms : pc[k] \in {"idle", "start"}
    BY DEF Init, Calls
  <2>. QED
    BY <2>1 DEF UsedInv, Past
<1>2. UsedInv => ChangeAppliedOnce
  BY DEF UsedInv, ChangeAppliedOnce, Past
<1>. QED
  BY <1>1, <1>2, ShapeAlways, UsedNext, PTL DEF Spec

-----------------------------------------------------------------------------
(* Rows. What each write does to the table.                                 *)
IsRow(u) ==
    /\ u = [email |-> u.email, name |-> u.name, ids |-> u.ids, verified |-> u.verified,
            password |-> u.password, version |-> u.version, active |-> u.active, mfa |-> u.mfa]
    /\ u.verified \in BOOLEAN /\ u.version \in Nat /\ u.mfa \in BOOLEAN

Aimed == {"mint", "available", "consume", "mark", "write", "issue", "in", "set", "link", "bump", "evict",
          "resolved", "challenged"}

RowsInv ==
    /\ rows = [i \in Rows |-> rows[i]] /\ \A i \in Rows : IsRow(rows[i])
    /\ claims = [i \in Rows |-> claims[i]]
    /\ \A o \in Calls : IsRow(copy[o]) /\ (pc[o] \in Aimed => target[o] \in Rows)
    /\ \A s \in sessions : s.row \in Rows
    /\ \A l \in mailed : l.row \in Rows

Written(i) ==
    /\ rows' = [j \in Rows |-> rows'[j]] /\ IsRow(rows'[i])
    /\ \A j \in Rows \ {i} : rows'[j] = rows[j]

ClaimsAt(i) ==
    claims' = [j \in Rows |-> claims'[j]] /\ \A j \in Rows \ {i} : claims'[j] = claims[j]

Unclaimed(i) == claims'[i] = claims[i]

Same(i) == rows'[i].email = rows[i].email /\ rows'[i].verified = rows[i].verified
Steady(i) == /\ rows'[i].version = rows[i].version /\ rows'[i].password = rows[i].password
             /\ rows'[i].mfa = rows[i].mfa

LEMMA NoRowIsRow == IsRow(NoRow) /\ NoRow.email = None /\ NoRow.verified = FALSE /\ NoRow.version = 0
                      /\ NoRow.password = Unusable /\ NoRow.mfa = FALSE
BY DEF NoRow, IsRow

LEMMA Put ==
    ASSUME RowsInv, NEW i \in Rows, NEW v, IsRow(v), rows' = [rows EXCEPT ![i] = v]
    PROVE  Written(i) /\ rows'[i] = v
BY DEF RowsInv, Written

LEMMA MarkEffect ==
    ASSUME RowsInv, NEW k \in Calls, NEW i, i = target[k], MarkVerified(k)
    PROVE  /\ i \in Rows /\ Written(i) /\ Steady(i)
           /\ rows'[i].email = rows[i].email /\ rows'[i].verified = TRUE
<1>1. i \in Rows /\ IsRow(rows[i])
  BY DEF MarkVerified, RowsInv, Aimed
<1>2. PICK u : u = rows[i] /\ rows' = [rows EXCEPT ![i] = [u EXCEPT !.verified = TRUE]]
  BY DEF MarkVerified
<1>3. PICK v : v = [u EXCEPT !.verified = TRUE]
  OBVIOUS
<1>4. /\ IsRow(v) /\ v.email = u.email /\ v.verified = TRUE
      /\ v.version = u.version /\ v.password = u.password /\ v.mfa = u.mfa
  BY <1>1, <1>2, <1>3 DEF IsRow
<1>5. Written(i) /\ rows'[i] = v
  BY <1>1, <1>2, <1>3, <1>4, Put
<1>. QED
  BY <1>1, <1>2, <1>4, <1>5 DEF Steady

LEMMA WriteEffect ==
    ASSUME RowsInv, NEW k \in Calls, NEW i, i = target[k], WriteEmail(k)
    PROVE  /\ i \in Rows
           /\ \/ UNCHANGED rows
              \/ Written(i) /\ Steady(i) /\ rows'[i].email = given[k].to
<1>1. i \in Rows /\ IsRow(rows[i]) /\ copy[k].verified \in BOOLEAN
  BY DEF WriteEmail, RowsInv, Aimed, IsRow
<1>2. CASE UNCHANGED rows
  BY <1>1, <1>2
<1>3. CASE ~UNCHANGED rows
  <2>1. PICK u, b : /\ u = rows[i] /\ b = (u.verified \/ ~copy[k].verified)
                    /\ rows' = [rows EXCEPT ![i] = [u EXCEPT !.email = given[k].to, !.verified = b]]
    BY <1>3 DEF WriteEmail
  <2>2. PICK v : v = [u EXCEPT !.email = given[k].to, !.verified = b]
    OBVIOUS
  <2>3. /\ IsRow(v) /\ v.email = given[k].to
        /\ v.version = u.version /\ v.password = u.password /\ v.mfa = u.mfa
    BY <1>1, <2>1, <2>2 DEF IsRow
  <2>4. Written(i) /\ rows'[i] = v
    BY <1>1, <2>1, <2>2, <2>3, Put
  <2>. QED
    BY <1>1, <2>1, <2>3, <2>4 DEF Steady
<1>. QED
  BY <1>2, <1>3

LEMMA EnrollEffect ==
    ASSUME RowsInv, NEW l \in Calls, NEW i, i = target[l], Enroll(l)
    PROVE  /\ i \in Rows /\ Written(i) /\ Same(i)
           /\ rows'[i].version = rows[i].version /\ rows'[i].password = rows[i].password
<1>1. i \in Rows /\ IsRow(rows[i])
  BY DEF Enroll, RowsInv, Aimed
<1>2. PICK u : u = rows[i] /\ rows' = [rows EXCEPT ![i] = [u EXCEPT !.mfa = TRUE]]
  BY DEF Enroll
<1>3. PICK v : v = [u EXCEPT !.mfa = TRUE]
  OBVIOUS
<1>4. /\ IsRow(v) /\ v.email = u.email /\ v.verified = u.verified
      /\ v.version = u.version /\ v.password = u.password
  BY <1>1, <1>2, <1>3 DEF IsRow
<1>5. Written(i) /\ rows'[i] = v
  BY <1>1, <1>2, <1>3, <1>4, Put
<1>. QED
  BY <1>1, <1>2, <1>4, <1>5 DEF Same

LEMMA PasswordEffect ==
    ASSUME RowsInv, NEW w \in Calls, NEW i, i = target[w], SetPassword(w)
    PROVE  /\ i \in Rows /\ Written(i) /\ Same(i)
           /\ rows'[i].version = rows[i].version /\ rows'[i].password = w /\ rows'[i].mfa = rows[i].mfa
<1>1. i \in Rows /\ IsRow(rows[i])
  BY DEF SetPassword, RowsInv, Aimed
<1>2. PICK u : u = rows[i] /\ rows' = [rows EXCEPT ![i] = [u EXCEPT !.password = w]]
  BY DEF SetPassword
<1>3. PICK v : v = [u EXCEPT !.password = w]
  OBVIOUS
<1>4. /\ IsRow(v) /\ v.email = u.email /\ v.verified = u.verified
      /\ v.version = u.version /\ v.password = w /\ v.mfa = u.mfa
  BY <1>1, <1>2, <1>3 DEF IsRow
<1>5. Written(i) /\ rows'[i] = v
  BY <1>1, <1>2, <1>3, <1>4, Put
<1>. QED
  BY <1>1, <1>2, <1>4, <1>5 DEF Same

LEMMA DisableEffect ==
    ASSUME RowsInv, NEW d \in Calls, Disable(d)
    PROVE  \E i \in Rows : rows[i] # NoRow /\ Written(i) /\ Same(i) /\ Steady(i)
<1>1. PICK i \in Rows : rows[i] # NoRow /\ rows' = [rows EXCEPT ![i].active = FALSE]
  BY DEF Disable, Stored
<1>2. PICK u : u = rows[i] /\ rows' = [rows EXCEPT ![i] = [u EXCEPT !.active = FALSE]]
  BY <1>1
<1>3. PICK v : v = [u EXCEPT !.active = FALSE]
  OBVIOUS
<1>4. IsRow(u)
  BY <1>2 DEF RowsInv
<1>5. /\ IsRow(v) /\ v.email = u.email /\ v.verified = u.verified
      /\ v.version = u.version /\ v.password = u.password /\ v.mfa = u.mfa
  BY <1>3, <1>4 DEF IsRow
<1>6. Written(i) /\ rows'[i] = v
  BY <1>2, <1>3, <1>5, Put
<1>. QED
  BY <1>1, <1>2, <1>5, <1>6 DEF Same, Steady

LEMMA BumpEffect ==
    ASSUME Shape, RowsInv, NEW c \in Calls, NEW i, i = target[c], Bump(c)
    PROVE  /\ i \in Rows /\ Written(i) /\ Same(i)
           /\ rows'[i].version = rows[i].version + 1 /\ rows'[i].password = rows[i].password
           /\ rows'[i].mfa = rows[i].mfa
           /\ target'[c] = i /\ copy'[c] = rows'[i] /\ era'[c] = claims[i]
<1>1. i \in Rows /\ IsRow(rows[i])
  BY DEF Bump, RowsInv, Aimed
<1>2. PICK u, v : /\ u = rows[i] /\ v = [u EXCEPT !.version = u.version + 1]
                  /\ rows' = [rows EXCEPT ![i] = v] /\ Holds(c, i, v, claims[i])
  BY DEF Bump
<1>3. u.version + 1 \in Nat
  BY <1>1, <1>2 DEF IsRow
<1>4. /\ IsRow(v) /\ v.email = u.email /\ v.verified = u.verified
      /\ v.version = u.version + 1 /\ v.password = u.password /\ v.mfa = u.mfa
  BY <1>1, <1>2, <1>3 DEF IsRow
<1>5. Written(i) /\ rows'[i] = v
  BY <1>1, <1>2, <1>4, Put
<1>6. target'[c] = i /\ copy'[c] = v /\ era'[c] = claims[i]
  BY <1>2 DEF Holds, Shape
<1>. QED
  BY <1>1, <1>2, <1>4, <1>5, <1>6 DEF Same

LEMMA LinkEffect ==
    ASSUME Shape, RowsInv, NEW c \in Calls, NEW i, i = target[c], Link(c)
    PROVE  /\ i \in Rows
           /\ \/ UNCHANGED <<rows, claims, proved>> /\ Keeps(c) /\ pc'[c] = "error"
              \/ /\ Written(i) /\ rows'[i].email = rows[i].email /\ rows'[i].version = rows[i].version
                 /\ target'[c] = i /\ copy'[c] = rows'[i] /\ era'[c] = claims'[i] /\ Vouches(c, i)
                 /\ ClaimsAt(i)
                 /\ \/ /\ copy[c].verified /\ Same(i) /\ Steady(i) /\ Unclaimed(i)
                       /\ pc'[c] = "resolved"
                    \/ /\ ~copy[c].verified /\ rows'[i].verified = TRUE
                       /\ rows'[i].password = Unusable /\ (rows'[i].mfa => rows[i].mfa /\ ~copy[c].mfa)
                       /\ claims'[i] = claims[i] \cup {c} /\ pc'[c] = "bump"
<1>1. i \in Rows /\ IsRow(rows[i]) /\ copy[c].mfa \in BOOLEAN
  BY DEF Link, RowsInv, Aimed, IsRow
<1>2. PICK u, v, p : u = rows[i] /\ p = Profile(c) /\ v = Linked(u, copy[c], p)
  OBVIOUS
<1>3. PICK n : n = IF copy[c].verified THEN claims[i] ELSE claims[i] \cup {c}
  OBVIOUS
<1>4. \/ UNCHANGED <<rows, claims, proved, working, era>> /\ Answer(c, "error")
      \/ /\ rows' = [rows EXCEPT ![i] = v] /\ claims' = [claims EXCEPT ![i] = n]
         /\ Holds(c, i, v, n) /\ Vouches(c, i)
         /\ Goto(c, IF copy[c].verified THEN "resolved" ELSE "bump")
  BY <1>2, <1>3 DEF Link
<1>5. CASE UNCHANGED <<rows, claims, proved, working, era>> /\ Answer(c, "error")
  BY <1>1, <1>5, AnswerClears DEF working, Keeps, Goto, Shape
<1>6. CASE /\ rows' = [rows EXCEPT ![i] = v] /\ claims' = [claims EXCEPT ![i] = n]
           /\ Holds(c, i, v, n) /\ Vouches(c, i)
           /\ Goto(c, IF copy[c].verified THEN "resolved" ELSE "bump")
  <2>1. /\ target'[c] = i /\ copy'[c] = v /\ era'[c] = n
        /\ pc'[c] = IF copy[c].verified THEN "resolved" ELSE "bump"
    BY <1>6 DEF Holds, Shape, Goto
  <2>2. ClaimsAt(i) /\ claims'[i] = n
    BY <1>1, <1>6 DEF RowsInv, ClaimsAt
  <2>3. CASE copy[c].verified
    <3>1. PICK f : v = [u EXCEPT !.ids = f]
      BY <1>2, <2>3 DEF Linked
    <3>2. /\ IsRow(v) /\ v.email = u.email /\ v.verified = u.verified
          /\ v.version = u.version /\ v.password = u.password /\ v.mfa = u.mfa
      BY <1>1, <1>2, <3>1 DEF IsRow
    <3>3. Written(i) /\ rows'[i] = v
      BY <1>1, <1>6, <3>2, Put
    <3>4. Same(i) /\ Steady(i) /\ rows'[i].email = rows[i].email /\ rows'[i].version = rows[i].version
      BY <1>2, <3>2, <3>3 DEF Same, Steady
    <3>5. Unclaimed(i) /\ pc'[c] = "resolved"
      BY <1>3, <2>1, <2>2, <2>3 DEF Unclaimed
    <3>. QED
      BY <1>1, <1>6, <2>1, <2>2, <2>3, <3>3, <3>4, <3>5
  <2>4. CASE ~copy[c].verified
    <3>1. PICK f, b : /\ v = [u EXCEPT !.ids = f, !.password = Unusable, !.verified = TRUE, !.mfa = b]
                      /\ b = (u.mfa /\ ~copy[c].mfa)
      BY <1>2, <2>4 DEF Linked
    <3>2. /\ IsRow(v) /\ v.email = u.email /\ v.verified = TRUE
          /\ v.version = u.version /\ v.password = Unusable /\ v.mfa = b
      BY <1>1, <1>2, <3>1 DEF IsRow
    <3>3. Written(i) /\ rows'[i] = v
      BY <1>1, <1>6, <3>2, Put
    <3>4. rows'[i].mfa => rows[i].mfa /\ ~copy[c].mfa
      BY <1>2, <3>1, <3>2, <3>3
    <3>5. n = claims[i] \cup {c} /\ pc'[c] = "bump"
      BY <1>3, <2>1, <2>4
    <3>6. /\ rows'[i].email = rows[i].email /\ rows'[i].version = rows[i].version
          /\ rows'[i].verified = TRUE /\ rows'[i].password = Unusable
      BY <1>2, <3>2, <3>3
    <3>7. /\ Vouches(c, i) /\ copy'[c] = rows'[i] /\ target'[c] = i /\ era'[c] = claims'[i]
          /\ claims'[i] = claims[i] \cup {c}
      BY <1>6, <2>1, <2>2, <3>3, <3>5
    <3>. QED
      BY <1>1, <2>2, <2>4, <3>3, <3>4, <3>5, <3>6, <3>7
  <2>. QED
    BY <2>3, <2>4
<1>. QED
  BY <1>4, <1>5, <1>6
LEMMA LinkWrites ==
    ASSUME Shape, RowsInv, NEW c \in Calls, NEW i, i = target[c], Link(c), pc'[c] # "error"
    PROVE  i \in Rows /\ Written(i) /\ target'[c] = i /\ copy'[c] = rows'[i] /\ ClaimsAt(i)
BY LinkEffect, ZenonT(60)

LEMMA LinkClaims ==
    ASSUME Shape, RowsInv, NEW c \in Calls, NEW i, i = target[c], Link(c), pc'[c] # "error"
    PROVE  \/ Steady(i) /\ Unclaimed(i) /\ pc'[c] = "resolved"
           \/ /\ rows'[i].password = Unusable /\ (rows'[i].mfa => rows[i].mfa /\ ~copy[c].mfa)
              /\ claims'[i] = claims[i] \cup {c} /\ pc'[c] = "bump"
<1>1. CASE copy[c].verified
  BY <1>1, LinkEffect
<1>2. CASE ~copy[c].verified
  BY <1>2, LinkEffect, ZenonT(60)
<1>. QED
  BY <1>1, <1>2

LEMMA InsertEffect ==
    ASSUME RowsInv, NEW r \in Registrations, Insert(r)
    PROVE  \/ UNCHANGED rows /\ Goto(r, "existing")
           \/ /\ Written(r) /\ rows'[r].email = given[r].email /\ rows'[r].version = 0
              /\ rows'[r].verified = ("email_verified" \in given[r].fields)
              /\ rows'[r].password = r /\ rows'[r].mfa = FALSE
              /\ \E label \in {"send", "created"} : Goto(r, label)
<1>1. r \in Rows
  BY DEF Rows
<1>2. CASE UNCHANGED rows /\ Goto(r, "existing")
  BY <1>2
<1>3. CASE ~(UNCHANGED rows /\ Goto(r, "existing"))
  <2>1. PICK v : /\ v = Registered(r, given[r].email, given[r].name, given[r].fields)
                 /\ rows' = [rows EXCEPT ![r] = v] /\ Goto(r, IF Mail THEN "send" ELSE "created")
    BY <1>3 DEF Insert
  <2>2. PICK e, n, b : /\ e = given[r].email /\ n = given[r].name /\ b = ("email_verified" \in given[r].fields)
                       /\ v = [NoRow EXCEPT !.email = e, !.name = n, !.verified = b, !.password = r,
                                            !.active = TRUE]
    BY <2>1 DEF Registered
  <2>3. b \in BOOLEAN
    BY <2>2
  <2>4. /\ IsRow(v) /\ v.email = e /\ v.version = 0 /\ v.verified = b /\ v.password = r /\ v.mfa = FALSE
    BY <2>2, <2>3 DEF NoRow, IsRow
  <2>5. Written(r) /\ rows'[r] = v
    BY <1>1, <2>1, <2>4, Put
  <2>6. \E label \in {"send", "created"} : Goto(r, label)
    BY <2>1
  <2>7. rows'[r].verified = ("email_verified" \in given[r].fields)
    BY <2>2, <2>4, <2>5
  <2>. QED
    BY <2>2, <2>4, <2>5, <2>6, <2>7
<1>. QED
  BY <1>2, <1>3

LEMMA CreateEffect ==
    ASSUME Shape, RowsInv, NEW c \in Callbacks, CreateUser(c)
    PROVE  \/ /\ UNCHANGED <<rows, proved, target, copy, era>>
              /\ pc'[c] \in {"retry", "error"}
           \/ /\ Written(c) /\ rows'[c].email = Profile(c).email /\ rows'[c].verified = TRUE
              /\ rows'[c].version = 0 /\ rows'[c].password = Unusable /\ rows'[c].mfa = FALSE
              /\ target'[c] = c /\ copy'[c] = rows'[c] /\ era'[c] = {} /\ Vouches(c, c) /\ pc'[c] = "resolved"
<1>1. c \in Rows /\ c \in Calls
  BY DEF Rows, Calls
<1>2. PICK v, p : /\ p = Profile(c)
                  /\ v = [NoRow EXCEPT !.email = p.email, !.name = name[c], !.ids[p.provider] = p.account,
                                       !.verified = TRUE, !.active = TRUE]
  OBVIOUS
<1>3. \/ /\ rows' = [rows EXCEPT ![c] = v] /\ Holds(c, c, v, {}) /\ Vouches(c, c) /\ Goto(c, "resolved")
      \/ /\ UNCHANGED <<rows, proved, target, copy, era>> /\ (Goto(c, "retry") \/ Answer(c, "error"))
  BY <1>2 DEF CreateUser, working
<1>4. CASE rows' = [rows EXCEPT ![c] = v] /\ Holds(c, c, v, {}) /\ Vouches(c, c) /\ Goto(c, "resolved")
  <2>1. PICK f : v = [NoRow EXCEPT !.email = p.email, !.name = name[c], !.ids = f,
                                   !.verified = TRUE, !.active = TRUE]
    BY <1>2 DEF NoRow
  <2>2. /\ IsRow(v) /\ v.email = p.email /\ v.version = 0 /\ v.verified = TRUE /\ v.password = Unusable
        /\ v.mfa = FALSE
    BY <2>1 DEF NoRow, IsRow
  <2>3. Written(c) /\ rows'[c] = v
    BY <1>1, <1>4, <2>2, Put
  <2>4. target'[c] = c /\ copy'[c] = v /\ era'[c] = {} /\ pc'[c] = "resolved"
    BY <1>1, <1>4 DEF Holds, Shape, Goto
  <2>. QED
    BY <1>2, <1>4, <2>2, <2>3, <2>4
<1>5. CASE UNCHANGED <<rows, proved, target, copy, era>> /\ (Goto(c, "retry") \/ Answer(c, "error"))
  <2>1. Goto(c, "retry") \/ Goto(c, "error")
    BY <1>5 DEF Answer
  <2>2. pc'[c] \in {"retry", "error"}
    BY <1>1, <2>1 DEF Goto, Shape
  <2>. QED
    BY <1>5, <2>2
<1>. QED
  BY <1>3, <1>4, <1>5
-----------------------------------------------------------------------------
(* Rows that are stored, or will never be: the row of a registration or a   *)
(* callback is empty until it creates the account, and no call, session or  *)
(* link is about an empty row.                                              *)
Before == {"idle", "start", "email", "name", "insert", "take", "exchange", "byid", "byemail", "create", "retry"}

Born == {i \in Rows : i \in Registrations \cup Callbacks => pc[i] \notin Before}

FreshInv ==
    /\ \A i \in Rows \ Born : rows[i] = NoRow /\ claims[i] = {}
    /\ \A o \in Calls : pc[o] \in Aimed => target[o] \in Born
    /\ \A s \in sessions : s.row \in Born
    /\ \A l \in mailed : l.row \in Born

Base == Shape /\ RowsInv /\ FreshInv

LEMMA StoredIsBorn == FreshInv => \A i \in Stored : i \in Born
BY DEF FreshInv, Stored

(* The kinds of steps.                                                      *)
Quiet(o) == Keeps(o) /\ UNCHANGED <<rows, mailed, sessions, proved, claims, late>>

Reader(o, i) ==
    /\ i \in Born /\ target'[o] = i /\ copy'[o] = rows[i] /\ era'[o] = claims[i]
    /\ UNCHANGED <<rows, mailed, sessions, claims>>

VerifyLink(l) == l.purpose = "verify" /\ l.row \in Stored /\ l.state = <<l.to>>

ChangeLink(l, g) ==
    /\ l.purpose = "change" /\ l.row = target[g] /\ l.by = g
    /\ l.state = <<copy[g].password, copy[g].email, copy[g].version>>

Mailer(o) ==
    /\ Keeps(o) /\ given'[o] = given[o] /\ UNCHANGED <<rows, sessions, proved, claims, late>>
    /\ \A l \in mailed' : l \in mailed \/ VerifyLink(l) \/ (ChangeLink(l, o) /\ o \in Changes /\ pc[o] = "mint")

Issuer(o) ==
    /\ Keeps(o) /\ UNCHANGED <<rows, mailed, proved, claims, late>>
    /\ sessions' = sessions \cup {[row |-> target[o], version |-> copy[o].version, era |-> era[o], by |-> o]}

LEMMA SendIsMail ==
    ASSUME NEW o, NEW e, SendVerification(o, e), NEW l \in mailed'
    PROVE  l \in mailed \/ VerifyLink(l)
<1>1. PICK sent : mailed' = mailed \cup sent
                  /\ \A x \in sent : \E i \in ByEmail(e) : x = MintToken("verify", o, i, rows[i], e)
  BY DEF SendVerification, Deliver
<1>2. CASE l \in sent
  <2>1. PICK i \in ByEmail(e) : l = MintToken("verify", o, i, rows[i], e)
    BY <1>1, <1>2
  <2>. QED
    BY <2>1 DEF MintToken, StateFingerprint, ByEmail, VerifyLink, Stored
<1>. QED
  BY <1>1, <1>2

LEMMA RegisterKinds ==
    ASSUME Base, NEW r \in Registrations, RegisterStep(r)
    PROVE  \/ /\ Quiet(r)
              /\ \/ pc[r] = "start" /\ pc'[r] = "email" /\ "email_verified" \notin given'[r].fields
                 \/ pc[r] = "email" /\ pc'[r] \in {"name", "existing"} /\ given'[r] = given[r]
                 \/ pc[r] = "name" /\ pc'[r] \in {"insert", "existing"} /\ given'[r] = given[r]
                 \/ /\ pc[r] \in {"insert", "existing", "existingname"}
                    /\ pc'[r] \in {"existing", "existingname", "enrolled", "duplicate", "taken", "exists"}
           \/ Mailer(r) /\ pc[r] = "send" /\ pc'[r] = "enrolled"
           \/ /\ Keeps(r) /\ pc[r] = "insert" /\ pc'[r] \in {"send", "created"} /\ Written(r)
              /\ rows'[r].verified = ("email_verified" \in given[r].fields) /\ rows'[r].version = 0
              /\ rows'[r].password = r /\ rows'[r].mfa = FALSE
              /\ UNCHANGED <<mailed, sessions, proved, claims, late>>
<1>1. r \in Calls /\ Keeps(r) /\ UNCHANGED <<sessions, proved, claims, late>>
  BY RegisterMoves DEF Calls, Base
<1>. USE <1>1 DEF Base, Shape, Quiet, Goto, links
<1>2. CASE Submit(r)
  <2>1. "email_verified" \notin given'[r].fields
    <3>1. PICK e, n, fields, opted, callback :
            Takes(r, [email |-> e, name |-> n,
                      fields |-> FilterRegistration(fields, opted) \cup ResolveNewUserFields(callback)])
      BY <1>2 DEF Submit
    <3>2. given'[r].fields = FilterRegistration(fields, opted) \cup ResolveNewUserFields(callback)
      BY <3>1 DEF Takes
    <3>3. "email_verified" \notin FilterRegistration(fields, opted)
      BY DEF FilterRegistration, Gated
    <3>4. "email_verified" \notin ResolveNewUserFields(callback)
      BY DEF ResolveNewUserFields, FilterProvisioning, Gated
    <3>. QED
      BY <3>2, <3>3, <3>4
  <2>. QED
    BY <1>2, <2>1 DEF Submit
<1>3. CASE LookEmail(r) \/ LookName(r) \/ ExistingEmail(r) \/ ExistingName(r)
  BY <1>3 DEF LookEmail, LookName, ExistingEmail, ExistingName
<1>4. CASE Insert(r)
  BY <1>4, InsertEffect, ZenonT(60) DEF Insert
<1>5. CASE RegisterSend(r)
  <2>1. \A l \in mailed' : l \in mailed \/ VerifyLink(l)
    BY <1>5, SendIsMail DEF RegisterSend
  <2>. QED
    BY <1>5, <2>1 DEF RegisterSend, Mailer
<1>. QED
  BY <1>2, <1>3, <1>4, <1>5 DEF RegisterStep

LEMMA RequestKinds ==
    ASSUME Base, NEW q \in Requests, RequestVerification(q)
    PROVE  Mailer(q) /\ pc'[q] = "done"
<1>1. \A l \in mailed' : l \in mailed \/ VerifyLink(l)
  BY SendIsMail DEF RequestVerification
<1>2. q \in Calls /\ Keeps(q) /\ UNCHANGED <<rows, sessions, proved, claims, late>>
  BY RequestMoves DEF Calls, Base
<1>. QED
  BY <1>1, <1>2 DEF RequestVerification, Mailer, Base, Shape, Goto

LEMMA ChangeKinds ==
    ASSUME Base, NEW g \in Changes, ChangeStep(g)
    PROVE  \/ \E i \in Rows : /\ Reader(g, i) /\ pc'[g] = "mint" /\ rows[i].password # Unusable
                              /\ UNCHANGED <<proved, late>>
           \/ Mailer(g) /\ pc[g] = "mint" /\ pc'[g] = "done"
<1>1. g \in Calls /\ UNCHANGED <<rows, sessions, proved, claims, late>>
  BY ChangeMoves DEF Calls, Base
<1>. USE <1>1 DEF Base, Shape, Goto, links
<1>2. CASE ChangeRead(g)
  <2>1. PICK i \in Stored : Reads(g, i) /\ rows[i].password # Unusable
    BY <1>2 DEF ChangeRead, IsUnusable
  <2>2. i \in Born /\ i \in Rows
    BY <2>1, StoredIsBorn DEF Stored
  <2>. QED
    BY <1>2, <2>1, <2>2 DEF ChangeRead, Reads, Holds, Reader
<1>3. CASE ChangeMint(g)
  <2>1. PICK l : /\ l = MintToken("change", g, target[g], copy[g], given[g])
                 /\ \A x \in mailed' : x \in mailed \/ x = l
    BY <1>3 DEF ChangeMint, Deliver
  <2>2. ChangeLink(l, g)
    BY <2>1 DEF MintToken, StateFingerprint, ChangeLink
  <2>. QED
    BY <1>3, <2>1, <2>2 DEF ChangeMint, Mailer, Keeps, working, history
<1>. QED
  BY <1>2, <1>3 DEF ChangeStep
LEMMA ConfirmKinds ==
    ASSUME Base, NEW k \in Confirms, ConfirmStep(k)
    PROVE  \/ \E l \in mailed :
                /\ Reader(k, l.row) /\ given'[k] = l /\ proved' = proved \cup {<<l.row, l.to>>} /\ UNCHANGED late
                /\ \/ pc'[k] = "refused"
                   \/ pc'[k] = "consume" /\ l.purpose = "verify" /\ l.state = <<rows[l.row].email>>
                   \/ /\ pc'[k] = "available" /\ l.purpose # "verify"
                      /\ l.state = <<rows[l.row].password, rows[l.row].email, rows[l.row].version>>
           \/ /\ Quiet(k) /\ given'[k] = given[k]
              /\ \/ pc[k] = "available" /\ pc'[k] = "consume"
                 \/ pc[k] = "consume" /\ pc'[k] = "write" /\ given[k].purpose = "change"
                 \/ pc[k] = "consume" /\ pc'[k] = "mark" /\ given[k].purpose # "change"
                 \/ pc'[k] \in {"duplicate", "refused", "done"}
           \/ MarkVerified(k) /\ Keeps(k) /\ given'[k] = given[k] /\ pc[k] = "mark" /\ pc'[k] = "done"
                /\ UNCHANGED <<mailed, sessions, proved, claims, late>>
           \/ WriteEmail(k) /\ Keeps(k) /\ given'[k] = given[k] /\ pc[k] = "write"
                /\ pc'[k] \in {"duplicate", "changed"} /\ UNCHANGED <<mailed, sessions, proved, claims, late>>
<1>1. k \in Calls /\ UNCHANGED <<mailed, sessions, claims, late>>
  BY ConfirmMoves DEF Calls, Base
<1>. USE <1>1 DEF Base, Shape, Goto
<1>2. CASE Redeem(k)
  <2>1. PICK l \in mailed :
          /\ Takes(k, l) /\ Reads(k, l.row) /\ proved' = proved \cup {<<l.row, l.to>>}
          /\ Goto(k, IF ~rows[l.row].active \/ l.state # StateFingerprint(l.purpose, rows[l.row]) THEN "refused"
                     ELSE IF l.purpose = "verify" THEN "consume" ELSE "available")
    BY <1>2 DEF Redeem
  <2>2. l.row \in Born
    BY DEF FreshInv
  <2>3. given'[k] = l /\ Reader(k, l.row)
    BY <1>2, <2>1, <2>2 DEF Redeem, Takes, Reads, Holds, Reader
  <2>4. \/ pc'[k] = "refused"
        \/ pc'[k] = "consume" /\ l.purpose = "verify" /\ l.state = <<rows[l.row].email>>
        \/ /\ pc'[k] = "available" /\ l.purpose # "verify"
           /\ l.state = <<rows[l.row].password, rows[l.row].email, rows[l.row].version>>
    BY <2>1 DEF StateFingerprint
  <2>. QED
    BY <2>1, <2>3, <2>4
<1>3. CASE Available(k)
  BY <1>3, ConfirmMoves DEF Available, Quiet, Keeps, working, history
<1>4. CASE Consume(k)
  BY <1>4, ConfirmMoves DEF Consume, Quiet, Keeps, working, history
<1>5. CASE MarkVerified(k)
  BY <1>5 DEF MarkVerified, Keeps, working, history
<1>6. CASE WriteEmail(k)
  BY <1>6 DEF WriteEmail, Keeps, working
<1>. QED
  BY <1>2, <1>3, <1>4, <1>5, <1>6 DEF ConfirmStep

LEMMA LoginKinds ==
    ASSUME Base, NEW l \in Logins, LoginRead(l) \/ LoginIssue(l) \/ Enroll(l)
    PROVE  \/ \E i \in Rows : Reader(l, i) /\ pc'[l] = "issue" /\ UNCHANGED <<proved, late>>
           \/ Issuer(l) /\ pc[l] = "issue" /\ pc'[l] = "in"
           \/ /\ Enroll(l) /\ Keeps(l) /\ pc[l] = "in" /\ pc'[l] = "done"
              /\ late' = late \cup {c \in Callbacks : target[c] = target[l]}
              /\ UNCHANGED <<mailed, sessions, proved, claims>>
<1>1. l \in Calls
  BY DEF Calls
<1>. USE <1>1 DEF Base, Shape, Goto, links
<1>2. CASE LoginRead(l)
  <2>1. PICK i \in Stored : Reads(l, i)
    BY <1>2 DEF LoginRead
  <2>2. i \in Born /\ i \in Rows
    BY <2>1, StoredIsBorn DEF Stored
  <2>. QED
    BY <1>2, <2>1, <2>2 DEF LoginRead, Reads, Holds, Reader
<1>3. CASE LoginIssue(l)
  BY <1>3 DEF LoginIssue, Issuer, Issue, Keeps, working, history
<1>4. CASE Enroll(l)
  BY <1>4 DEF Enroll, Keeps, working
<1>. QED
  BY <1>2, <1>3, <1>4

LEMMA PasswordKinds ==
    ASSUME Base, NEW w \in SetPasswords, SetPasswordRead(w) \/ SetPassword(w)
    PROVE  \/ \E i \in Rows : Reader(w, i) /\ pc[w] = "start" /\ pc'[w] = "set" /\ UNCHANGED <<proved, late>>
           \/ /\ SetPassword(w) /\ Keeps(w) /\ pc[w] = "set" /\ pc'[w] = "done"
              /\ UNCHANGED <<mailed, sessions, proved, claims, late>>
<1>1. w \in Calls
  BY DEF Calls
<1>. USE <1>1 DEF Base, Shape, Goto, links
<1>2. CASE SetPasswordRead(w)
  <2>1. PICK s \in sessions : Reads(w, s.row)
    BY <1>2 DEF SetPasswordRead
  <2>2. s.row \in Born /\ s.row \in Rows
    BY <2>1 DEF FreshInv, Born
  <2>. QED
    BY <1>2, <2>1, <2>2 DEF SetPasswordRead, Reads, Holds, Reader
<1>3. CASE SetPassword(w)
  BY <1>3 DEF SetPassword, Keeps, working, history
<1>. QED
  BY <1>2, <1>3

LEMMA DisableKinds ==
    ASSUME Base, NEW d \in Disables, Disable(d)
    PROVE  Keeps(d) /\ pc'[d] = "done" /\ UNCHANGED <<mailed, sessions, proved, claims, late>>
BY DisableMoves DEF Disable, Base, Shape, Goto, Calls

LEMMA ArriverKinds ==
    ASSUME Base, FlowsInv, NEW c \in Callbacks,
           (\E b \in Browsers, f \in Flows, p \in Providers : Arrive(c, b, f, p)) \/ TakeState(c) \/ Exchange(c)
    PROVE  /\ Quiet(c) /\ pc[c] \in {"start", "take", "exchange"}
           /\ pc'[c] \in {"take", "exchange", "byid", "refused"}
           /\ pc'[c] = "byid" => given'[c].payload \in Payloads
<1>1. c \in Calls /\ Quiet(c)
  BY ArriverMoves DEF Calls, Base, Quiet
<1>2. pc[c] \in {"start", "take", "exchange"} /\ pc'[c] \in {"take", "exchange", "byid", "refused"}
  BY ArriverMoves DEF Base
<1>3. ASSUME pc'[c] = "byid" PROVE given'[c].payload \in Payloads
  <2>1. ~\E b \in Browsers, f \in Flows, p \in Providers : Arrive(c, b, f, p)
    BY <1>1, <1>3 DEF Arrive, Goto, Base, Shape, Answer
  <2>2. ~TakeState(c)
    BY <1>1, <1>3 DEF TakeState, Goto, Base, Shape, Answer
  <2>3. PICK d \in Payloads : Takes(c, [given[c] EXCEPT !.payload = d]) /\ pc[c] = "exchange"
    BY <1>1, <1>3, <2>1, <2>2 DEF Exchange, Goto, Base, Shape, Answer
  <2>4. IsArrival(given[c])
    BY <2>3 DEF FlowsInv, Flowing, Taken
  <2>5. PICK u : u = given[c] /\ given'[c] = [u EXCEPT !.payload = d]
    BY <1>1, <2>3 DEF Takes, Base, Shape
  <2>. QED
    BY <2>4, <2>5 DEF IsArrival
<1>. QED
  BY <1>1, <1>2, <1>3

LEMMA FinderKinds ==
    ASSUME Base, NEW c \in Callbacks, FindsOrMakes(c)
    PROVE  \/ /\ Quiet(c)
              /\ \/ pc[c] = "byid" /\ pc'[c] = "byemail" /\ Profile(c).vouched
                 \/ pc[c] = "byemail" /\ pc'[c] = "name"
                 \/ pc[c] = "name" /\ pc'[c] \in {"name", "create"}
                 \/ pc[c] = "create" /\ pc'[c] = "retry"
                 \/ pc[c] = "resolved" /\ pc'[c] \in {"challenged", "refused"}
                 \/ pc[c] \in {"byid", "byemail", "link", "create", "retry"} /\ pc'[c] \in {"refused", "error"}
           \/ \E i \in Rows : /\ Reader(c, i) /\ pc[c] = "byid" /\ pc'[c] = "resolved" /\ UNCHANGED <<proved, late>>
           \/ \E i \in Rows : /\ Reader(c, i) /\ pc[c] = "byemail" /\ pc'[c] = "link"
                              /\ rows[i].email = Profile(c).email /\ late' = late \ {c} /\ UNCHANGED proved
           \/ Issuer(c) /\ pc[c] = "resolved" /\ pc'[c] = "in"
           \/ /\ Keeps(c) /\ pc[c] = "evict" /\ pc'[c] = "resolved" /\ sessions' \subseteq sessions
              /\ UNCHANGED <<rows, mailed, proved, claims, late>>
           \/ /\ Bump(c) /\ pc[c] = "bump" /\ pc'[c] = "evict"
              /\ UNCHANGED <<mailed, sessions, proved, claims, late>>
           \/ Link(c) /\ pc[c] = "link" /\ pc'[c] \in {"bump", "resolved"} /\ UNCHANGED <<mailed, sessions, late>>
           \/ /\ CreateUser(c) /\ pc[c] \in {"create", "retry"} /\ pc'[c] = "resolved"
              /\ UNCHANGED <<mailed, sessions, claims, late>>
<1>1. c \in Calls /\ UNCHANGED mailed
  BY FinderMoves DEF Calls, Base
<1>. USE <1>1 DEF Base, Shape, Goto, Quiet, Keeps, working, history
<1>2. CASE FindByOAuth(c)
  <2>1. CASE Goto(c, "byemail") /\ UNCHANGED <<working, era>> /\ Profile(c).vouched
    BY <1>2, <2>1 DEF FindByOAuth
  <2>2. ASSUME NEW i \in Stored, Reads(c, i), Goto(c, "resolved")
        PROVE  Reader(c, i) /\ i \in Rows /\ pc[c] = "byid" /\ pc'[c] = "resolved" /\ UNCHANGED <<proved, late>>
    BY <1>2, <2>2, StoredIsBorn DEF FindByOAuth, Reader, Reads, Holds, Stored
  <2>3. CASE Goto(c, "refused") /\ UNCHANGED <<working, era>>
    BY <1>2, <2>3 DEF FindByOAuth
  <2>. QED
    BY <1>2, <2>1, <2>2, <2>3 DEF FindByOAuth, ByOAuth, Answer
<1>3. CASE FindByEmail(c)
  <2>1. CASE Goto(c, "name") /\ UNCHANGED <<working, era, late>>
    BY <1>3, <2>1 DEF FindByEmail
  <2>2. ASSUME NEW i \in ByEmail(Profile(c).email), Reads(c, i), Goto(c, "link"), late' = late \ {c}
        PROVE  /\ Reader(c, i) /\ i \in Rows /\ pc[c] = "byemail" /\ pc'[c] = "link"
               /\ rows[i].email = Profile(c).email /\ late' = late \ {c} /\ UNCHANGED proved
    BY <1>3, <2>2, StoredIsBorn DEF FindByEmail, Reader, Reads, Holds, Stored, ByEmail
  <2>3. CASE Goto(c, "refused") /\ UNCHANGED <<working, era, late>>
    BY <1>3, <2>3 DEF FindByEmail
  <2>. QED
    BY <1>3, <2>1, <2>2, <2>3 DEF FindByEmail, Answer
<1>4. CASE Link(c)
  BY <1>4, LinkEffect, ZenonT(60) DEF Link
<1>5. CASE Bump(c)
  BY <1>5 DEF Bump
<1>6. CASE Evict(c)
  BY <1>6 DEF Evict
<1>7. CASE UniqueUsername(c)
  BY <1>7 DEF UniqueUsername, oauth
<1>8. CASE CreateUser(c)
  <2>1. pc[c] = "create" \/ (pc[c] = "retry" /\ pc'[c] # "retry")
    BY <1>8 DEF CreateUser, Answer
  <2>. QED
    BY <1>8, <2>1, CreateEffect DEF CreateUser
<1>9. CASE SignIn(c)
  BY <1>9 DEF SignIn, Issuer, Issue, Answer
<1>. QED
  BY <1>2, <1>3, <1>4, <1>5, <1>6, <1>7, <1>8, <1>9 DEF FindsOrMakes
LEMMA BornStays ==
    ASSUME NEW o \in Calls, Alone(o), pc'[o] \in Before => pc[o] \in Before
    PROVE  Born \subseteq Born'
BY DEF Alone, Born, Calls

LEMMA BaseKept ==
    ASSUME Base, Shape', NEW o \in Calls, Alone(o), Born \subseteq Born',
           rows' = [i \in Rows |-> rows'[i]], \A i \in Rows : IsRow(rows'[i]), claims' = [i \in Rows |-> claims'[i]],
           \A i \in Rows \ Born' : rows'[i] = rows[i] /\ claims'[i] = claims[i],
           IsRow(copy'[o]), pc'[o] \in Aimed => target'[o] \in Born',
           \A s \in sessions' : s \in sessions \/ s.row \in Born',
           \A l \in mailed' : l \in mailed \/ l.row \in Born'
    PROVE  Base'
<1>1. Born' \subseteq Rows
  BY DEF Born
<1>2. \A x \in Calls : IsRow(copy'[x]) /\ (pc'[x] \in Aimed => target'[x] \in Born')
  BY DEF Base, RowsInv, FreshInv, Alone
<1>3. (\A s \in sessions' : s.row \in Born') /\ (\A l \in mailed' : l.row \in Born')
  BY DEF Base, FreshInv
<1>4. RowsInv'
  BY <1>1, <1>2, <1>3 DEF RowsInv
<1>5. FreshInv'
  BY <1>2, <1>3 DEF FreshInv, Base
<1>. QED
  BY <1>4, <1>5 DEF Base

LEMMA QuietKeepsBase ==
    ASSUME Base, Shape', NEW o \in Calls, Alone(o), pc'[o] \in Before => pc[o] \in Before,
           Quiet(o), pc'[o] \in Aimed => pc[o] \in Aimed
    PROVE  Base'
<1>1. Born \subseteq Born'
  BY BornStays
<1>2. /\ IsRow(copy'[o]) /\ (pc'[o] \in Aimed => target'[o] \in Born')
  BY <1>1 DEF Quiet, Keeps, Base, RowsInv, FreshInv
<1>. QED
  BY <1>1, <1>2, BaseKept DEF Quiet, Base, RowsInv

LEMMA ReaderKeepsBase ==
    ASSUME Base, Shape', NEW o \in Calls, Alone(o), pc'[o] \in Before => pc[o] \in Before,
           NEW i, Reader(o, i)
    PROVE  Base'
<1>1. Born \subseteq Born'
  BY BornStays
<1>2. i \in Rows
  BY DEF Reader, Born
<1>3. IsRow(copy'[o]) /\ target'[o] \in Born'
  BY <1>1, <1>2 DEF Reader, Base, RowsInv
<1>. QED
  BY <1>1, <1>3, BaseKept DEF Reader, Base, RowsInv

LEMMA MailerKeepsBase ==
    ASSUME Base, Shape', NEW o \in Calls, Alone(o), Mailer(o), pc'[o] \notin Before \cup Aimed
    PROVE  Base'
<1>1. Born \subseteq Born'
  BY BornStays
<1>2. IsRow(copy'[o])
  BY DEF Mailer, Keeps, Base, RowsInv
<1>3. \A l \in mailed' : l \in mailed \/ l.row \in Born'
  <2>1. pc[o] = "mint" => target[o] \in Born
    BY DEF Base, FreshInv, Aimed
  <2>2. \A l : VerifyLink(l) => l.row \in Born
    BY StoredIsBorn DEF VerifyLink, Base
  <2>. QED
    BY <1>1, <2>1, <2>2 DEF Mailer, ChangeLink
<1>. QED
  BY <1>1, <1>2, <1>3, BaseKept DEF Mailer, Base, RowsInv

LEMMA IssuerKeepsBase ==
    ASSUME Base, Shape', NEW o \in Calls, Alone(o), Issuer(o), pc'[o] \notin Before, pc[o] \in Aimed
    PROVE  Base'
<1>1. Born \subseteq Born'
  BY BornStays
<1>2. IsRow(copy'[o]) /\ target[o] \in Born /\ target'[o] = target[o]
  BY DEF Issuer, Keeps, Base, RowsInv, FreshInv
<1>3. \A s \in sessions' : s \in sessions \/ s.row \in Born'
  BY <1>1, <1>2 DEF Issuer
<1>. QED
  BY <1>1, <1>2, <1>3, BaseKept DEF Issuer, Base, RowsInv

LEMMA WriterKeepsBase ==
    ASSUME Base, Shape', NEW o \in Calls, Alone(o), pc'[o] \notin Before,
           NEW i \in Born', Written(i),
           ClaimsAt(i),
           IsRow(copy'[o]), pc'[o] \in Aimed => target'[o] \in Born', UNCHANGED <<mailed, sessions>>
    PROVE  Base'
<1>1. Born \subseteq Born'
  BY BornStays
<1>2. \A j \in Rows : IsRow(rows'[j])
  BY DEF Written, Base, RowsInv
<1>3. rows' = [j \in Rows |-> rows'[j]] /\ \A j \in Rows \ Born' : rows'[j] = rows[j] /\ claims'[j] = claims[j]
  BY DEF Written, ClaimsAt
<1>. QED
  BY <1>1, <1>2, <1>3, BaseKept DEF ClaimsAt

(* A write by a call that keeps what it remembers.                          *)
LEMMA KeeperKeepsBase ==
    ASSUME Base, Shape', NEW o \in Calls, Alone(o), Keeps(o), pc'[o] \notin Before \cup Aimed,
           NEW i \in Born', Written(i), UNCHANGED <<mailed, sessions, claims>>
    PROVE  Base'
<1>1. IsRow(copy'[o])
  BY DEF Keeps, Base, RowsInv
<1>. QED
  BY <1>1, WriterKeepsBase DEF Base, RowsInv, ClaimsAt
LEMMA AimedIsNotBefore == Aimed \cap Before = {}
BY DEF Aimed, Before

LEMMA BaseOfRegistration ==
    ASSUME Base, NEW r \in Registrations, RegisterStep(r)
    PROVE  Base'
<1>1. r \in Calls /\ r \in Rows /\ Shape' /\ Alone(r)
  BY RegisterMoves DEF Base, Calls, Rows
<1>2. CASE /\ Quiet(r)
           /\ \/ pc[r] \in {"start", "email", "name"} /\ pc'[r] \in {"email", "name", "insert"}
              \/ pc'[r] \in {"existing", "existingname", "enrolled", "duplicate", "taken", "exists"}
  BY <1>1, <1>2, QuietKeepsBase DEF Before, Aimed
<1>3. CASE Mailer(r) /\ pc'[r] = "enrolled"
  BY <1>1, <1>3, MailerKeepsBase DEF Before, Aimed
<1>4. CASE Keeps(r) /\ pc'[r] \in {"send", "created"} /\ Written(r) /\ UNCHANGED <<mailed, sessions, claims>>
  <2>1. r \in Born' /\ pc'[r] \notin Before \cup Aimed
    BY <1>1, <1>4 DEF Born, Before, Aimed
  <2>. QED
    BY <1>1, <1>4, <2>1, KeeperKeepsBase
<1>. QED
  BY <1>2, <1>3, <1>4, RegisterKinds

LEMMA BaseOfConfirm ==
    ASSUME Base, NEW k \in Confirms, ConfirmStep(k)
    PROVE  Base'
<1>1. k \in Calls /\ Shape' /\ Alone(k) /\ k \notin Registrations \cup Callbacks
  BY ConfirmMoves, CallsDisjoint DEF Base, Calls
<1>2. ASSUME NEW l \in mailed, Reader(k, l.row), pc'[k] \in {"refused", "consume", "available"} PROVE Base'
  BY <1>1, <1>2, ReaderKeepsBase DEF Before
<1>3. CASE /\ Quiet(k)
           /\ \/ pc[k] = "available" /\ pc'[k] = "consume"
              \/ pc[k] = "consume" /\ pc'[k] \in {"write", "mark"}
              \/ pc'[k] \in {"duplicate", "refused", "done"}
  BY <1>1, <1>3, QuietKeepsBase DEF Before, Aimed
<1>4. CASE MarkVerified(k) /\ Keeps(k) /\ pc[k] = "mark" /\ pc'[k] = "done" /\ UNCHANGED <<mailed, sessions, claims>>
  <2>1. target[k] \in Born' /\ Written(target[k]) /\ pc'[k] \notin Before \cup Aimed
    BY <1>1, <1>4, MarkEffect, BornStays DEF Base, FreshInv, Aimed, Before
  <2>. QED
    BY <1>1, <1>4, <2>1, KeeperKeepsBase
<1>5. CASE WriteEmail(k) /\ Keeps(k) /\ pc[k] = "write" /\ pc'[k] \in {"duplicate", "changed"}
             /\ UNCHANGED <<mailed, sessions, proved, claims, late>>
  <2>1. target[k] \in Born' /\ (UNCHANGED rows \/ Written(target[k])) /\ pc'[k] \notin Before \cup Aimed
    BY <1>1, <1>5, WriteEffect, BornStays DEF Base, FreshInv, Aimed, Before
  <2>. QED
    BY <1>1, <1>5, <2>1, KeeperKeepsBase, QuietKeepsBase DEF Quiet
<1>. QED
  BY <1>2, <1>3, <1>4, <1>5, ConfirmKinds

LEMMA BaseOfUser ==
    ASSUME Base,
           \/ \E q \in Requests : RequestVerification(q)
           \/ \E g \in Changes : ChangeStep(g)
           \/ \E l \in Logins : LoginRead(l) \/ LoginIssue(l) \/ Enroll(l)
           \/ \E w \in SetPasswords : SetPasswordRead(w) \/ SetPassword(w)
           \/ \E d \in Disables : Disable(d)
    PROVE  Base'
<1>1. ASSUME NEW q \in Requests, RequestVerification(q) PROVE Base'
  BY <1>1, RequestMoves, RequestKinds, MailerKeepsBase DEF Base, Calls, Before, Aimed
<1>2. ASSUME NEW g \in Changes, ChangeStep(g) PROVE Base'
  <2>1. g \in Calls /\ Shape' /\ Alone(g)
    BY <1>2, ChangeMoves DEF Base, Calls
  <2>2. ASSUME NEW i \in Rows, Reader(g, i), pc'[g] = "mint" PROVE Base'
    BY <2>1, <2>2, ReaderKeepsBase DEF Before
  <2>3. CASE Mailer(g) /\ pc'[g] = "done"
    BY <2>1, <2>3, MailerKeepsBase DEF Before, Aimed
  <2>. QED
    BY <1>2, <2>2, <2>3, ChangeKinds
<1>3. ASSUME NEW l \in Logins, LoginRead(l) \/ LoginIssue(l) \/ Enroll(l) PROVE Base'
  <2>1. l \in Calls /\ Shape' /\ Alone(l)
    BY <1>3, LoginMoves DEF Base, Calls
  <2>2. ASSUME NEW i \in Rows, Reader(l, i), pc'[l] = "issue" PROVE Base'
    BY <2>1, <2>2, ReaderKeepsBase DEF Before
  <2>3. CASE Issuer(l) /\ pc[l] = "issue" /\ pc'[l] = "in"
    BY <2>1, <2>3, IssuerKeepsBase DEF Before, Aimed
  <2>4. CASE Enroll(l) /\ Keeps(l) /\ pc[l] = "in" /\ pc'[l] = "done" /\ UNCHANGED <<mailed, sessions, claims>>
    <3>1. target[l] \in Born' /\ Written(target[l]) /\ pc'[l] \notin Before \cup Aimed
      BY <2>1, <2>4, EnrollEffect, BornStays DEF Base, FreshInv, Aimed, Before
    <3>. QED
      BY <2>1, <2>4, <3>1, KeeperKeepsBase
  <2>. QED
    BY <1>3, <2>2, <2>3, <2>4, LoginKinds
<1>4. ASSUME NEW w \in SetPasswords, SetPasswordRead(w) \/ SetPassword(w) PROVE Base'
  <2>1. w \in Calls /\ Shape' /\ Alone(w)
    BY <1>4, PasswordMoves DEF Base, Calls
  <2>2. ASSUME NEW i \in Rows, Reader(w, i), pc'[w] = "set" PROVE Base'
    BY <2>1, <2>2, ReaderKeepsBase DEF Before
  <2>3. CASE SetPassword(w) /\ Keeps(w) /\ pc[w] = "set" /\ pc'[w] = "done" /\ UNCHANGED <<mailed, sessions, claims>>
    <3>1. target[w] \in Born' /\ Written(target[w]) /\ pc'[w] \notin Before \cup Aimed
      BY <2>1, <2>3, PasswordEffect, BornStays DEF Base, FreshInv, Aimed, Before
    <3>. QED
      BY <2>1, <2>3, <3>1, KeeperKeepsBase
  <2>. QED
    BY <1>4, <2>2, <2>3, PasswordKinds
<1>5. ASSUME NEW d \in Disables, Disable(d) PROVE Base'
  <2>1. d \in Calls /\ Shape' /\ Alone(d) /\ Keeps(d) /\ pc'[d] = "done" /\ UNCHANGED <<mailed, sessions, claims>>
    BY <1>5, DisableMoves, DisableKinds DEF Base, Calls
  <2>2. PICK i \in Rows : rows[i] # NoRow /\ Written(i)
    BY <1>5, <2>1, DisableEffect DEF Base
  <2>3. i \in Born' /\ pc'[d] \notin Before \cup Aimed
    BY <2>1, <2>2, BornStays DEF Base, FreshInv, Aimed, Before
  <2>. QED
    BY <2>1, <2>2, <2>3, KeeperKeepsBase
<1>. QED
  BY <1>1, <1>2, <1>3, <1>4, <1>5

LEMMA BaseOfCallback ==
    ASSUME Base, FlowsInv, NEW c \in Callbacks, CallbackStep(c)
    PROVE  Base'
<1>1. c \in Calls /\ c \in Rows /\ Shape' /\ Alone(c)
  BY ArriverMoves, FinderMoves DEF CallbackStep, FindsOrMakes, Base, Calls, Rows
<1>2. CASE ~FindsOrMakes(c)
  <2>1. Quiet(c) /\ pc[c] \in {"start", "take", "exchange"} /\ pc'[c] \in {"take", "exchange", "byid", "refused"}
    BY <1>2, ArriverKinds DEF CallbackStep, FindsOrMakes
  <2>. QED
    BY <1>1, <2>1, QuietKeepsBase DEF Before, Aimed
<1>3. CASE FindsOrMakes(c)
  <2>1. CASE /\ Quiet(c)
             /\ \/ pc[c] \in {"byid", "byemail", "name", "create"} /\ pc'[c] \in {"byemail", "name", "create", "retry"}
                \/ pc[c] = "resolved" /\ pc'[c] = "challenged"
                \/ pc'[c] \in {"refused", "error"}
    BY <1>1, <2>1, QuietKeepsBase DEF Before, Aimed
  <2>2. ASSUME NEW i \in Rows, Reader(c, i), pc'[c] \in {"resolved", "link"} PROVE Base'
    BY <1>1, <2>2, ReaderKeepsBase DEF Before
  <2>3. CASE Issuer(c) /\ pc[c] = "resolved" /\ pc'[c] = "in"
    BY <1>1, <2>3, IssuerKeepsBase DEF Before, Aimed
  <2>4. CASE /\ Keeps(c) /\ pc[c] = "evict" /\ pc'[c] = "resolved" /\ sessions' \subseteq sessions
             /\ UNCHANGED <<rows, mailed, proved, claims, late>>
    <3>1. Born \subseteq Born' /\ IsRow(copy'[c]) /\ target'[c] \in Born'
      BY <1>1, <2>4, BornStays DEF Keeps, Base, RowsInv, FreshInv, Before, Aimed
    <3>. QED
      BY <1>1, <2>4, <3>1, BaseKept DEF Base, RowsInv
  <2>5. CASE Bump(c) /\ pc[c] = "bump" /\ pc'[c] = "evict" /\ UNCHANGED <<mailed, sessions, claims>>
    <3>1. target[c] \in Born' /\ pc'[c] \notin Before
      BY <1>1, <2>5, BornStays DEF Base, FreshInv, Aimed, Before
    <3>2. Written(target[c]) /\ target'[c] = target[c] /\ IsRow(copy'[c])
      BY <1>1, <2>5, BumpEffect DEF Base, Written
    <3>. QED
      BY <1>1, <2>5, <3>1, <3>2, WriterKeepsBase DEF Base, RowsInv, ClaimsAt
  <2>6. CASE Link(c) /\ pc[c] = "link" /\ pc'[c] \in {"bump", "resolved"} /\ UNCHANGED <<mailed, sessions, late>>
    <3>1. target[c] \in Born' /\ pc'[c] \notin Before
      BY <1>1, <2>6, BornStays DEF Base, FreshInv, Aimed, Before
    <3>2. Written(target[c]) /\ target'[c] = target[c] /\ IsRow(copy'[c]) /\ ClaimsAt(target[c])
      BY <1>1, <2>6, LinkWrites DEF Base, Written
    <3>. QED
      BY <1>1, <2>6, <3>1, <3>2, WriterKeepsBase
  <2>7. CASE CreateUser(c) /\ pc'[c] = "resolved" /\ UNCHANGED <<mailed, sessions, claims, late>>
    <3>1. c \in Born' /\ pc'[c] \notin Before
      BY <1>1, <2>7 DEF Born, Before
    <3>2. Written(c) /\ target'[c] = c /\ IsRow(copy'[c])
      BY <2>7, CreateEffect DEF Base, Written
    <3>. QED
      BY <1>1, <2>7, <3>1, <3>2, WriterKeepsBase DEF Base, RowsInv, ClaimsAt
  <2>. QED
    BY <1>3, <2>1, <2>2, <2>3, <2>4, <2>5, <2>6, <2>7, FinderKinds
<1>. QED
  BY <1>2, <1>3

LEMMA BaseNext == Base /\ FlowsInv /\ [Next]_vars => Base'
<1>. SUFFICES ASSUME Base, FlowsInv, [Next]_vars PROVE Base'
  OBVIOUS
<1>1. CASE UNCHANGED vars
  BY <1>1 DEF vars, Base, Shape, RowsInv, FreshInv, Born
<1>2. ASSUME NEW f \in Flows, NEW b \in Browsers, NEW p \in Providers, Authorize(f, b, p) PROVE Base'
  BY <1>2, AuthorizeMoves DEF Base, RowsInv, FreshInv, Born
<1>. QED
  BY <1>1, <1>2, BaseOfRegistration, BaseOfConfirm, BaseOfUser, BaseOfCallback DEF Next

LEMMA BaseInit == Init => Base
<1>. SUFFICES ASSUME Init PROVE Base
  OBVIOUS
<1>1. PICK mix \in Mixes :
        /\ rows = [i \in Rows |-> IF i \in mix \cap Seeds THEN Registered(i, First, 0, {}) ELSE NoRow]
        /\ pc = [o \in Calls |-> IF o \in mix THEN "start" ELSE "idle"]
  BY DEF Init
<1>2. ASSUME NEW i \in Seeds PROVE IsRow(Registered(i, First, 0, {}))
  <2>1. PICK e, n, fields, v : e = First /\ n = 0 /\ fields = {} /\ v = Registered(i, e, n, fields)
    OBVIOUS
  <2>2. PICK b : /\ b = ("email_verified" \in fields)
                 /\ v = [NoRow EXCEPT !.email = e, !.name = n, !.verified = b, !.password = i, !.active = TRUE]
    BY <2>1 DEF Registered
  <2>3. b \in BOOLEAN
    BY <2>2
  <2>4. IsRow(v)
    BY <2>2, <2>3 DEF NoRow, IsRow
  <2>. QED
    BY <2>1, <2>4
<1>3. \A i \in Rows : IsRow(rows[i])
  BY <1>1, <1>2, NoRowIsRow
<1>4. \A o \in Calls : pc[o] \notin Aimed
  BY <1>1 DEF Aimed
<1>5. RowsInv
  BY <1>1, <1>3, <1>4, NoRowIsRow DEF Init, RowsInv
<1>6. \A i \in Rows \ Born : rows[i] = NoRow
  BY <1>1, CallsDisjoint DEF Born, Calls
<1>7. FreshInv
  BY <1>4, <1>6 DEF Init, FreshInv
<1>. QED
  BY <1>5, <1>7, ShapeInit DEF Base
LEMMA BaseAlways == Spec => [](Base /\ FlowsInv)
<1>1. Base => Shape
  BY DEF Base
<1>. QED
  BY <1>1, BaseInit, FlowsInit, BaseNext, FlowsNext, PTL DEF Spec

-----------------------------------------------------------------------------
(* Verified addresses. An address that a provider vouches for is one that   *)
(* its payload says is verified.                                            *)
LEMMA LeastOf == ASSUME NEW S \in SUBSET Nat, S # {} PROVE \E n \in S : \A m \in S : n <= m
<1>1. \E n \in S : \A m \in S : ~(<<m, n>> \in OpToRel(<, Nat))
  BY NatLessThanWellFounded, WFMin
<1>2. PICK n \in S : \A m \in S : ~(<<m, n>> \in OpToRel(<, Nat))
  BY <1>1
<1>3. \A m \in S : ~(m < n)
  BY <1>2 DEF OpToRel
<1>. QED
  BY <1>3

LEMMA FirstIsOne ==
    ASSUME NEW entries \in Seq(Entry), NEW S \in SUBSET DOMAIN entries, S # {}
    PROVE  \E n \in S : FirstOf(entries, S) = entries[n]
<1>1. S \subseteq Nat
  OBVIOUS
<1>2. \E n \in S : \A m \in S : n <= m
  BY <1>1, LeastOf
<1>3. PICK n \in S : n = CHOOSE x \in S : \A m \in S : x <= m
  BY <1>2
<1>. QED
  BY <1>3 DEF FirstOf

LEMMA VouchedIsVerified ==
    ASSUME NEW d \in Payloads, ProcessUserInfo(d).vouched
    PROVE  \E n \in DOMAIN d.emails : d.emails[n].verified /\ d.emails[n].email = ProcessUserInfo(d).email
<1>1. PICK entries \in Seq(Entry) : entries = d.emails
  BY PayloadsAssumption
<1>2. PICK e : /\ e = IF d.provider \in Listing THEN SelectGithubEmail(entries) ELSE ClaimedEmail(entries)
               /\ ProcessUserInfo(d).email = e.email /\ e.verified
  BY <1>1 DEF ProcessUserInfo
<1>4. e = ClaimedEmail(entries) => \E n \in DOMAIN entries : e = entries[n]
  BY <1>2 DEF ClaimedEmail, NoEntry
<1>5. CASE d.provider \in Listing
  <2>1. PICK primary, verified : /\ primary = {n \in DOMAIN entries : entries[n].primary}
                                 /\ verified = {n \in DOMAIN entries : entries[n].verified}
    OBVIOUS
  <2>2. e = IF primary \cap verified # {} THEN FirstOf(entries, primary \cap verified)
            ELSE IF verified # {} THEN FirstOf(entries, verified)
            ELSE IF primary # {} THEN FirstOf(entries, primary)
            ELSE ClaimedEmail(entries)
    BY <1>2, <1>5, <2>1 DEF SelectGithubEmail
  <2>3. \A S \in SUBSET DOMAIN entries : S # {} => \E n \in DOMAIN entries : FirstOf(entries, S) = entries[n]
    BY FirstIsOne
  <2>4. \E n \in DOMAIN entries : e = entries[n]
    BY <1>4, <2>1, <2>2, <2>3
  <2>. QED
    BY <1>1, <1>2, <2>4
<1>. QED
  BY <1>1, <1>2, <1>4, <1>5
Telling == {"byid", "byemail", "link", "name", "create", "retry"}

ConfirmProved(k) ==
    /\ pc[k] \in {"available", "consume", "write"} => <<target[k], given[k].to>> \in proved
    /\ pc[k] = "available" => given[k].purpose = "change"
    /\ pc[k] = "mark" \/ (pc[k] = "consume" /\ given[k].purpose # "change")
         => <<target[k], rows[target[k]].email>> \in proved

CallbackProved(c) ==
    /\ pc[c] \in Telling => given[c].payload \in Payloads
    /\ pc[c] \in Telling \ {"byid"} => Profile(c).vouched
    /\ pc[c] = "link" =>
         <<target[c], rows[target[c]].email>> \in proved \/ rows[target[c]].email = Profile(c).email

RegistrationProved(r) ==
    pc[r] \in {"email", "name", "insert"} => "email_verified" \notin given[r].fields

LinkOk(l) == l.purpose \in {"verify", "change"} /\ (l.purpose = "verify" => l.state = <<l.to>>)

Proven(i) == rows[i].verified => <<i, rows[i].email>> \in proved

ProvedInv ==
    /\ \A i \in Rows : Proven(i)
    /\ \A l \in mailed : LinkOk(l)
    /\ \A r \in Registrations : RegistrationProved(r)
    /\ \A k \in Confirms : ConfirmProved(k)
    /\ \A c \in Callbacks : CallbackProved(c)

(* An account in use moves only to an address that was proved.              *)
Stay ==
    /\ proved \subseteq proved'
    /\ \A i \in Born : rows'[i].email = rows[i].email \/ <<i, rows'[i].email>> \in proved'

LEMMA ProvedKept ==
    ASSUME Base, ProvedInv, NEW o \in Calls, Alone(o), Stay,
           \A i \in Rows : Proven(i)', \A l \in mailed' : l \in mailed \/ LinkOk(l),
           o \in Registrations => RegistrationProved(o)', o \in Confirms => ConfirmProved(o)',
           o \in Callbacks => CallbackProved(o)'
    PROVE  ProvedInv'
<1>1. \A r \in Registrations \ {o} : RegistrationProved(r)'
  BY DEF ProvedInv, RegistrationProved, Alone, Calls
<1>2. ASSUME NEW k \in Confirms \ {o} PROVE ConfirmProved(k)'
  <2>1. pc'[k] = pc[k] /\ given'[k] = given[k] /\ target'[k] = target[k] /\ k \in Calls
    BY DEF Alone, Calls
  <2>2. pc[k] \in {"mark", "consume"} => target[k] \in Born
    BY <2>1 DEF Base, FreshInv, Aimed
  <2>. QED
    BY <2>1, <2>2 DEF ProvedInv, ConfirmProved, Stay
<1>3. ASSUME NEW c \in Callbacks \ {o} PROVE CallbackProved(c)'
  <2>1. /\ pc'[c] = pc[c] /\ given'[c] = given[c] /\ target'[c] = target[c] /\ c \in Calls
        /\ Profile(c)' = Profile(c)
    BY DEF Alone, Calls, Profile
  <2>2. pc[c] = "link" => target[c] \in Born
    BY <2>1 DEF Base, FreshInv, Aimed
  <2>. QED
    BY <2>1, <2>2 DEF ProvedInv, CallbackProved, Stay
<1>. QED
  BY <1>1, <1>2, <1>3 DEF ProvedInv

(* Nothing was written.                                                     *)
LEMMA ProvedUnwritten ==
    ASSUME Base, ProvedInv, NEW o \in Calls, Alone(o), UNCHANGED rows, proved \subseteq proved',
           \A l \in mailed' : l \in mailed \/ LinkOk(l),
           o \in Registrations => RegistrationProved(o)', o \in Confirms => ConfirmProved(o)',
           o \in Callbacks => CallbackProved(o)'
    PROVE  ProvedInv'
<1>1. Stay /\ \A i \in Rows : Proven(i)'
  BY DEF Stay, ProvedInv, Proven
<1>. QED
  BY <1>1, ProvedKept

(* One row was written.                                                     *)
LEMMA ProvedWritten ==
    ASSUME Base, ProvedInv, NEW o \in Calls, Alone(o), proved \subseteq proved', UNCHANGED mailed,
           NEW i \in Rows, Written(i), Proven(i)',
           i \in Born => rows'[i].email = rows[i].email \/ <<i, rows'[i].email>> \in proved',
           o \in Registrations => RegistrationProved(o)', o \in Confirms => ConfirmProved(o)',
           o \in Callbacks => CallbackProved(o)'
    PROVE  ProvedInv'
<1>1. Stay
  BY DEF Stay, Written, Born
<1>2. \A j \in Rows : Proven(j)'
  BY DEF ProvedInv, Proven, Written
<1>. QED
  BY <1>1, <1>2, ProvedKept

LEMMA MailerLinks == ASSUME NEW o, Mailer(o) PROVE \A l \in mailed' : l \in mailed \/ LinkOk(l)
BY DEF Mailer, VerifyLink, ChangeLink, LinkOk
LEMMA ProvedOfRegistration ==
    ASSUME Base, ProvedInv, NEW r \in Registrations, RegisterStep(r)
    PROVE  ProvedInv'
<1>1. r \in Calls /\ r \in Rows /\ Alone(r) /\ r \notin Confirms \cup Callbacks
  BY RegisterMoves, CallsDisjoint DEF Base, Calls, Rows
<1>2. RegistrationProved(r)
  BY DEF ProvedInv
<1>3. CASE /\ Quiet(r)
           /\ \/ pc'[r] = "email" /\ "email_verified" \notin given'[r].fields
              \/ pc[r] = "email" /\ pc'[r] \in {"name", "existing"} /\ given'[r] = given[r]
              \/ pc[r] = "name" /\ pc'[r] \in {"insert", "existing"} /\ given'[r] = given[r]
              \/ pc'[r] \in {"existing", "existingname", "enrolled", "duplicate", "taken", "exists"}
  <2>1. RegistrationProved(r)'
    BY <1>2, <1>3 DEF RegistrationProved
  <2>. QED
    BY <1>1, <1>3, <2>1, ProvedUnwritten DEF Quiet
<1>4. CASE Mailer(r) /\ pc'[r] = "enrolled"
  BY <1>1, <1>4, ProvedUnwritten, MailerLinks DEF Mailer, RegistrationProved
<1>5. CASE /\ pc[r] = "insert" /\ pc'[r] \in {"send", "created"} /\ Written(r)
           /\ rows'[r].verified = ("email_verified" \in given[r].fields) /\ UNCHANGED <<mailed, proved>>
  <2>1. ~rows'[r].verified /\ r \notin Born
    BY <1>2, <1>5 DEF RegistrationProved, Born, Before
  <2>. QED
    BY <1>1, <1>5, <2>1, ProvedWritten DEF Proven, RegistrationProved
<1>. QED
  BY <1>3, <1>4, <1>5, RegisterKinds

LEMMA ProvedOfConfirm ==
    ASSUME Base, ProvedInv, NEW k \in Confirms, ConfirmStep(k)
    PROVE  ProvedInv'
<1>1. k \in Calls /\ Alone(k) /\ k \notin Registrations \cup Callbacks
  BY ConfirmMoves, CallsDisjoint DEF Base, Calls
<1>2. ConfirmProved(k)
  BY DEF ProvedInv
<1>3. ASSUME NEW l \in mailed, Reader(k, l.row), given'[k] = l, proved' = proved \cup {<<l.row, l.to>>},
             \/ pc'[k] = "refused"
             \/ pc'[k] = "consume" /\ l.purpose = "verify" /\ l.state = <<rows[l.row].email>>
             \/ pc'[k] = "available" /\ l.purpose # "verify"
      PROVE  ProvedInv'
  <2>1. LinkOk(l)
    BY DEF ProvedInv
  <2>2. l.purpose = "verify" /\ l.state = <<rows[l.row].email>> => l.to = rows[l.row].email
    BY <2>1 DEF LinkOk
  <2>3. ConfirmProved(k)'
    BY <1>3, <2>1, <2>2 DEF ConfirmProved, LinkOk, Reader
  <2>. QED
    BY <1>1, <1>3, <2>3, ProvedUnwritten DEF Reader
<1>4. CASE /\ Quiet(k) /\ given'[k] = given[k]
           /\ \/ pc[k] = "available" /\ pc'[k] = "consume"
              \/ pc[k] = "consume" /\ pc'[k] = "write" /\ given[k].purpose = "change"
              \/ pc[k] = "consume" /\ pc'[k] = "mark" /\ given[k].purpose # "change"
              \/ pc'[k] \in {"duplicate", "refused", "done"}
  <2>1. ConfirmProved(k)'
    BY <1>2, <1>4 DEF ConfirmProved, Quiet, Keeps
  <2>. QED
    BY <1>1, <1>4, <2>1, ProvedUnwritten DEF Quiet
<1>5. CASE MarkVerified(k) /\ pc[k] = "mark" /\ pc'[k] = "done" /\ UNCHANGED <<mailed, proved>>
  <2>1. PICK i \in Rows : i = target[k] /\ Written(i) /\ rows'[i].email = rows[i].email
    BY <1>1, <1>5, MarkEffect DEF Base
  <2>2. Proven(i)'
    BY <1>2, <1>5, <2>1 DEF ConfirmProved, Proven
  <2>3. ConfirmProved(k)'
    BY <1>5 DEF ConfirmProved
  <2>. QED
    BY <1>1, <1>5, <2>1, <2>2, <2>3, ProvedWritten
<1>6. CASE WriteEmail(k) /\ pc[k] = "write" /\ pc'[k] \in {"duplicate", "changed"} /\ UNCHANGED <<mailed, proved>>
  <2>1. PICK i : i = target[k]
    OBVIOUS
  <2>2. UNCHANGED rows \/ (i \in Rows /\ Written(i) /\ rows'[i].email = given[k].to)
    BY <1>1, <1>6, <2>1, WriteEffect DEF Base
  <2>3. <<i, given[k].to>> \in proved
    BY <1>2, <1>6, <2>1 DEF ConfirmProved
  <2>4. ConfirmProved(k)'
    BY <1>6 DEF ConfirmProved
  <2>. QED
    BY <1>1, <1>6, <2>2, <2>3, <2>4, ProvedWritten, ProvedUnwritten DEF Proven
<1>. QED
  BY <1>3, <1>4, <1>5, <1>6, ConfirmKinds

LEMMA ProvedOfUser ==
    ASSUME Base, ProvedInv,
           \/ \E q \in Requests : RequestVerification(q)
           \/ \E g \in Changes : ChangeStep(g)
           \/ \E l \in Logins : LoginRead(l) \/ LoginIssue(l) \/ Enroll(l)
           \/ \E w \in SetPasswords : SetPasswordRead(w) \/ SetPassword(w)
           \/ \E d \in Disables : Disable(d)
    PROVE  ProvedInv'
<1>1. \A o \in Requests \cup Changes \cup Logins \cup SetPasswords \cup Disables :
        o \in Calls /\ o \notin Registrations \cup Confirms \cup Callbacks
  BY CallsDisjoint DEF Calls
(* A write that leaves the address and its flag alone.                      *)
<1>2. ASSUME NEW o \in Calls, o \notin Registrations \cup Confirms \cup Callbacks, Alone(o),
             NEW i \in Rows, Written(i), Same(i), UNCHANGED <<mailed, proved>>
      PROVE  ProvedInv'
  <2>1. Proven(i)'
    BY <1>2 DEF Same, Proven, ProvedInv
  <2>. QED
    BY <1>2, <2>1, ProvedWritten DEF Same
<1>3. ASSUME NEW q \in Requests, RequestVerification(q) PROVE ProvedInv'
  BY <1>1, <1>3, RequestMoves, RequestKinds, ProvedUnwritten, MailerLinks DEF Base, Mailer
<1>4. ASSUME NEW g \in Changes, ChangeStep(g) PROVE ProvedInv'
  <2>1. Alone(g)
    BY <1>4, ChangeMoves DEF Base
  <2>2. CASE UNCHANGED <<rows, mailed, proved>>
    BY <1>1, <2>1, <2>2, ProvedUnwritten
  <2>3. CASE Mailer(g)
    BY <1>1, <2>1, <2>3, ProvedUnwritten, MailerLinks DEF Mailer
  <2>. QED
    BY <1>4, <2>2, <2>3, ChangeKinds DEF Reader
<1>5. ASSUME NEW l \in Logins, LoginRead(l) \/ LoginIssue(l) \/ Enroll(l) PROVE ProvedInv'
  <2>1. Alone(l)
    BY <1>5, LoginMoves DEF Base
  <2>2. CASE UNCHANGED <<rows, mailed, proved>>
    BY <1>1, <2>1, <2>2, ProvedUnwritten
  <2>3. CASE Enroll(l) /\ UNCHANGED <<mailed, proved>>
    BY <1>1, <1>2, <2>1, <2>3, EnrollEffect DEF Base
  <2>. QED
    BY <1>5, <2>2, <2>3, LoginKinds DEF Reader, Issuer
<1>6. ASSUME NEW w \in SetPasswords, SetPasswordRead(w) \/ SetPassword(w) PROVE ProvedInv'
  <2>1. Alone(w)
    BY <1>6, PasswordMoves DEF Base
  <2>2. CASE UNCHANGED <<rows, mailed, proved>>
    BY <1>1, <2>1, <2>2, ProvedUnwritten
  <2>3. CASE SetPassword(w) /\ UNCHANGED <<mailed, proved>>
    BY <1>1, <1>2, <2>1, <2>3, PasswordEffect DEF Base
  <2>. QED
    BY <1>6, <2>2, <2>3, PasswordKinds DEF Reader
<1>7. ASSUME NEW d \in Disables, Disable(d) PROVE ProvedInv'
  <2>1. Alone(d) /\ UNCHANGED <<mailed, proved>> /\ d \in Calls
    BY <1>1, <1>7, DisableMoves DEF Base
  <2>2. PICK i \in Rows : Written(i) /\ Same(i)
    BY <1>7, <2>1, DisableEffect DEF Base
  <2>. QED
    BY <1>1, <1>2, <2>1, <2>2
<1>. QED
  BY <1>3, <1>4, <1>5, <1>6, <1>7

LEMMA ProvedOfCallback ==
    ASSUME Base, FlowsInv, ProvedInv, NEW c \in Callbacks, CallbackStep(c)
    PROVE  ProvedInv'
<1>1. c \in Calls /\ c \in Rows /\ Alone(c) /\ c \notin Registrations \cup Confirms
  BY ArriverMoves, FinderMoves, CallsDisjoint DEF CallbackStep, FindsOrMakes, Base, Calls, Rows
<1>2. CallbackProved(c)
  BY DEF ProvedInv
<1>3. CASE ~FindsOrMakes(c)
  <2>1. /\ Quiet(c) /\ pc'[c] \in {"take", "exchange", "byid", "refused"}
        /\ pc'[c] = "byid" => given'[c].payload \in Payloads
    BY <1>3, ArriverKinds DEF CallbackStep, FindsOrMakes
  <2>2. CallbackProved(c)'
    BY <2>1 DEF CallbackProved, Telling
  <2>. QED
    BY <1>1, <2>1, <2>2, ProvedUnwritten DEF Quiet
<1>4. CASE FindsOrMakes(c)
  <2>1. given'[c] = given[c] /\ Profile(c)' = Profile(c)
    BY <1>4, FinderMoves DEF Base, Profile
  <2>2. CASE /\ Quiet(c)
             /\ \/ pc[c] = "byid" /\ pc'[c] = "byemail" /\ Profile(c).vouched
                \/ pc[c] = "byemail" /\ pc'[c] = "name"
                \/ pc[c] = "name" /\ pc'[c] \in {"name", "create"}
                \/ pc[c] = "create" /\ pc'[c] = "retry"
                \/ pc'[c] \in {"challenged", "refused", "error"}
    <3>1. CallbackProved(c)'
      BY <1>2, <2>1, <2>2 DEF CallbackProved, Telling
    <3>. QED
      BY <1>1, <2>2, <3>1, ProvedUnwritten DEF Quiet
  <2>3. ASSUME NEW i \in Rows, Reader(c, i), UNCHANGED proved,
               \/ pc'[c] = "resolved"
               \/ pc[c] = "byemail" /\ pc'[c] = "link" /\ rows[i].email = Profile(c).email
        PROVE  ProvedInv'
    <3>1. CallbackProved(c)'
      BY <1>2, <2>1, <2>3 DEF CallbackProved, Telling, Reader
    <3>. QED
      BY <1>1, <2>3, <3>1, ProvedUnwritten DEF Reader
  <2>4. CASE UNCHANGED <<rows, mailed, proved>> /\ pc'[c] \in {"in", "resolved"}
    BY <1>1, <2>4, ProvedUnwritten DEF CallbackProved, Telling
  <2>5. CASE Bump(c) /\ pc'[c] = "evict" /\ UNCHANGED <<mailed, proved>>
    <3>1. PICK i \in Rows : Written(i) /\ Same(i)
      BY <1>1, <2>5, BumpEffect DEF Base
    <3>2. Proven(i)' /\ CallbackProved(c)'
      BY <2>5, <3>1 DEF Same, Proven, ProvedInv, CallbackProved, Telling
    <3>. QED
      BY <1>1, <2>5, <3>1, <3>2, ProvedWritten DEF Same
  <2>6. pc[c] \in Telling \ {"byid"} => \A i : Vouches(c, i) => proved \subseteq proved' /\ <<i, Profile(c).email>> \in proved'
    <3>1. pc[c] \in Telling \ {"byid"} =>
            \E n \in DOMAIN given[c].payload.emails :
              given[c].payload.emails[n].verified /\ given[c].payload.emails[n].email = Profile(c).email
      BY <1>2, VouchedIsVerified DEF CallbackProved, Profile
    <3>. QED
      BY <3>1 DEF Vouches
  <2>7. CASE Link(c) /\ pc[c] = "link" /\ pc'[c] \in {"bump", "resolved"} /\ UNCHANGED mailed
    <3>1. PICK i : i = target[c]
      OBVIOUS
    <3>2. i \in Rows /\ Written(i) /\ rows'[i].email = rows[i].email /\ Vouches(c, i)
      BY <1>1, <2>7, <3>1, LinkEffect, ZenonT(60) DEF Base
    <3>3. proved \subseteq proved' /\ <<i, Profile(c).email>> \in proved'
      BY <2>6, <2>7, <3>2 DEF Telling
    <3>4. <<i, rows'[i].email>> \in proved'
      BY <1>2, <2>7, <3>1, <3>2, <3>3 DEF CallbackProved
    <3>5. CallbackProved(c)'
      BY <2>7 DEF CallbackProved, Telling
    <3>. QED
      BY <1>1, <2>7, <3>2, <3>3, <3>4, <3>5, ProvedWritten DEF Proven
  <2>8. CASE CreateUser(c) /\ pc[c] \in {"create", "retry"} /\ pc'[c] = "resolved" /\ UNCHANGED mailed
    <3>1. Written(c) /\ rows'[c].email = Profile(c).email /\ Vouches(c, c)
      BY <2>8, CreateEffect DEF Base
    <3>2. proved \subseteq proved' /\ <<c, rows'[c].email>> \in proved'
      BY <2>6, <2>8, <3>1 DEF Telling
    <3>3. CallbackProved(c)'
      BY <2>8 DEF CallbackProved, Telling
    <3>. QED
      BY <1>1, <2>8, <3>1, <3>2, <3>3, ProvedWritten DEF Proven
  <2>. QED
    BY <1>4, <2>2, <2>3, <2>4, <2>5, <2>7, <2>8, FinderKinds DEF Issuer
<1>. QED
  BY <1>3, <1>4

LEMMA ProvedNext == Base /\ FlowsInv /\ ProvedInv /\ [Next]_vars => ProvedInv'
<1>. SUFFICES ASSUME Base, FlowsInv, ProvedInv, [Next]_vars PROVE ProvedInv'
  OBVIOUS
<1>1. CASE UNCHANGED <<rows, mailed, pc, given, target, proved>>
  BY <1>1 DEF ProvedInv, Proven, RegistrationProved, ConfirmProved, CallbackProved, Profile
<1>2. ASSUME NEW f \in Flows, NEW b \in Browsers, NEW p \in Providers, Authorize(f, b, p) PROVE ProvedInv'
  BY <1>1, <1>2, AuthorizeMoves DEF Base
<1>. QED
  BY <1>1, <1>2, ProvedOfRegistration, ProvedOfConfirm, ProvedOfUser, ProvedOfCallback DEF Next, vars

(* An account's address is verified only if the holder of that very address *)
(* acted for the account: by a link mailed to it, or through a provider     *)
(* that vouches for it, whatever the overlap of verifications, changes of   *)
(* address and claims, and whatever columns were submitted                  *)
(* (email/service.py confirm_recovery_verification, confirm_email_change;   *)
(* oauth/account.py _link, _create_user; schemas filter_registration_data). *)
THEOREM VerifiedAddressesAreProved == Spec => []VerifiedMeansProved
<1>1. Init => ProvedInv
  <2>. SUFFICES ASSUME Init PROVE ProvedInv
    OBVIOUS
  <2>1. \A o \in Calls : pc[o] \in {"idle", "start"}
    BY DEF Init
  <2>2. \A i \in Rows : ~rows[i].verified
    <3>1. PICK mix \in Mixes : rows = [i \in Rows |-> IF i \in mix \cap Seeds THEN Registered(i, First, 0, {}) ELSE NoRow]
      BY DEF Init
    <3>2. ASSUME NEW i PROVE ~Registered(i, First, 0, {}).verified
      BY DEF Registered, NoRow
    <3>. QED
      BY <3>1, <3>2, NoRowIsRow
  <2>3. \A k \in Confirms : ConfirmProved(k)
    BY <2>1 DEF ConfirmProved, Calls
  <2>4. \A c \in Callbacks : CallbackProved(c)
    BY <2>1 DEF CallbackProved, Telling, Calls
  <2>5. \A r \in Registrations : RegistrationProved(r)
    BY <2>1 DEF RegistrationProved, Calls
  <2>. QED
    BY <2>2, <2>3, <2>4, <2>5 DEF Init, ProvedInv, Proven
<1>2. ProvedInv => VerifiedMeansProved
  BY DEF ProvedInv, Proven, VerifiedMeansProved, Stored
<1>. QED
  BY <1>1, <1>2, BaseAlways, ProvedNext, PTL DEF Spec
-----------------------------------------------------------------------------
(* Claims. Ending an account's sessions bumps its version: whatever was     *)
(* read before the claim has an older one for ever.                         *)
Ended == {"evict", "resolved", "in", "challenged"}

Claimer(c) == pc[c] \in Ended /\ c \in era[c]

(* A callback that claimed an account still works on it.                    *)
ClaimsOf(c) ==
    /\ \A i \in Rows : c \in claims[i] => target[c] = i /\ pc[c] \in Ended \cup {"bump", "refused"}
    /\ pc[c] \in Ended \cup {"link", "bump"} => era[c] \subseteq claims[target[c]]

(* What was read is no newer than the row, and older if a claim was not     *)
(* seen.                                                                    *)
CopyAged(o) ==
    pc[o] \in Aimed =>
        /\ copy[o].version <= rows[target[o]].version
        /\ \A c \in Callbacks : Claimer(c) /\ target[c] = target[o] /\ c \notin era[o]
                                  => copy[o].version < rows[target[o]].version

SessionAged(s) ==
    /\ s.version \in Nat /\ s.version <= rows[s.row].version
    /\ \A c \in Callbacks : Claimer(c) /\ target[c] = s.row /\ c \notin s.era => s.version < rows[s.row].version

(* A second factor that the claim did not see was enrolled after it read.   *)
FactorSeen(c) ==
    /\ Claimer(c) \/ pc[c] = "bump" => (rows[target[c]].mfa => c \in late)
    /\ pc[c] = "link" => (rows[target[c]].mfa => copy[c].mfa \/ c \in late)

ClaimsInv ==
    /\ \A c \in Callbacks : ClaimsOf(c) /\ FactorSeen(c)
    /\ \A o \in Calls : CopyAged(o)
    /\ \A s \in sessions : SessionAged(s)

LEMMA Versions ==
    Base => /\ \A i \in Rows : rows[i].version \in Nat /\ rows[i].mfa \in BOOLEAN
            /\ \A o \in Calls : copy[o].version \in Nat
BY DEF Base, RowsInv, IsRow

LEMMA ClaimsKept ==
    ASSUME Base, Base', ClaimsInv, NEW o \in Calls, Alone(o),
           \A i \in Born : rows[i].version <= rows'[i].version /\ claims[i] \subseteq claims'[i],
           \A i \in Rows, c \in Callbacks \ {o} : c \in claims'[i] => c \in claims[i],
           \A c \in Callbacks \ {o} : target[c] \in Born /\ rows'[target[c]].mfa => rows[target[c]].mfa \/ c \in late',
           late \ {o} \subseteq late',
           o \in Callbacks => ClaimsOf(o)' /\ FactorSeen(o)',
           o \in Callbacks /\ Claimer(o)' =>
             \/ Claimer(o) /\ target'[o] = target[o]
             \/ target'[o] \in Born /\ rows[target'[o]].version < rows'[target'[o]].version,
           CopyAged(o)', \A s \in sessions' : s \in sessions \/ SessionAged(s)'
    PROVE  ClaimsInv'
<1>1. \A x \in Calls \ {o} : /\ pc'[x] = pc[x] /\ target'[x] = target[x] /\ copy'[x] = copy[x]
                             /\ era'[x] = era[x] /\ (pc[x] \in Aimed => target[x] \in Born)
  BY DEF Alone, Base, FreshInv
<1>2. ASSUME NEW c \in Callbacks \ {o} PROVE ClaimsOf(c)' /\ FactorSeen(c)' /\ (Claimer(c)' => Claimer(c))
  <2>1. c \in Calls /\ ClaimsOf(c) /\ FactorSeen(c)
    BY DEF Calls, ClaimsInv
  <2>2. pc[c] \in Ended \cup {"link", "bump"} => target[c] \in Born
    BY <1>1, <2>1 DEF Aimed, Ended
  <2>3. ClaimsOf(c)'
    BY <1>1, <2>1, <2>2 DEF ClaimsOf
  <2>4. Claimer(c)' => Claimer(c)
    BY <1>1, <2>1 DEF Claimer
  <2>5. c \in late => c \in late'
    OBVIOUS
  <2>6. Claimer(c) => target[c] \in Born
    BY <2>2 DEF Claimer
  <2>7. FactorSeen(c)'
    BY <1>1, <2>1, <2>2, <2>4, <2>5, <2>6 DEF FactorSeen
  <2>. QED
    BY <2>3, <2>4, <2>7
<1>3. Born \subseteq Rows
  BY DEF Born
<1>4. ASSUME NEW x \in Calls \ {o} PROVE CopyAged(x)'
  <2>1. SUFFICES ASSUME pc[x] \in Aimed
                 PROVE  /\ copy[x].version <= rows'[target[x]].version
                        /\ \A c \in Callbacks : Claimer(c)' /\ target'[c] = target[x] /\ c \notin era[x]
                                                  => copy[x].version < rows'[target[x]].version
    BY <1>1 DEF CopyAged
  <2>2. CopyAged(x) /\ target[x] \in Born
    BY <1>1, <2>1 DEF ClaimsInv
  <2>3. /\ copy[x].version \in Nat /\ rows[target[x]].version \in Nat /\ rows'[target[x]].version \in Nat
        /\ copy[x].version <= rows[target[x]].version /\ rows[target[x]].version <= rows'[target[x]].version
    BY <1>3, <2>1, <2>2, Versions DEF CopyAged, Base, RowsInv, IsRow
  <2>4. ASSUME NEW c \in Callbacks, Claimer(c)', target'[c] = target[x], c \notin era[x]
        PROVE  copy[x].version < rows'[target[x]].version
    <3>1. CASE Claimer(c) /\ target[c] = target[x]
      <4>1. copy[x].version < rows[target[x]].version
        BY <2>1, <2>2, <2>4, <3>1 DEF CopyAged
      <4>. QED
        BY <2>3, <4>1
    <3>2. CASE rows[target[x]].version < rows'[target[x]].version
      BY <2>3, <3>2
    <3>3. CASE c # o
      <4>1. c \in Calls
        BY DEF Calls
      <4>. QED
        BY <1>1, <1>2, <2>4, <3>1, <3>3, <4>1
    <3>. QED
      BY <2>4, <3>1, <3>2, <3>3
  <2>. QED
    BY <2>3, <2>4
<1>5. ASSUME NEW s \in sessions PROVE SessionAged(s)'
  <2>1. SessionAged(s) /\ s.row \in Born
    BY DEF ClaimsInv, Base, FreshInv
  <2>2. /\ s.version \in Nat /\ rows[s.row].version \in Nat /\ rows'[s.row].version \in Nat
        /\ s.version <= rows[s.row].version /\ rows[s.row].version <= rows'[s.row].version
    BY <1>3, <2>1, Versions DEF SessionAged, Base, RowsInv, IsRow
  <2>3. ASSUME NEW c \in Callbacks, Claimer(c)', target'[c] = s.row, c \notin s.era
        PROVE  s.version < rows'[s.row].version
    <3>1. CASE Claimer(c) /\ target[c] = s.row
      <4>1. s.version < rows[s.row].version
        BY <2>1, <2>3, <3>1 DEF SessionAged
      <4>. QED
        BY <2>2, <4>1
    <3>2. CASE rows[s.row].version < rows'[s.row].version
      BY <2>2, <3>2
    <3>3. CASE c # o
      <4>1. c \in Calls
        BY DEF Calls
      <4>. QED
        BY <1>1, <1>2, <2>3, <3>1, <3>3, <4>1
    <3>. QED
      BY <2>3, <3>1, <3>2, <3>3
  <2>. QED
    BY <2>2, <2>3 DEF SessionAged
<1>6. \A c \in Callbacks : ClaimsOf(c)' /\ FactorSeen(c)'
  BY <1>2
<1>. QED
  BY <1>4, <1>5, <1>6 DEF ClaimsInv
(* No row was written and no claim made.                                    *)
LEMMA ClaimsUnwritten ==
    ASSUME Base, Base', ClaimsInv, NEW o \in Calls, Alone(o), UNCHANGED <<rows, claims>>, late \ {o} \subseteq late',
           o \in Callbacks => ClaimsOf(o)' /\ FactorSeen(o)',
           o \in Callbacks /\ Claimer(o)' => Claimer(o) /\ target'[o] = target[o],
           CopyAged(o)', \A s \in sessions' : s \in sessions \/ SessionAged(s)'
    PROVE  ClaimsInv'
<1>1. \A i \in Born : rows[i].version <= rows'[i].version /\ claims[i] \subseteq claims'[i]
  BY Versions DEF Born
<1>. QED
  BY <1>1, ClaimsKept

LEMMA KeeperAged ==
    ASSUME Base, ClaimsInv, NEW o \in Calls, Alone(o), Keeps(o), UNCHANGED rows,
           pc'[o] \in Aimed => pc[o] \in Aimed
    PROVE  CopyAged(o)'
<1>1. CopyAged(o)
  BY DEF ClaimsInv
<1>2. \A c \in Callbacks \ {o} : (Claimer(c)' <=> Claimer(c)) /\ target'[c] = target[c]
  BY DEF Alone, Claimer, Calls
<1>3. Claimer(o)' => o \in era'[o]
  BY DEF Claimer
<1>. QED
  BY <1>1, <1>2, <1>3 DEF CopyAged, Keeps

LEMMA ReaderAged ==
    ASSUME Base, ClaimsInv, NEW o \in Calls, Alone(o), NEW i \in Rows, Reader(o, i)
    PROVE  CopyAged(o)'
<1>1. \A c \in Callbacks \ {o} : (Claimer(c)' => Claimer(c)) /\ target'[c] = target[c]
  BY DEF Alone, Claimer, Calls
<1>2. ASSUME NEW c \in Callbacks, Claimer(c)', target'[c] = i PROVE c \in claims[i]
  <2>1. CASE c = o
    BY <1>2, <2>1 DEF Claimer, Reader
  <2>2. CASE c # o
    BY <1>1, <1>2, <2>2 DEF ClaimsInv, ClaimsOf, Claimer, Ended
  <2>. QED
    BY <2>1, <2>2
<1>3. copy'[o].version <= rows'[i].version
  BY Versions DEF Reader
<1>. QED
  BY <1>2, <1>3 DEF CopyAged, Reader

LEMMA IssuerAged ==
    ASSUME Base, ClaimsInv, NEW o \in Calls, Alone(o), Issuer(o), pc[o] \in Aimed,
           NEW s \in sessions'
    PROVE  s \in sessions \/ SessionAged(s)'
<1>1. CASE s = [row |-> target[o], version |-> copy[o].version, era |-> era[o], by |-> o]
  <2>1. s.row = target[o] /\ s.version = copy[o].version /\ s.era = era[o]
    BY <1>1
  <2>2. CopyAged(o) /\ copy[o].version \in Nat
    BY Versions DEF ClaimsInv
  <2>3. \A c \in Callbacks \ {o} : (Claimer(c)' => Claimer(c)) /\ target'[c] = target[c]
    BY DEF Alone, Claimer, Calls
  <2>4. Claimer(o)' => o \in era[o]
    BY DEF Claimer, Issuer, Keeps
  <2>5. UNCHANGED rows
    BY DEF Issuer
  <2>. QED
    BY <2>1, <2>2, <2>3, <2>4, <2>5 DEF SessionAged, CopyAged
<1>. QED
  BY <1>1 DEF Issuer

(* Steps of the calls that are no callbacks.                                *)
LEMMA QuietKeepsClaims ==
    ASSUME Base, Base', ClaimsInv, NEW o \in Calls \ Callbacks, Alone(o), Quiet(o), pc'[o] \in Aimed => pc[o] \in Aimed
    PROVE  ClaimsInv'
BY KeeperAged, ClaimsUnwritten DEF Quiet

LEMMA ReaderKeepsClaims ==
    ASSUME Base, Base', ClaimsInv, NEW o \in Calls \ Callbacks, Alone(o), NEW i \in Rows, Reader(o, i), UNCHANGED late
    PROVE  ClaimsInv'
<1>1. CopyAged(o)' /\ UNCHANGED <<rows, claims, sessions>>
  BY ReaderAged DEF Reader
<1>. QED
  BY <1>1, ClaimsUnwritten

LEMMA MailerKeepsClaims ==
    ASSUME Base, Base', ClaimsInv, NEW o \in Calls \ Callbacks, Alone(o), Mailer(o), pc'[o] \notin Aimed
    PROVE  ClaimsInv'
BY KeeperAged, ClaimsUnwritten DEF Mailer

LEMMA IssuerKeepsClaims ==
    ASSUME Base, Base', ClaimsInv, NEW o \in Calls \ Callbacks, Alone(o), Issuer(o), pc[o] \in Aimed
    PROVE  ClaimsInv'
<1>1. CopyAged(o)' /\ UNCHANGED <<rows, claims, late>>
  BY KeeperAged DEF Issuer
<1>2. \A s \in sessions' : s \in sessions \/ SessionAged(s)'
  BY IssuerAged
<1>. QED
  BY <1>1, <1>2, ClaimsUnwritten

(* A row that was written keeps its version.                                *)
LEMMA WriterKeepsClaims ==
    ASSUME Base, Base', ClaimsInv, NEW o \in Calls \ Callbacks, Alone(o), Keeps(o), pc'[o] \notin Aimed,
           UNCHANGED <<sessions, claims>>, late \subseteq late', NEW i \in Rows, Written(i),
           i \in Born => rows'[i].version = rows[i].version,
           i \in Born /\ rows'[i].mfa => rows[i].mfa \/ \A c \in Callbacks : target[c] = i => c \in late'
    PROVE  ClaimsInv'
<1>1. \A j \in Born : rows[j].version <= rows'[j].version /\ claims[j] \subseteq claims'[j]
  BY Versions DEF Written, Born
<1>2. \A c \in Callbacks \ {o} : target[c] \in Born /\ rows'[target[c]].mfa => rows[target[c]].mfa \/ c \in late'
  BY DEF Written, Born
<1>3. CopyAged(o)'
  BY DEF CopyAged
<1>. QED
  BY <1>1, <1>2, <1>3, ClaimsKept
LEMMA ClaimsOfRegistration ==
    ASSUME Base, Base', ClaimsInv, NEW r \in Registrations, RegisterStep(r)
    PROVE  ClaimsInv'
<1>1. r \in Calls \ Callbacks /\ r \in Rows /\ Alone(r)
  BY RegisterMoves, CallsDisjoint DEF Base, Calls, Rows
<1>2. CASE Quiet(r) /\ pc'[r] \in {"email", "name", "insert", "existing", "existingname", "enrolled", "duplicate",
                                   "taken", "exists"}
  BY <1>1, <1>2, QuietKeepsClaims DEF Aimed
<1>3. CASE Mailer(r) /\ pc'[r] = "enrolled"
  BY <1>1, <1>3, MailerKeepsClaims DEF Aimed
<1>4. CASE /\ Keeps(r) /\ pc[r] = "insert" /\ pc'[r] \in {"send", "created"} /\ Written(r)
           /\ UNCHANGED <<sessions, claims, late>>
  <2>1. r \notin Born
    BY <1>4 DEF Born, Before
  <2>. QED
    BY <1>1, <1>4, <2>1, WriterKeepsClaims DEF Aimed
<1>. QED
  BY <1>2, <1>3, <1>4, RegisterKinds

LEMMA ClaimsOfConfirm ==
    ASSUME Base, Base', ClaimsInv, NEW k \in Confirms, ConfirmStep(k)
    PROVE  ClaimsInv'
<1>1. k \in Calls \ Callbacks /\ Alone(k)
  BY ConfirmMoves, CallsDisjoint DEF Base, Calls
<1>2. ASSUME NEW l \in mailed, Reader(k, l.row), UNCHANGED late PROVE ClaimsInv'
  <2>1. l.row \in Rows
    BY DEF Base, RowsInv
  <2>. QED
    BY <1>1, <1>2, <2>1, ReaderKeepsClaims
<1>3. CASE /\ Quiet(k)
           /\ \/ pc[k] = "available" /\ pc'[k] = "consume"
              \/ pc[k] = "consume" /\ pc'[k] \in {"write", "mark"}
              \/ pc'[k] \in {"duplicate", "refused", "done"}
  BY <1>1, <1>3, QuietKeepsClaims DEF Aimed
<1>4. CASE MarkVerified(k) /\ Keeps(k) /\ pc'[k] = "done" /\ UNCHANGED <<sessions, claims, late>>
  <2>1. PICK i \in Rows : i = target[k] /\ Written(i) /\ Steady(i)
    BY <1>1, <1>4, MarkEffect DEF Base
  <2>. QED
    BY <1>1, <1>4, <2>1, WriterKeepsClaims DEF Steady, Aimed
<1>5. CASE WriteEmail(k) /\ Keeps(k) /\ pc'[k] \in {"duplicate", "changed"} /\ UNCHANGED <<mailed, sessions, proved, claims, late>>
  <2>1. PICK i : i = target[k]
    OBVIOUS
  <2>2. UNCHANGED rows \/ (i \in Rows /\ Written(i) /\ Steady(i))
    BY <1>1, <1>5, <2>1, WriteEffect DEF Base
  <2>. QED
    BY <1>1, <1>5, <2>2, WriterKeepsClaims, QuietKeepsClaims DEF Steady, Quiet, Aimed
<1>. QED
  BY <1>2, <1>3, <1>4, <1>5, ConfirmKinds

LEMMA ClaimsOfUser ==
    ASSUME Base, Base', ClaimsInv,
           \/ \E q \in Requests : RequestVerification(q)
           \/ \E g \in Changes : ChangeStep(g)
           \/ \E l \in Logins : LoginRead(l) \/ LoginIssue(l) \/ Enroll(l)
           \/ \E w \in SetPasswords : SetPasswordRead(w) \/ SetPassword(w)
           \/ \E d \in Disables : Disable(d)
    PROVE  ClaimsInv'
<1>1. \A o \in Requests \cup Changes \cup Logins \cup SetPasswords \cup Disables : o \in Calls \ Callbacks
  BY CallsDisjoint DEF Calls
<1>2. ASSUME NEW q \in Requests, RequestVerification(q) PROVE ClaimsInv'
  BY <1>1, <1>2, RequestMoves, RequestKinds, MailerKeepsClaims DEF Base, Aimed
<1>3. ASSUME NEW g \in Changes, ChangeStep(g) PROVE ClaimsInv'
  <2>1. Alone(g)
    BY <1>3, ChangeMoves DEF Base
  <2>2. ASSUME NEW i \in Rows, Reader(g, i), UNCHANGED late PROVE ClaimsInv'
    BY <1>1, <2>1, <2>2, ReaderKeepsClaims
  <2>3. CASE Mailer(g) /\ pc'[g] = "done"
    BY <1>1, <2>1, <2>3, MailerKeepsClaims DEF Aimed
  <2>. QED
    BY <1>3, <2>2, <2>3, ChangeKinds
<1>4. ASSUME NEW l \in Logins, LoginRead(l) \/ LoginIssue(l) \/ Enroll(l) PROVE ClaimsInv'
  <2>1. Alone(l)
    BY <1>4, LoginMoves DEF Base
  <2>2. ASSUME NEW i \in Rows, Reader(l, i), UNCHANGED late PROVE ClaimsInv'
    BY <1>1, <2>1, <2>2, ReaderKeepsClaims
  <2>3. CASE Issuer(l) /\ pc[l] = "issue"
    BY <1>1, <2>1, <2>3, IssuerKeepsClaims DEF Aimed
  <2>4. CASE /\ Enroll(l) /\ Keeps(l) /\ pc'[l] = "done" /\ UNCHANGED <<sessions, claims>>
             /\ late' = late \cup {c \in Callbacks : target[c] = target[l]}
    <3>1. PICK i \in Rows : i = target[l] /\ Written(i) /\ rows'[i].version = rows[i].version
      BY <1>1, <2>4, EnrollEffect DEF Base
    <3>. QED
      BY <1>1, <2>1, <2>4, <3>1, WriterKeepsClaims DEF Aimed
  <2>. QED
    BY <1>4, <2>2, <2>3, <2>4, LoginKinds
<1>5. ASSUME NEW w \in SetPasswords, SetPasswordRead(w) \/ SetPassword(w) PROVE ClaimsInv'
  <2>1. Alone(w)
    BY <1>5, PasswordMoves DEF Base
  <2>2. ASSUME NEW i \in Rows, Reader(w, i), UNCHANGED late PROVE ClaimsInv'
    BY <1>1, <2>1, <2>2, ReaderKeepsClaims
  <2>3. CASE SetPassword(w) /\ Keeps(w) /\ pc'[w] = "done" /\ UNCHANGED <<sessions, claims, late>>
    <3>1. PICK i \in Rows : /\ i = target[w] /\ Written(i) /\ rows'[i].version = rows[i].version
                            /\ rows'[i].mfa = rows[i].mfa
      BY <1>1, <2>3, PasswordEffect DEF Base
    <3>. QED
      BY <1>1, <2>1, <2>3, <3>1, WriterKeepsClaims DEF Aimed
  <2>. QED
    BY <1>5, <2>2, <2>3, PasswordKinds
<1>6. ASSUME NEW d \in Disables, Disable(d) PROVE ClaimsInv'
  <2>1. Alone(d) /\ Keeps(d) /\ pc'[d] = "done" /\ d \in Calls \ Callbacks /\ UNCHANGED <<sessions, claims, late>>
    BY <1>1, <1>6, DisableMoves, DisableKinds DEF Base
  <2>2. PICK i \in Rows : Written(i) /\ Steady(i)
    BY <1>6, <2>1, DisableEffect DEF Base
  <2>. QED
    BY <2>1, <2>2, WriterKeepsClaims DEF Steady, Aimed
<1>. QED
  BY <1>2, <1>3, <1>4, <1>5, <1>6
(* What a callback has just written and read back is not outdated.          *)
LEMMA WrittenAged ==
    ASSUME Base, Base', ClaimsInv, NEW c \in Callbacks, Alone(c), NEW i \in Rows, target'[c] = i,
           copy'[c] = rows'[i], claims[i] \subseteq era'[c]
    PROVE  CopyAged(c)'
<1>1. \A b \in Callbacks \ {c} : (Claimer(b)' => Claimer(b)) /\ target'[b] = target[b]
  BY DEF Alone, Claimer, Calls
<1>2. \A b \in Callbacks : Claimer(b) /\ target[b] = i => b \in claims[i]
  BY DEF ClaimsInv, ClaimsOf, Claimer, Ended
<1>3. Claimer(c)' => c \in era'[c]
  BY DEF Claimer
<1>4. rows'[i].version \in Nat
  BY DEF Base, RowsInv, IsRow
<1>5. copy'[c].version <= rows'[target'[c]].version
  BY <1>4
<1>6. \A b \in Callbacks : Claimer(b)' /\ target'[b] = target'[c] => b \in era'[c]
  BY <1>1, <1>2, <1>3
<1>. QED
  BY <1>5, <1>6 DEF CopyAged

LEMMA ClaimsOfFinder ==
    ASSUME Base, Base', ClaimsInv, NEW c \in Callbacks, Alone(c), CookieCleared,
           \/ /\ Quiet(c)
              /\ \/ pc[c] \in {"start", "take", "exchange", "byid", "byemail", "name", "create", "retry", "link"}
                    /\ pc'[c] \in {"take", "exchange", "byid", "byemail", "name", "create", "retry", "refused", "error"}
                 \/ pc[c] = "resolved" /\ pc'[c] \in {"challenged", "refused"}
           \/ \E i \in Rows : Reader(c, i) /\ pc[c] = "byid" /\ pc'[c] = "resolved" /\ UNCHANGED late
           \/ \E i \in Rows : Reader(c, i) /\ pc[c] = "byemail" /\ pc'[c] = "link" /\ late' = late \ {c}
           \/ Issuer(c) /\ pc[c] = "resolved" /\ pc'[c] = "in"
           \/ /\ Keeps(c) /\ pc[c] = "evict" /\ pc'[c] = "resolved" /\ sessions' \subseteq sessions
              /\ UNCHANGED <<rows, claims, late>>
    PROVE  ClaimsInv'
<1>1. c \in Calls /\ ClaimsOf(c) /\ FactorSeen(c)
  BY DEF Calls, ClaimsInv
<1>2. CASE /\ Quiet(c)
           /\ pc[c] \in {"start", "take", "exchange", "byid", "byemail", "name", "create", "retry", "link"}
           /\ pc'[c] \in {"take", "exchange", "byid", "byemail", "name", "create", "retry", "refused", "error"}
  <2>1. \A i \in Rows : c \notin claims[i]
    BY <1>1, <1>2 DEF ClaimsOf, Ended
  <2>2. ClaimsOf(c)' /\ FactorSeen(c)' /\ ~Claimer(c)'
    BY <1>2, <2>1 DEF ClaimsOf, FactorSeen, Claimer, Ended, Quiet
  <2>3. CopyAged(c)'
    BY <1>2 DEF CopyAged, Aimed
  <2>. QED
    BY <1>1, <1>2, <2>2, <2>3, ClaimsUnwritten DEF Quiet
<1>3. CASE /\ Keeps(c) /\ UNCHANGED <<rows, claims, late>>
           /\ \/ pc[c] = "resolved" /\ pc'[c] \in {"challenged", "refused", "in"}
              \/ pc[c] = "evict" /\ pc'[c] = "resolved"
           /\ \A s \in sessions' : s \in sessions \/ SessionAged(s)'
  <2>1. Claimer(c)' => Claimer(c)
    BY <1>3 DEF Claimer, Ended, Keeps
  <2>2. ClaimsOf(c)' /\ FactorSeen(c)'
    BY <1>1, <1>3, <2>1 DEF ClaimsOf, FactorSeen, Ended, Keeps
  <2>3. CopyAged(c)'
    BY <1>1, <1>3, KeeperAged DEF Aimed
  <2>. QED
    BY <1>1, <1>3, <2>1, <2>2, <2>3, ClaimsUnwritten DEF Keeps
<1>4. ASSUME NEW i \in Rows, Reader(c, i),
             \/ pc[c] = "byid" /\ pc'[c] = "resolved" /\ UNCHANGED late
             \/ pc[c] = "byemail" /\ pc'[c] = "link" /\ late' = late \ {c}
      PROVE  ClaimsInv'
  <2>1. \A j \in Rows : c \notin claims[j]
    BY <1>1, <1>4 DEF ClaimsOf, Ended
  <2>2. ~Claimer(c)' /\ UNCHANGED <<rows, claims, sessions>>
    BY <1>4, <2>1 DEF Claimer, Reader
  <2>3. ClaimsOf(c)' /\ FactorSeen(c)'
    BY <1>4, <2>1, <2>2 DEF ClaimsOf, FactorSeen, Ended, Reader
  <2>4. CopyAged(c)'
    BY <1>1, <1>4, ReaderAged
  <2>5. late \ {c} \subseteq late'
    BY <1>4
  <2>. QED
    BY <1>1, <2>2, <2>3, <2>4, <2>5, ClaimsUnwritten
<1>5. CASE Issuer(c) /\ pc[c] = "resolved" /\ pc'[c] = "in"
  <2>1. \A s \in sessions' : s \in sessions \/ SessionAged(s)'
    BY <1>1, <1>5, IssuerAged DEF Aimed
  <2>. QED
    BY <1>3, <1>5, <2>1 DEF Issuer
<1>. QED
  BY <1>2, <1>3, <1>4, <1>5 DEF Quiet

LEMMA ClaimsOfBump ==
    ASSUME Base, Base', ClaimsInv, NEW c \in Callbacks, Alone(c), Bump(c), pc[c] = "bump", pc'[c] = "evict",
           UNCHANGED <<sessions, claims, late>>
    PROVE  ClaimsInv'
<1>1. c \in Calls /\ ClaimsOf(c) /\ FactorSeen(c)
  BY DEF Calls, ClaimsInv
<1>2. PICK i \in Rows : /\ i = target[c] /\ Written(i) /\ rows'[i].version = rows[i].version + 1
                        /\ rows'[i].mfa = rows[i].mfa /\ target'[c] = i /\ copy'[c] = rows'[i] /\ era'[c] = claims[i]
  BY <1>1, BumpEffect DEF Base
<1>3. i \in Born' /\ i \in Born
  BY <1>1, <1>2 DEF Base, FreshInv, Aimed
<1>4. \A j \in Born : rows[j].version <= rows'[j].version /\ claims[j] \subseteq claims'[j]
  BY <1>2, Versions DEF Written, Born
<1>5. \A b \in Callbacks \ {c} : target[b] \in Born /\ rows'[target[b]].mfa => rows[target[b]].mfa \/ b \in late'
  BY <1>2 DEF Written, Born
<1>6. ClaimsOf(c)'
  BY <1>1, <1>2 DEF ClaimsOf, Ended
<1>7. FactorSeen(c)'
  BY <1>1, <1>2 DEF FactorSeen
<1>8. CopyAged(c)'
  BY <1>2, WrittenAged
<1>9. rows[i].version < rows'[i].version
  BY <1>2, Versions
<1>. QED
  BY <1>1, <1>2, <1>3, <1>4, <1>5, <1>6, <1>7, <1>8, <1>9, ClaimsKept

LEMMA ClaimsOfLink ==
    ASSUME Base, Base', ClaimsInv, NEW c \in Callbacks, Alone(c), Link(c), pc[c] = "link", pc'[c] # "error",
           UNCHANGED <<sessions, late>>
    PROVE  ClaimsInv'
<1>1. c \in Calls /\ ClaimsOf(c) /\ FactorSeen(c) /\ \A j \in Rows : c \notin claims[j]
  BY DEF Calls, ClaimsInv, ClaimsOf, Ended
<1>2. PICK i : i = target[c]
  OBVIOUS
<1>3. /\ i \in Rows /\ Written(i) /\ rows'[i].version = rows[i].version /\ target'[c] = i
      /\ copy'[c] = rows'[i] /\ era'[c] = claims'[i] /\ ClaimsAt(i)
  BY <1>1, <1>2, LinkEffect, ZenonT(60) DEF Base
<1>4. \/ rows'[i].mfa = rows[i].mfa /\ claims'[i] = claims[i] /\ pc'[c] = "resolved"
      \/ /\ (rows'[i].mfa => rows[i].mfa /\ ~copy[c].mfa) /\ claims'[i] = claims[i] \cup {c} /\ pc'[c] = "bump"
  BY <1>1, <1>2, LinkClaims DEF Base, Steady, Unclaimed
<1>5. claims[i] \subseteq claims'[i] /\ claims'[i] \subseteq claims[i] \cup {c} /\ (rows'[i].mfa => rows[i].mfa)
      /\ (pc'[c] = "resolved" => c \notin claims'[i])
  BY <1>1, <1>3, <1>4
<1>6. \A j \in Born : rows[j].version <= rows'[j].version /\ claims[j] \subseteq claims'[j]
  BY <1>3, <1>5, Versions DEF Written, ClaimsAt, Born
<1>7. \A j \in Rows, b \in Callbacks \ {c} : b \in claims'[j] => b \in claims[j]
  BY <1>3, <1>5 DEF ClaimsAt
<1>8. \A b \in Callbacks \ {c} : target[b] \in Born /\ rows'[target[b]].mfa => rows[target[b]].mfa \/ b \in late'
  BY <1>3, <1>5 DEF Written, Born
<1>9. ~Claimer(c)'
  BY <1>3, <1>4, <1>5 DEF Claimer, Ended
<1>10. ClaimsOf(c)'
  <2>1. \A j \in Rows : c \in claims'[j] => j = i /\ pc'[c] = "bump"
    BY <1>1, <1>3, <1>4, <1>5 DEF ClaimsAt
  <2>. QED
    BY <1>3, <2>1 DEF ClaimsOf, Ended
<1>11. FactorSeen(c)'
  BY <1>1, <1>2, <1>3, <1>4, <1>9 DEF FactorSeen
<1>12. CopyAged(c)'
  BY <1>3, <1>5, WrittenAged
<1>. QED
  BY <1>1, <1>6, <1>7, <1>8, <1>9, <1>10, <1>11, <1>12, ClaimsKept

LEMMA ClaimsOfCreate ==
    ASSUME Base, Base', ClaimsInv, NEW c \in Callbacks, Alone(c), CreateUser(c), pc[c] \in {"create", "retry"},
           pc'[c] = "resolved", UNCHANGED <<sessions, claims, late>>
    PROVE  ClaimsInv'
<1>1. c \in Calls /\ c \in Rows /\ ClaimsOf(c) /\ \A j \in Rows : c \notin claims[j]
  BY DEF Calls, Rows, ClaimsInv, ClaimsOf, Ended
<1>2. Written(c) /\ target'[c] = c /\ copy'[c] = rows'[c] /\ era'[c] = {}
  BY CreateEffect DEF Base
<1>3. c \notin Born /\ claims[c] = {}
  BY <1>1 DEF Born, Before, Base, FreshInv
<1>4. \A j \in Born : rows[j].version <= rows'[j].version /\ claims[j] \subseteq claims'[j]
  BY <1>2, <1>3, Versions DEF Written, Born
<1>5. \A b \in Callbacks \ {c} : target[b] \in Born /\ rows'[target[b]].mfa => rows[target[b]].mfa \/ b \in late'
  BY <1>2, <1>3 DEF Written, Born
<1>6. ClaimsOf(c)' /\ FactorSeen(c)' /\ ~Claimer(c)'
  BY <1>1, <1>2 DEF ClaimsOf, FactorSeen, Claimer
<1>7. CopyAged(c)'
  BY <1>1, <1>2, <1>3, WrittenAged
<1>. QED
  BY <1>1, <1>4, <1>5, <1>6, <1>7, ClaimsKept

LEMMA ClaimsNext == Base /\ Base' /\ FlowsInv /\ ClaimsInv /\ [Next]_vars => ClaimsInv'
<1>. SUFFICES ASSUME Base, Base', FlowsInv, ClaimsInv, [Next]_vars PROVE ClaimsInv'
  OBVIOUS
<1>1. ASSUME NEW c \in Callbacks, CallbackStep(c) PROVE ClaimsInv'
  <2>1. c \in Calls /\ Alone(c) /\ CookieCleared
    BY <1>1, ArriverMoves, FinderMoves DEF CallbackStep, FindsOrMakes, Base, Calls
  <2>2. CASE ~FindsOrMakes(c)
    <3>1. Quiet(c) /\ pc[c] \in {"start", "take", "exchange"} /\ pc'[c] \in {"take", "exchange", "byid", "refused"}
      BY <1>1, <2>2, ArriverKinds DEF CallbackStep, FindsOrMakes
    <3>. QED
      BY <2>1, <3>1, ClaimsOfFinder
  <2>3. CASE FindsOrMakes(c)
    BY <2>1, <2>3, FinderKinds, ClaimsOfFinder, ClaimsOfBump, ClaimsOfLink, ClaimsOfCreate
  <2>. QED
    BY <2>2, <2>3
<1>2. CASE UNCHANGED <<rows, sessions, pc, target, copy, era, claims, late>>
  BY <1>2 DEF ClaimsInv, ClaimsOf, FactorSeen, CopyAged, SessionAged, Claimer
<1>3. ASSUME NEW f \in Flows, NEW b \in Browsers, NEW p \in Providers, Authorize(f, b, p) PROVE ClaimsInv'
  BY <1>2, <1>3, AuthorizeMoves DEF Base
<1>. QED
  BY <1>1, <1>2, <1>3, ClaimsOfRegistration, ClaimsOfConfirm, ClaimsOfUser DEF Next, vars

(* Once a provider has claimed an account whose address was never verified, *)
(* no session from a password checked before the claim is accepted, also    *)
(* one created afterwards by a login that had begun before, and a second    *)
(* factor enrolled before the claim read the account is gone                *)
(* (oauth/account.py _link).                                                *)
THEOREM ClaimsEndCredentials == Spec => []ClaimEndsOldCredentials
<1>1. Init => ClaimsInv
  <2>. SUFFICES ASSUME Init PROVE ClaimsInv
    OBVIOUS
  <2>1. \A o \in Calls : pc[o] \in {"idle", "start"}
    BY DEF Init
  <2>2. \A o \in Calls : pc[o] \notin Aimed /\ ~Claimer(o)
    BY <2>1 DEF Aimed, Claimer, Ended
  <2>3. \A c \in Callbacks : ClaimsOf(c) /\ FactorSeen(c)
    BY <2>1, <2>2 DEF ClaimsOf, FactorSeen, Init, Calls, Ended
  <2>. QED
    BY <2>2, <2>3 DEF ClaimsInv, CopyAged, Init
<1>2. Base /\ ClaimsInv => ClaimEndsOldCredentials
  <2>. SUFFICES ASSUME Base, ClaimsInv, NEW c \in Callbacks, Claimer(c)
                PROVE  /\ \A s \in sessions : s.row = target[c] /\ c \notin s.era => ~Accepted(s)
                       /\ rows[target[c]].mfa => c \in late
    BY DEF ClaimEndsOldCredentials, Claimer, Ended
  <2>1. \A s \in sessions : s.row = target[c] /\ c \notin s.era => s.version # rows[s.row].version
    <3>1. \A s \in sessions : s.version \in Nat /\ rows[s.row].version \in Nat
      BY Versions DEF ClaimsInv, SessionAged, Base, RowsInv
    <3>. QED
      BY <3>1 DEF ClaimsInv, SessionAged
  <2>. QED
    BY <2>1 DEF Accepted, ClaimsInv, FactorSeen
<1>3. Base /\ FlowsInv /\ [Next]_vars => Base'
  BY BaseNext
<1>. QED
  BY <1>1, <1>2, <1>3, BaseAlways, ClaimsNext, PTL DEF Spec
-----------------------------------------------------------------------------
(* Change links. No password comes back: one that was read is the account's *)
(* only as long as nobody claimed it.                                       *)
Pending == {w \in SetPasswords : pc[w] # "done"}

ChangeBound(g) ==
    pc[g] \in {"mint", "done"} =>
        /\ target[g] \in Born /\ copy[g].password # Unusable
        /\ rows[target[g]].password = copy[g].password => claims[target[g]] = era[g]

ByChange(l) ==
    l.purpose = "change" => /\ l.by \in Changes /\ pc[l.by] = "done" /\ target[l.by] = l.row
                            /\ l.state = <<copy[l.by].password, copy[l.by].email, copy[l.by].version>>

ConfirmBound(k) ==
    pc[k] \in {"available", "consume", "write", "changed"} /\ given[k].purpose = "change" =>
        given[k].by \in Changes /\ pc[given[k].by] = "done" /\ era[given[k].by] = era[k]

LinksInv ==
    /\ \A i \in Rows : rows[i].password \notin Pending
    /\ \A o \in Calls : copy[o].password \notin Pending
    /\ \A g \in Changes : ChangeBound(g)
    /\ \A l \in mailed : ByChange(l)
    /\ \A k \in Confirms : ConfirmBound(k)

LEMMA LinksKept ==
    ASSUME Base, Base', LinksInv, NEW o \in Calls, Alone(o), Born \subseteq Born', Pending' \subseteq Pending,
           \A i \in Rows : rows'[i].password \notin Pending', copy'[o].password \notin Pending',
           \A i \in Born : \/ rows'[i].password = rows[i].password /\ claims'[i] = claims[i]
                           \/ rows'[i].password \in Pending \cup {Unusable},
           o \in Changes => pc[o] # "done" /\ ChangeBound(o)',
           \A l \in mailed' : l \in mailed \/ ByChange(l)',
           o \in Confirms => ConfirmBound(o)'
    PROVE  LinksInv'
<1>1. \A x \in Calls \ {o} : /\ pc'[x] = pc[x] /\ target'[x] = target[x] /\ copy'[x] = copy[x]
                             /\ era'[x] = era[x] /\ given'[x] = given[x]
  BY DEF Alone
<1>2. \A x \in Calls : copy'[x].password \notin Pending'
  BY <1>1 DEF LinksInv
<1>3. ASSUME NEW g \in Changes \ {o} PROVE ChangeBound(g)'
  <2>1. g \in Calls /\ ChangeBound(g) /\ copy[g].password \notin Pending
    BY DEF Calls, LinksInv
  <2>. QED
    BY <1>1, <2>1 DEF ChangeBound
<1>4. ASSUME NEW l \in mailed PROVE ByChange(l)'
  <2>1. ByChange(l) /\ Changes \subseteq Calls
    BY DEF LinksInv, Calls
  <2>. QED
    BY <1>1, <2>1 DEF ByChange
<1>5. ASSUME NEW k \in Confirms \ {o} PROVE ConfirmBound(k)'
  <2>1. ConfirmBound(k) /\ Changes \subseteq Calls /\ k \in Calls
    BY DEF LinksInv, Calls
  <2>. QED
    BY <1>1, <2>1 DEF ConfirmBound
<1>. QED
  BY <1>2, <1>3, <1>4, <1>5 DEF LinksInv

LEMMA BornGrows ==
    ASSUME Shape, NEW o \in Calls, Alone(o), pc'[o] \notin Before \/ pc[o] \in Before
    PROVE  Born \subseteq Born'
BY DEF Alone, Born, Calls

(* No row was written and no claim made.                                    *)
LEMMA LinksUnwritten ==
    ASSUME Base, Base', LinksInv, NEW o \in Calls, Alone(o), pc'[o] \notin Before \/ pc[o] \in Before,
           UNCHANGED <<rows, claims>>, Pending' \subseteq Pending, copy'[o].password \notin Pending,
           o \in Changes => pc[o] # "done" /\ ChangeBound(o)',
           \A l \in mailed' : l \in mailed \/ ByChange(l)',
           o \in Confirms => ConfirmBound(o)'
    PROVE  LinksInv'
<1>1. Born \subseteq Born' /\ Born \subseteq Rows
  BY BornGrows DEF Base, Born
<1>2. /\ \A i \in Rows : rows'[i].password \notin Pending'
      /\ \A i \in Born : rows'[i].password = rows[i].password /\ claims'[i] = claims[i]
  BY DEF LinksInv
<1>. QED
  BY <1>1, <1>2, LinksKept

(* One row was written.                                                     *)
LEMMA LinksWritten ==
    ASSUME Base, Base', LinksInv, NEW o \in Calls \ Changes, Alone(o), pc'[o] \notin Before,
           UNCHANGED mailed, Pending' \subseteq Pending, copy'[o].password \notin Pending',
           NEW i \in Rows, Written(i), ClaimsAt(i), rows'[i].password \notin Pending',
           i \in Born => \/ rows'[i].password = rows[i].password /\ Unclaimed(i)
                         \/ rows'[i].password \in Pending \cup {Unusable},
           o \in Confirms => ConfirmBound(o)'
    PROVE  LinksInv'
<1>1. Born \subseteq Born' /\ Born \subseteq Rows
  BY BornGrows DEF Base, Born
<1>2. \A j \in Rows : rows'[j].password \notin Pending'
  BY DEF LinksInv, Written
<1>3. \A j \in Born : \/ rows'[j].password = rows[j].password /\ claims'[j] = claims[j]
                      \/ rows'[j].password \in Pending \cup {Unusable}
  BY <1>1 DEF Written, ClaimsAt, Unclaimed
<1>. QED
  BY <1>1, <1>2, <1>3, LinksKept

LEMMA PendingStays ==
    ASSUME NEW o \in Calls, Alone(o), o \in SetPasswords => pc[o] # "done"
    PROVE  /\ Pending' \subseteq Pending
           /\ o \notin SetPasswords => Pending' = Pending
BY DEF Alone, Pending, Calls

LEMMA ClaimsAtStill == Base /\ UNCHANGED claims => \A i \in Rows : ClaimsAt(i) /\ Unclaimed(i)
BY DEF Base, RowsInv, ClaimsAt, Unclaimed
LEMMA LinksOfRegistration ==
    ASSUME Base, Base', LinksInv, NEW r \in Registrations, RegisterStep(r)
    PROVE  LinksInv'
<1>1. r \in Calls \ Changes /\ r \in Rows /\ Alone(r) /\ Keeps(r) /\ r \notin SetPasswords \cup Confirms
      /\ UNCHANGED claims
  BY RegisterMoves, CallsDisjoint DEF Base, Calls, Rows
<1>2. Pending' = Pending /\ copy'[r].password \notin Pending
  BY <1>1, PendingStays DEF LinksInv, Keeps
<1>3. CASE /\ Quiet(r)
           /\ \/ pc[r] = "start" /\ pc'[r] = "email"
              \/ pc[r] = "email" /\ pc'[r] \in {"name", "existing"}
              \/ pc[r] = "name" /\ pc'[r] \in {"insert", "existing"}
              \/ pc'[r] \in {"existing", "existingname", "enrolled", "duplicate", "taken", "exists"}
  BY <1>1, <1>2, <1>3, LinksUnwritten DEF Quiet, Before
<1>4. CASE Mailer(r) /\ pc'[r] = "enrolled"
  <2>1. \A l \in mailed' : l \in mailed \/ ByChange(l)'
    BY <1>1, <1>4 DEF Mailer, VerifyLink, ByChange
  <2>. QED
    BY <1>1, <1>2, <1>4, <2>1, LinksUnwritten DEF Mailer, Before
<1>5. CASE /\ pc[r] = "insert" /\ pc'[r] \in {"send", "created"} /\ Written(r) /\ rows'[r].password = r
           /\ UNCHANGED mailed
  <2>1. r \notin Born /\ r \notin Pending
    BY <1>1, <1>5 DEF Born, Before, Pending
  <2>2. ClaimsAt(r)
    BY <1>1, ClaimsAtStill
  <2>. QED
    BY <1>1, <1>2, <1>5, <2>1, <2>2, LinksWritten DEF Before
<1>. QED
  BY <1>3, <1>4, <1>5, RegisterKinds

LEMMA LinksOfConfirm ==
    ASSUME Base, Base', LinksInv, NEW k \in Confirms, ConfirmStep(k)
    PROVE  LinksInv'
<1>1. k \in Calls \ Changes /\ Alone(k) /\ k \notin SetPasswords /\ UNCHANGED claims /\ Changes \subseteq Calls
  BY ConfirmMoves, CallsDisjoint DEF Base, Calls
<1>2. Pending' = Pending /\ ConfirmBound(k) /\ copy[k].password \notin Pending
      /\ (\A i \in Rows : rows[i].password \notin Pending) /\ \A i \in Rows : ClaimsAt(i) /\ Unclaimed(i)
  BY <1>1, PendingStays, ClaimsAtStill DEF LinksInv
<1>3. ASSUME NEW l \in mailed, Reader(k, l.row), given'[k] = l,
             \/ pc'[k] = "refused"
             \/ pc'[k] = "consume" /\ l.purpose = "verify"
             \/ /\ pc'[k] = "available"
                /\ l.state = <<rows[l.row].password, rows[l.row].email, rows[l.row].version>>
      PROVE  LinksInv'
  <2>1. l.row \in Rows /\ ByChange(l)
    BY DEF Base, RowsInv, LinksInv
  <2>2. copy'[k].password \notin Pending /\ UNCHANGED <<rows, claims, mailed>>
    BY <1>2, <1>3, <2>1 DEF Reader
  <2>3. ASSUME l.purpose = "change", pc'[k] = "available"
        PROVE  l.by \in Changes /\ pc'[l.by] = "done" /\ era'[l.by] = era'[k]
    <3>1. l.by \in Changes /\ pc[l.by] = "done" /\ target[l.by] = l.row /\ copy[l.by].password = rows[l.row].password
      BY <1>3, <2>1, <2>3 DEF ByChange
    <3>2. era[l.by] = claims[l.row]
      BY <3>1 DEF LinksInv, ChangeBound
    <3>. QED
      BY <1>1, <1>3, <3>1, <3>2 DEF Alone, Reader
  <2>4. ConfirmBound(k)'
    BY <1>3, <2>3 DEF ConfirmBound
  <2>5. pc'[k] \notin Before
    BY <1>3 DEF Before
  <2>. QED
    BY <1>1, <1>2, <2>2, <2>4, <2>5, LinksUnwritten
<1>4. ASSUME Keeps(k), given'[k] = given[k],
             pc'[k] \in {"consume", "write", "changed"} => pc[k] \in {"available", "consume", "write"},
             pc'[k] # "available"
      PROVE  ConfirmBound(k)' /\ copy'[k].password \notin Pending
  BY <1>1, <1>2, <1>4 DEF ConfirmBound, Alone, Keeps
<1>5. CASE /\ Quiet(k) /\ given'[k] = given[k]
           /\ \/ pc[k] = "available" /\ pc'[k] = "consume"
              \/ pc[k] = "consume" /\ pc'[k] \in {"write", "mark"}
              \/ pc'[k] \in {"duplicate", "refused", "done"}
  <2>1. ConfirmBound(k)' /\ copy'[k].password \notin Pending
    BY <1>4, <1>5 DEF Quiet
  <2>. QED
    BY <1>1, <1>2, <1>5, <2>1, LinksUnwritten DEF Quiet, Before
<1>6. CASE MarkVerified(k) /\ Keeps(k) /\ given'[k] = given[k] /\ pc'[k] = "done" /\ UNCHANGED mailed
  <2>1. PICK i \in Rows : Written(i) /\ rows'[i].password = rows[i].password
    BY <1>1, <1>6, MarkEffect DEF Base, Steady
  <2>2. ConfirmBound(k)' /\ copy'[k].password \notin Pending'
    BY <1>2, <1>4, <1>6
  <2>. QED
    BY <1>1, <1>2, <1>6, <2>1, <2>2, LinksWritten DEF Before
<1>7. CASE WriteEmail(k) /\ Keeps(k) /\ given'[k] = given[k] /\ pc[k] = "write" /\ pc'[k] \in {"duplicate", "changed"}
             /\ UNCHANGED mailed
  <2>1. PICK i : i = target[k]
    OBVIOUS
  <2>2. UNCHANGED rows \/ (i \in Rows /\ Written(i) /\ rows'[i].password = rows[i].password)
    BY <1>1, <1>7, <2>1, WriteEffect DEF Base, Steady
  <2>3. ConfirmBound(k)' /\ copy'[k].password \notin Pending'
    BY <1>2, <1>4, <1>7
  <2>. QED
    BY <1>1, <1>2, <1>7, <2>2, <2>3, LinksWritten, LinksUnwritten DEF Before
<1>. QED
  BY <1>3, <1>5, <1>6, <1>7, ConfirmKinds

LEMMA LinksOfUser ==
    ASSUME Base, Base', LinksInv,
           \/ \E q \in Requests : RequestVerification(q)
           \/ \E g \in Changes : ChangeStep(g)
           \/ \E l \in Logins : LoginRead(l) \/ LoginIssue(l) \/ Enroll(l)
           \/ \E w \in SetPasswords : SetPasswordRead(w) \/ SetPassword(w)
           \/ \E d \in Disables : Disable(d)
    PROVE  LinksInv'
<1>1. /\ \A o \in Requests \cup Changes \cup Logins \cup SetPasswords \cup Disables : o \in Calls \ Confirms
      /\ \A o \in Requests \cup Logins \cup SetPasswords \cup Disables : o \notin Changes
      /\ \A o \in Requests \cup Changes \cup Logins \cup Disables : o \notin SetPasswords
  BY CallsDisjoint DEF Calls
<1>2. /\ \A o \in Calls : copy[o].password \notin Pending
      /\ \A i \in Rows : rows[i].password \notin Pending
      /\ UNCHANGED claims => \A i \in Rows : ClaimsAt(i) /\ Unclaimed(i)
  BY ClaimsAtStill DEF LinksInv
<1>3. ASSUME NEW q \in Requests, RequestVerification(q) PROVE LinksInv'
  <2>1. Alone(q) /\ Mailer(q) /\ pc'[q] = "done" /\ Pending' = Pending
    BY <1>1, <1>3, RequestMoves, RequestKinds, PendingStays DEF Base
  <2>2. \A l \in mailed' : l \in mailed \/ ByChange(l)'
    BY <1>1, <2>1 DEF Mailer, VerifyLink, ByChange
  <2>. QED
    BY <1>1, <1>2, <2>1, <2>2, LinksUnwritten DEF Mailer, Keeps, Before
<1>4. ASSUME NEW g \in Changes, ChangeStep(g) PROVE LinksInv'
  <2>1. Alone(g) /\ pc[g] \in {"start", "mint"} /\ pc'[g] \notin Before /\ Pending' = Pending
    BY <1>1, <1>4, ChangeMoves, PendingStays DEF Base, Before
  <2>2. ASSUME NEW i \in Rows, Reader(g, i), rows[i].password # Unusable PROVE LinksInv'
    <3>1. ChangeBound(g)' /\ copy'[g].password \notin Pending /\ UNCHANGED <<rows, claims, mailed>>
      BY <1>1, <1>2, <2>1, <2>2, BornGrows DEF Reader, ChangeBound, Base
    <3>. QED
      BY <1>1, <2>1, <3>1, LinksUnwritten
  <2>3. CASE Mailer(g) /\ pc[g] = "mint" /\ pc'[g] = "done"
    <3>1. ChangeBound(g)' /\ copy'[g].password \notin Pending /\ UNCHANGED <<rows, claims>>
      BY <1>1, <1>2, <2>1, <2>3, BornGrows DEF Mailer, Keeps, ChangeBound, LinksInv, Base
    <3>2. \A l \in mailed' : l \in mailed \/ ByChange(l)'
      BY <1>1, <2>3 DEF Mailer, VerifyLink, ChangeLink, ByChange, Keeps
    <3>. QED
      BY <1>1, <2>1, <3>1, <3>2, LinksUnwritten
  <2>. QED
    BY <1>4, <2>2, <2>3, ChangeKinds
<1>5. ASSUME NEW l \in Logins, LoginRead(l) \/ LoginIssue(l) \/ Enroll(l) PROVE LinksInv'
  <2>1. Alone(l) /\ Pending' = Pending
    BY <1>1, <1>5, LoginMoves, PendingStays DEF Base
  <2>2. ASSUME NEW i \in Rows, Reader(l, i), pc'[l] = "issue" PROVE LinksInv'
    <3>1. copy'[l].password \notin Pending /\ UNCHANGED <<rows, claims, mailed>>
      BY <1>2, <2>2 DEF Reader
    <3>. QED
      BY <1>1, <2>1, <2>2, <3>1, LinksUnwritten DEF Before
  <2>3. CASE Issuer(l) /\ pc'[l] = "in"
    BY <1>1, <1>2, <2>1, <2>3, LinksUnwritten DEF Issuer, Keeps, Before
  <2>4. CASE Enroll(l) /\ Keeps(l) /\ pc'[l] = "done" /\ UNCHANGED <<mailed, claims>>
    <3>1. PICK i \in Rows : Written(i) /\ rows'[i].password = rows[i].password
      BY <1>1, <2>4, EnrollEffect DEF Base
    <3>. QED
      BY <1>1, <1>2, <2>1, <2>4, <3>1, LinksWritten DEF Keeps, Before
  <2>. QED
    BY <1>5, <2>2, <2>3, <2>4, LoginKinds
<1>6. ASSUME NEW w \in SetPasswords, SetPasswordRead(w) \/ SetPassword(w) PROVE LinksInv'
  <2>1. Alone(w) /\ Pending' \subseteq Pending
    BY <1>1, <1>6, PasswordMoves, PendingStays DEF Base
  <2>2. ASSUME NEW i \in Rows, Reader(w, i), pc'[w] = "set" PROVE LinksInv'
    <3>1. copy'[w].password \notin Pending /\ UNCHANGED <<rows, claims, mailed>>
      BY <1>2, <2>2 DEF Reader
    <3>. QED
      BY <1>1, <2>1, <2>2, <3>1, LinksUnwritten DEF Before
  <2>3. CASE SetPassword(w) /\ Keeps(w) /\ pc[w] = "set" /\ pc'[w] = "done" /\ UNCHANGED <<mailed, claims>>
    <3>1. PICK i \in Rows : Written(i) /\ rows'[i].password = w
      BY <1>1, <2>3, PasswordEffect DEF Base
    <3>2. w \in Pending /\ w \notin Pending'
      BY <2>3 DEF Pending
    <3>3. copy'[w].password \notin Pending'
      BY <1>1, <1>2, <2>1, <2>3 DEF Keeps
    <3>. QED
      BY <1>1, <1>2, <2>1, <2>3, <3>1, <3>2, <3>3, LinksWritten DEF Before
  <2>. QED
    BY <1>6, <2>2, <2>3, PasswordKinds
<1>7. ASSUME NEW d \in Disables, Disable(d) PROVE LinksInv'
  <2>1. Alone(d) /\ Keeps(d) /\ pc'[d] = "done" /\ UNCHANGED <<mailed, claims>> /\ Pending' = Pending /\ d \in Calls
    BY <1>1, <1>7, DisableMoves, DisableKinds, PendingStays DEF Base
  <2>2. PICK i \in Rows : Written(i) /\ rows'[i].password = rows[i].password
    BY <1>7, <2>1, DisableEffect DEF Base, Steady
  <2>. QED
    BY <1>1, <1>2, <2>1, <2>2, LinksWritten DEF Keeps, Before
<1>. QED
  BY <1>3, <1>4, <1>5, <1>6, <1>7

LEMMA LinksOfCallback ==
    ASSUME Base, Base', FlowsInv, LinksInv, NEW c \in Callbacks, CallbackStep(c)
    PROVE  LinksInv'
<1>1. c \in Calls \ Changes /\ c \in Rows /\ Alone(c) /\ c \notin SetPasswords \cup Confirms
  BY ArriverMoves, FinderMoves, CallsDisjoint DEF CallbackStep, FindsOrMakes, Base, Calls, Rows
<1>2. /\ Pending' = Pending /\ copy[c].password \notin Pending /\ Unusable \notin Pending
      /\ \A i \in Rows : rows[i].password \notin Pending
      /\ UNCHANGED claims => \A i \in Rows : ClaimsAt(i) /\ Unclaimed(i)
  BY <1>1, PendingStays, ClaimsAtStill, CallsDisjoint DEF LinksInv, Pending, Calls
<1>3. CASE Quiet(c) /\ (pc'[c] \notin Before \/ pc[c] \in Before)
  BY <1>1, <1>2, <1>3, LinksUnwritten DEF Quiet, Keeps
<1>4. CASE ~FindsOrMakes(c)
  <2>1. Quiet(c) /\ pc[c] \in {"start", "take", "exchange"}
    BY <1>4, ArriverKinds DEF CallbackStep, FindsOrMakes
  <2>. QED
    BY <1>3, <2>1 DEF Before
<1>5. CASE FindsOrMakes(c)
  <2>1. ASSUME NEW i \in Rows, Reader(c, i), pc'[c] \in {"resolved", "link"} PROVE LinksInv'
    <3>1. copy'[c].password \notin Pending /\ UNCHANGED <<rows, claims, mailed>>
      BY <1>2, <2>1 DEF Reader
    <3>. QED
      BY <1>1, <1>2, <2>1, <3>1, LinksUnwritten DEF Before
  <2>2. CASE /\ Keeps(c) /\ pc'[c] \in {"in", "resolved"} /\ UNCHANGED <<rows, mailed, claims>>
    BY <1>1, <1>2, <2>2, LinksUnwritten DEF Keeps, Before
  <2>3. CASE Bump(c) /\ pc'[c] = "evict" /\ UNCHANGED <<mailed, claims>>
    <3>1. PICK i \in Rows : Written(i) /\ rows'[i].password = rows[i].password /\ copy'[c] = rows'[i]
      BY <1>1, <2>3, BumpEffect DEF Base
    <3>. QED
      BY <1>1, <1>2, <2>3, <3>1, LinksWritten DEF Before
  <2>4. CASE Link(c) /\ pc'[c] \in {"bump", "resolved"} /\ UNCHANGED mailed
    <3>1. PICK i : i = target[c]
      OBVIOUS
    <3>2. i \in Rows /\ Written(i) /\ copy'[c] = rows'[i] /\ ClaimsAt(i)
      BY <1>1, <2>4, <3>1, LinkWrites DEF Base
    <3>3. (rows'[i].password = rows[i].password /\ Unclaimed(i)) \/ rows'[i].password = Unusable
      BY <1>1, <2>4, <3>1, LinkClaims DEF Base, Steady
    <3>4. rows'[i].password \notin Pending'
      BY <1>2, <3>2, <3>3
    <3>. QED
      BY <1>1, <1>2, <2>4, <3>2, <3>3, <3>4, LinksWritten DEF Before
  <2>5. CASE CreateUser(c) /\ pc[c] \in {"create", "retry"} /\ pc'[c] = "resolved" /\ UNCHANGED <<mailed, claims>>
    <3>1. Written(c) /\ rows'[c].password = Unusable /\ copy'[c] = rows'[c]
      BY <2>5, CreateEffect DEF Base
    <3>. QED
      BY <1>1, <1>2, <2>5, <3>1, LinksWritten DEF Before
  <2>6. Quiet(c) => (pc'[c] \notin Before \/ pc[c] \in Before)
    BY <1>5, FinderMoves, FinderKinds DEF Base, Before, Ahead
  <2>. QED
    BY <1>3, <1>5, <2>1, <2>2, <2>3, <2>4, <2>5, <2>6, FinderKinds DEF Issuer
<1>. QED
  BY <1>4, <1>5

LEMMA LinksNext == Base /\ Base' /\ FlowsInv /\ LinksInv /\ [Next]_vars => LinksInv'
<1>. SUFFICES ASSUME Base, Base', FlowsInv, LinksInv, [Next]_vars PROVE LinksInv'
  OBVIOUS
<1>1. CASE UNCHANGED <<rows, mailed, pc, given, target, copy, era, claims>>
  BY <1>1 DEF LinksInv, Pending, Born, ChangeBound, ByChange, ConfirmBound
<1>2. ASSUME NEW f \in Flows, NEW b \in Browsers, NEW p \in Providers, Authorize(f, b, p) PROVE LinksInv'
  BY <1>1, <1>2, AuthorizeMoves DEF Base
<1>. QED
  BY <1>1, <1>2, LinksOfRegistration, LinksOfConfirm, LinksOfUser, LinksOfCallback DEF Next, vars

(* A link to change the address that was requested with the credentials of  *)
(* an account before it was claimed is not redeemed after the claim, even   *)
(* when it is minted after it, and also when the account has got a new      *)
(* password since (email/service.py _state_fingerprint,                     *)
(* request_email_change).                                                   *)
THEOREM ClaimVoidsChangeLinks == Spec => []OldChangeLinkRefused
<1>1. Init => LinksInv
  <2>. SUFFICES ASSUME Init PROVE LinksInv
    OBVIOUS
  <2>1. \A o \in Calls : pc[o] \in {"idle", "start"} /\ copy[o].password = Unusable
    BY NoRowIsRow DEF Init
  <2>2. \A i \in Rows : rows[i].password \in Seeds \cup {Unusable}
    <3>1. PICK mix \in Mixes : rows = [i \in Rows |-> IF i \in mix \cap Seeds THEN Registered(i, First, 0, {}) ELSE NoRow]
      BY DEF Init
    <3>2. ASSUME NEW i PROVE Registered(i, First, 0, {}).password = i
      BY DEF Registered, NoRow
    <3>. QED
      BY <3>1, <3>2, NoRowIsRow
  <2>3. \A p \in Seeds \cup {Unusable} : p \notin Pending
    BY CallsDisjoint DEF Pending, Calls
  <2>4. \A g \in Changes : ChangeBound(g)
    BY <2>1 DEF ChangeBound, Calls
  <2>5. \A k \in Confirms : ConfirmBound(k)
    BY <2>1 DEF ConfirmBound, Calls
  <2>. QED
    BY <2>1, <2>2, <2>3, <2>4, <2>5 DEF Init, LinksInv
<1>2. LinksInv => OldChangeLinkRefused
  BY DEF LinksInv, ConfirmBound, OldChangeLinkRefused
<1>3. Base /\ FlowsInv /\ [Next]_vars => Base'
  BY BaseNext
<1>. QED
  BY <1>1, <1>2, <1>3, BaseAlways, LinksNext, PTL DEF Spec-----------------------------------------------------------------------------
(* Lost races. An address once met stays held or is given up, a username    *)
(* stays, and a provider account stays linked or is given up; so what a     *)
(* call met at a look-up or a constraint still explains its answer.         *)
Met(e) == (\E i \in Rows : rows[i] # NoRow /\ rows[i].email = e) \/ e \in released

Named(n, r) == \E i \in Rows \ {r} : rows[i] # NoRow /\ rows[i].name = n

Tied(p, a, x) ==
    /\ p \in Providers /\ a # None
    /\ (\E i \in Rows \ {x} : rows[i] # NoRow /\ rows[i].ids[p] = a) \/ <<p, a>> \in released

(* What the unique constraints keep apart.                                  *)
Separate(u, v) ==
    \/ u = NoRow \/ v = NoRow
    \/ /\ u.email # v.email /\ u.name # v.name
       /\ \A p \in Providers : u.ids[p] # None => u.ids[p] # v.ids[p]

Apart == \A i, j \in Rows : i # j => Separate(rows[i], rows[j])

(* A stored account has an address, and a random username is its creator's. *)
FilledRow(i) ==
    /\ rows[i] = NoRow \/ rows[i].email # None
    /\ rows[i].ids = [p \in Providers |-> rows[i].ids[p]]
    /\ rows[i].name \in Callbacks => rows[i].name = i

RegistrationRace(r) ==
    /\ pc[r] \notin {"idle", "start"} => given[r].email # None /\ given[r].name \in Nat
    /\ pc[r] \in {"existing", "existingname"} => rows[r] = NoRow
    /\ pc[r] = "existing" => Met(given[r].email) \/ Named(given[r].name, r)
    /\ pc[r] = "existingname" => given[r].email \in released \/ Named(given[r].name, r)
    /\ pc[r] = "taken" => Named(given[r].name, r)
    /\ pc[r] = "exists" => given[r].email \in released

Caused(c) ==
    LET p == Profile(c)
    IN  Tied(p.provider, p.account, target[c]) \/ (target[c] = None /\ Met(p.email))

(* A callback that has found no account yet works on none.                  *)
Aimless == {"idle", "start", "take", "exchange", "byid", "byemail", "name", "create", "retry"}

CallbackRace(c) ==
    /\ pc[c] \in {"byemail", "link", "name", "create", "retry"} => Profile(c).email # None
    /\ pc[c] \in Aimless => target[c] = None
    /\ name[c] \in Nat \/ (name[c] = c /\ pc[c] \in {"create", "retry", "resolved", "in", "challenged",
                                                      "refused", "error"})
    /\ pc[c] = "retry" => name[c] = c
    /\ pc[c] = "error" => Caused(c)

RaceOf(o) ==
    /\ pc[o] \in Aimed => rows[target[o]] # NoRow
    /\ o \in Registrations => RegistrationRace(o)
    /\ o \in Callbacks => CallbackRace(o)
    /\ o \in Confirms /\ pc[o] \in {"available", "consume", "write"} => given[o].to # None
    /\ o \in Changes /\ pc[o] = "mint" => given[o] # None

RaceInv ==
    /\ name = [c \in Callbacks |-> name[c]]
    /\ Apart
    /\ \A i \in Rows : FilledRow(i)
    /\ \A o \in Calls : RaceOf(o)
    /\ \A s \in sessions : rows[s.row] # NoRow
    /\ \A l \in mailed : rows[l.row] # NoRow /\ l.to # None

(* What a step does to an account that is stored, and to the others.        *)
Lasts(i) ==
    /\ rows'[i] # NoRow /\ rows'[i].name = rows[i].name
    /\ rows'[i].email = rows[i].email \/ rows[i].email \in released'
    /\ \A p \in Providers : rows[i].ids[p] # None =>
          rows'[i].ids[p] = rows[i].ids[p] \/ <<p, rows[i].ids[p]>> \in released'

Onward(o) ==
    /\ released \subseteq released'
    /\ \A i \in Rows : rows[i] # NoRow => Lasts(i)
    /\ \A i \in Rows \ {o} : rows[i] = NoRow => rows'[i] = NoRow
    /\ Apart' /\ \A i \in Rows : FilledRow(i)'

LEMMA CausesLast ==
    ASSUME NEW o, Onward(o)
    PROVE  /\ \A e : Met(e) => Met(e)'
           /\ \A n, r : Named(n, r) => Named(n, r)'
           /\ \A p, a, x : Tied(p, a, x) => Tied(p, a, x)'
<1>1. ASSUME NEW e, Met(e) PROVE Met(e)'
  BY <1>1 DEF Met, Onward, Lasts
<1>2. ASSUME NEW n, NEW r, Named(n, r) PROVE Named(n, r)'
  BY <1>2 DEF Named, Onward, Lasts
<1>3. ASSUME NEW p, NEW a, NEW x, Tied(p, a, x) PROVE Tied(p, a, x)'
  BY <1>3 DEF Tied, Onward, Lasts
<1>. QED
  BY <1>1, <1>2, <1>3
(* The calls that do not move.                                              *)
LEMMA OthersRace ==
    ASSUME Base, RaceInv, NEW o \in Calls, Alone(o), Onward(o), NEW x \in Calls, x # o,
           x \in Callbacks => name'[x] = name[x]
    PROVE  RaceOf(x)'
<1>1. pc'[x] = pc[x] /\ given'[x] = given[x] /\ target'[x] = target[x]
  BY DEF Alone
<1>2. RaceOf(x)
  BY DEF RaceInv
<1>3. pc'[x] \in Aimed => rows'[target'[x]] # NoRow
  BY <1>1, <1>2 DEF RaceOf, Base, RowsInv, Onward, Lasts
<1>4. ASSUME x \in Registrations PROVE RegistrationRace(x)'
  <2>1. RegistrationRace(x) /\ x \in Rows
    BY <1>2, <1>4 DEF RaceOf, Rows
  <2>2. pc[x] \in {"existing", "existingname"} => rows'[x] = NoRow
    BY <2>1 DEF RegistrationRace, Onward
  <2>3. released \subseteq released'
    BY DEF Onward
  <2>. QED
    BY <1>1, <2>1, <2>2, <2>3, CausesLast DEF RegistrationRace
<1>5. ASSUME x \in Callbacks PROVE CallbackRace(x)'
  <2>1. CallbackRace(x)
    BY <1>2, <1>5 DEF RaceOf
  <2>2. Profile(x)' = Profile(x)
    BY <1>1 DEF Profile
  <2>3. Caused(x) => Caused(x)'
    BY <1>1, <2>2, CausesLast DEF Caused
  <2>. QED
    BY <1>1, <1>5, <2>1, <2>2, <2>3 DEF CallbackRace
<1>. QED
  BY <1>1, <1>2, <1>3, <1>4, <1>5 DEF RaceOf

LEMMA RaceKept ==
    ASSUME Base, RaceInv, NEW o \in Calls, Alone(o), Onward(o), RaceOf(o)',
           name' = [c \in Callbacks |-> name'[c]], \A c \in Callbacks \ {o} : name'[c] = name[c],
           \A s \in sessions' : s \in sessions \/ (s.row \in Rows /\ rows'[s.row] # NoRow),
           \A l \in mailed' : l \in mailed \/ (l.row \in Rows /\ rows'[l.row] # NoRow /\ l.to # None)
    PROVE  RaceInv'
<1>1. \A x \in Calls : RaceOf(x)'
  BY OthersRace
<1>2. Apart' /\ \A i \in Rows : FilledRow(i)'
  BY DEF Onward
<1>3. \A s \in sessions' : rows'[s.row] # NoRow
  BY DEF RaceInv, Base, RowsInv, Onward, Lasts
<1>4. \A l \in mailed' : rows'[l.row] # NoRow /\ l.to # None
  BY DEF RaceInv, Base, RowsInv, Onward, Lasts
<1>. QED
  BY <1>1, <1>2, <1>3, <1>4 DEF RaceInv

(* Steps that write no account, and those that write one.                   *)
LEMMA NothingWritten ==
    ASSUME RaceInv, NEW o, UNCHANGED <<rows, released>>
    PROVE  Onward(o)
BY DEF RaceInv, Onward, Lasts, FilledRow, Apart

(* A write that meets no other row keeps its row apart from them.           *)
LEMMA NoClash ==
    ASSUME NEW i \in Rows, NEW v, Clashes(i, v) = {}, NEW j \in Rows \ {i}
    PROVE  Separate(v, rows[j])
<1>. SUFFICES ASSUME rows[j] # NoRow
              PROVE  /\ v.email # rows[j].email /\ v.name # rows[j].name
                     /\ \A p \in Providers : v.ids[p] # None => v.ids[p] # rows[j].ids[p]
  BY DEF Separate
<1>1. \A x \in Clashes(i, v) : FALSE
  OBVIOUS
<1>2. v.email = rows[j].email => j \in Clashes(i, v)
  BY DEF Clashes, ByEmail, Stored
<1>3. v.name = rows[j].name => j \in Clashes(i, v)
  BY DEF Clashes, ByName, Stored
<1>4. ASSUME NEW p \in Providers, v.ids[p] # None, v.ids[p] = rows[j].ids[p] PROVE j \in Clashes(i, v)
  <2>1. j \in ByOAuth(p, v.ids[p])
    BY <1>4 DEF ByOAuth, Stored
  <2>. QED
    BY <1>4, <2>1 DEF Clashes
<1>. QED
  BY <1>1, <1>2, <1>3, <1>4

(* One row is written, and stays apart from the others.                     *)
LEMMA StaysApart ==
    ASSUME Apart, NEW i \in Rows, Written(i), \A j \in Rows \ {i} : Separate(rows'[i], rows[j])
    PROVE  Apart'
<1>1. \A j \in Rows \ {i} : rows'[j] = rows[j]
  BY DEF Written
<1>2. ASSUME NEW j \in Rows \ {i} PROVE Separate(rows'[i], rows'[j]) /\ Separate(rows'[j], rows'[i])
  BY <1>1 DEF Separate
<1>3. ASSUME NEW j \in Rows \ {i}, NEW k \in Rows \ {i}, j # k PROVE Separate(rows'[j], rows'[k])
  BY <1>1, <1>3 DEF Apart
<1>. QED
  BY <1>2, <1>3 DEF Apart, Separate

(* A row whose unique columns stay.                                         *)
LEMMA SameKeysApart ==
    ASSUME Apart, NEW i \in Rows, rows[i] # NoRow, NEW v,
           v.email = rows[i].email, v.name = rows[i].name, v.ids = rows[i].ids
    PROVE  \A j \in Rows \ {i} : Separate(v, rows[j])
BY DEF Apart, Separate

LEMMA OneWritten ==
    ASSUME RaceInv, NEW o, NEW i \in Rows, rows[i] # NoRow, Written(i), rows'[i].name = rows[i].name,
           released \subseteq released', rows'[i].email # None,
           rows'[i].email = rows[i].email \/ rows[i].email \in released',
           rows'[i].ids = [p \in Providers |-> rows'[i].ids[p]],
           \A p \in Providers : rows[i].ids[p] # None =>
              rows'[i].ids[p] = rows[i].ids[p] \/ <<p, rows[i].ids[p]>> \in released',
           \A j \in Rows \ {i} : Separate(rows'[i], rows[j])
    PROVE  Onward(o)
<1>1. rows'[i] # NoRow
  BY NoRowIsRow
<1>5. Apart'
  BY StaysApart DEF RaceInv
<1>2. \A j \in Rows \ {i} : rows'[j] = rows[j]
  BY DEF Written
<1>3. \A j \in Rows : rows[j] # NoRow => Lasts(j)
  BY <1>1, <1>2 DEF Lasts
<1>4. \A j \in Rows : FilledRow(j)'
  BY <1>1, <1>2, ZenonT(60) DEF RaceInv, FilledRow
<1>. QED
  BY <1>2, <1>3, <1>4, <1>5 DEF Onward

(* A new account.                                                           *)
LEMMA OneAdded ==
    ASSUME RaceInv, NEW o \in Rows, rows[o] = NoRow, Written(o), released \subseteq released',
           rows'[o].email # None, rows'[o].name \in Callbacks => rows'[o].name = o,
           rows'[o].ids = [p \in Providers |-> rows'[o].ids[p]],
           \A j \in Rows \ {o} : Separate(rows'[o], rows[j])
    PROVE  Onward(o)
<1>1. rows'[o] # NoRow
  BY NoRowIsRow
<1>5. Apart'
  BY StaysApart DEF RaceInv
<1>2. \A j \in Rows \ {o} : rows'[j] = rows[j]
  BY DEF Written
<1>3. \A j \in Rows : rows[j] # NoRow => Lasts(j)
  BY <1>1, <1>2 DEF Lasts
<1>4. \A j \in Rows : FilledRow(j)'
  BY <1>1, <1>2 DEF RaceInv, FilledRow
<1>. QED
  BY <1>2, <1>3, <1>4, <1>5 DEF Onward

(* The writes that leave the unique columns alone.                          *)
LEMMA FlagsWritten ==
    ASSUME Base, RaceInv, NEW o \in Calls, NEW i, i = target[o], UNCHANGED released,
           MarkVerified(o) \/ Enroll(o) \/ SetPassword(o) \/ Bump(o)
    PROVE  Onward(o)
<1>1. i \in Rows /\ IsRow(rows[i]) /\ rows[i] # NoRow /\ FilledRow(i)
  BY DEF MarkVerified, Enroll, SetPassword, Bump, Base, RowsInv, Aimed, RaceInv, RaceOf
<1>2. PICK u : u = rows[i]
  OBVIOUS
<1>3. PICK v : rows' = [rows EXCEPT ![i] = v] /\ IsRow(v) /\ v.email = u.email /\ v.name = u.name /\ v.ids = u.ids
  <2>1. CASE MarkVerified(o)
    <3>1. PICK v : v = [u EXCEPT !.verified = TRUE] /\ rows' = [rows EXCEPT ![i] = v]
      BY <1>2, <2>1 DEF MarkVerified
    <3>2. IsRow(v) /\ v.email = u.email /\ v.name = u.name /\ v.ids = u.ids
      BY <1>1, <1>2, <3>1 DEF IsRow
    <3>. QED
      BY <3>1, <3>2
  <2>2. CASE Enroll(o)
    <3>1. PICK v : v = [u EXCEPT !.mfa = TRUE] /\ rows' = [rows EXCEPT ![i] = v]
      BY <1>2, <2>2 DEF Enroll
    <3>2. IsRow(v) /\ v.email = u.email /\ v.name = u.name /\ v.ids = u.ids
      BY <1>1, <1>2, <3>1 DEF IsRow
    <3>. QED
      BY <3>1, <3>2
  <2>3. CASE SetPassword(o)
    <3>1. PICK v : v = [u EXCEPT !.password = o] /\ rows' = [rows EXCEPT ![i] = v]
      BY <1>2, <2>3 DEF SetPassword
    <3>2. IsRow(v) /\ v.email = u.email /\ v.name = u.name /\ v.ids = u.ids
      BY <1>1, <1>2, <3>1 DEF IsRow
    <3>. QED
      BY <3>1, <3>2
  <2>4. CASE Bump(o)
    <3>1. PICK v : v = [u EXCEPT !.version = u.version + 1] /\ rows' = [rows EXCEPT ![i] = v]
      BY <1>2, <2>4 DEF Bump
    <3>2. u.version + 1 \in Nat
      BY <1>1, <1>2 DEF IsRow
    <3>3. IsRow(v) /\ v.email = u.email /\ v.name = u.name /\ v.ids = u.ids
      BY <1>1, <1>2, <3>1, <3>2 DEF IsRow
    <3>. QED
      BY <3>1, <3>3
  <2>. QED
    BY <2>1, <2>2, <2>3, <2>4
<1>4. Written(i) /\ rows'[i] = v
  BY <1>1, <1>3, Put DEF Base
<1>5. /\ rows'[i].email = rows[i].email /\ rows'[i].name = rows[i].name /\ rows'[i].ids = rows[i].ids
  BY <1>2, <1>3, <1>4
<1>6. rows'[i].email # None /\ rows'[i].ids = [p \in Providers |-> rows'[i].ids[p]]
  BY <1>1, <1>5 DEF FilledRow
<1>7. \A j \in Rows \ {i} : Separate(rows'[i], rows[j])
  BY <1>1, <1>5, SameKeysApart DEF RaceInv
<1>. QED
  BY <1>1, <1>4, <1>5, <1>6, <1>7, OneWritten

LEMMA DisableWritten ==
    ASSUME Base, RaceInv, NEW o \in Calls, Disable(o)
    PROVE  Onward(o)
<1>1. PICK i \in Rows : rows[i] # NoRow /\ rows' = [rows EXCEPT ![i].active = FALSE]
  BY DEF Disable, Stored
<1>2. IsRow(rows[i]) /\ FilledRow(i) /\ UNCHANGED released
  BY DEF Base, RowsInv, RaceInv, Disable, history
<1>3. PICK u, v : u = rows[i] /\ v = [u EXCEPT !.active = FALSE] /\ rows' = [rows EXCEPT ![i] = v]
  BY <1>1
<1>4. IsRow(v) /\ v.email = u.email /\ v.name = u.name /\ v.ids = u.ids
  BY <1>2, <1>3 DEF IsRow
<1>5. Written(i) /\ rows'[i] = v
  BY <1>3, <1>4, Put DEF Base
<1>6. /\ rows'[i].email = rows[i].email /\ rows'[i].name = rows[i].name /\ rows'[i].ids = rows[i].ids
  BY <1>3, <1>4, <1>5
<1>7. rows'[i].email # None /\ rows'[i].ids = [p \in Providers |-> rows'[i].ids[p]]
  BY <1>1, <1>2, <1>6 DEF FilledRow
<1>8. \A j \in Rows \ {i} : Separate(rows'[i], rows[j])
  BY <1>1, <1>6, SameKeysApart DEF RaceInv
<1>. QED
  BY <1>1, <1>2, <1>5, <1>6, <1>7, <1>8, OneWritten
LEMMA AddressWritten ==
    ASSUME Base, RaceInv, NEW k \in Confirms, WriteEmail(k)
    PROVE  Onward(k)
<1>1. PICK i : i = target[k]
  OBVIOUS
<1>2. k \in Calls /\ i \in Rows /\ IsRow(rows[i]) /\ rows[i] # NoRow /\ FilledRow(i) /\ given[k].to # None
      /\ copy[k].verified \in BOOLEAN
  BY <1>1 DEF WriteEmail, Base, RowsInv, Aimed, RaceInv, RaceOf, Calls, IsRow
<1>3. CASE UNCHANGED <<rows, released>>
  BY <1>3, NothingWritten
<1>4. CASE ~UNCHANGED <<rows, released>>
  <2>1. PICK u, b, v : /\ u = rows[i] /\ b = (u.verified \/ ~copy[k].verified)
                       /\ v = [u EXCEPT !.email = given[k].to, !.verified = b]
                       /\ rows' = [rows EXCEPT ![i] = v] /\ released' = released \cup {u.email}
                       /\ Clashes(i, v) = {}
    BY <1>1, <1>4 DEF WriteEmail
  <2>2. IsRow(v) /\ v.email = given[k].to /\ v.name = u.name /\ v.ids = u.ids
    BY <1>2, <2>1 DEF IsRow
  <2>3. Written(i) /\ rows'[i] = v
    BY <1>2, <2>1, <2>2, Put DEF Base
  <2>4. /\ rows'[i].email # None /\ rows[i].email \in released' /\ released \subseteq released'
        /\ rows'[i].name = rows[i].name /\ rows'[i].ids = rows[i].ids
    BY <1>2, <2>1, <2>2, <2>3
  <2>5. rows'[i].ids = [p \in Providers |-> rows'[i].ids[p]]
    BY <1>2, <2>4 DEF FilledRow
  <2>6. \A j \in Rows \ {i} : Separate(rows'[i], rows[j])
    BY <1>2, <2>1, <2>3, NoClash
  <2>. QED
    BY <1>2, <2>3, <2>4, <2>5, <2>6, OneWritten
<1>. QED
  BY <1>3, <1>4

LEMMA LinkWritten ==
    ASSUME Base, RaceInv, NEW c \in Callbacks, Link(c)
    PROVE  Onward(c)
<1>1. PICK i, p : i = target[c] /\ p = Profile(c)
  OBVIOUS
<1>2. c \in Calls /\ i \in Rows /\ IsRow(rows[i]) /\ rows[i] # NoRow /\ FilledRow(i) /\ copy[c].mfa \in BOOLEAN
  BY <1>1 DEF Link, Base, RowsInv, Aimed, RaceInv, RaceOf, Calls, IsRow
<1>3. CASE UNCHANGED <<rows, released>>
  BY <1>3, NothingWritten
<1>4. CASE ~UNCHANGED <<rows, released>>
  <2>1. PICK u, v : /\ u = rows[i] /\ v = Linked(u, copy[c], p) /\ rows' = [rows EXCEPT ![i] = v]
                    /\ released' = released \cup {<<p.provider, a>> : a \in {u.ids[p.provider]} \ {None, p.account}}
                    /\ Clashes(i, v) = {}
    BY <1>1, <1>4 DEF Link
  <2>2. PICK f : /\ f = [u.ids EXCEPT ![p.provider] = p.account]
                 /\ IsRow(v) /\ v.email = u.email /\ v.name = u.name /\ v.ids = f
    <3>1. PICK f : f = [u.ids EXCEPT ![p.provider] = p.account]
      OBVIOUS
    <3>2. CASE copy[c].verified
      <4>1. v = [u EXCEPT !.ids = f]
        BY <2>1, <3>1, <3>2 DEF Linked
      <4>. QED
        BY <1>2, <2>1, <3>1, <4>1 DEF IsRow
    <3>3. CASE ~copy[c].verified
      <4>1. PICK b : /\ b = (u.mfa /\ ~copy[c].mfa)
                     /\ v = [u EXCEPT !.ids = f, !.password = Unusable, !.verified = TRUE, !.mfa = b]
        BY <2>1, <3>1, <3>3 DEF Linked
      <4>2. IsRow(v) /\ v.email = u.email /\ v.name = u.name /\ v.ids = f
        BY <1>2, <2>1, <4>1 DEF IsRow
      <4>. QED
        BY <3>1, <4>2
    <3>. QED
      BY <3>2, <3>3
  <2>3. Written(i) /\ rows'[i] = v
    BY <1>2, <2>1, <2>2, Put DEF Base
  <2>4. u.ids = [q \in Providers |-> u.ids[q]] /\ u.email # None
    BY <1>2, <2>1 DEF FilledRow
  <2>5. f = [q \in Providers |-> f[q]] /\ \A q \in Providers : f[q] = IF q = p.provider THEN p.account ELSE u.ids[q]
    BY <2>2, <2>4
  <2>6. ASSUME NEW q \in Providers, rows[i].ids[q] # None
        PROVE  rows'[i].ids[q] = rows[i].ids[q] \/ <<q, rows[i].ids[q]>> \in released'
    <3>1. CASE q = p.provider /\ u.ids[q] # p.account
      BY <2>1, <2>6, <3>1
    <3>2. CASE ~(q = p.provider /\ u.ids[q] # p.account)
      BY <2>1, <2>2, <2>3, <2>5, <3>2
    <3>. QED
      BY <3>1, <3>2
  <2>7. /\ rows'[i].email = rows[i].email /\ rows'[i].email # None /\ rows'[i].name = rows[i].name
        /\ released \subseteq released'
    BY <2>1, <2>2, <2>3, <2>4
  <2>8. rows'[i].ids = [q \in Providers |-> rows'[i].ids[q]]
    BY <2>2, <2>3, <2>5
  <2>9. \A j \in Rows \ {i} : Separate(rows'[i], rows[j])
    BY <1>2, <2>1, <2>3, NoClash
  <2>. QED
    BY <1>2, <2>3, <2>6, <2>7, <2>8, <2>9, OneWritten
<1>. QED
  BY <1>3, <1>4

(* A registration whose insert is refused has met its address or its        *)
(* username.                                                                *)
LEMMA InsertRace ==
    ASSUME Base, RaceInv, NEW r \in Registrations, Insert(r)
    PROVE  Onward(r) /\ RaceOf(r)'
<1>1. r \in Calls /\ r \in Rows /\ r \notin Callbacks /\ r \notin Confirms /\ r \notin Changes
  BY CallsDisjoint DEF Calls, Rows
<1>2. rows[r] = NoRow
  BY <1>1 DEF Insert, Base, FreshInv, Born, Before
<1>3. pc[r] = "insert" /\ RegistrationRace(r)
  BY <1>1 DEF Insert, RaceInv, RaceOf
<1>4. PICK e, n, b, v : /\ e = given[r].email /\ n = given[r].name /\ b = ("email_verified" \in given[r].fields)
                        /\ v = [NoRow EXCEPT !.email = e, !.name = n, !.verified = b, !.password = r,
                                             !.active = TRUE]
                        /\ v = Registered(r, e, n, given[r].fields)
  BY DEF Registered
<1>5. b \in BOOLEAN /\ e # None /\ n \in Nat
  BY <1>3, <1>4 DEF RegistrationRace
<1>6. IsRow(v) /\ v.email = e /\ v.name = n /\ v.ids = [p \in Providers |-> None]
  <2>1. PICK f : f = [p \in Providers |-> None]
    OBVIOUS
  <2>2. PICK u : u = NoRow
    OBVIOUS
  <2>3. IsRow(u) /\ u.ids = f
    BY <2>1, <2>2, NoRowIsRow DEF NoRow
  <2>4. v = [u EXCEPT !.email = e, !.name = n, !.verified = b, !.password = r, !.active = TRUE]
    BY <1>4, <2>2
  <2>5. IsRow(v) /\ v.email = e /\ v.name = n /\ v.ids = u.ids
    BY <1>5, <2>3, <2>4 DEF IsRow
  <2>. QED
    BY <2>1, <2>3, <2>5
<1>7. UNCHANGED <<given, released, target, name>>
  BY DEF Insert, working, history
<1>8. CASE Clashes(r, v) # {}
  <2>1. UNCHANGED rows /\ pc'[r] = "existing"
    BY <1>1, <1>4, <1>8 DEF Insert, Goto, Base, Shape
  <2>2. Met(e) \/ Named(n, r)
    <3>1. PICK i \in Clashes(r, v) : TRUE
      BY <1>8
    <3>2. i # r /\ (i \in ByEmail(e) \/ i \in ByName(n))
      BY <1>6, <3>1 DEF Clashes
    <3>. QED
      BY <3>2 DEF ByEmail, ByName, Stored, Met, Named
  <2>3. Onward(r)
    BY <1>7, <2>1, NothingWritten
  <2>4. RegistrationRace(r)'
    BY <1>2, <1>4, <1>5, <1>7, <2>1, <2>2, <2>3, CausesLast DEF RegistrationRace
  <2>. QED
    BY <1>1, <2>1, <2>3, <2>4 DEF RaceOf, Aimed
<1>9. CASE Clashes(r, v) = {}
  <2>1. rows' = [rows EXCEPT ![r] = v] /\ pc'[r] \in {"send", "created"}
    BY <1>1, <1>4, <1>9 DEF Insert, Goto, Base, Shape
  <2>2. Written(r) /\ rows'[r] = v
    BY <1>1, <1>6, <2>1, Put DEF Base
  <2>3. v.name \notin Callbacks
    BY <1>5, <1>6, NamesDisjoint
  <2>4. v.ids = [p \in Providers |-> v.ids[p]]
    BY <1>6
  <2>7. \A j \in Rows \ {r} : Separate(rows'[r], rows[j])
    BY <1>1, <1>9, <2>2, NoClash
  <2>5. Onward(r)
    BY <1>1, <1>2, <1>5, <1>6, <1>7, <2>2, <2>3, <2>4, <2>7, OneAdded
  <2>6. RegistrationRace(r)'
    BY <1>4, <1>5, <1>7, <2>1 DEF RegistrationRace
  <2>. QED
    BY <1>1, <2>1, <2>5, <2>6 DEF RaceOf, Aimed
<1>. QED
  BY <1>8, <1>9
(* A creation whose retry is refused has met its address or its provider    *)
(* account: no other account has its random username.                       *)
LEMMA CreateRace ==
    ASSUME Base, RaceInv, NEW c \in Callbacks, CreateUser(c)
    PROVE  /\ Onward(c) /\ RaceOf(c)' /\ name' = [d \in Callbacks |-> name'[d]]
           /\ \A d \in Callbacks \ {c} : name'[d] = name[d]
<1>1. c \in Calls /\ c \in Rows /\ c \notin Registrations /\ c \notin Confirms /\ c \notin Changes
  BY CallsDisjoint DEF Calls, Rows
<1>2. pc[c] \in {"create", "retry"} /\ UNCHANGED <<given, released>>
  BY DEF CreateUser
<1>3. rows[c] = NoRow /\ CallbackRace(c) /\ name = [d \in Callbacks |-> name[d]]
  BY <1>1, <1>2 DEF Base, FreshInv, Born, Before, RaceInv, RaceOf
<1>4. PICK p, f, u : p = Profile(c) /\ f = [NoRow.ids EXCEPT ![p.provider] = p.account] /\ u = NoRow
  OBVIOUS
<1>5. PICK v : /\ v = [NoRow EXCEPT !.email = p.email, !.name = name[c], !.ids[p.provider] = p.account,
                                    !.verified = TRUE, !.active = TRUE]
               /\ v = [u EXCEPT !.email = p.email, !.name = name[c], !.ids = f, !.verified = TRUE, !.active = TRUE]
  BY <1>4 DEF NoRow
<1>6. IsRow(v) /\ v.email = p.email /\ v.name = name[c] /\ v.ids = f
  BY <1>4, <1>5, NoRowIsRow DEF IsRow
<1>7. /\ f = [q \in Providers |-> f[q]]
      /\ \A q \in Providers : f[q] = IF q = p.provider THEN p.account ELSE None
  BY <1>4 DEF NoRow
<1>8. p.email # None /\ (name[c] \in Nat \/ name[c] = c) /\ (pc[c] = "retry" => name[c] = c)
  BY <1>2, <1>3, <1>4 DEF CallbackRace
<1>9. Profile(c)' = p
  BY <1>2, <1>4 DEF Profile
<1>10. CASE Clashes(c, v) = {}
  <2>1. /\ rows' = [rows EXCEPT ![c] = v] /\ UNCHANGED name /\ Goto(c, "resolved") /\ Holds(c, c, v, {})
    BY <1>4, <1>5, <1>10 DEF CreateUser
  <2>2. pc'[c] = "resolved" /\ target'[c] = c
    BY <1>1, <2>1 DEF Goto, Holds, Base, Shape
  <2>3. Written(c) /\ rows'[c] = v
    BY <1>1, <1>6, <2>1, Put DEF Base
  <2>4. v.name \in Callbacks => v.name = c
    BY <1>6, <1>8, NamesDisjoint
  <2>8. \A j \in Rows \ {c} : Separate(rows'[c], rows[j])
    BY <1>1, <1>10, <2>3, NoClash
  <2>5. Onward(c)
    BY <1>1, <1>2, <1>3, <1>6, <1>7, <1>8, <2>3, <2>4, <2>8, OneAdded
  <2>6. rows'[c] # NoRow
    BY <1>6, <1>8, <2>3, NoRowIsRow
  <2>7. CallbackRace(c)'
    BY <1>8, <2>1, <2>2 DEF CallbackRace, Aimless
  <2>. QED
    BY <1>1, <1>3, <2>1, <2>2, <2>5, <2>6, <2>7 DEF RaceOf
<1>11. CASE Clashes(c, v) # {}
  <2>1. UNCHANGED <<rows, target>> /\ target[c] = None
    BY <1>2, <1>3, <1>4, <1>5, <1>11 DEF CreateUser, working, CallbackRace, Aimless
  <2>2. Onward(c)
    BY <1>2, <2>1, NothingWritten
  <2>3. CASE pc[c] = "create"
    <3>1. name' = [name EXCEPT ![c] = c] /\ Goto(c, "retry")
      BY <1>4, <1>5, <1>11, <2>3 DEF CreateUser, RandomName
    <3>2. pc'[c] = "retry" /\ name'[c] = c
      BY <1>1, <1>3, <3>1 DEF Goto, Base, Shape
    <3>3. CallbackRace(c)'
      BY <1>8, <1>9, <2>1, <3>2 DEF CallbackRace
    <3>4. name' = [d \in Callbacks |-> name'[d]] /\ \A d \in Callbacks \ {c} : name'[d] = name[d]
      BY <1>3, <3>1
    <3>. QED
      BY <1>1, <2>2, <3>2, <3>3, <3>4 DEF RaceOf, Aimed
  <2>4. CASE pc[c] = "retry"
    <3>1. UNCHANGED name /\ Answer(c, "error")
      BY <1>4, <1>5, <1>11, <2>4 DEF CreateUser
    <3>2. pc'[c] = "error"
      BY <1>1, <3>1 DEF Answer, Goto, Base, Shape
    <3>3. PICK i \in Clashes(c, v) : TRUE
      BY <1>11
    <3>4. Met(p.email) \/ Tied(p.provider, p.account, None)
      <4>4. None \notin Rows
        BY CallsDisjoint
      <4>1. CASE i \in ByEmail(p.email)
        BY <4>1 DEF ByEmail, Stored, Met
      <4>2. CASE i \in ByName(name[c])
        <5>1. i \in Rows /\ rows[i].name = c /\ i # c
          BY <1>8, <2>4, <3>3, <4>2 DEF ByName, Stored, Clashes
        <5>. QED
          BY <5>1 DEF RaceInv, FilledRow
      <4>3. CASE \E q \in Providers : v.ids[q] # None /\ i \in ByOAuth(q, v.ids[q])
        BY <1>6, <1>7, <4>3, <4>4 DEF ByOAuth, Stored, Tied
      <4>. QED
        BY <1>6, <3>3, <4>1, <4>2, <4>3 DEF Clashes
    <3>5. Caused(c)'
      BY <1>9, <2>1, <2>2, <3>4, CausesLast DEF Caused
    <3>6. CallbackRace(c)'
      BY <1>8, <2>1, <2>4, <3>1, <3>2, <3>5 DEF CallbackRace
    <3>. QED
      BY <1>1, <1>3, <2>2, <3>1, <3>2, <3>6 DEF RaceOf, Aimed
  <2>. QED
    BY <1>2, <2>3, <2>4
<1>. QED
  BY <1>10, <1>11

LEMMA SendIsStored ==
    ASSUME NEW o, NEW e, SendVerification(o, e), e # None, NEW l \in mailed'
    PROVE  l \in mailed \/ (l.row \in Rows /\ rows[l.row] # NoRow /\ l.to # None)
<1>1. PICK sent : mailed' = mailed \cup sent
                  /\ \A x \in sent : \E i \in ByEmail(e) : x = MintToken("verify", o, i, rows[i], e)
  BY DEF SendVerification, Deliver
<1>2. CASE l \in sent
  <2>1. PICK i \in ByEmail(e) : l = MintToken("verify", o, i, rows[i], e)
    BY <1>1, <1>2
  <2>. QED
    BY <2>1 DEF MintToken, ByEmail, Stored
<1>. QED
  BY <1>1, <1>2

LEMMA RegistrationKeepsRace ==
    ASSUME Base, RaceInv, NEW r \in Registrations, RegisterStep(r)
    PROVE  RaceInv'
<1>1. r \in Calls /\ r \in Rows /\ r \notin Callbacks /\ r \notin Confirms /\ r \notin Changes
  BY CallsDisjoint DEF Calls, Rows
<1>2. Alone(r) /\ UNCHANGED sessions /\ RegistrationRace(r)
  BY <1>1, RegisterMoves DEF Base, RaceInv, RaceOf
<1>3. UNCHANGED name /\ name = [c \in Callbacks |-> name[c]]
  BY DEF RegisterStep, Submit, LookEmail, LookName, ExistingEmail, ExistingName, Insert, RegisterSend, RaceInv
<1>4. CASE Insert(r)
  <2>1. Onward(r) /\ RaceOf(r)' /\ UNCHANGED mailed
    BY <1>4, InsertRace DEF Insert, links
  <2>. QED
    BY <1>1, <1>2, <1>3, <2>1, RaceKept
<1>5. CASE Submit(r)
  <2>1. PICK e, n, x : /\ e \in Emails /\ n \in 0..1
                       /\ Takes(r, [email |-> e, name |-> n, fields |-> x])
    BY <1>5 DEF Submit
  <2>2. given'[r].email = e /\ given'[r].name = n
    BY <1>1, <2>1 DEF Takes, Base, Shape
  <2>3. pc'[r] = "email" /\ UNCHANGED <<rows, released, mailed>>
    BY <1>1, <1>5 DEF Submit, Goto, Base, Shape, links, history
  <2>4. e # None /\ n \in Nat
    BY <2>1, CallsDisjoint
  <2>5. RegistrationRace(r)'
    BY <2>2, <2>3, <2>4 DEF RegistrationRace
  <2>6. RaceOf(r)' /\ Onward(r)
    BY <1>1, <2>3, <2>5, NothingWritten DEF RaceOf, Aimed
  <2>. QED
    BY <1>1, <1>2, <1>3, <2>3, <2>6, RaceKept
<1>6. CASE LookEmail(r) \/ LookName(r) \/ ExistingEmail(r) \/ ExistingName(r)
  <2>1. UNCHANGED <<rows, released, mailed, given>>
    BY <1>6 DEF LookEmail, LookName, ExistingEmail, ExistingName, links, history
  <2>2. Onward(r)
    BY <2>1, NothingWritten
  <2>3. pc[r] \in {"email", "name"} => rows[r] = NoRow
    BY <1>1 DEF Base, FreshInv, Born, Before
  <2>4. PICK e, n : e = given[r].email /\ n = given[r].name
    OBVIOUS
  <2>5. (ByEmail(e) # {} => Met(e)) /\ (Met(e) /\ ByEmail(e) = {} => e \in released)
    BY DEF ByEmail, Stored, Met
  <2>6. rows[r] = NoRow => (ByName(n) # {} <=> Named(n, r))
    BY DEF ByName, Stored, Named
  <2>7. (Met(e) => Met(e)') /\ (Named(n, r) => Named(n, r)') /\ UNCHANGED released
    BY <2>1, <2>2, CausesLast
  <2>8. e # None /\ n \in Nat /\ given'[r] = given[r]
    BY <1>2, <1>6, <2>1, <2>4 DEF RegistrationRace, LookEmail, LookName, ExistingEmail, ExistingName
  <2>9. RegistrationRace(r)' /\ pc'[r] \notin Aimed
    <3>1. CASE LookEmail(r)
      <4>1. pc'[r] = IF ByEmail(e) # {} THEN "existing" ELSE "name"
        BY <1>1, <2>4, <3>1 DEF LookEmail, Goto, Base, Shape
      <4>. QED
        BY <2>1, <2>3, <2>4, <2>5, <2>7, <2>8, <3>1, <4>1 DEF RegistrationRace, LookEmail, Aimed
    <3>2. CASE LookName(r)
      <4>1. pc'[r] = IF ByName(n) # {} THEN "existing" ELSE "insert"
        BY <1>1, <2>4, <3>2 DEF LookName, Goto, Base, Shape
      <4>. QED
        BY <2>1, <2>3, <2>4, <2>6, <2>7, <2>8, <3>2, <4>1 DEF RegistrationRace, LookName, Aimed
    <3>3. CASE ExistingEmail(r)
      <4>1. pc'[r] = IF ByEmail(e) = {} THEN "existingname" ELSE IF Mail THEN "enrolled" ELSE "duplicate"
        BY <1>1, <2>4, <3>3 DEF ExistingEmail, Goto, Base, Shape
      <4>2. rows[r] = NoRow /\ (Met(e) \/ Named(n, r))
        BY <1>2, <2>4, <3>3 DEF ExistingEmail, RegistrationRace
      <4>. QED
        BY <2>1, <2>4, <2>5, <2>7, <2>8, <4>1, <4>2 DEF RegistrationRace, Aimed
    <3>4. CASE ExistingName(r)
      <4>1. pc'[r] = IF ByName(n) # {} THEN "taken" ELSE "exists"
        BY <1>1, <2>4, <3>4 DEF ExistingName, Goto, Base, Shape
      <4>2. rows[r] = NoRow /\ (e \in released \/ Named(n, r))
        BY <1>2, <2>4, <3>4 DEF ExistingName, RegistrationRace
      <4>. QED
        BY <2>1, <2>4, <2>6, <2>7, <2>8, <4>1, <4>2 DEF RegistrationRace, Aimed
    <3>. QED
      BY <1>6, <3>1, <3>2, <3>3, <3>4
  <2>10. RaceOf(r)'
    BY <1>1, <2>9 DEF RaceOf
  <2>. QED
    BY <1>1, <1>2, <1>3, <2>1, <2>2, <2>10, RaceKept
<1>7. CASE RegisterSend(r)
  <2>1. pc[r] = "send" /\ pc'[r] = "enrolled" /\ UNCHANGED <<rows, released, given>>
    BY <1>1, <1>7 DEF RegisterSend, Goto, Base, Shape, history
  <2>2. given[r].email # None /\ given[r].name \in Nat
    BY <1>2, <2>1 DEF RegistrationRace
  <2>3. \A l \in mailed' : l \in mailed \/ (l.row \in Rows /\ rows[l.row] # NoRow /\ l.to # None)
    BY <1>7, <2>2, SendIsStored DEF RegisterSend
  <2>4. Onward(r) /\ RaceOf(r)'
    BY <1>1, <2>1, <2>2, NothingWritten DEF RaceOf, RegistrationRace, Aimed
  <2>. QED
    BY <1>1, <1>2, <1>3, <2>1, <2>3, <2>4, RaceKept
<1>. QED
  BY <1>4, <1>5, <1>6, <1>7 DEF RegisterStep
(* The calls other than registrations and callbacks.                        *)
LEMMA ConfirmKeepsRace ==
    ASSUME Base, RaceInv, NEW k \in Confirms, ConfirmStep(k)
    PROVE  RaceInv'
<1>1. k \in Calls /\ k \notin Registrations /\ k \notin Callbacks /\ k \notin Changes
  BY CallsDisjoint DEF Calls
<1>2. Alone(k) /\ UNCHANGED <<sessions, mailed>> /\ RaceOf(k)
  BY <1>1, ConfirmMoves DEF Base, RaceInv
<1>3. UNCHANGED name /\ name = [c \in Callbacks |-> name[c]]
  BY DEF ConfirmStep, Redeem, Available, Consume, MarkVerified, WriteEmail, RaceInv
<1>4. CASE Redeem(k)
  <2>1. PICK l \in mailed : Takes(k, l) /\ Reads(k, l.row)
    BY <1>4 DEF Redeem
  <2>2. given'[k] = l /\ target'[k] = l.row /\ UNCHANGED <<rows, released>>
    BY <1>1, <1>4, <2>1 DEF Redeem, Takes, Reads, Holds, Base, Shape
  <2>3. rows[l.row] # NoRow /\ l.to # None
    BY DEF RaceInv
  <2>4. RaceOf(k)' /\ Onward(k)
    BY <1>1, <2>2, <2>3, NothingWritten DEF RaceOf
  <2>. QED
    BY <1>1, <1>2, <1>3, <2>4, RaceKept
<1>5. CASE ~Redeem(k)
  <2>1. Keeps(k) /\ given'[k] = given[k]
    BY <1>5, ConfirmMoves DEF Base
  <2>2. Onward(k)
    <3>1. CASE Available(k) \/ Consume(k)
      <4>1. UNCHANGED <<rows, released>>
        BY <3>1 DEF Available, Consume, history
      <4>. QED
        BY <4>1, NothingWritten
    <3>2. CASE MarkVerified(k)
      <4>1. UNCHANGED released
        BY <3>2 DEF MarkVerified, history
      <4>. QED
        BY <1>1, <3>2, <4>1, FlagsWritten
    <3>. QED
      BY <1>5, <3>1, <3>2, AddressWritten DEF ConfirmStep
  <2>3. pc[k] \in {"available", "consume", "mark", "write"} /\ pc[k] \in Aimed
    BY <1>5 DEF ConfirmStep, Available, Consume, MarkVerified, WriteEmail, Aimed
  <2>4. target[k] \in Rows /\ rows[target[k]] # NoRow
    BY <1>1, <1>2, <2>3 DEF Base, RowsInv, RaceOf
  <2>5. rows'[target'[k]] # NoRow
    BY <2>1, <2>2, <2>4 DEF Keeps, Onward, Lasts
  <2>6. pc'[k] \in {"available", "consume", "write"} => pc[k] \in {"available", "consume"}
    BY <1>5, ConfirmMoves DEF Base, Available, Consume, MarkVerified, WriteEmail
  <2>7. RaceOf(k)'
    BY <1>1, <1>2, <2>1, <2>5, <2>6 DEF RaceOf
  <2>. QED
    BY <1>1, <1>2, <1>3, <2>2, <2>7, RaceKept
<1>. QED
  BY <1>4, <1>5

LEMMA ChangeKeepsRace ==
    ASSUME Base, RaceInv, NEW g \in Changes, ChangeStep(g)
    PROVE  RaceInv'
<1>1. g \in Calls /\ g \notin Registrations /\ g \notin Callbacks /\ g \notin Confirms
  BY CallsDisjoint DEF Calls
<1>2. Alone(g) /\ UNCHANGED <<rows, sessions>> /\ RaceOf(g)
  BY <1>1, ChangeMoves DEF Base, RaceInv
<1>3. UNCHANGED <<name, released>> /\ name = [c \in Callbacks |-> name[c]]
  BY DEF ChangeStep, ChangeRead, ChangeMint, history, RaceInv
<1>4. Onward(g)
  BY <1>2, <1>3, NothingWritten
<1>5. CASE ChangeRead(g)
  <2>1. PICK i, e : i \in Stored /\ e \in Emails /\ Takes(g, e) /\ Reads(g, i)
    BY <1>5 DEF ChangeRead
  <2>2. given'[g] = e /\ target'[g] = i /\ e # None /\ rows[i] # NoRow
    BY <1>1, <2>1, CallsDisjoint DEF Takes, Reads, Holds, Stored, Base, Shape
  <2>3. UNCHANGED mailed
    BY <1>5 DEF ChangeRead, links
  <2>4. RaceOf(g)'
    BY <1>1, <1>2, <2>2 DEF RaceOf
  <2>. QED
    BY <1>1, <1>2, <1>3, <1>4, <2>3, <2>4, RaceKept
<1>6. CASE ChangeMint(g)
  <2>1. PICK l : /\ l = MintToken("change", g, target[g], copy[g], given[g])
                 /\ \A x \in mailed' : x \in mailed \/ x = l
    BY <1>6 DEF ChangeMint, Deliver
  <2>2. pc[g] = "mint" /\ pc'[g] = "done"
    BY <1>1, <1>6 DEF ChangeMint, Goto, Base, Shape
  <2>3. target[g] \in Rows /\ rows[target[g]] # NoRow /\ given[g] # None
    BY <1>1, <1>2, <2>2 DEF Base, RowsInv, RaceOf, Aimed
  <2>4. l.row = target[g] /\ l.to = given[g]
    BY <2>1 DEF MintToken
  <2>5. RaceOf(g)'
    BY <1>1, <2>2 DEF RaceOf, Aimed
  <2>. QED
    BY <1>1, <1>2, <1>3, <1>4, <2>1, <2>3, <2>4, <2>5, RaceKept
<1>. QED
  BY <1>5, <1>6 DEF ChangeStep

LEMMA UserKeepsRace ==
    ASSUME Base, RaceInv, NEW o \in Requests \cup Logins \cup SetPasswords \cup Disables,
           \/ RequestVerification(o)
           \/ o \in Logins /\ (LoginRead(o) \/ LoginIssue(o) \/ Enroll(o))
           \/ o \in SetPasswords /\ (SetPasswordRead(o) \/ SetPassword(o))
           \/ o \in Disables /\ Disable(o)
    PROVE  RaceInv'
<1>1. o \in Calls /\ o \notin Registrations /\ o \notin Callbacks /\ o \notin Confirms /\ o \notin Changes
  BY CallsDisjoint DEF Calls
<1>2. Alone(o) /\ RaceOf(o)
  BY <1>1, RequestMoves, LoginMoves, PasswordMoves, DisableMoves DEF Base, RaceInv, RequestVerification
<1>3. UNCHANGED <<name, released>> /\ name = [c \in Callbacks |-> name[c]]
  BY DEF RequestVerification, LoginRead, LoginIssue, Enroll, SetPasswordRead, SetPassword, Disable, history, RaceInv
<1>4. (pc'[o] \notin Aimed \/ rows'[target'[o]] # NoRow) => RaceOf(o)'
  BY <1>1 DEF RaceOf
<1>5. pc[o] \in Aimed => target[o] \in Rows /\ rows[target[o]] # NoRow
  BY <1>1, <1>2 DEF Base, RowsInv, RaceOf
<1>6. CASE RequestVerification(o)
  <2>1. PICK e \in Emails : SendVerification(o, e)
    BY <1>6 DEF RequestVerification
  <2>2. e # None /\ UNCHANGED <<rows, sessions>> /\ pc'[o] = "done"
    BY <1>1, <1>6, CallsDisjoint DEF RequestVerification, Goto, Base, Shape
  <2>3. \A l \in mailed' : l \in mailed \/ (l.row \in Rows /\ rows[l.row] # NoRow /\ l.to # None)
    BY <2>1, <2>2, SendIsStored
  <2>4. Onward(o) /\ RaceOf(o)'
    BY <1>3, <1>4, <2>2, NothingWritten DEF Aimed
  <2>. QED
    BY <1>1, <1>2, <1>3, <2>2, <2>3, <2>4, RaceKept
<1>7. CASE LoginRead(o) \/ SetPasswordRead(o)
  <2>1. PICK i : Reads(o, i) /\ rows[i] # NoRow
    BY <1>7 DEF LoginRead, SetPasswordRead, Stored, RaceInv
  <2>2. target'[o] = i /\ UNCHANGED <<rows, sessions, mailed>>
    BY <1>1, <1>7, <2>1 DEF LoginRead, SetPasswordRead, Reads, Holds, links, Base, Shape
  <2>3. Onward(o) /\ RaceOf(o)'
    BY <1>3, <1>4, <2>1, <2>2, NothingWritten
  <2>. QED
    BY <1>1, <1>2, <1>3, <2>2, <2>3, RaceKept
<1>8. CASE LoginIssue(o)
  <2>1. /\ pc[o] = "issue" /\ UNCHANGED <<rows, target, mailed>>
        /\ sessions' = sessions \cup {[row |-> target[o], version |-> copy[o].version, era |-> era[o], by |-> o]}
    BY <1>8 DEF LoginIssue, Issue, working, links
  <2>2. target[o] \in Rows /\ rows[target[o]] # NoRow
    BY <1>5, <2>1 DEF Aimed
  <2>3. \A s \in sessions' : s \in sessions \/ s.row = target[o]
    BY <2>1
  <2>4. Onward(o) /\ RaceOf(o)'
    BY <1>3, <1>4, <2>1, <2>2, NothingWritten
  <2>. QED
    BY <1>1, <1>2, <1>3, <2>1, <2>2, <2>3, <2>4, RaceKept
<1>9. CASE Enroll(o) \/ SetPassword(o)
  <2>1. pc'[o] = "done" /\ UNCHANGED <<sessions, mailed>>
    BY <1>1, <1>9 DEF Enroll, SetPassword, Goto, links, Base, Shape
  <2>2. Onward(o) /\ RaceOf(o)'
    BY <1>1, <1>3, <1>4, <1>9, <2>1, FlagsWritten DEF Aimed
  <2>. QED
    BY <1>1, <1>2, <1>3, <2>1, <2>2, RaceKept
<1>10. CASE Disable(o)
  <2>1. pc'[o] = "done" /\ UNCHANGED <<sessions, mailed>>
    BY <1>1, <1>10 DEF Disable, Goto, links, Base, Shape
  <2>2. Onward(o) /\ RaceOf(o)'
    BY <1>1, <1>4, <1>10, <2>1, DisableWritten DEF Aimed
  <2>. QED
    BY <1>1, <1>2, <1>3, <2>1, <2>2, RaceKept
<1>. QED
  BY <1>6, <1>7, <1>8, <1>9, <1>10

(* A link is refused by a constraint only over the provider account: the    *)
(* other unique columns it writes back are its own row's.                   *)
LEMMA LinkRefused ==
    ASSUME Base, RaceInv, NEW c \in Callbacks, Link(c), pc'[c] = "error"
    PROVE  Tied(Profile(c).provider, Profile(c).account, target[c])
<1>1. PICK i, p, u, v : /\ i = target[c] /\ p = Profile(c) /\ u = rows[i] /\ v = Linked(u, copy[c], p)
  OBVIOUS
<1>2. /\ c \in Calls /\ pc[c] = "link" /\ i \in Rows /\ IsRow(u) /\ u # NoRow /\ FilledRow(i)
      /\ copy[c].mfa \in BOOLEAN
  BY <1>1 DEF Link, Base, RowsInv, Aimed, RaceInv, RaceOf, Calls, IsRow
<1>3. Clashes(i, v) # {}
  <2>1. ASSUME Clashes(i, v) = {} PROVE \E label \in {"resolved", "bump"} : Goto(c, label)
    BY <1>1, <2>1 DEF Link
  <2>. QED
    BY <1>2, <2>1 DEF Goto, Base, Shape
<1>4. PICK f : f = [u.ids EXCEPT ![p.provider] = p.account] /\ v.email = u.email /\ v.name = u.name /\ v.ids = f
  <2>1. PICK f : f = [u.ids EXCEPT ![p.provider] = p.account]
    OBVIOUS
  <2>2. CASE copy[c].verified
    <3>1. v = [u EXCEPT !.ids = f]
      BY <1>1, <2>1, <2>2 DEF Linked
    <3>. QED
      BY <1>2, <2>1, <3>1 DEF IsRow
  <2>3. CASE ~copy[c].verified
    <3>1. PICK b : /\ b = (u.mfa /\ ~copy[c].mfa)
                   /\ v = [u EXCEPT !.ids = f, !.password = Unusable, !.verified = TRUE, !.mfa = b]
      BY <1>1, <2>1, <2>3 DEF Linked
    <3>2. v.email = u.email /\ v.name = u.name /\ v.ids = f
      BY <1>2, <3>1 DEF IsRow
    <3>. QED
      BY <2>1, <3>2
  <2>. QED
    BY <2>2, <2>3
<1>5. \A q \in Providers : f[q] = IF q = p.provider THEN p.account ELSE u.ids[q]
  BY <1>1, <1>2, <1>4 DEF FilledRow
<1>6. PICK j \in Clashes(i, v) : TRUE
  BY <1>3
<1>7. j \in Rows /\ j # i /\ rows[j] # NoRow
  BY <1>6 DEF Clashes, ByEmail, ByName, ByOAuth, Stored
<1>8. Separate(u, rows[j]) /\ u # NoRow /\ rows[j] # NoRow
  BY <1>1, <1>2, <1>7 DEF RaceInv, Apart
<1>9. \/ rows[j].email = u.email \/ rows[j].name = u.name
      \/ \E q \in Providers : f[q] # None /\ rows[j].ids[q] = f[q]
  BY <1>4, <1>6 DEF Clashes, ByEmail, ByName, ByOAuth
<1>10. PICK q \in Providers : f[q] # None /\ rows[j].ids[q] = f[q]
  BY <1>8, <1>9 DEF Separate
<1>11. q = p.provider /\ f[q] = p.account
  BY <1>5, <1>8, <1>10 DEF Separate
<1>. QED
  BY <1>1, <1>7, <1>10, <1>11 DEF Tied

LEMMA CallbackKeepsRace ==
    ASSUME Base, RaceInv, NEW c \in Callbacks, CallbackStep(c)
    PROVE  RaceInv'
<1>1. c \in Calls /\ c \in Rows /\ c \notin Registrations /\ c \notin Confirms /\ c \notin Changes
  BY CallsDisjoint DEF Calls, Rows
<1>2. RaceOf(c) /\ CallbackRace(c) /\ name = [d \in Callbacks |-> name[d]]
  BY <1>1 DEF RaceInv, RaceOf
<1>3. Alone(c) /\ UNCHANGED mailed
  BY ArriverMoves, FinderMoves DEF CallbackStep, FindsOrMakes, Base
<1>4. pc[c] \in Aimed => target[c] \in Rows /\ rows[target[c]] # NoRow
  BY <1>1, <1>2 DEF Base, RowsInv, RaceOf
<1>5. CASE (\E b \in Browsers, f \in Flows, p \in Providers : Arrive(c, b, f, p)) \/ TakeState(c) \/ Exchange(c)
  <2>1. /\ UNCHANGED <<rows, sessions>> /\ pc[c] \in {"start", "take", "exchange"}
        /\ pc'[c] \in {"take", "exchange", "byid", "refused"}
    BY <1>5, ArriverMoves DEF Base
  <2>2. UNCHANGED <<name, released, target>>
    BY <1>5 DEF Arrive, TakeState, Exchange, history, working
  <2>3. CallbackRace(c)'
    BY <1>2, <2>1, <2>2 DEF CallbackRace, Aimless
  <2>4. RaceOf(c)' /\ Onward(c)
    BY <1>1, <2>1, <2>2, <2>3, NothingWritten DEF RaceOf, Aimed
  <2>. QED
    BY <1>1, <1>2, <1>3, <2>1, <2>2, <2>4, RaceKept
<1>6. ASSUME FindsOrMakes(c) PROVE Profile(c)' = Profile(c)
  <2>1. given'[c] = given[c]
    BY <1>6, FinderMoves DEF Base
  <2>. QED
    BY <2>1 DEF Profile
<1>7. CASE FindByOAuth(c)
  <2>1. UNCHANGED <<rows, released, sessions, name>> /\ pc[c] = "byid"
    BY <1>7 DEF FindByOAuth
  <2>2. PICK p, found : p = Profile(c) /\ found = ByOAuth(p.provider, p.account)
    OBVIOUS
  <2>3. \/ p.email # None /\ Goto(c, "byemail") /\ UNCHANGED target
        \/ \E i \in found : Reads(c, i) /\ Goto(c, "resolved")
        \/ Answer(c, "refused")
    BY <1>7, <2>2 DEF FindByOAuth, working
  <2>4. \/ p.email # None /\ pc'[c] = "byemail" /\ target'[c] = target[c]
        \/ pc'[c] = "resolved" /\ rows[target'[c]] # NoRow
        \/ pc'[c] = "refused"
    <3>1. CASE p.email # None /\ Goto(c, "byemail") /\ UNCHANGED target
      BY <1>1, <3>1 DEF Goto, Base, Shape
    <3>2. CASE \E i \in found : Reads(c, i) /\ Goto(c, "resolved")
      <4>1. PICK i \in found : Reads(c, i) /\ Goto(c, "resolved")
        BY <3>2
      <4>2. pc'[c] = "resolved" /\ target'[c] = i
        BY <1>1, <4>1 DEF Goto, Reads, Holds, Base, Shape
      <4>. QED
        BY <2>2, <4>2 DEF ByOAuth, Stored
    <3>3. CASE Answer(c, "refused")
      BY <1>1, <3>3 DEF Answer, Goto, Base, Shape
    <3>. QED
      BY <2>3, <3>1, <3>2, <3>3
  <2>5. CallbackRace(c)'
    BY <1>2, <1>6, <1>7, <2>1, <2>2, <2>4 DEF CallbackRace, FindsOrMakes, Aimless
  <2>6. RaceOf(c)' /\ Onward(c)
    BY <1>1, <2>1, <2>4, <2>5, NothingWritten DEF RaceOf, Aimed
  <2>. QED
    BY <1>1, <1>2, <1>3, <2>1, <2>6, RaceKept
<1>8. CASE FindByEmail(c)
  <2>1. UNCHANGED <<rows, released, sessions, name>> /\ pc[c] = "byemail"
    BY <1>8 DEF FindByEmail
  <2>2. PICK p, found : p = Profile(c) /\ found = ByEmail(p.email)
    OBVIOUS
  <2>3. \/ Goto(c, "name") /\ UNCHANGED target
        \/ \E i \in found : Reads(c, i) /\ Goto(c, "link")
        \/ Answer(c, "refused")
    BY <1>8, <2>2 DEF FindByEmail, working
  <2>4. \/ pc'[c] = "name" /\ target'[c] = target[c]
        \/ pc'[c] = "link" /\ rows[target'[c]] # NoRow
        \/ pc'[c] = "refused"
    <3>1. CASE Goto(c, "name") /\ UNCHANGED target
      BY <1>1, <3>1 DEF Goto, Base, Shape
    <3>2. CASE \E i \in found : Reads(c, i) /\ Goto(c, "link")
      <4>1. PICK i \in found : Reads(c, i) /\ Goto(c, "link")
        BY <3>2
      <4>2. pc'[c] = "link" /\ target'[c] = i
        BY <1>1, <4>1 DEF Goto, Reads, Holds, Base, Shape
      <4>. QED
        BY <2>2, <4>2 DEF ByEmail, Stored
    <3>3. CASE Answer(c, "refused")
      BY <1>1, <3>3 DEF Answer, Goto, Base, Shape
    <3>. QED
      BY <2>3, <3>1, <3>2, <3>3
  <2>5. Onward(c) /\ p.email # None /\ Profile(c)' = p
    BY <1>2, <1>6, <1>8, <2>1, <2>2, NothingWritten DEF CallbackRace, FindsOrMakes
  <2>7. CallbackRace(c)'
    BY <1>2, <2>1, <2>4, <2>5 DEF CallbackRace, Aimless
  <2>8. RaceOf(c)'
    BY <1>1, <2>1, <2>4, <2>7 DEF RaceOf, Aimed
  <2>. QED
    BY <1>1, <1>2, <1>3, <2>1, <2>5, <2>8, RaceKept
<1>9. CASE Link(c)
  <2>1. pc[c] = "link" /\ UNCHANGED <<sessions, name>> /\ name[c] \in Nat
    BY <1>2, <1>9 DEF Link, CallbackRace
  <2>2. Onward(c) /\ Profile(c)' = Profile(c)
    BY <1>6, <1>9, LinkWritten DEF FindsOrMakes
  <2>3. target'[c] = target[c] /\ pc'[c] \in {"error", "resolved", "bump"}
    BY <1>1, <1>9, LinkEffect DEF Base, Keeps
  <2>4. ASSUME pc'[c] = "error" PROVE Caused(c)'
    <3>1. Tied(Profile(c).provider, Profile(c).account, target[c])
      BY <1>1, <1>9, <2>4, LinkRefused
    <3>. QED
      BY <2>2, <2>3, <3>1, CausesLast DEF Caused
  <2>5. CallbackRace(c)'
    BY <2>1, <2>3, <2>4 DEF CallbackRace, Aimless
  <2>6. rows'[target'[c]] # NoRow
    BY <1>4, <2>1, <2>2, <2>3 DEF Aimed, Onward, Lasts
  <2>7. RaceOf(c)'
    BY <1>1, <2>5, <2>6 DEF RaceOf
  <2>. QED
    BY <1>1, <1>2, <1>3, <2>1, <2>2, <2>7, RaceKept
<1>10. CASE Bump(c) \/ Evict(c) \/ SignIn(c)
  <2>1. /\ UNCHANGED <<name, released>> /\ target'[c] = target[c] /\ pc[c] \in {"bump", "evict", "resolved"}
        /\ pc'[c] \in {"evict", "resolved", "in", "challenged", "refused"}
        /\ pc'[c] \in {"evict", "resolved"} => pc[c] \in {"bump", "evict"}
    <3>1. CASE Bump(c)
      BY <1>1, <3>1 DEF Bump, Holds, Goto, Base, Shape
    <3>2. CASE Evict(c)
      BY <1>1, <3>2 DEF Evict, Goto, working, history, Base, Shape
    <3>3. CASE SignIn(c)
      BY <1>1, <3>3 DEF SignIn, Answer, Goto, working, history, Base, Shape
    <3>. QED
      BY <1>10, <3>1, <3>2, <3>3
  <2>2. target[c] \in Rows /\ rows[target[c]] # NoRow
    BY <1>4, <2>1 DEF Aimed
  <2>3. Onward(c)
    <3>1. CASE Bump(c)
      BY <1>1, <2>1, <3>1, FlagsWritten
    <3>2. CASE Evict(c) \/ SignIn(c)
      BY <2>1, <3>2, NothingWritten DEF Evict, SignIn
    <3>. QED
      BY <1>10, <3>1, <3>2
  <2>4. \A s \in sessions' : s \in sessions \/ s.row = target[c]
    BY <1>10 DEF Bump, Evict, SignIn, Issue
  <2>5. rows'[target[c]] # NoRow
    BY <2>2, <2>3 DEF Onward, Lasts
  <2>6. CallbackRace(c)'
    BY <1>2, <2>1 DEF CallbackRace, Aimless
  <2>7. RaceOf(c)'
    BY <1>1, <2>1, <2>5, <2>6 DEF RaceOf
  <2>. QED
    BY <1>1, <1>2, <1>3, <2>1, <2>2, <2>3, <2>4, <2>5, <2>7, RaceKept
<1>11. CASE UniqueUsername(c)
  <2>1. UNCHANGED <<rows, released, sessions, target>> /\ pc[c] = "name"
    BY <1>11 DEF UniqueUsername, history, working
  <2>2. name[c] \in Nat /\ Profile(c).email # None /\ target[c] = None
    BY <1>2, <2>1 DEF CallbackRace, Aimless
  <2>3. \/ UNCHANGED name /\ Goto(c, "create")
        \/ name' = [name EXCEPT ![c] = name[c] + 1] /\ UNCHANGED pc
        \/ name' = [name EXCEPT ![c] = c] /\ Goto(c, "create")
    BY <1>11 DEF UniqueUsername, RandomName
  <2>4. name' = [d \in Callbacks |-> name'[d]] /\ \A d \in Callbacks \ {c} : name'[d] = name[d]
    BY <1>2, <2>3
  <2>5. /\ pc'[c] \in {"name", "create"}
        /\ name'[c] \in Nat \/ (name'[c] = c /\ pc'[c] = "create")
    BY <1>1, <1>2, <2>1, <2>2, <2>3 DEF Goto, Base, Shape
  <2>6. CallbackRace(c)'
    BY <1>6, <1>11, <2>1, <2>2, <2>5 DEF CallbackRace, FindsOrMakes
  <2>7. RaceOf(c)' /\ Onward(c)
    BY <1>1, <2>1, <2>5, <2>6, NothingWritten DEF RaceOf, Aimed
  <2>. QED
    BY <1>1, <1>3, <2>1, <2>4, <2>7, RaceKept
<1>12. CASE CreateUser(c)
  <2>1. UNCHANGED sessions
    BY <1>12 DEF CreateUser
  <2>. QED
    BY <1>1, <1>3, <1>12, <2>1, CreateRace, RaceKept
<1>. QED
  BY <1>5, <1>7, <1>8, <1>9, <1>10, <1>11, <1>12 DEF CallbackStep

LEMMA RaceInit == Init => RaceInv
<1>. SUFFICES ASSUME Init PROVE RaceInv
  OBVIOUS
<1>1. \A o \in Calls : pc[o] \in {"idle", "start"}
  BY DEF Init
<1>2. name = [c \in Callbacks |-> name[c]] /\ \A c \in Callbacks : name[c] \in Nat
  BY DEF Init
<1>3. ASSUME NEW i \in Rows PROVE FilledRow(i)
  <2>1. PICK u, v : u = NoRow /\ v = Registered(i, First, 0, {}) /\ rows[i] \in {u, v}
    BY DEF Init
  <2>2. IsRow(u) /\ u.email = None /\ u.name = None /\ u.ids = [p \in Providers |-> None]
    BY <2>1, NoRowIsRow DEF NoRow
  <2>3. PICK b : b = ("email_verified" \in {})
    OBVIOUS
  <2>4. v = [u EXCEPT !.email = First, !.name = 0, !.verified = b, !.password = i, !.active = TRUE]
    BY <2>1, <2>3 DEF Registered
  <2>5. v.email = First /\ v.name = 0 /\ v.ids = u.ids
    BY <2>2, <2>4 DEF IsRow
  <2>6. First # None /\ None \notin Callbacks /\ 0 \notin Callbacks
    BY CallsDisjoint, BoundsAssumption, NamesDisjoint DEF Calls
  <2>7. u.ids = [p \in Providers |-> u.ids[p]]
    BY <2>2
  <2>8. CASE rows[i] = u
    BY <2>1, <2>2, <2>6, <2>7, <2>8 DEF FilledRow
  <2>9. CASE rows[i] = v
    BY <2>5, <2>6, <2>7, <2>9 DEF FilledRow
  <2>. QED
    BY <2>1, <2>8, <2>9
<1>4. \A o \in Calls : RaceOf(o)
  <2>1. \A o \in Calls : target[o] = None
    BY DEF Init
  <2>. QED
    BY <1>1, <1>2, <2>1 DEF RaceOf, RegistrationRace, CallbackRace, Aimed
<1>5. Apart
  <2>1. PICK mix \in Mixes : \A i \in Rows : i \notin mix \cap Seeds => rows[i] = NoRow
    BY DEF Init
  <2>2. \A i, j \in Rows : i # j => rows[i] = NoRow \/ rows[j] = NoRow
    BY <2>1, OneSeed
  <2>. QED
    BY <2>2 DEF Apart, Separate
<1>. QED
  BY <1>2, <1>3, <1>4, <1>5 DEF RaceInv, Init

LEMMA RaceNext == Base /\ RaceInv /\ [Next]_vars => RaceInv'
<1>. SUFFICES ASSUME Base, RaceInv, [Next]_vars PROVE RaceInv'
  OBVIOUS
<1>1. ASSUME UNCHANGED <<rows, mailed, sessions, pc, given, target, name, released>> PROVE RaceInv'
  BY <1>1 DEF RaceInv, RaceOf, FilledRow, RegistrationRace, CallbackRace, Caused, Met, Named, Tied, Profile, Apart
<1>2. ASSUME NEW f \in Flows, NEW b \in Browsers, NEW p \in Providers, Authorize(f, b, p) PROVE RaceInv'
  BY <1>1, <1>2 DEF Authorize, links, working
<1>3. CASE UNCHANGED vars
  BY <1>1, <1>3 DEF vars
<1>. QED
  BY <1>2, <1>3, RegistrationKeepsRace, ConfirmKeepsRace, ChangeKeepsRace, UserKeepsRace, CallbackKeepsRace DEF Next

(* A creation that loses a race ends for the right reason, for any number   *)
(* of registrations, sign-ins and changes of address at once: a             *)
(* registration is told that a username is taken only if it is, and a       *)
(* sign-in fails only on a provider account, or a creation on an address,   *)
(* that another account holds or held (register/route.py _on_existing; oauth/account.py          *)
(* _create_user, _link).                                                    *)
THEOREM LosersLearnWhy == Spec => []LostRaceHasCause
<1>1. RaceInv => ClashHasCause
  <2>. SUFFICES ASSUME RaceInv, NEW r \in Registrations
                PROVE  /\ pc[r] = "taken" => ByName(given[r].name) \ {r} # {}
                       /\ pc[r] = "exists" => given[r].email \in released
    BY DEF ClashHasCause
  <2>1. RegistrationRace(r)
    BY DEF RaceInv, RaceOf, Calls
  <2>. QED
    BY <2>1 DEF RegistrationRace, Named, ByName, Stored
<1>2. RaceInv => ErrorHasCause
  <2>. SUFFICES ASSUME RaceInv, NEW c \in Callbacks, pc[c] = "error", NEW p, p = Profile(c)
                PROVE  \/ ByOAuth(p.provider, p.account) \ {target[c]} # {}
                       \/ <<p.provider, p.account>> \in released
                       \/ target[c] = None /\ (ByEmail(p.email) # {} \/ p.email \in released)
    BY DEF ErrorHasCause
  <2>1. Tied(p.provider, p.account, target[c]) \/ (target[c] = None /\ Met(p.email))
    BY DEF RaceInv, RaceOf, Calls, CallbackRace, Caused
  <2>. QED
    BY <2>1 DEF Met, Tied, ByOAuth, ByEmail, Stored
<1>. QED
  BY <1>1, <1>2, RaceInit, RaceNext, BaseAlways, PTL DEF Spec, LostRaceHasCause
=============================================================================
