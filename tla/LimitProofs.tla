---------------------------- MODULE LimitProofs ----------------------------
(***************************************************************************)
(* Theorems about the limits beside the lockout: the rate limits of routes *)
(* (RateLimit) and the guesses of sudo mode (Sudo), which share no state.  *)
(***************************************************************************)
EXTENDS RateLimit, Sudo, Integers, FiniteSetTheorems, SequenceTheorems, TLAPS

Headers == [key : Keys, remaining : Nat, mark : Nat]
Hit     == [call : Requests, key : RouteKeys, window : Nat, in_time : BOOLEAN,
            admitted : BOOLEAN, remaining : Nat]

Types ==
    /\ clock \in 0..MaxClock
    /\ backend \in {"memory", "redis", "database"} /\ mix \in Mixes
    /\ table \in [Keys -> [n : Nat, exp : Nat]]
    /\ pc = [c \in Calls |-> pc[c]]
    /\ \A r \in DOMAIN caller : caller[r] \in Callers
    /\ key \in [Calls -> Keys]
    /\ built \in [Calls -> 0..MaxClock] /\ \A c \in Calls : built[c] <= clock
    /\ recorded \in [Requests -> Headers]
    /\ \A r \in DOMAIN answer : r \in Requests /\ answer[r] \in [status : Nat, headers : Headers]
    /\ log \in Seq(Hit)
    /\ began \in [start : Nat, refresh : Nat]

-----------------------------------------------------------------------------
(* Windows.                                                                 *)
LEMMA Division ==
    ASSUME NEW t \in Nat
    PROVE  t = Period * (t \div Period) + (t % Period) /\ t \div Period \in Nat /\ t % Period \in 0..(Period - 1)
BY BoundsAssumption

LEMMA Multiples ==
    ASSUME NEW d \in Int
    PROVE  /\ d >= 1 => Period * d >= Period
           /\ d <= 0 - 1 => Period * d <= 0 - Period
BY BoundsAssumption

LEMMA Distributes ==
    ASSUME NEW a \in Int, NEW b \in Int
    PROVE  Period * (a - b) = Period * a - Period * b
BY BoundsAssumption

(* The window of a time holds it.                                           *)
LEMMA WindowHolds ==
    ASSUME NEW t \in Nat
    PROVE  WindowOf(t) \in Nat /\ WindowOf(t) <= t /\ t < WindowOf(t) + Period
<1>1. t % Period \in 0..(Period - 1) /\ t = Period * (t \div Period) + (t % Period) /\ t \div Period \in Nat
  BY Division
<1>2. Period * (t \div Period) \in Nat
  BY <1>1, BoundsAssumption
<1>3. t % Period <= t
  BY <1>1, <1>2
<1>. QED
  BY <1>1, <1>3, BoundsAssumption DEF WindowOf

(* The start of a window is in that window.                                 *)
LEMMA WindowOfStart ==
    ASSUME NEW t \in Nat
    PROVE  WindowOf(WindowOf(t)) = WindowOf(t)
<1>. DEFINE q == t \div Period
            w == WindowOf(t)
            r == w \div Period
<1>1. w \in Nat /\ q \in Nat
  BY WindowHolds, Division
<1>2. w = Period * q
  <2>1. t = Period * q + (t % Period) /\ t % Period \in 0..(Period - 1)
    BY Division
  <2>2. Period * q \in Int
    BY <1>1, BoundsAssumption
  <2>. QED
    BY <2>1, <2>2 DEF WindowOf
<1>3. w = Period * r + (w % Period) /\ r \in Nat /\ w % Period \in 0..(Period - 1)
  BY <1>1, Division
<1>. HIDE DEF q, w, r
<1>4. Period * (q - r) = w % Period
  BY <1>1, <1>2, <1>3, Distributes, BoundsAssumption
<1>5. q - r = 0
  BY <1>1, <1>3, <1>4, Multiples, BoundsAssumption
<1>6. w % Period = 0
  BY <1>1, <1>3, <1>4, <1>5, Distributes, BoundsAssumption
<1>. QED
  BY <1>1, <1>6 DEF WindowOf, w

LEMMA WindowIsNat == \A k \in RouteKeys : k.window \in Nat
BY WindowHolds, BoundsAssumption DEF RouteKeys, Windows

LEMMA KeysApart == Attempts \notin RouteKeys /\ Rounds \notin RouteKeys /\ Attempts # Rounds
BY DEF Attempts, Rounds, RouteKeys

LEMMA TimesAreNatural == Times("ip") \in Nat /\ Times("user") \in Nat /\ \A k \in RouteKeys : Times(k.limiter) \in Nat
BY BoundsAssumption DEF Times, RouteKeys

LEMMA RemainingBounds ==
    ASSUME NEW k \in RouteKeys, NEW n \in Nat
    PROVE  /\ Remaining(k.limiter, n) \in 0..Times(k.limiter)
           /\ Remaining(k.limiter, n + 1) <= Remaining(k.limiter, n)
           /\ n + 1 <= Times(k.limiter) => Remaining(k.limiter, n + 1) + 1 = Remaining(k.limiter, n)
           /\ n > Times(k.limiter) => Remaining(k.limiter, n) = 0
BY TimesAreNatural DEF Remaining

-----------------------------------------------------------------------------
(* Who is counted. Whatever a client claims, and however many proxies each  *)
(* add the address they were called from, the address found is the one the  *)
(* client sent from.                                                        *)
OwnerOf(r, limiter) ==
    IF limiter = "ip" \/ caller[r].user = Anonymous THEN caller[r].from.block ELSE caller[r].user

LEMMA ForwardedAddress ==
    ASSUME NEW r \in DOMAIN caller, caller[r] \in Callers
    PROVE  GetClientIp(r) = caller[r].from
<1>. DEFINE added == [i \in 1..Hops |-> IF i = 1 THEN caller[r].from ELSE Foreign]
            claims == caller[r].claims
<1>1. CASE Hops = 0
  BY <1>1 DEF GetClientIp
<1>2. CASE Hops > 0
  <2>. DEFINE S == {caller[r].from, Foreign}
  <2>1. added \in [1..Hops -> S] /\ added[1] = caller[r].from
    BY <1>2, HopsAssumption
  <2>2. added \in Seq(S) /\ Len(added) = Hops
    <3>. HIDE DEF added, S
    <3>. QED
      BY <2>1, HopsAssumption
  <2>3. claims \in Seq(S) /\ Len(claims) \in Nat
    <3>1. claims = <<>> \/ claims = <<Foreign>>
      BY DEF Callers
    <3>2. Foreign \in S
      OBVIOUS
    <3>. HIDE DEF claims, S
    <3>3. <<>> \in Seq(S) /\ <<Foreign>> \in Seq(S)
      BY <3>2
    <3>4. claims \in Seq(S)
      BY <3>1, <3>3
    <3>. QED
      BY <3>4, LenProperties
  <2>4. Forwarded(r) = claims \o added
    BY DEF Forwarded
  <2>. HIDE DEF added, claims, S
  <2>5. /\ Len(claims \o added) = Len(claims) + Len(added)
        /\ \A i \in 1..(Len(claims) + Len(added)) :
             (claims \o added)[i] = IF i <= Len(claims) THEN claims[i] ELSE added[i - Len(claims)]
    BY <2>2, <2>3, ConcatProperties, Zenon
  <2>6. /\ Len(claims) + 1 \in 1..(Len(claims) + Len(added)) /\ ~(Len(claims) + 1 <= Len(claims))
        /\ Len(claims) + 1 - Len(claims) = 1
    BY <1>2, <2>2, <2>3, HopsAssumption
  <2>7. (claims \o added)[Len(claims) + 1] = caller[r].from
    BY <2>1, <2>5, <2>6
  <2>8. Len(Forwarded(r)) = Len(claims) + Hops /\ Forwarded(r)[Len(claims) + 1] = caller[r].from
    BY <2>2, <2>4, <2>5, <2>7, Zenon
  <2>9. Forwarded(r) # <<>> /\ Hops <= Len(Forwarded(r)) /\ Len(Forwarded(r)) - Hops + 1 = Len(claims) + 1
    BY <1>2, <2>3, <2>8, HopsAssumption
  <2>10. (IF Hops < Len(Forwarded(r)) THEN Hops ELSE Len(Forwarded(r))) = Hops
    BY <2>3, <2>8, <2>9, HopsAssumption
  <2>. QED
    BY <1>2, <2>8, <2>9, <2>10 DEF GetClientIp
<1>. QED
  BY <1>1, <1>2, HopsAssumption

LEMMA IdentityIsOwner ==
    ASSUME NEW r \in DOMAIN caller, caller[r] \in Callers, NEW l \in {"ip", "user"}
    PROVE  Identity(r, l) = OwnerOf(r, l) /\ OwnerOf(r, l) \in Clients \cup Users
BY ForwardedAddress DEF Identity, OwnerOf, ClientIpKey, Callers, Addresses

LEMMA WindowKeyFields ==
    ASSUME Types, NEW r \in DOMAIN caller, NEW l \in {"ip", "user"}
    PROVE  /\ WindowKey(r, l) \in RouteKeys /\ WindowKey(r, l).limiter = l
           /\ WindowKey(r, l).id = OwnerOf(r, l) /\ WindowKey(r, l).window = WindowOf(clock)
<1>1. caller[r] \in Callers /\ WindowOf(clock) \in Windows
  BY DEF Types, Windows
<1>. QED
  BY <1>1, IdentityIsOwner DEF WindowKey, RouteKeys

-----------------------------------------------------------------------------
(* The requests on their way, and what is known of those counted.           *)
Served == {"ip", "ip_count", "user", "user_count", "route", "answered"}

Flow ==
    /\ \A r \in Requests : pc[r] \in Served => r \in DOMAIN caller
    /\ \A r \in Requests : Counting(r) =>
          /\ key[r] \in RouteKeys /\ key[r].id = OwnerOf(r, key[r].limiter)
          /\ key[r].window = WindowOf(built[r])
    /\ \A r \in DOMAIN answer : pc[r] = "answered"
    /\ \A c \in Calls : pc[c] = "lock" => key[c] \in {Attempts, Rounds}

(* A hit is booked under its caller, whatever the caller claims to be, and  *)
(* under the window it was asked in.                                        *)
Booked ==
    \A i \in 1..Len(log) :
        /\ pc[log[i].call] \in Served
        /\ log[i].key.id = OwnerOf(log[i].call, log[i].key.limiter)
        /\ log[i].key.window = log[i].window

(* A counter of a window lasts until the window has ended.                  *)
Lasting == \A k \in RouteKeys : table[k].n > 0 => table[k].exp >= k.window + Period

Open(k) == clock < k.window + Period

Counter == [n : Nat, exp : Nat]

(* A counter stays as it is, or it has expired and goes.                    *)
Faded(q) == table'[q] = table[q] \/ (table'[q] = NoCounter /\ ~Live(table[q], clock))

(* One request is counted: key k, whose counter becomes c, and the hit e.   *)
HitBy(r, k, c, e) ==
    /\ e.call = r /\ e.key = k /\ e.window = k.window /\ k.id = OwnerOf(r, k.limiter)
    /\ c.n <= table[k].n + 1 /\ (Open(k) => c.n = table[k].n + 1)
    /\ c.exp >= k.window + Period
    /\ e.admitted /\ e.in_time => Open(k) /\ c.n <= Times(k.limiter)
    /\ log' = Append(log, e)
    /\ \A q \in Keys \ {k} : Faded(q)
    /\ table'[k] = c \/ (table'[k] = NoCounter /\ ~Live(c, clock))
    /\ table' \in [Keys -> Counter]

(* What the request is told: go on, or 429.                                 *)
Report(k, c) == [key |-> k, mark |-> Len(log) + 1, remaining |-> Remaining(k.limiter, c.n)]

Reports(r, k, c, e) ==
    /\ e.remaining = Remaining(k.limiter, c.n)
    /\ recorded' = [recorded EXCEPT ![r] = Record(r, Report(k, c))]
    /\ \/ /\ c.n > Times(k.limiter)
          /\ answer' = With(answer, r, [status |-> 429, headers |-> Report(k, c)])
          /\ Goto(r, "answered")
       \/ c.n <= Times(k.limiter) /\ answer' = answer /\ \E label \in {"user", "route"} : Goto(r, label)

CountMove(r) ==
    /\ pc[r] \in Served \ {"answered"} /\ UNCHANGED <<clock, backend, mix, caller, began>>
    /\ \E k \in RouteKeys, c \in Counter, e \in Hit : HitBy(r, k, c, e) /\ Reports(r, k, c, e)

(* The backend raises: the request passes, counted or not.                  *)
FullReport(k) == [key |-> k, mark |-> Len(log), remaining |-> Times(k.limiter)]

FailMove(r) ==
    /\ pc[r] \in Served \ {"answered"} /\ UNCHANGED <<clock, backend, mix, caller, began, answer>>
    /\ \E label \in {"user", "route"} : Goto(r, label)
    /\ \E k \in RouteKeys :
          /\ recorded' = [recorded EXCEPT ![r] = Record(r, FullReport(k))]
          /\ \/ UNCHANGED <<log, table>>
             \/ \E c \in Counter, e \in Hit :
                   HitBy(r, k, c, e) /\ ~e.in_time /\ e.remaining = Times(k.limiter)

-----------------------------------------------------------------------------
(* What the two increments make of the counter of a window.                 *)
LEMMA Increments ==
    ASSUME Types, Lasting, NEW k \in RouteKeys, NEW now \in Nat, k.window <= now, now <= clock,
           NEW c \in {Incremented(table[k], now), Refreshed(table[k], now)}
    PROVE  /\ c \in Counter /\ c.n <= table[k].n + 1 /\ c.exp >= k.window + Period
           /\ Open(k) => c.n = table[k].n + 1
<1>1. table[k] \in Counter /\ table[k].n \in Nat /\ table[k].exp \in Nat /\ k.window \in Nat /\ Period \in Nat /\ clock \in Nat
  BY WindowIsNat, BoundsAssumption DEF Types, Keys, Counter
<1>2. CASE Live(table[k], now)
  <2>1. c.n = table[k].n + 1 /\ c.exp \in {table[k].exp, now + Period} /\ c \in Counter
    BY <1>1, <1>2 DEF Incremented, Refreshed, Counter
  <2>2. table[k].exp >= k.window + Period
    BY <1>1, <1>2 DEF Live, Lasting
  <2>. QED
    BY <1>1, <2>1, <2>2
<1>3. CASE ~Live(table[k], now)
  <2>1. c = [n |-> 1, exp |-> now + Period]
    BY <1>3 DEF Incremented, Refreshed, Fresh
  <2>2. Open(k) => table[k].n = 0
    BY <1>1, <1>3 DEF Open, Live, Lasting
  <2>. QED
    BY <1>1, <2>1, <2>2 DEF Counter
<1>. QED
  BY <1>2, <1>3

LEMMA StoreMoves ==
    ASSUME Types, NEW k \in Keys, NEW c \in Counter, Store(k, c)
    PROVE  /\ \A q \in Keys \ {k} : Faded(q)
           /\ table'[k] = c \/ (table'[k] = NoCounter /\ ~Live(c, clock))
           /\ table' \in [Keys -> Counter]
<1>. DEFINE t == [table EXCEPT ![k] = c]
<1>1. t \in [Keys -> Counter] /\ t[k] = c /\ \A q \in Keys \ {k} : t[q] = table[q]
  BY DEF Types, Counter
<1>2. table' = Swept(t)
  BY DEF Store
<1>3. NoCounter \in Counter
  BY DEF NoCounter, Counter
<1>. HIDE DEF t
<1>4. table' = t \/ table' = [q \in Keys |-> IF Live(t[q], clock) THEN t[q] ELSE NoCounter]
  BY <1>2 DEF Swept
<1>5. CASE table' = t
  BY <1>1, <1>5 DEF Faded
<1>6. CASE table' = [q \in Keys |-> IF Live(t[q], clock) THEN t[q] ELSE NoCounter]
  BY <1>1, <1>3, <1>6 DEF Faded
<1>. QED
  BY <1>4, <1>5, <1>6

(* The three ways to count, in one.                                         *)
LEMMA CountIsMove ==
    ASSUME Types, Lasting, NEW r \in Requests, NEW k \in RouteKeys, k.id = OwnerOf(r, k.limiter),
           NEW asked \in 0..MaxClock, asked <= clock, k.window = WindowOf(asked),
           NEW now \in Nat, k.window <= now, now <= clock,
           NEW c \in {Incremented(table[k], now), Refreshed(table[k], now)},
           Count(r, k, asked, c), pc[r] \in Served \ {"answered"},
           UNCHANGED <<clock, backend, mix, caller, began>>
    PROVE  CountMove(r)
<1>1. /\ c \in Counter /\ c.n <= table[k].n + 1 /\ c.exp >= k.window + Period
      /\ Open(k) => c.n = table[k].n + 1
  BY Increments
<1>. DEFINE e == [call |-> r, key |-> k, window |-> WindowOf(asked),
                  in_time |-> WindowOf(clock) = WindowOf(asked),
                  admitted |-> ~(c.n > Times(k.limiter)), remaining |-> Remaining(k.limiter, c.n)]
<1>2. c.n \in Nat /\ Times(k.limiter) \in Nat /\ clock \in Nat /\ k.window \in Nat
  <2>1. c.n \in Nat
    BY <1>1 DEF Counter
  <2>2. clock \in Nat
    BY BoundsAssumption DEF Types
  <2>. HIDE DEF e
  <2>. QED
    BY <2>1, <2>2, TimesAreNatural, WindowIsNat
<1>3. Remaining(k.limiter, c.n) \in Nat
  BY <1>2, RemainingBounds, TimesAreNatural
<1>4. e \in Hit
  BY <1>2, <1>3 DEF Hit
<1>5. /\ Store(k, c) /\ log' = Append(log, e) /\ recorded' = [recorded EXCEPT ![r] = Record(r, Report(k, c))]
      /\ IF c.n > Times(k.limiter) THEN Answer(r, 429, Report(k, c)) ELSE Goto(r, NextLimiter(r)) /\ UNCHANGED answer
  BY DEF Count, Report
<1>6. e.admitted /\ e.in_time => Open(k) /\ c.n <= Times(k.limiter)
  <2>1. e.in_time => k.window = WindowOf(clock)
    OBVIOUS
  <2>2. clock < WindowOf(clock) + Period
    BY <1>2, WindowHolds
  <2>3. e.admitted => c.n <= Times(k.limiter)
    <3>1. e.admitted <=> ~(c.n > Times(k.limiter))
      BY Zenon
    <3>. HIDE DEF e
    <3>. QED
      BY <1>2, <3>1
  <2>. QED
    BY <2>1, <2>2, <2>3 DEF Open
<1>7. HitBy(r, k, c, e)
  <2>1. k \in Keys
    BY DEF Keys
  <2>2. e.call = r /\ e.key = k /\ e.window = k.window
    OBVIOUS
  <2>. HIDE DEF e
  <2>. QED
    BY <1>1, <1>5, <1>6, <2>1, <2>2, StoreMoves DEF HitBy
<1>8. Reports(r, k, c, e)
  <2>1. e.remaining = Remaining(k.limiter, c.n)
    OBVIOUS
  <2>2. NextLimiter(r) \in {"user", "route"}
    BY DEF NextLimiter
  <2>. HIDE DEF e
  <2>. QED
    BY <1>2, <1>5, <2>1, <2>2 DEF Reports, Answer
<1>. QED
  BY <1>1, <1>4, <1>7, <1>8 DEF CountMove

LEMMA FailIsMove ==
    ASSUME Types, Flow, Lasting, NEW r \in Requests, FailOpen(r)
    PROVE  FailMove(r)
<1>. DEFINE k == key[r]
<1>1. /\ k \in RouteKeys /\ k.id = OwnerOf(r, k.limiter) /\ k.window = WindowOf(built[r])
      /\ pc[r] \in Served \ {"answered"} /\ r \in Calls
  BY DEF Flow, FailOpen, Counting, Served, Calls
<1>2. built[r] \in Nat /\ clock \in Nat /\ built[r] <= clock /\ k.window <= built[r] /\ k.window \in Nat
  <2>1. built[r] \in Nat /\ clock \in Nat /\ built[r] <= clock
    BY <1>1, BoundsAssumption DEF Types
  <2>. QED
    BY <1>1, <2>1, WindowHolds
<1>3. Times(k.limiter) \in Nat /\ Remaining(k.limiter, 0) = Times(k.limiter)
  BY <1>1, TimesAreNatural DEF Remaining
<1>4. NextLimiter(r) \in {"user", "route"}
  BY DEF NextLimiter
<1>5. recorded' = [recorded EXCEPT ![r] = Record(r, FullReport(k))]
  BY <1>3 DEF FailOpen, FullReport
<1>6. /\ UNCHANGED <<clock, backend, mix, caller, began, answer>>
      /\ \E label \in {"user", "route"} : Goto(r, label)
  BY <1>4 DEF FailOpen
<1>. DEFINE e == [call |-> r, key |-> k, window |-> WindowOf(built[r]),
                  in_time |-> FALSE, admitted |-> FALSE, remaining |-> Remaining(k.limiter, 0)]
            c == IF backend = "redis" THEN Refreshed(table[k], clock) ELSE Incremented(table[k], built[r])
<1>7. \/ UNCHANGED <<log, table>>
      \/ log' = Append(log, e) /\ table' = [table EXCEPT ![k] = c]
  BY DEF FailOpen
<1>8. e \in Hit /\ ~e.in_time /\ e.remaining = Times(k.limiter) /\ e.call = r /\ e.key = k /\ e.window = k.window
  <2>1. WindowOf(built[r]) \in Nat
    BY <1>2, WindowHolds
  <2>. QED
    BY <1>1, <1>3, <2>1 DEF Hit
<1>9. /\ c \in Counter /\ c.n <= table[k].n + 1 /\ c.exp >= k.window + Period
      /\ Open(k) => c.n = table[k].n + 1
  <2>. HIDE DEF k
  <2>1. CASE backend = "redis"
    BY <1>1, <1>2, <2>1, Increments
  <2>2. CASE backend # "redis"
    BY <1>1, <1>2, <2>2, Increments
  <2>. QED
    BY <2>1, <2>2
<1>10. ASSUME log' = Append(log, e), table' = [table EXCEPT ![k] = c] PROVE HitBy(r, k, c, e)
  <2>. HIDE DEF c, k
  <2>1. /\ table' \in [Keys -> Counter] /\ table'[k] = c /\ \A q \in Keys \ {k} : Faded(q)
    BY <1>1, <1>9, <1>10 DEF Types, Counter, Faded, Keys
  <2>2. ~e.in_time
    BY <1>8
  <2>. HIDE DEF e
  <2>. QED
    BY <1>1, <1>8, <1>9, <1>10, <2>1, <2>2 DEF HitBy
<1>. HIDE DEF c, k, e
<1>. QED
  BY <1>1, <1>5, <1>6, <1>7, <1>8, <1>9, <1>10 DEF FailMove

(* Counting at once, or with a statement built before.                      *)
LEMMA CountNowIsMove ==
    ASSUME Types, Flow, Lasting, NEW r \in Requests, NEW l \in {"ip", "user"}, CountNow(r, l)
    PROVE  CountMove(r)
<1>. DEFINE k == WindowKey(r, l)
<1>1. pc[r] \in Served \ {"answered"} /\ r \in DOMAIN caller
  BY DEF CountNow, Limits, Served, Flow
<1>2. k \in RouteKeys /\ k.limiter = l /\ k.id = OwnerOf(r, l) /\ k.window = WindowOf(clock)
  BY <1>1, WindowKeyFields
<1>3. clock \in 0..MaxClock /\ clock \in Nat /\ k.window <= clock /\ clock <= clock
  BY <1>2, WindowHolds, BoundsAssumption DEF Types
<1>4. Count(r, k, clock, Incremented(table[k], clock)) /\ UNCHANGED <<clock, backend, mix, caller, began>>
  BY DEF CountNow
<1>. HIDE DEF k
<1>. QED
  BY <1>1, <1>2, <1>3, <1>4, CountIsMove

LEMMA CountBuiltIsMove ==
    ASSUME Types, Flow, Lasting, NEW r \in Requests, CountDatabase(r) \/ CountRedis(r)
    PROVE  CountMove(r)
<1>. DEFINE k == key[r]
<1>1. /\ k \in RouteKeys /\ k.id = OwnerOf(r, k.limiter) /\ k.window = WindowOf(built[r])
      /\ pc[r] \in Served \ {"answered"} /\ r \in Calls
  BY DEF Flow, CountDatabase, CountRedis, Counting, Served, Calls
<1>2. built[r] \in 0..MaxClock /\ built[r] \in Nat /\ clock \in Nat /\ built[r] <= clock
  BY <1>1, BoundsAssumption DEF Types
<1>3. k.window <= built[r] /\ k.window <= clock
  BY <1>1, <1>2, WindowHolds
<1>4. UNCHANGED <<clock, backend, mix, caller, began>>
  BY DEF CountDatabase, CountRedis
<1>5. CASE CountDatabase(r)
  <2>1. Count(r, k, built[r], Incremented(table[k], built[r]))
    BY <1>5 DEF CountDatabase
  <2>. HIDE DEF k
  <2>. QED
    BY <1>1, <1>2, <1>3, <1>4, <2>1, CountIsMove
<1>6. CASE CountRedis(r)
  <2>1. Count(r, k, built[r], Refreshed(table[k], clock))
    BY <1>6 DEF CountRedis
  <2>. HIDE DEF k
  <2>. QED
    BY <1>1, <1>2, <1>3, <1>4, <2>1, CountIsMove
<1>. QED
  BY <1>5, <1>6

(* Every other step: no request is counted and nothing is recorded.         *)
QuietMove ==
    /\ UNCHANGED <<log, recorded>> /\ clock <= clock' /\ clock' \in 0..MaxClock
    /\ table' \in [Keys -> Counter]
    /\ \A q \in RouteKeys : Faded(q)
    /\ \/ UNCHANGED answer
       \/ \E r \in Requests, status \in {200, 401, 500} : \E h \in {recorded[r], NoHeaders} :
             /\ answer' = With(answer, r, [status |-> status, headers |-> h])
             /\ Goto(r, "answered")

LEMMA LockIsQuiet ==
    ASSUME Types, Flow, NEW c \in LockCalls, LockStep(c)
    PROVE  QuietMove
<1>1. Attempts \in Keys /\ Rounds \in Keys /\ c \in Calls /\ clock \in Nat /\ Period \in Nat
  BY BoundsAssumption DEF Keys, Calls, Types
<1>2. UNCHANGED <<log, recorded, clock, answer>>
  BY DEF LockStep, LockBuild, LockIncrement, LockRefresh, LockDelete
<1>3. Now(c) \in Nat
  BY <1>1, BoundsAssumption DEF Now, Types
<1>4. \A k \in {Attempts, Rounds} : table[k] \in Counter /\ table[k].n \in Nat
  BY <1>1 DEF Types, Counter
<1>5. CASE LockIncrement(c)
  <2>1. Incremented(table[Attempts], Now(c)) \in Counter
    BY <1>1, <1>3, <1>4 DEF Incremented, Fresh, Counter
  <2>2. Store(Attempts, Incremented(table[Attempts], Now(c)))
    BY <1>5 DEF LockIncrement
  <2>3. table' \in [Keys -> Counter] /\ \A q \in RouteKeys : Faded(q)
    BY <1>1, <2>1, <2>2, StoreMoves, KeysApart DEF Keys
  <2>. QED
    BY <1>1, <1>2, <2>3 DEF QuietMove, Types
<1>6. CASE LockRefresh(c)
  <2>1. Refreshed(table[Rounds], Now(c)) \in Counter
    BY <1>1, <1>3, <1>4 DEF Refreshed, Fresh, Counter
  <2>2. Store(Rounds, Refreshed(table[Rounds], Now(c)))
    BY <1>6 DEF LockRefresh
  <2>3. table' \in [Keys -> Counter] /\ \A q \in RouteKeys : Faded(q)
    BY <1>1, <2>1, <2>2, StoreMoves, KeysApart DEF Keys
  <2>. QED
    BY <1>1, <1>2, <2>3 DEF QuietMove, Types
<1>7. CASE LockDelete(c) /\ key[c] \in {Attempts, Rounds}
  <2>1. NoCounter \in Counter
    BY DEF NoCounter, Counter
  <2>2. table' = [table EXCEPT ![key[c]] = NoCounter]
    BY <1>7 DEF LockDelete
  <2>3. table' \in [Keys -> Counter] /\ \A q \in RouteKeys : Faded(q)
    BY <1>1, <1>7, <2>1, <2>2, KeysApart DEF Types, Counter, Faded, Keys
  <2>. QED
    BY <1>1, <1>2, <2>3 DEF QuietMove, Types
<1>8. CASE \E k \in {Attempts, Rounds} : LockBuild(c, k)
  <2>1. table' = table
    BY <1>8 DEF LockBuild
  <2>. QED
    BY <1>1, <1>2, <2>1 DEF QuietMove, Types, Faded, Counter
<1>9. LockDelete(c) => key[c] \in {Attempts, Rounds}
  BY <1>1 DEF LockDelete, Flow
<1>. QED
  BY <1>5, <1>6, <1>7, <1>8, <1>9 DEF LockStep

LEMMA RequestIsQuiet ==
    ASSUME Types, NEW r \in Requests,
           \/ Arrive(r) \/ Unauthenticated(r) \/ Route(r)
           \/ \E l \in {"ip", "user"} : Disabled(r, l) \/ Build(r, l)
    PROVE  QuietMove
<1>1. UNCHANGED <<log, recorded, clock, table>>
  BY DEF Arrive, Unauthenticated, Route, Disabled, Build
<1>2. clock <= clock' /\ clock' \in 0..MaxClock /\ table' \in [Keys -> Counter] /\ \A q \in RouteKeys : Faded(q)
  BY <1>1, BoundsAssumption DEF Types, Counter, Faded
<1>3. CASE Arrive(r) \/ \E l \in {"ip", "user"} : Disabled(r, l) \/ Build(r, l)
  <2>1. UNCHANGED answer
    BY <1>3 DEF Arrive, Disabled, Build
  <2>. QED
    BY <1>1, <1>2, <2>1 DEF QuietMove
<1>4. CASE Unauthenticated(r) \/ Route(r)
  <2>1. \E status \in {200, 401, 500} : \E h \in {recorded[r], NoHeaders} : Answer(r, status, h)
    BY <1>4 DEF Unauthenticated, Route, OnError
  <2>. QED
    BY <1>1, <1>2, <2>1 DEF QuietMove, Answer
<1>. QED
  BY <1>3, <1>4

LEMMA StepKinds ==
    ASSUME Types, Flow, Lasting, [Next]_vars
    PROVE  QuietMove \/ \E r \in Requests : CountMove(r) \/ FailMove(r)
<1>1. CASE Tick
  <2>1. clock' = clock + 1 /\ clock' \in 0..MaxClock /\ UNCHANGED <<log, recorded, table, answer>>
    BY <1>1, BoundsAssumption DEF Tick, Types
  <2>. QED
    BY <2>1, BoundsAssumption DEF QuietMove, Types, Counter, Faded
<1>2. ASSUME NEW k \in Keys, Purge(k) PROVE QuietMove
  <2>1. NoCounter \in Counter
    BY DEF NoCounter, Counter
  <2>2. /\ table' = [table EXCEPT ![k] = NoCounter] /\ ~Live(table[k], clock)
        /\ UNCHANGED <<clock, log, recorded, answer>>
    BY <1>2 DEF Purge
  <2>3. table' \in [Keys -> Counter] /\ \A q \in RouteKeys : Faded(q)
    BY <2>1, <2>2 DEF Types, Counter, Faded, Keys
  <2>. QED
    BY <2>2, <2>3, BoundsAssumption DEF QuietMove, Types
<1>3. CASE UNCHANGED vars
  <2>1. UNCHANGED <<clock, log, recorded, answer, table>>
    BY <1>3 DEF vars
  <2>. QED
    BY <2>1, BoundsAssumption DEF QuietMove, Types, Counter, Faded
<1>4. ASSUME NEW c \in LockCalls, LockStep(c) PROVE QuietMove
  BY <1>4, LockIsQuiet
<1>5. ASSUME NEW r \in Requests, RequestStep(r) PROVE QuietMove \/ CountMove(r) \/ FailMove(r)
  BY <1>5, RequestIsQuiet, CountNowIsMove, CountBuiltIsMove, FailIsMove DEF RequestStep
<1>. QED
  BY <1>1, <1>2, <1>3, <1>4, <1>5 DEF Next

-----------------------------------------------------------------------------
(* The headers a request has been told to carry.                            *)
LEMMA HeadersTyped ==
    ASSUME Types, NEW k \in RouteKeys, NEW c \in Counter, NEW r \in Requests
    PROVE  /\ NoHeaders \in Headers /\ Report(k, c) \in Headers /\ FullReport(k) \in Headers
           /\ Record(r, Report(k, c)) \in Headers /\ Record(r, FullReport(k)) \in Headers
<1>1. Remaining(k.limiter, c.n) \in Nat /\ Times(k.limiter) \in Nat
  BY RemainingBounds, TimesAreNatural DEF Counter
<1>2. k \in Keys /\ Attempts \in Keys /\ Len(log) \in Nat
  BY DEF Keys, Types
<1>3. NoHeaders \in Headers /\ Report(k, c) \in Headers /\ FullReport(k) \in Headers
  BY <1>1, <1>2 DEF NoHeaders, Report, FullReport, Headers
<1>4. recorded[r] \in Headers
  BY DEF Types
<1>. QED
  BY <1>3, <1>4 DEF Record

(* The parts of the type invariant that the three kinds of step settle.     *)
Kinds ==
    /\ clock \in 0..MaxClock /\ table \in [Keys -> Counter]
    /\ recorded \in [Requests -> Headers]
    /\ \A r \in DOMAIN answer : r \in Requests /\ answer[r] \in [status : Nat, headers : Headers]
    /\ log \in Seq(Hit)

LEMMA AnswerTyped ==
    ASSUME Types, NEW r \in Requests, NEW status \in Nat, NEW h \in Headers,
           answer' = With(answer, r, [status |-> status, headers |-> h])
    PROVE  \A q \in DOMAIN answer' : q \in Requests /\ answer'[q] \in [status : Nat, headers : Headers]
BY DEF Types, With

LEMMA KindsNext ==
    ASSUME Types, Flow, Lasting, [Next]_vars
    PROVE  Kinds'
<1>1. CASE QuietMove
  <2>1. clock' \in 0..MaxClock /\ table' \in [Keys -> Counter] /\ recorded' = recorded /\ log' = log
    BY <1>1 DEF QuietMove
  <2>2. CASE UNCHANGED answer
    BY <2>1, <2>2 DEF Types, Kinds
  <2>3. CASE ~UNCHANGED answer
    <3>1. PICK r \in Requests, status \in {200, 401, 500} : \E h \in {recorded[r], NoHeaders} :
              answer' = With(answer, r, [status |-> status, headers |-> h])
      BY <1>1, <2>3 DEF QuietMove
    <3>2. NoHeaders \in Headers /\ recorded[r] \in Headers /\ status \in Nat
      BY DEF Types, NoHeaders, Headers, Keys
    <3>3. \A q \in DOMAIN answer' : q \in Requests /\ answer'[q] \in [status : Nat, headers : Headers]
      BY <3>1, <3>2, AnswerTyped
    <3>. QED
      BY <2>1, <3>3 DEF Types, Kinds
  <2>. QED
    BY <2>2, <2>3
<1>2. ASSUME NEW r \in Requests, CountMove(r) PROVE Kinds'
  <2>1. PICK k \in RouteKeys, c \in Counter, e \in Hit : HitBy(r, k, c, e) /\ Reports(r, k, c, e)
    BY <1>2 DEF CountMove
  <2>2. table' \in [Keys -> Counter] /\ log' \in Seq(Hit) /\ clock' = clock
    BY <1>2, <2>1 DEF HitBy, Types, CountMove
  <2>3. Report(k, c) \in Headers /\ Record(r, Report(k, c)) \in Headers
    BY HeadersTyped
  <2>4. recorded' \in [Requests -> Headers]
    BY <2>1, <2>3 DEF Reports, Types
  <2>5. \A q \in DOMAIN answer' : q \in Requests /\ answer'[q] \in [status : Nat, headers : Headers]
    <3>1. answer' = answer \/ answer' = With(answer, r, [status |-> 429, headers |-> Report(k, c)])
      BY <2>1 DEF Reports
    <3>2. CASE answer' = answer
      BY <3>2 DEF Types
    <3>3. CASE answer' = With(answer, r, [status |-> 429, headers |-> Report(k, c)])
      BY <2>3, <3>3, AnswerTyped
    <3>. QED
      BY <3>1, <3>2, <3>3
  <2>. QED
    BY <2>2, <2>4, <2>5 DEF Kinds, Types
<1>3. ASSUME NEW r \in Requests, FailMove(r) PROVE Kinds'
  <2>1. PICK k \in RouteKeys :
          /\ recorded' = [recorded EXCEPT ![r] = Record(r, FullReport(k))]
          /\ UNCHANGED <<log, table>> \/ \E c \in Counter, e \in Hit : HitBy(r, k, c, e)
    BY <1>3 DEF FailMove
  <2>2. table' \in [Keys -> Counter] /\ log' \in Seq(Hit) /\ clock' = clock /\ answer' = answer
    <3>1. CASE UNCHANGED <<log, table>>
      BY <1>3, <3>1 DEF Types, FailMove, Counter
    <3>2. ASSUME NEW c \in Counter, NEW e \in Hit, HitBy(r, k, c, e)
          PROVE  table' \in [Keys -> Counter] /\ log' \in Seq(Hit)
      BY <3>2 DEF HitBy, Types
    <3>. QED
      BY <1>3, <2>1, <3>1, <3>2 DEF FailMove
  <2>3. Record(r, FullReport(k)) \in Headers
    <3>1. NoCounter \in Counter
      BY DEF NoCounter, Counter
    <3>. QED
      BY <3>1, HeadersTyped
  <2>4. recorded' \in [Requests -> Headers]
    BY <2>1, <2>3 DEF Types
  <2>. QED
    BY <2>2, <2>4 DEF Kinds, Types
<1>. QED
  BY <1>1, <1>2, <1>3, StepKinds

-----------------------------------------------------------------------------
(* A step of one call: the others and their callers stay as they are.       *)
Alone(c) ==
    /\ \A q \in Calls \ {c} : pc'[q] = pc[q] /\ key'[q] = key[q] /\ built'[q] = built[q]
    /\ DOMAIN caller \subseteq DOMAIN caller'
    /\ \A q \in DOMAIN caller : pc[q] \in Served => caller'[q] = caller[q]
    /\ DOMAIN answer' \subseteq DOMAIN answer \cup {c}

(* What the call itself has to keep of Flow.                                *)
OwnFlow(c) ==
    /\ c \in Requests /\ pc[c] \in Served => c \in DOMAIN caller
    /\ c \in Requests /\ Counting(c) =>
          /\ key[c] \in RouteKeys /\ key[c].id = OwnerOf(c, key[c].limiter)
          /\ key[c].window = WindowOf(built[c])
    /\ c \in DOMAIN answer => pc[c] = "answered"
    /\ pc[c] = "lock" => key[c] \in {Attempts, Rounds}

LEMMA FlowKept ==
    ASSUME Types, Flow, NEW c \in Calls, Alone(c), OwnFlow(c)'
    PROVE  Flow'
<1>1. Requests \subseteq Calls
  BY DEF Calls
<1>2. \A q \in Requests \ {c} : pc'[q] \in Served => q \in DOMAIN caller'
  BY <1>1 DEF Flow, Alone
<1>3. ASSUME NEW q \in Requests, q # c, Counting(q)'
      PROVE  (key[q] \in RouteKeys /\ key[q].id = OwnerOf(q, key[q].limiter) /\ key[q].window = WindowOf(built[q]))'
  <2>1. Counting(q) /\ key'[q] = key[q] /\ built'[q] = built[q]
    BY <1>1, <1>3 DEF Counting, Alone
  <2>2. pc[q] \in Served /\ q \in DOMAIN caller
    BY <2>1 DEF Counting, Served, Flow
  <2>3. caller'[q] = caller[q]
    BY <2>2 DEF Alone
  <2>. QED
    BY <2>1, <2>3 DEF Flow, OwnerOf
<1>4. \A q \in DOMAIN answer' : pc'[q] = "answered"
  <2>1. \A q \in DOMAIN answer : q \in Calls /\ pc[q] = "answered"
    BY <1>1 DEF Types, Flow
  <2>. QED
    BY <2>1 DEF Alone, OwnFlow
<1>5. \A q \in Calls : pc'[q] = "lock" => key'[q] \in {Attempts, Rounds}
  BY DEF Alone, OwnFlow, Flow
<1>. QED
  BY <1>2, <1>3, <1>4, <1>5 DEF Flow, OwnFlow

(* The rest of the type invariant.                                          *)
Rest ==
    /\ backend \in {"memory", "redis", "database"} /\ mix \in Mixes
    /\ pc = [c \in Calls |-> pc[c]]
    /\ \A r \in DOMAIN caller : caller[r] \in Callers
    /\ key \in [Calls -> Keys]
    /\ built \in [Calls -> 0..MaxClock] /\ \A c \in Calls : built[c] <= clock
    /\ began \in [start : Nat, refresh : Nat]

LEMMA TypesParts ==
    ASSUME Kinds', Rest'
    PROVE  Types'
BY DEF Types, Kinds, Rest, Counter

(* A step that leaves callers, statements and the lockout's history alone.  *)
LEMMA RestKept ==
    ASSUME Types, UNCHANGED <<clock, backend, mix, caller, began>>,
           NEW c \in Calls, NEW label, Goto(c, label),
           key' \in [Calls -> Keys], built' \in [Calls -> 0..MaxClock], \A q \in Calls : built'[q] <= clock
    PROVE  Rest'
BY DEF Types, Rest, Goto

LEMMA ReturnedTyped ==
    ASSUME Types, NEW c \in Calls, Returned(c) \/ UNCHANGED <<key, built>>
    PROVE  /\ key' \in [Calls -> Keys] /\ built' \in [Calls -> 0..MaxClock] /\ \A q \in Calls : built'[q] <= clock
           /\ \A q \in Calls \ {c} : key'[q] = key[q] /\ built'[q] = built[q]
<1>1. clock \in Nat /\ MaxClock \in Nat /\ Attempts \in Keys
  BY BoundsAssumption DEF Types, Keys
<1>2. CASE Returned(c)
  <2>1. key' = [key EXCEPT ![c] = Attempts] /\ built' = [built EXCEPT ![c] = 0]
    BY <1>2 DEF Returned
  <2>. QED
    BY <1>1, <2>1 DEF Types
<1>3. CASE UNCHANGED <<key, built>>
  BY <1>1, <1>3 DEF Types
<1>. QED
  BY <1>2, <1>3

(* The steps of a request that end at a label where nothing is being built. *)
LEMMA RequestKeepsFlow ==
    ASSUME Types, Flow, NEW r \in Requests, pc[r] \in Served \ {"answered"},
           UNCHANGED <<clock, backend, mix, caller, began>>, Returned(r) \/ UNCHANGED <<key, built>>,
           NEW label \in {"user", "route", "answered"}, Goto(r, label),
           DOMAIN answer' \subseteq DOMAIN answer \cup {r},
           label # "answered" => answer' = answer
    PROVE  Rest' /\ Flow' /\ Alone(r) /\ pc'[r] \in Served
<1>1. r \in Calls /\ r \notin DOMAIN answer /\ r \in DOMAIN caller
  BY DEF Calls, Flow, Served
<1>2. Rest'
  BY <1>1, RestKept, ReturnedTyped
<1>3. \A q \in Calls \ {r} : key'[q] = key[q] /\ built'[q] = built[q]
  BY <1>1, ReturnedTyped
<1>4. pc'[r] = label /\ \A q \in Calls \ {r} : pc'[q] = pc[q]
  BY <1>1 DEF Goto, Types
<1>5. Alone(r)
  BY <1>3, <1>4 DEF Alone
<1>6. OwnFlow(r)'
  BY <1>1, <1>4 DEF OwnFlow, Counting, Served
<1>. QED
  BY <1>1, <1>2, <1>4, <1>5, <1>6, FlowKept DEF Served

(* A request that has arrived stays what it is and never starts again.      *)
Steady == \A r \in Requests : pc[r] \in Served => pc'[r] \in Served /\ caller'[r] = caller[r]

Moves == Rest' /\ Flow' /\ Steady

LEMMA AloneIsSteady ==
    ASSUME Flow, NEW c \in Calls, Alone(c), pc[c] \in Served => pc'[c] \in Served
    PROVE  Steady
<1>1. \A r \in Requests : pc[r] \in Served => r \in DOMAIN caller /\ r \in Calls
  BY DEF Flow, Calls
<1>. QED
  BY <1>1 DEF Steady, Alone

LEMMA IdleMoves ==
    ASSUME Types, Flow, UNCHANGED <<backend, mix, pc, caller, key, built, answer, began>>,
           clock' \in Nat, clock <= clock'
    PROVE  Moves
<1>1. Rest'
  <2>1. \A c \in Calls : built[c] \in Nat /\ built[c] <= clock /\ clock \in Nat
    BY BoundsAssumption DEF Types
  <2>2. \A c \in Calls : built'[c] <= clock'
    BY <2>1
  <2>. QED
    BY <2>2 DEF Rest, Types
<1>2. Flow'
  BY DEF Flow, Counting, OwnerOf
<1>. QED
  BY <1>1, <1>2 DEF Moves, Steady

LEMMA AnswerDomain ==
    ASSUME NEW r, NEW v, answer' = With(answer, r, v)
    PROVE  DOMAIN answer' = DOMAIN answer \cup {r} /\ answer'[r] = v /\ \A q \in DOMAIN answer \ {r} : answer'[q] = answer[q]
BY DEF With

LEMMA ArriveMoves ==
    ASSUME Types, Flow, NEW r \in Requests, Arrive(r)
    PROVE  Moves
<1>1. /\ r \in Calls /\ pc[r] = "start" /\ Goto(r, "ip")
      /\ UNCHANGED <<clock, backend, mix, key, built, answer, began>>
  BY DEF Arrive, Calls
<1>2. PICK c \in mix.callers : caller' = With(caller, r, c)
  BY DEF Arrive
<1>3. c \in Callers
  BY MixesAssumption DEF Types
<1>4. /\ DOMAIN caller' = DOMAIN caller \cup {r} /\ caller'[r] = c
      /\ \A q \in DOMAIN caller \ {r} : caller'[q] = caller[q]
  BY <1>2 DEF With
<1>5. pc'[r] = "ip" /\ (\A q \in Calls \ {r} : pc'[q] = pc[q]) /\ pc' = [q \in Calls |-> pc'[q]]
  BY <1>1 DEF Goto, Types
<1>6. \A q \in DOMAIN caller' : caller'[q] \in Callers
  BY <1>3, <1>4 DEF Types
<1>7. Rest'
  BY <1>1, <1>5, <1>6 DEF Rest, Types
<1>8. Alone(r)
  <2>1. pc[r] \notin Served
    BY <1>1 DEF Served
  <2>. QED
    BY <1>1, <1>4, <1>5, <2>1 DEF Alone
<1>9. OwnFlow(r)'
  <2>1. r \notin DOMAIN answer
    BY <1>1 DEF Flow
  <2>. QED
    BY <1>1, <1>4, <1>5, <2>1 DEF OwnFlow, Counting
<1>. QED
  BY <1>1, <1>5, <1>7, <1>8, <1>9, FlowKept, AloneIsSteady DEF Moves, Served

LEMMA BuildMoves ==
    ASSUME Types, Flow, NEW r \in Requests, NEW l \in {"ip", "user"}, Build(r, l)
    PROVE  Moves
<1>. DEFINE k == WindowKey(r, l)
            t == IF backend = "database" THEN clock ELSE WindowOf(clock)
            label == IF l = "ip" THEN "ip_count" ELSE "user_count"
<1>1. /\ r \in Calls /\ pc[r] = l /\ Goto(r, label) /\ key' = [key EXCEPT ![r] = k] /\ built' = [built EXCEPT ![r] = t]
      /\ UNCHANGED <<clock, backend, mix, caller, answer, began>>
  BY DEF Build, Limits, Calls
<1>2. r \in DOMAIN caller /\ r \notin DOMAIN answer
  BY <1>1 DEF Flow, Served
<1>3. k \in RouteKeys /\ k.limiter = l /\ k.id = OwnerOf(r, l) /\ k.window = WindowOf(clock)
  BY <1>2, WindowKeyFields
<1>4. clock \in Nat /\ clock \in 0..MaxClock
  BY BoundsAssumption DEF Types
<1>5. t \in 0..MaxClock /\ t <= clock /\ WindowOf(t) = WindowOf(clock)
  <2>1. WindowOf(clock) \in Nat /\ WindowOf(clock) <= clock /\ WindowOf(WindowOf(clock)) = WindowOf(clock)
    BY <1>4, WindowHolds, WindowOfStart
  <2>. QED
    BY <1>4, <2>1, BoundsAssumption
<1>6. label \in {"ip_count", "user_count"}
  OBVIOUS
<1>. HIDE DEF k, t, label
<1>7. pc'[r] = label /\ (\A q \in Calls \ {r} : pc'[q] = pc[q]) /\ pc' = [q \in Calls |-> pc'[q]]
  BY <1>1 DEF Goto, Types
<1>8. /\ key' \in [Calls -> Keys] /\ key'[r] = k /\ \A q \in Calls \ {r} : key'[q] = key[q]
      /\ built' \in [Calls -> 0..MaxClock] /\ built'[r] = t /\ \A q \in Calls \ {r} : built'[q] = built[q]
  BY <1>1, <1>3, <1>5 DEF Types, Keys
<1>9. Rest'
  <2>1. \A q \in Calls : built'[q] <= clock'
    BY <1>1, <1>5, <1>8 DEF Types
  <2>. QED
    BY <1>1, <1>7, <1>8, <2>1 DEF Rest, Types
<1>10. Alone(r)
  BY <1>1, <1>7, <1>8 DEF Alone
<1>11. OwnerOf(r, l)' = OwnerOf(r, l)
  BY <1>1 DEF OwnerOf
<1>12. OwnFlow(r)'
  BY <1>1, <1>2, <1>3, <1>5, <1>6, <1>7, <1>8, <1>11 DEF OwnFlow, Counting
<1>. QED
  BY <1>1, <1>6, <1>7, <1>9, <1>10, <1>12, FlowKept, AloneIsSteady DEF Moves, Served

(* Every way a request goes on or is answered.                              *)
LEMMA GoOnMoves ==
    ASSUME Types, Flow, NEW r \in Requests, pc[r] \in Served \ {"answered"},
           UNCHANGED <<clock, backend, mix, caller, began>>, Returned(r) \/ UNCHANGED <<key, built>>,
           \/ \E status, h : Answer(r, status, h)
           \/ UNCHANGED answer /\ \E label \in {"user", "route"} : Goto(r, label)
    PROVE  Moves
<1>1. r \in Calls
  BY DEF Calls
<1>2. CASE \E status, h : Answer(r, status, h)
  <2>1. PICK status, h : Answer(r, status, h)
    BY <1>2
  <2>2. DOMAIN answer' \subseteq DOMAIN answer \cup {r} /\ Goto(r, "answered")
    BY <2>1, AnswerDomain DEF Answer
  <2>3. Rest' /\ Flow' /\ Alone(r) /\ pc'[r] \in Served
    BY <2>2, RequestKeepsFlow
  <2>. QED
    BY <1>1, <2>3, AloneIsSteady DEF Moves
<1>3. CASE UNCHANGED answer /\ \E label \in {"user", "route"} : Goto(r, label)
  <2>1. PICK label \in {"user", "route"} : Goto(r, label)
    BY <1>3
  <2>2. Rest' /\ Flow' /\ Alone(r) /\ pc'[r] \in Served
    BY <1>3, <2>1, RequestKeepsFlow
  <2>. QED
    BY <1>1, <2>2, AloneIsSteady DEF Moves
<1>. QED
  BY <1>2, <1>3

LEMMA LockMoves ==
    ASSUME Types, Flow, NEW c \in LockCalls, LockStep(c)
    PROVE  Moves
<1>1. c \in Calls /\ Attempts \in Keys /\ Rounds \in Keys /\ clock \in Nat /\ clock \in 0..MaxClock
  BY BoundsAssumption DEF Calls, Keys, Types
<1>2. pc[c] \in {"start", "lock"} /\ UNCHANGED <<clock, backend, mix, caller, answer>>
  BY DEF LockStep, LockBuild, LockIncrement, LockRefresh, LockDelete
<1>3. \E label \in {"lock", "done", "deleted"} : Goto(c, label)
  BY DEF LockStep, LockBuild, LockIncrement, LockRefresh, LockDelete
<1>4. /\ pc'[c] \in {"lock", "done", "deleted"} /\ (\A q \in Calls \ {c} : pc'[q] = pc[q])
      /\ pc' = [q \in Calls |-> pc'[q]]
  BY <1>1, <1>3 DEF Goto, Types
<1>5. Now(c) \in Nat
  BY <1>1, BoundsAssumption DEF Now, Types
<1>6. began' \in [start : Nat, refresh : Nat]
  BY <1>1, <1>5 DEF LockStep, LockBuild, LockIncrement, LockRefresh, LockDelete, Types
<1>7. \/ UNCHANGED <<key, built>> /\ pc'[c] # "lock"
      \/ \E k \in {Attempts, Rounds} : key' = [key EXCEPT ![c] = k] /\ built' = [built EXCEPT ![c] = clock]
  <2>1. CASE \E k \in {Attempts, Rounds} : LockBuild(c, k)
    BY <2>1 DEF LockBuild
  <2>2. CASE LockIncrement(c) \/ LockRefresh(c) \/ LockDelete(c)
    BY <1>1, <2>2 DEF LockIncrement, LockRefresh, LockDelete, Goto, Types
  <2>. QED
    BY <2>1, <2>2 DEF LockStep
<1>8. /\ key' \in [Calls -> Keys] /\ built' \in [Calls -> 0..MaxClock]
      /\ \A q \in Calls : built'[q] <= clock'
      /\ \A q \in Calls \ {c} : key'[q] = key[q] /\ built'[q] = built[q]
      /\ pc'[c] = "lock" => key'[c] \in {Attempts, Rounds}
  <2>1. CASE UNCHANGED <<key, built>> /\ pc'[c] # "lock"
    BY <1>1, <1>2, <2>1 DEF Types
  <2>2. ASSUME NEW k \in {Attempts, Rounds}, key' = [key EXCEPT ![c] = k], built' = [built EXCEPT ![c] = clock]
        PROVE  /\ key' \in [Calls -> Keys] /\ built' \in [Calls -> 0..MaxClock]
               /\ \A q \in Calls : built'[q] <= clock'
               /\ \A q \in Calls \ {c} : key'[q] = key[q] /\ built'[q] = built[q]
               /\ key'[c] \in {Attempts, Rounds}
    BY <1>1, <1>2, <2>2 DEF Types
  <2>. QED
    BY <1>7, <2>1, <2>2
<1>9. Rest'
  BY <1>2, <1>4, <1>6, <1>8 DEF Rest, Types
<1>10. Alone(c)
  BY <1>2, <1>4, <1>8 DEF Alone
<1>11. OwnFlow(c)'
  <2>1. c \notin DOMAIN answer
    BY <1>2 DEF Flow
  <2>. QED
    BY <1>2, <1>4, <1>8, <2>1 DEF OwnFlow, Counting, Served
<1>. QED
  BY <1>1, <1>2, <1>9, <1>10, <1>11, FlowKept, AloneIsSteady DEF Moves, Served

LEMMA CountGoesOn ==
    ASSUME NEW r, NEW k, NEW asked, NEW c, Count(r, k, asked, c)
    PROVE  \/ \E status, h : Answer(r, status, h)
           \/ UNCHANGED answer /\ \E label \in {"user", "route"} : Goto(r, label)
<1>1. NextLimiter(r) \in {"user", "route"}
  BY DEF NextLimiter
<1>. QED
  BY <1>1 DEF Count

LEMMA RequestMoves ==
    ASSUME Types, Flow, NEW r \in Requests, RequestStep(r)
    PROVE  Moves
<1>1. NextLimiter(r) \in {"user", "route"}
  BY DEF NextLimiter
<1>2. CASE Unauthenticated(r) \/ Route(r)
  <2>1. /\ pc[r] \in Served \ {"answered"} /\ UNCHANGED <<clock, backend, mix, caller, began, key, built>>
        /\ \E status, h : Answer(r, status, h)
    BY <1>2 DEF Unauthenticated, Route, Served
  <2>. QED
    BY <2>1, GoOnMoves
<1>3. ASSUME NEW l \in {"ip", "user"}, Disabled(r, l) PROVE Moves
  <2>1. /\ pc[r] \in Served \ {"answered"} /\ UNCHANGED <<clock, backend, mix, caller, began, key, built, answer>>
        /\ Goto(r, NextLimiter(r))
    BY <1>3 DEF Disabled, Served
  <2>. QED
    BY <1>1, <2>1, GoOnMoves
<1>4. ASSUME NEW l \in {"ip", "user"}, CountNow(r, l) PROVE Moves
  <2>1. /\ pc[r] \in Served \ {"answered"} /\ UNCHANGED <<clock, backend, mix, caller, began, key, built>>
        /\ \E k, a, c : Count(r, k, a, c)
    BY <1>4 DEF CountNow, Limits, Served
  <2>. QED
    BY <2>1, CountGoesOn, GoOnMoves
<1>5. CASE CountDatabase(r) \/ CountRedis(r)
  <2>1. /\ pc[r] \in Served \ {"answered"} /\ UNCHANGED <<clock, backend, mix, caller, began>> /\ Returned(r)
        /\ \E k, a, c : Count(r, k, a, c)
    BY <1>5 DEF CountDatabase, CountRedis, Counting, Served
  <2>. QED
    BY <2>1, CountGoesOn, GoOnMoves
<1>6. CASE FailOpen(r)
  <2>1. /\ pc[r] \in Served \ {"answered"} /\ UNCHANGED <<clock, backend, mix, caller, began, answer>> /\ Returned(r)
        /\ Goto(r, NextLimiter(r))
    BY <1>6 DEF FailOpen, Counting, Served
  <2>. QED
    BY <1>1, <2>1, GoOnMoves
<1>. QED
  BY <1>2, <1>3, <1>4, <1>5, <1>6, ArriveMoves, BuildMoves DEF RequestStep

LEMMA MovesNext ==
    ASSUME Types, Flow, Lasting, [Next]_vars
    PROVE  Types' /\ Flow' /\ Steady
<1>1. Kinds'
  BY KindsNext
<1>2. clock \in Nat
  BY BoundsAssumption DEF Types
<1>3. CASE Tick \/ (\E k \in Keys : Purge(k)) \/ UNCHANGED vars
  <2>1. UNCHANGED <<backend, mix, pc, caller, key, built, answer, began>> /\ clock' \in {clock, clock + 1}
    BY <1>3 DEF Tick, Purge, vars
  <2>. QED
    BY <1>1, <1>2, <2>1, IdleMoves, TypesParts DEF Moves
<1>4. CASE (\E r \in Requests : RequestStep(r)) \/ (\E c \in LockCalls : LockStep(c))
  BY <1>1, <1>4, RequestMoves, LockMoves, TypesParts DEF Moves
<1>. QED
  BY <1>3, <1>4 DEF Next

-----------------------------------------------------------------------------
(* As the counters and the log see it, a step counts one hit or none.       *)
FadeMove == log' = log /\ clock <= clock' /\ \A q \in RouteKeys : Faded(q)

HitMove(r, k, c, e) == HitBy(r, k, c, e) /\ pc[r] \in Served \ {"answered"} /\ clock' = clock

LEMMA LogMoves ==
    ASSUME Types, Flow, Lasting, [Next]_vars
    PROVE  FadeMove \/ \E r \in Requests, k \in RouteKeys, c \in Counter, e \in Hit : HitMove(r, k, c, e)
<1>1. CASE QuietMove
  BY <1>1 DEF QuietMove, FadeMove
<1>2. ASSUME NEW r \in Requests, CountMove(r)
      PROVE  \E k \in RouteKeys, c \in Counter, e \in Hit : HitMove(r, k, c, e)
  BY <1>2 DEF CountMove, HitMove
<1>3. ASSUME NEW r \in Requests, FailMove(r)
      PROVE  FadeMove \/ \E k \in RouteKeys, c \in Counter, e \in Hit : HitMove(r, k, c, e)
  <2>1. pc[r] \in Served \ {"answered"} /\ clock' = clock
    BY <1>3 DEF FailMove
  <2>2. CASE UNCHANGED <<log, table>>
    BY <2>1, <2>2, BoundsAssumption DEF FadeMove, Faded, Types
  <2>3. ASSUME NEW k \in RouteKeys, NEW c \in Counter, NEW e \in Hit, HitBy(r, k, c, e)
        PROVE  HitMove(r, k, c, e)
    BY <2>1, <2>3 DEF HitMove
  <2>. QED
    BY <1>3, <2>2, <2>3 DEF FailMove
<1>. QED
  BY <1>1, <1>2, <1>3, StepKinds

LEMMA LogGrows ==
    ASSUME Types, NEW e \in Hit, log' = Append(log, e)
    PROVE  /\ Len(log) \in Nat /\ Len(log') = Len(log) + 1 /\ log'[Len(log) + 1] = e
           /\ \A i \in 1..Len(log) : log'[i] = log[i] /\ log[i] \in Hit
BY DEF Types

LEMMA LastingNext ==
    ASSUME Types, Flow, Lasting, [Next]_vars
    PROVE  Lasting'
<1>1. \A q \in RouteKeys : Faded(q) => (table'[q].n > 0 => table'[q] = table[q])
  BY DEF Faded, NoCounter
<1>2. CASE FadeMove
  BY <1>1, <1>2 DEF FadeMove, Lasting
<1>3. ASSUME NEW r \in Requests, NEW k \in RouteKeys, NEW c \in Counter, NEW e \in Hit, HitMove(r, k, c, e)
      PROVE  Lasting'
  <2>1. table'[k].n > 0 => table'[k].exp >= k.window + Period
    BY <1>3 DEF HitMove, HitBy, NoCounter
  <2>2. \A q \in RouteKeys \ {k} : Faded(q)
    BY <1>3 DEF HitMove, HitBy, Keys
  <2>. QED
    BY <1>1, <2>1, <2>2 DEF Lasting
<1>. QED
  BY <1>2, <1>3, LogMoves

LEMMA BookedNext ==
    ASSUME Types, Flow, Lasting, Booked, [Next]_vars
    PROVE  Booked'
<1>1. Steady
  BY MovesNext
<1>2. \A i \in 1..Len(log) : log[i] \in Hit /\ log[i].call \in Requests
  <2>1. \A i \in 1..Len(log) : log[i] \in Hit
    BY DEF Types
  <2>. QED
    BY <2>1 DEF Hit
<1>3. ASSUME NEW i \in 1..Len(log)
      PROVE  /\ pc'[log[i].call] \in Served
             /\ OwnerOf(log[i].call, log[i].key.limiter) = IF log[i].key.limiter = "ip" \/ caller'[log[i].call].user = Anonymous
                    THEN caller'[log[i].call].from.block ELSE caller'[log[i].call].user
  BY <1>1, <1>2 DEF Steady, Booked, OwnerOf
<1>4. CASE FadeMove
  BY <1>3, <1>4 DEF FadeMove, Booked, OwnerOf
<1>5. ASSUME NEW r \in Requests, NEW k \in RouteKeys, NEW c \in Counter, NEW e \in Hit, HitMove(r, k, c, e)
      PROVE  Booked'
  <2>1. /\ Len(log) \in Nat /\ Len(log') = Len(log) + 1 /\ log'[Len(log) + 1] = e
        /\ \A i \in 1..Len(log) : log'[i] = log[i]
    BY <1>5, LogGrows DEF HitMove, HitBy
  <2>2. e.call = r /\ e.key.id = OwnerOf(r, e.key.limiter) /\ e.key.window = e.window /\ pc'[r] \in Served /\ caller'[r] = caller[r]
    BY <1>1, <1>5 DEF HitMove, HitBy, Steady
  <2>3. ASSUME NEW i \in 1..Len(log')
        PROVE  (/\ pc[log[i].call] \in Served
                /\ log[i].key.id = OwnerOf(log[i].call, log[i].key.limiter)
                /\ log[i].key.window = log[i].window)'
    <3>1. CASE i \in 1..Len(log)
      BY <1>3, <2>1, <3>1 DEF Booked, OwnerOf
    <3>2. CASE i = Len(log) + 1
      BY <2>1, <2>2, <3>2 DEF OwnerOf
    <3>. QED
      BY <2>1, <3>1, <3>2
  <2>. QED
    BY <2>3 DEF Booked
<1>. QED
  BY <1>4, <1>5, LogMoves

-----------------------------------------------------------------------------
(* A counter is never ahead of the hits logged for it.                      *)
Counted(k, m) == {i \in 1..m : log[i].key = k}

Tally == \A k \in RouteKeys : table[k].n <= Cardinality(Counted(k, Len(log)))

LEMMA CountedIsFinite ==
    ASSUME NEW k, NEW m \in Nat
    PROVE  IsFiniteSet(Counted(k, m)) /\ Cardinality(Counted(k, m)) \in Nat
<1>1. Counted(k, m) \subseteq 1..m /\ IsFiniteSet(1..m)
  BY FS_Interval DEF Counted
<1>. QED
  BY <1>1, FS_Subset, FS_CardinalityType

LEMMA CountedStays ==
    ASSUME Types, NEW e \in Hit, log' = Append(log, e), NEW k, NEW m \in 0..Len(log)
    PROVE  Counted(k, m)' = Counted(k, m)
BY LogGrows DEF Counted

LEMMA CountedGrows ==
    ASSUME Types, NEW e \in Hit, log' = Append(log, e), NEW k
    PROVE  Counted(k, Len(log))' = IF e.key = k THEN Counted(k, Len(log)) \cup {Len(log) + 1} ELSE Counted(k, Len(log))
<1>1. /\ Len(log) \in Nat /\ Len(log') = Len(log) + 1 /\ log'[Len(log) + 1] = e
      /\ \A i \in 1..Len(log) : log'[i] = log[i]
  BY LogGrows
<1>2. 1..Len(log') = (1..Len(log)) \cup {Len(log) + 1}
  BY <1>1
<1>3. Counted(k, Len(log))' = {i \in (1..Len(log)) \cup {Len(log) + 1} : log'[i].key = k}
  BY <1>2 DEF Counted
<1>. QED
  BY <1>1, <1>3 DEF Counted

LEMMA TallyNext ==
    ASSUME Types, Flow, Lasting, Tally, [Next]_vars
    PROVE  Tally'
<1>1. \A q \in RouteKeys : Faded(q) => table'[q].n <= table[q].n
  BY DEF Faded, NoCounter, Types, Keys
<1>2. Len(log) \in Nat /\ \A q \in RouteKeys : table[q].n \in Nat
  BY DEF Types, Keys
<1>3. \A q \in RouteKeys : Cardinality(Counted(q, Len(log))) \in Nat
  BY <1>2, CountedIsFinite
<1>4. table' \in [Keys -> Counter]
  BY KindsNext DEF Kinds
<1>5. \A q \in RouteKeys : table'[q].n \in Nat
  BY <1>4 DEF Keys, Counter
<1>6. CASE FadeMove
  <2>1. log' = log /\ \A q \in RouteKeys : Counted(q, Len(log))' = Counted(q, Len(log))
    BY <1>6 DEF FadeMove, Counted
  <2>. QED
    BY <1>1, <1>2, <1>3, <1>5, <1>6, <2>1 DEF FadeMove, Tally
<1>7. ASSUME NEW r \in Requests, NEW k \in RouteKeys, NEW c \in Counter, NEW e \in Hit, HitMove(r, k, c, e)
      PROVE  Tally'
  <2>1. log' = Append(log, e) /\ e.key = k /\ Len(log') = Len(log) + 1
    BY <1>7, LogGrows DEF HitMove, HitBy
  <2>2. table'[k].n <= table[k].n + 1
    BY <1>2, <1>7 DEF HitMove, HitBy, NoCounter
  <2>3. Counted(k, Len(log))' = Counted(k, Len(log)) \cup {Len(log) + 1}
    BY <1>2, <2>1, CountedGrows
  <2>4. Len(log) + 1 \notin Counted(k, Len(log))
    BY <1>2 DEF Counted
  <2>5. Cardinality(Counted(k, Len(log))') = Cardinality(Counted(k, Len(log))) + 1
    BY <1>2, <2>3, <2>4, CountedIsFinite, FS_AddElement
  <2>6. ASSUME NEW q \in RouteKeys, q # k
        PROVE  Faded(q) /\ Counted(q, Len(log))' = Counted(q, Len(log))
    <3>1. Faded(q)
      BY <1>7, <2>6 DEF HitMove, HitBy, Keys
    <3>. QED
      BY <1>2, <2>1, <2>6, <3>1, CountedGrows
  <2>7. ASSUME NEW q \in RouteKeys PROVE table'[q].n <= Cardinality(Counted(q, Len(log))')
    <3>1. CASE q = k
      BY <1>2, <1>3, <1>5, <2>2, <2>5, <3>1 DEF Tally
    <3>2. CASE q # k
      BY <1>1, <1>2, <1>3, <1>5, <2>6, <3>2 DEF Tally
    <3>. QED
      BY <3>1, <3>2
  <2>. QED
    BY <2>7 DEF Tally
<1>. QED
  BY <1>6, <1>7, LogMoves

-----------------------------------------------------------------------------
(* A 429 points at the hit that was one too many.                           *)
Refusal(h) ==
    /\ h.mark \in 1..Len(log) /\ log[h.mark].key = h.key
    /\ Cardinality(Counted(h.key, h.mark - 1)) >= Times(h.key.limiter)

Refusals ==
    \A r \in Requests, h \in Headers :
        r \in DOMAIN answer /\ answer[r] = [status |-> 429, headers |-> h] => Refusal(h)

LEMMA RefusalKept ==
    ASSUME Types, NEW h \in Headers, Refusal(h), log' = log \/ \E e \in Hit : log' = Append(log, e)
    PROVE  Refusal(h)'
<1>1. CASE log' = log
  BY <1>1 DEF Refusal, Counted
<1>2. ASSUME NEW e \in Hit, log' = Append(log, e) PROVE Refusal(h)'
  <2>1. /\ Len(log) \in Nat /\ Len(log') = Len(log) + 1
        /\ \A i \in 1..Len(log) : log'[i] = log[i]
    BY <1>2, LogGrows
  <2>2. h.mark \in 1..Len(log') /\ log'[h.mark].key = h.key /\ h.mark - 1 \in 0..Len(log)
    BY <2>1 DEF Refusal
  <2>3. Counted(h.key, h.mark - 1)' = Counted(h.key, h.mark - 1)
    BY <1>2, <2>2, CountedStays
  <2>. QED
    BY <2>2, <2>3 DEF Refusal
<1>. QED
  BY <1>1, <1>2

LEMMA NewRefusal ==
    ASSUME Types, Tally, NEW r \in Requests, NEW k \in RouteKeys, NEW c \in Counter, NEW e \in Hit,
           HitBy(r, k, c, e), c.n > Times(k.limiter), NEW h \in Headers, h = Report(k, c)
    PROVE  Refusal(h)'
<1>1. PICK m \in Nat : m = Len(log)
  <2>1. Len(log) \in Nat
    BY DEF Types
  <2>. QED
    BY <2>1
<1>2. h.mark = m + 1 /\ h.key = k /\ log' = Append(log, e) /\ e.key = k
  BY <1>1 DEF Report, HitBy
<1>3. Len(log') = m + 1 /\ log'[m + 1] = e
  BY <1>1, <1>2, LogGrows
<1>4. Counted(k, m)' = Counted(k, m)
  BY <1>1, <1>2, CountedStays
<1>5. Cardinality(Counted(k, m)) >= Times(k.limiter)
  <2>1. table[k].n <= Cardinality(Counted(k, m)) /\ c.n <= table[k].n + 1
    BY <1>1 DEF Tally, HitBy
  <2>2. Cardinality(Counted(k, m)) \in Nat
    BY CountedIsFinite
  <2>3. c.n \in Nat /\ table[k].n \in Nat /\ Times(k.limiter) \in Nat
    BY TimesAreNatural DEF Counter, Types, Keys
  <2>. QED
    BY <2>1, <2>2, <2>3
<1>6. h.mark - 1 = m /\ h.mark \in 1..Len(log')
  BY <1>2, <1>3
<1>. QED
  BY <1>2, <1>3, <1>4, <1>5, <1>6 DEF Refusal

(* What a step does to the answers: nothing, or one is added.               *)
LEMMA RefusalsNext ==
    ASSUME Types, Flow, Lasting, Tally, Refusals, [Next]_vars
    PROVE  Refusals'
<1>1. SUFFICES ASSUME NEW r \in Requests, NEW h \in Headers, r \in DOMAIN answer', answer'[r] = [status |-> 429, headers |-> h]
               PROVE  Refusal(h)'
  BY DEF Refusals
<1>2. log' = log \/ \E e \in Hit : log' = Append(log, e)
  BY LogMoves DEF FadeMove, HitMove, HitBy
<1>3. CASE r \in DOMAIN answer /\ answer'[r] = answer[r]
  <2>1. Refusal(h)
    BY <1>1, <1>3 DEF Refusals
  <2>. QED
    BY <1>2, <2>1, RefusalKept
<1>4. CASE ~(r \in DOMAIN answer /\ answer'[r] = answer[r])
  <2>1. answer' # answer
    BY <1>1, <1>4
  <2>2. ASSUME QuietMove PROVE FALSE
    <3>1. PICK q \in Requests, status \in {200, 401, 500} : \E g \in {recorded[q], NoHeaders} :
              answer' = With(answer, q, [status |-> status, headers |-> g])
      BY <2>1, <2>2 DEF QuietMove
    <3>2. PICK g : answer' = With(answer, q, [status |-> status, headers |-> g])
      BY <3>1
    <3>3. DOMAIN answer' = DOMAIN answer \cup {q} /\ answer'[q] = [status |-> status, headers |-> g]
          /\ \A p \in DOMAIN answer \ {q} : answer'[p] = answer[p]
      BY <3>2, SMTT(30) DEF With
    <3>4. r = q
      BY <1>1, <1>4, <3>3
    <3>. QED
      BY <1>1, <3>3, <3>4
  <2>3. \A q \in Requests : ~FailMove(q)
    BY <2>1 DEF FailMove
  <2>4. PICK q \in Requests : CountMove(q)
    BY <2>2, <2>3, StepKinds
  <2>5. PICK k \in RouteKeys, c \in Counter, e \in Hit : HitBy(q, k, c, e) /\ Reports(q, k, c, e)
    BY <2>4 DEF CountMove
  <2>6. c.n > Times(k.limiter) /\ answer' = With(answer, q, [status |-> 429, headers |-> Report(k, c)])
    BY <2>1, <2>5 DEF Reports
  <2>7. r = q /\ h = Report(k, c)
    <3>1. DOMAIN answer' = DOMAIN answer \cup {q} /\ answer'[q] = [status |-> 429, headers |-> Report(k, c)]
          /\ \A p \in DOMAIN answer \ {q} : answer'[p] = answer[p]
      BY <2>6, AnswerDomain
    <3>. QED
      BY <1>1, <1>4, <3>1
  <2>. QED
    BY <2>5, <2>6, <2>7, NewRefusal
<1>. QED
  BY <1>3, <1>4

-----------------------------------------------------------------------------
(* What passes on a budget. After the first m hits, b is a bound on it, and *)
(* as long as the window lasts the bound leaves room for what the counter   *)
(* still allows.                                                            *)
Passed(k, m) == {i \in 1..Len(log) : i > m /\ log[i].key = k /\ log[i].admitted /\ log[i].in_time}

Bounded(k, m, b) ==
    /\ Cardinality(Passed(k, m)) <= b
    /\ Open(k) => Cardinality(Passed(k, m)) + Remaining(k.limiter, table[k].n) <= b

LEMMA PassedIsFinite ==
    ASSUME Types, NEW k, NEW m
    PROVE  IsFiniteSet(Passed(k, m)) /\ Cardinality(Passed(k, m)) \in Nat
<1>1. Passed(k, m) \subseteq 1..Len(log) /\ Len(log) \in Nat
  BY DEF Passed, Types
<1>2. IsFiniteSet(1..Len(log))
  BY <1>1, FS_Interval
<1>. QED
  BY <1>1, <1>2, FS_Subset, FS_CardinalityType

(* A counter does not go while its window lasts.                            *)
LEMMA FadedInTime ==
    ASSUME Types, Lasting, NEW q \in RouteKeys, Faded(q), Open(q)
    PROVE  table'[q].n = table[q].n
<1>1. table[q].n \in Nat /\ table[q].exp \in Nat /\ q.window \in Nat /\ clock \in Nat /\ Period \in Nat
  BY WindowIsNat, BoundsAssumption DEF Types, Keys
<1>2. table[q].n > 0 => Live(table[q], clock)
  BY <1>1 DEF Lasting, Open, Live
<1>. QED
  BY <1>1, <1>2 DEF Faded, NoCounter

LEMMA PassedGrows ==
    ASSUME Types, NEW e \in Hit, log' = Append(log, e), NEW q, NEW m \in Nat
    PROVE  Passed(q, m)' = IF Len(log) + 1 > m /\ e.key = q /\ e.admitted /\ e.in_time
                             THEN Passed(q, m) \cup {Len(log) + 1} ELSE Passed(q, m)
<1>1. /\ Len(log) \in Nat /\ Len(log') = Len(log) + 1 /\ log'[Len(log) + 1] = e
      /\ \A i \in 1..Len(log) : log'[i] = log[i]
  BY LogGrows
<1>2. 1..Len(log') = (1..Len(log)) \cup {Len(log) + 1}
  BY <1>1
<1>3. Passed(q, m)' = {i \in (1..Len(log)) \cup {Len(log) + 1} :
                          i > m /\ log'[i].key = q /\ log'[i].admitted /\ log'[i].in_time}
  BY <1>2 DEF Passed
<1>. QED
  BY <1>1, <1>3 DEF Passed

LEMMA BoundedKept ==
    ASSUME Types, Lasting, NEW q \in RouteKeys, NEW m \in Nat, NEW b \in Nat, Bounded(q, m, b),
           clock' \in Nat, clock <= clock', log' = log, Faded(q)
    PROVE  Bounded(q, m, b)'
<1>1. Passed(q, m)' = Passed(q, m)
  BY DEF Passed
<1>2. clock \in Nat /\ q.window \in Nat /\ Period \in Nat
  BY WindowIsNat, BoundsAssumption DEF Types
<1>3. Open(q)' => Open(q)
  BY <1>2 DEF Open
<1>4. Open(q)' => table'[q].n = table[q].n
  BY <1>3, FadedInTime
<1>. QED
  BY <1>1, <1>3, <1>4 DEF Bounded

LEMMA BoundedHit ==
    ASSUME Types, Lasting, NEW q \in RouteKeys, NEW m \in Nat, NEW b \in Nat, Bounded(q, m, b),
           NEW r \in Requests, NEW k \in RouteKeys, NEW c \in Counter, NEW e \in Hit, HitBy(r, k, c, e), clock' = clock
    PROVE  Bounded(q, m, b)'
<1>1. log' = Append(log, e) /\ e.key = k
  BY DEF HitBy
<1>2. Open(q)' <=> Open(q)
  BY DEF Open
<1>3. CASE q # k
  <2>1. Passed(q, m)' = Passed(q, m)
    BY <1>1, <1>3, PassedGrows
  <2>2. Faded(q)
    BY <1>3 DEF HitBy, Keys
  <2>3. Open(q)' => table'[q].n = table[q].n
    BY <1>2, <2>2, FadedInTime
  <2>. QED
    BY <1>2, <2>1, <2>3 DEF Bounded
<1>4. CASE q = k
  <2>. DEFINE p == Cardinality(Passed(q, m))
              p1 == Cardinality(Passed(q, m)')
              left == Remaining(q.limiter, table[q].n)
              left1 == Remaining(q.limiter, c.n)
  <2>1. table[q].n \in Nat /\ c.n \in Nat /\ c.exp \in Nat /\ Times(q.limiter) \in Nat /\ clock \in Nat /\ q.window \in Nat /\ Period \in Nat
    BY WindowIsNat, TimesAreNatural, BoundsAssumption DEF Types, Keys, Counter
  <2>2. /\ c.n <= table[q].n + 1 /\ (Open(q) => c.n = table[q].n + 1) /\ c.exp >= q.window + Period
        /\ e.admitted /\ e.in_time => Open(q) /\ c.n <= Times(q.limiter)
        /\ table'[q] = c \/ (table'[q] = NoCounter /\ ~Live(c, clock))
    BY <1>4 DEF HitBy
  <2>3. Open(q) => table'[q] = c
    BY <2>1, <2>2 DEF Live, Open
  <2>4. p \in Nat /\ IsFiniteSet(Passed(q, m)) /\ p <= b /\ (Open(q) => p + left <= b)
    BY PassedIsFinite DEF Bounded
  <2>5. left \in Nat /\ left1 \in Nat
    BY <2>1, RemainingBounds
  <2>6. Open(q) => left1 <= left
    BY <2>1, <2>2, RemainingBounds
  <2>7. e.admitted /\ e.in_time => left1 + 1 = left
    BY <2>1, <2>2, RemainingBounds
  <2>8. p1 = p \/ (p1 = p + 1 /\ e.admitted /\ e.in_time)
    <3>1. CASE Passed(q, m)' = Passed(q, m)
      BY <3>1
    <3>2. CASE Passed(q, m)' = Passed(q, m) \cup {Len(log) + 1} /\ e.admitted /\ e.in_time
      <4>1. Len(log) + 1 \notin Passed(q, m)
        BY DEF Passed, Types
      <4>. QED
        BY <2>4, <3>2, <4>1, FS_AddElement
    <3>. QED
      BY <1>1, <3>1, <3>2, PassedGrows
  <2>. HIDE DEF p, p1, left, left1
  <2>9. p1 <= b /\ (Open(q) => p1 + left1 <= b)
    BY <2>2, <2>4, <2>5, <2>6, <2>7, <2>8
  <2>. QED
    BY <1>2, <2>3, <2>9 DEF Bounded, p1, left1
<1>. QED
  BY <1>3, <1>4

LEMMA BoundedNext ==
    ASSUME Types, Flow, Lasting, [Next]_vars, NEW q \in RouteKeys, NEW m \in Nat, NEW b \in Nat, Bounded(q, m, b)
    PROVE  Bounded(q, m, b)'
<1>1. clock' \in Nat
  BY KindsNext, BoundsAssumption DEF Kinds
<1>2. CASE FadeMove
  BY <1>1, <1>2, BoundedKept DEF FadeMove
<1>3. ASSUME NEW r \in Requests, NEW k \in RouteKeys, NEW c \in Counter, NEW e \in Hit, HitMove(r, k, c, e)
      PROVE  Bounded(q, m, b)'
  BY <1>3, BoundedHit DEF HitMove
<1>. QED
  BY <1>2, <1>3, LogMoves

-----------------------------------------------------------------------------
(* The headers on show are bounds.                                          *)
Shown(h) == (\E r \in Requests : recorded[r] = h) \/ (\E r \in DOMAIN answer : answer[r].headers = h)

Bounds ==
    /\ \A k \in RouteKeys : Bounded(k, 0, Times(k.limiter))
    /\ \A h \in Headers : Shown(h) => h = NoHeaders \/ (h.key \in RouteKeys /\ Bounded(h.key, h.mark, h.remaining))

NewReport(h) ==
    \E r \in Requests, k \in RouteKeys, c \in Counter, e \in Hit :
        HitBy(r, k, c, e) /\ h = Report(k, c) /\ clock' = clock

NewFullReport(h) ==
    \E r \in Requests, k \in RouteKeys :
        /\ h = FullReport(k) /\ clock' = clock
        /\ UNCHANGED <<log, table>> \/ \E c \in Counter, e \in Hit : HitBy(r, k, c, e) /\ ~e.in_time

LEMMA OneAnswerMore ==
    ASSUME NEW q \in Requests, NEW v, answer' = With(answer, q, v), NEW h, \E r \in DOMAIN answer' : answer'[r].headers = h
    PROVE  Shown(h) \/ h = v.headers
<1>1. DOMAIN answer' = DOMAIN answer \cup {q} /\ answer'[q] = v /\ \A p \in DOMAIN answer \ {q} : answer'[p] = answer[p]
  BY AnswerDomain
<1>2. PICK r \in DOMAIN answer' : answer'[r].headers = h
  OBVIOUS
<1>. QED
  BY <1>1, <1>2 DEF Shown

LEMMA ShownMoves ==
    ASSUME Types, Flow, Lasting, [Next]_vars, NEW h \in Headers, Shown(h)'
    PROVE  Shown(h) \/ h = NoHeaders \/ NewReport(h) \/ NewFullReport(h)
<1>1. CASE QuietMove
  <2>1. recorded' = recorded
    BY <1>1 DEF QuietMove
  <2>2. CASE UNCHANGED answer
    BY <2>1, <2>2 DEF Shown
  <2>3. CASE ~UNCHANGED answer
    <3>1. PICK q \in Requests, status \in {200, 401, 500} : \E g \in {recorded[q], NoHeaders} :
              answer' = With(answer, q, [status |-> status, headers |-> g])
      BY <1>1, <2>3 DEF QuietMove
    <3>2. PICK g \in {recorded[q], NoHeaders} : answer' = With(answer, q, [status |-> status, headers |-> g])
      BY <3>1
    <3>3. (\E r \in DOMAIN answer' : answer'[r].headers = h) => Shown(h) \/ h = g
      BY <3>2, OneAnswerMore
    <3>4. (\E r \in Requests : recorded'[r] = h) => Shown(h)
      BY <2>1 DEF Shown
    <3>5. h = recorded[q] => Shown(h)
      BY DEF Shown
    <3>. QED
      BY <3>2, <3>3, <3>4, <3>5 DEF Shown
  <2>. QED
    BY <2>2, <2>3
<1>2. ASSUME NEW q \in Requests, CountMove(q) PROVE Shown(h) \/ NewReport(h)
  <2>1. PICK k \in RouteKeys, c \in Counter, e \in Hit : HitBy(q, k, c, e) /\ Reports(q, k, c, e)
    BY <1>2 DEF CountMove
  <2>2. h = Report(k, c) => NewReport(h)
    BY <1>2, <2>1 DEF NewReport, CountMove
  <2>3. (\E r \in Requests : recorded'[r] = h) => Shown(h) \/ h = Report(k, c)
    BY <2>1 DEF Reports, Record, Shown, Types
  <2>4. (\E r \in DOMAIN answer' : answer'[r].headers = h) => Shown(h) \/ h = Report(k, c)
    <3>1. CASE answer' = answer
      BY <3>1 DEF Shown
    <3>2. CASE answer' = With(answer, q, [status |-> 429, headers |-> Report(k, c)])
      BY <3>2, OneAnswerMore
    <3>. QED
      BY <2>1, <3>1, <3>2 DEF Reports
  <2>. QED
    BY <2>2, <2>3, <2>4 DEF Shown
<1>3. ASSUME NEW q \in Requests, FailMove(q) PROVE Shown(h) \/ NewFullReport(h)
  <2>1. PICK k \in RouteKeys :
          /\ recorded' = [recorded EXCEPT ![q] = Record(q, FullReport(k))]
          /\ UNCHANGED <<log, table>> \/ \E c \in Counter, e \in Hit : HitBy(q, k, c, e) /\ ~e.in_time
    BY <1>3 DEF FailMove
  <2>2. clock' = clock /\ answer' = answer
    BY <1>3 DEF FailMove
  <2>3. h = FullReport(k) => NewFullReport(h)
    BY <2>1, <2>2 DEF NewFullReport
  <2>4. (\E r \in Requests : recorded'[r] = h) => Shown(h) \/ h = FullReport(k)
    BY <2>1 DEF Record, Shown, Types
  <2>. QED
    BY <2>2, <2>3, <2>4 DEF Shown
<1>. QED
  BY <1>1, <1>2, <1>3, StepKinds

LEMMA NothingPassed ==
    ASSUME Types', NEW k \in RouteKeys, NEW m, NEW b \in Nat, Passed(k, m)' = {},
           Open(k)' => Remaining(k.limiter, table'[k].n) <= b
    PROVE  Bounded(k, m, b)'
<1>1. Cardinality(Passed(k, m)') = 0
  BY FS_EmptySet
<1>2. table'[k].n \in Nat
  BY DEF Types, Keys
<1>3. Remaining(k.limiter, table'[k].n) \in Nat
  BY <1>2, RemainingBounds, TimesAreNatural
<1>. QED
  BY <1>1, <1>3 DEF Bounded

LEMMA BoundsNext ==
    ASSUME Types, Flow, Lasting, Bounds, [Next]_vars
    PROVE  Bounds'
<1>1. Types'
  BY MovesNext
<1>2. ASSUME NEW k \in RouteKeys PROVE Bounded(k, 0, Times(k.limiter))'
  BY TimesAreNatural, BoundedNext DEF Bounds
<1>3. ASSUME NEW h \in Headers, Shown(h)', h # NoHeaders
      PROVE  h.key \in RouteKeys /\ Bounded(h.key, h.mark, h.remaining)'
  <2>1. CASE Shown(h)
    <3>1. h.key \in RouteKeys /\ Bounded(h.key, h.mark, h.remaining) /\ h.mark \in Nat /\ h.remaining \in Nat
      BY <1>3, <2>1 DEF Bounds, Headers
    <3>. QED
      BY <3>1, BoundedNext
  <2>2. CASE NewReport(h)
    <3>1. PICK r \in Requests, k \in RouteKeys, c \in Counter, e \in Hit : HitBy(r, k, c, e) /\ h = Report(k, c) /\ clock' = clock
      BY <2>2 DEF NewReport
    <3>2. h.key = k /\ h.mark = Len(log) + 1 /\ h.remaining = Remaining(k.limiter, c.n) /\ h.mark \in Nat /\ h.remaining \in Nat
      BY <3>1 DEF Report, Headers
    <3>3. Len(log') = Len(log) + 1 /\ Len(log) \in Nat
      BY <3>1, LogGrows DEF HitBy
    <3>4. Passed(k, h.mark)' = {}
      BY <3>2, <3>3 DEF Passed
    <3>5. Open(k)' => table'[k] = c
      <4>1. c.n \in Nat /\ c.exp \in Nat /\ clock \in Nat /\ k.window \in Nat /\ Period \in Nat /\ table[k].n \in Nat
        BY WindowIsNat, BoundsAssumption DEF Types, Keys, Counter
      <4>. QED
        BY <3>1, <4>1 DEF HitBy, Open, Live
    <3>6. Open(k)' => Remaining(k.limiter, table'[k].n) <= h.remaining
      BY <3>2, <3>5
    <3>7. Bounded(k, h.mark, h.remaining)'
      BY <1>1, <3>2, <3>4, <3>6, NothingPassed
    <3>. QED
      BY <3>2, <3>7
  <2>3. CASE NewFullReport(h)
    <3>1. PICK r \in Requests, k \in RouteKeys :
            /\ h = FullReport(k)
            /\ UNCHANGED <<log, table>> \/ \E c \in Counter, e \in Hit : HitBy(r, k, c, e) /\ ~e.in_time
      BY <2>3 DEF NewFullReport
    <3>2. h.key = k /\ h.mark = Len(log) /\ h.remaining = Times(k.limiter) /\ h.mark \in Nat /\ h.remaining \in Nat
      BY <3>1 DEF FullReport, Headers
    <3>3. Passed(k, h.mark) = {}
      BY <3>2 DEF Passed
    <3>4. Passed(k, h.mark)' = {}
      <4>1. CASE UNCHANGED <<log, table>>
        BY <3>3, <4>1 DEF Passed
      <4>2. ASSUME NEW c \in Counter, NEW e \in Hit, HitBy(r, k, c, e), ~e.in_time PROVE Passed(k, h.mark)' = {}
        <5>1. log' = Append(log, e)
          BY <4>2 DEF HitBy
        <5>. QED
          BY <3>2, <3>3, <4>2, <5>1, PassedGrows
      <4>. QED
        BY <3>1, <4>1, <4>2
    <3>5. Remaining(k.limiter, table'[k].n) <= h.remaining
      <4>1. table'[k].n \in Nat
        BY <1>1 DEF Types, Keys
      <4>2. Times(k.limiter) \in Nat /\ Remaining(k.limiter, table'[k].n) \in 0..Times(k.limiter)
        BY <4>1, RemainingBounds, TimesAreNatural
      <4>. QED
        BY <3>2, <4>2
    <3>6. Bounded(k, h.mark, h.remaining)'
      BY <1>1, <3>2, <3>4, <3>5, NothingPassed
    <3>. QED
      BY <3>2, <3>6
  <2>. QED
    BY <1>3, <2>1, <2>2, <2>3, ShownMoves
<1>. QED
  BY <1>2, <1>3 DEF Bounds

-----------------------------------------------------------------------------
(* The headers on show report the smallest budget.                          *)
Smallest(r, h) == \A i \in 1..Len(log) : log[i].call = r => h # NoHeaders /\ h.remaining <= log[i].remaining

Tightest ==
    /\ \A r \in Requests, h \in Headers : recorded[r] = h => Smallest(r, h)
    /\ \A r \in Requests, h \in Headers : r \in DOMAIN answer /\ answer[r].headers = h /\ h # NoHeaders => Smallest(r, h)

LEMMA SmallestKept ==
    ASSUME Types, NEW r, NEW h, Smallest(r, h),
           log' = log \/ \E e \in Hit : log' = Append(log, e) /\ (e.call = r => h # NoHeaders /\ h.remaining <= e.remaining)
    PROVE  Smallest(r, h)'
<1>1. CASE log' = log
  BY <1>1 DEF Smallest
<1>2. ASSUME NEW e \in Hit, log' = Append(log, e), e.call = r => h # NoHeaders /\ h.remaining <= e.remaining
      PROVE  Smallest(r, h)'
  <2>1. /\ Len(log) \in Nat /\ Len(log') = Len(log) + 1 /\ log'[Len(log) + 1] = e
        /\ \A i \in 1..Len(log) : log'[i] = log[i]
    BY <1>2, LogGrows
  <2>2. 1..Len(log') = (1..Len(log)) \cup {Len(log) + 1}
    BY <2>1
  <2>. QED
    BY <1>2, <2>1, <2>2 DEF Smallest
<1>. QED
  BY <1>1, <1>2

LEMMA ReportsAreHeaders ==
    ASSUME NEW k \in RouteKeys, NEW c
    PROVE  Report(k, c) # NoHeaders /\ FullReport(k) # NoHeaders
<1>1. Report(k, c).key = k /\ FullReport(k).key = k /\ NoHeaders.key = Attempts
  BY DEF Report, FullReport, NoHeaders
<1>. QED
  BY <1>1, KeysApart

LEMMA RecordIsSmaller ==
    ASSUME Types, NEW r \in Requests, Smallest(r, recorded[r]), NEW h \in Headers, h # NoHeaders
    PROVE  LET g == Record(r, h) IN g # NoHeaders /\ g.remaining <= h.remaining /\ Smallest(r, g)
<1>1. recorded[r] \in Headers /\ recorded[r].remaining \in Nat /\ h.remaining \in Nat
  BY DEF Types, Headers
<1>2. CASE recorded[r] # NoHeaders /\ recorded[r].remaining <= h.remaining
  BY <1>2 DEF Record
<1>3. CASE recorded[r] = NoHeaders
  <2>1. \A i \in 1..Len(log) : log[i].call # r
    BY <1>3 DEF Smallest
  <2>. QED
    BY <1>1, <1>3, <2>1 DEF Record, Smallest
<1>4. CASE recorded[r] # NoHeaders /\ ~(recorded[r].remaining <= h.remaining)
  <2>1. \A i \in 1..Len(log) : log[i].remaining \in Nat
    <3>1. \A i \in 1..Len(log) : log[i] \in Hit
      BY DEF Types
    <3>. QED
      BY <3>1 DEF Hit
  <2>2. Smallest(r, h)
    BY <1>1, <1>4, <2>1 DEF Smallest
  <2>. QED
    BY <1>1, <1>4, <2>2 DEF Record
<1>. QED
  BY <1>2, <1>3, <1>4

(* The headers of the others stay theirs.                                   *)
LEMMA OthersTightest ==
    ASSUME Types, Tightest, NEW q \in Requests, NEW g, recorded' = [recorded EXCEPT ![q] = g],
           log' = log \/ \E e \in Hit : log' = Append(log, e) /\ e.call = q,
           NEW r \in Requests, r # q, NEW h \in Headers
    PROVE  /\ recorded'[r] = h => Smallest(r, h)'
           /\ r \in DOMAIN answer /\ answer[r].headers = h /\ h # NoHeaders => Smallest(r, h)'
<1>1. recorded'[r] = recorded[r]
  BY DEF Types
<1>2. Smallest(r, h) => Smallest(r, h)'
  BY SmallestKept
<1>. QED
  BY <1>1, <1>2 DEF Tightest

LEMMA TightestNext ==
    ASSUME Types, Flow, Lasting, Tightest, [Next]_vars
    PROVE  Tightest'
<1>1. CASE QuietMove
  <2>1. recorded' = recorded /\ log' = log
    BY <1>1 DEF QuietMove
  <2>2. \A r \in Requests, h \in Headers : Smallest(r, h)' <=> Smallest(r, h)
    BY <2>1 DEF Smallest
  <2>3. CASE UNCHANGED answer
    BY <2>1, <2>2, <2>3 DEF Tightest
  <2>4. CASE ~UNCHANGED answer
    <3>1. PICK q \in Requests, status \in {200, 401, 500} : \E g \in {recorded[q], NoHeaders} :
              answer' = With(answer, q, [status |-> status, headers |-> g])
      BY <1>1, <2>4 DEF QuietMove
    <3>2. PICK g \in {recorded[q], NoHeaders} : answer' = With(answer, q, [status |-> status, headers |-> g])
      BY <3>1
    <3>3. DOMAIN answer' = DOMAIN answer \cup {q} /\ answer'[q] = [status |-> status, headers |-> g]
          /\ \A p \in DOMAIN answer \ {q} : answer'[p] = answer[p]
      BY <3>2, AnswerDomain
    <3>4. ASSUME NEW r \in Requests, NEW h \in Headers, r \in DOMAIN answer', answer'[r].headers = h, h # NoHeaders
          PROVE  Smallest(r, h)
      <4>1. CASE r = q
        BY <3>2, <3>3, <3>4, <4>1 DEF Tightest
      <4>2. CASE r # q
        BY <3>3, <3>4, <4>2 DEF Tightest
      <4>. QED
        BY <4>1, <4>2
    <3>. QED
      BY <2>1, <2>2, <3>4 DEF Tightest
  <2>. QED
    BY <2>3, <2>4
<1>2. ASSUME NEW q \in Requests, CountMove(q) PROVE Tightest'
  <2>1. PICK k \in RouteKeys, c \in Counter, e \in Hit : HitBy(q, k, c, e) /\ Reports(q, k, c, e)
    BY <1>2 DEF CountMove
  <2>2. PICK R \in Headers : R = Report(k, c)
    BY HeadersTyped
  <2>3. R # NoHeaders /\ R.remaining = e.remaining /\ log' = Append(log, e) /\ e.call = q
    BY <2>1, <2>2, ReportsAreHeaders DEF Report, Reports, HitBy
  <2>4. Smallest(q, recorded[q])
    BY DEF Tightest, Types
  <2>5. PICK g \in Headers : g = Record(q, R)
    BY <2>2, HeadersTyped
  <2>6. g # NoHeaders /\ g.remaining <= R.remaining /\ Smallest(q, g)
    BY <2>3, <2>4, <2>5, RecordIsSmaller
  <2>7. Smallest(q, g)'
    BY <2>3, <2>6, SmallestKept
  <2>8. recorded' = [recorded EXCEPT ![q] = g] /\ recorded'[q] = g
    BY <2>1, <2>2, <2>5 DEF Reports, Types
  <2>9. q \notin DOMAIN answer
    BY <1>2 DEF Flow, CountMove, Served
  <2>10. ASSUME NEW r \in Requests, NEW h \in Headers, recorded'[r] = h PROVE Smallest(r, h)'
    <3>1. CASE r = q
      BY <2>7, <2>8, <2>10, <3>1
    <3>2. CASE r # q
      BY <2>3, <2>8, <2>10, <3>2, OthersTightest
    <3>. QED
      BY <3>1, <3>2
  <2>11. ASSUME NEW r \in Requests, NEW h \in Headers, r \in DOMAIN answer', answer'[r].headers = h, h # NoHeaders
         PROVE  Smallest(r, h)'
    <3>1. CASE answer' = answer
      <4>1. r # q
        BY <2>9, <2>11, <3>1
      <4>. QED
        BY <2>3, <2>8, <2>11, <3>1, <4>1, OthersTightest
    <3>2. CASE c.n > Times(k.limiter) /\ answer' = With(answer, q, [status |-> 429, headers |-> Report(k, c)])
      <4>1. DOMAIN answer' = DOMAIN answer \cup {q} /\ answer'[q] = [status |-> 429, headers |-> R]
            /\ \A p \in DOMAIN answer \ {q} : answer'[p] = answer[p]
        <5>1. answer' = With(answer, q, [status |-> 429, headers |-> R])
          BY <2>2, <3>2
        <5>. QED
          BY <5>1, SMTT(30) DEF With
      <4>2. CASE r # q
        BY <2>3, <2>8, <2>11, <4>1, <4>2, OthersTightest, ZenonT(60)
      <4>3. CASE r = q
        <5>1. h = R
          BY <2>11, <4>1, <4>3
        <5>2. h.remaining = 0
          BY <2>2, <3>2, <5>1, RemainingBounds DEF Report, Counter
        <5>3. \A i \in 1..Len(log) : log[i].remaining \in Nat
          <6>1. \A i \in 1..Len(log) : log[i] \in Hit
            BY DEF Types
          <6>. QED
            BY <6>1 DEF Hit
        <5>4. Smallest(r, h)
          BY <2>11, <5>2, <5>3 DEF Smallest
        <5>. QED
          BY <2>3, <2>11, <5>1, <5>4, SmallestKept DEF Hit
      <4>. QED
        BY <4>2, <4>3
    <3>. QED
      BY <2>1, <3>1, <3>2 DEF Reports
  <2>. QED
    BY <2>10, <2>11 DEF Tightest
<1>3. ASSUME NEW q \in Requests, FailMove(q) PROVE Tightest'
  <2>1. PICK k \in RouteKeys :
          /\ recorded' = [recorded EXCEPT ![q] = Record(q, FullReport(k))]
          /\ \/ UNCHANGED <<log, table>>
             \/ \E c \in Counter, e \in Hit : HitBy(q, k, c, e) /\ e.remaining = Times(k.limiter)
    BY <1>3 DEF FailMove
  <2>2. NoCounter \in Counter
    BY DEF NoCounter, Counter
  <2>3. PICK R \in Headers : R = FullReport(k)
    BY <2>2, HeadersTyped
  <2>4. /\ R # NoHeaders
        /\ log' = log \/ \E e \in Hit : log' = Append(log, e) /\ e.call = q /\ e.remaining = R.remaining
    BY <2>1, <2>3, ReportsAreHeaders DEF FullReport, HitBy
  <2>5. Smallest(q, recorded[q])
    BY DEF Tightest, Types
  <2>6. PICK g \in Headers : g = Record(q, R)
    BY <2>2, <2>3, HeadersTyped
  <2>7. g # NoHeaders /\ g.remaining <= R.remaining /\ Smallest(q, g)
    BY <2>4, <2>5, <2>6, RecordIsSmaller
  <2>8. Smallest(q, g)'
    BY <2>4, <2>7, SmallestKept
  <2>9. recorded' = [recorded EXCEPT ![q] = g] /\ recorded'[q] = g
    BY <2>1, <2>3, <2>6 DEF Types
  <2>10. q \notin DOMAIN answer /\ answer' = answer
    BY <1>3 DEF Flow, FailMove, Served
  <2>11. ASSUME NEW r \in Requests, NEW h \in Headers
         PROVE  /\ recorded'[r] = h => Smallest(r, h)'
                /\ r \in DOMAIN answer /\ answer[r].headers = h /\ h # NoHeaders => Smallest(r, h)'
    <3>1. CASE r = q
      BY <2>8, <2>9, <2>10, <3>1
    <3>2. CASE r # q
      BY <2>4, <2>9, <3>2, OthersTightest
    <3>. QED
      BY <3>1, <3>2
  <2>. QED
    BY <2>10, <2>11 DEF Tightest
<1>. QED
  BY <1>1, <1>2, <1>3, StepKinds

-----------------------------------------------------------------------------
LimitInv == Types /\ Flow /\ Lasting /\ Booked /\ Tally /\ Refusals /\ Bounds /\ Tightest

LEMMA LimitInit == Init => LimitInv
<1>. SUFFICES ASSUME Init PROVE LimitInv
  OBVIOUS
<1>1. /\ clock = 0 /\ log = <<>> /\ Len(log) = 0 /\ answer = <<>> /\ DOMAIN answer = {} /\ caller = <<>> /\ DOMAIN caller = {}
      /\ table = [k \in Keys |-> NoCounter] /\ recorded = [r \in Requests |-> NoHeaders]
      /\ key = [c \in Calls |-> Attempts] /\ built = [c \in Calls |-> 0]
      /\ pc = [c \in Calls |-> IF c \in mix.calls THEN "start" ELSE "idle"]
  BY DEF Init
<1>2. /\ NoHeaders \in Headers /\ Attempts \in Keys /\ NoCounter \in Counter /\ NoCounter.n = 0
      /\ RouteKeys \subseteq Keys /\ Requests \subseteq Calls
  BY DEF NoHeaders, Headers, Keys, NoCounter, Counter, Calls
<1>3. \A c \in Calls : pc[c] \in {"start", "idle"}
  BY <1>1
<1>4. Types
  <2>1. pc = [c \in Calls |-> pc[c]]
    BY <1>1
  <2>2. backend \in {"memory", "redis", "database"} /\ mix \in Mixes /\ began \in [start : Nat, refresh : Nat]
    BY BackendsAssumption DEF Init
  <2>3. clock \in 0..MaxClock /\ built \in [Calls -> 0..MaxClock] /\ \A c \in Calls : built[c] <= clock
    BY <1>1, BoundsAssumption
  <2>4. log \in Seq(Hit)
    BY <1>1
  <2>. QED
    BY <1>1, <1>2, <2>1, <2>2, <2>3, <2>4 DEF Types, Counter
<1>5. Flow
  BY <1>1, <1>2, <1>3 DEF Flow, Counting, Served
<1>6. Lasting /\ \A k \in RouteKeys : table[k].n = 0
  BY <1>1, <1>2 DEF Lasting
<1>7. Booked /\ Refusals
  BY <1>1 DEF Booked, Refusals
<1>8. Tally
  <2>1. \A k \in RouteKeys : Counted(k, Len(log)) = {}
    BY <1>1 DEF Counted
  <2>2. \A k \in RouteKeys : Cardinality(Counted(k, Len(log))) = 0
    BY <2>1, FS_EmptySet, Zenon
  <2>. QED
    BY <1>6, <2>2 DEF Tally
<1>9. Bounds
  <2>1. \A k \in RouteKeys : Passed(k, 0) = {}
    BY <1>1 DEF Passed
  <2>2. \A k \in RouteKeys : Remaining(k.limiter, 0) = Times(k.limiter) /\ Times(k.limiter) \in Nat
    BY TimesAreNatural DEF Remaining
  <2>3. \A h \in Headers : Shown(h) => h = NoHeaders
    BY <1>1 DEF Shown
  <2>4. \A k \in RouteKeys : Bounded(k, 0, Times(k.limiter))
    <3>1. \A k \in RouteKeys : Cardinality(Passed(k, 0)) = 0
      BY <2>1, FS_EmptySet, Zenon
    <3>. QED
      BY <1>6, <2>2, <3>1 DEF Bounded
  <2>. QED
    BY <2>3, <2>4 DEF Bounds
<1>10. Tightest
  BY <1>1 DEF Tightest, Smallest
<1>. QED
  BY <1>4, <1>5, <1>6, <1>7, <1>8, <1>9, <1>10 DEF LimitInv

LEMMA LimitStep == LimitInv /\ [Next]_vars => LimitInv'
BY MovesNext, LastingNext, BookedNext, TallyNext, RefusalsNext, BoundsNext, TightestNext DEF LimitInv

LEMMA LimitInvHolds == Spec => []LimitInv
BY LimitInit, LimitStep, PTL DEF Spec

(* Two hits are on the same budget when they are under the same key.        *)
LEMMA SameKey ==
    ASSUME Types, Booked, NEW i \in 1..Len(log), NEW j \in 1..Len(log)
    PROVE  SameBudget(log[i], log[j]) <=> log[j].key = log[i].key
<1>1. log[i] \in Hit /\ log[j] \in Hit
  BY DEF Types
<1>2. log[i].key \in RouteKeys /\ log[j].key \in RouteKeys
  BY <1>1 DEF Hit
<1>3. /\ log[i].key.id = Owner(log[i]) /\ log[i].key.window = log[i].window
      /\ log[j].key.id = Owner(log[j]) /\ log[j].key.window = log[j].window
  BY DEF Booked, OwnerOf, Owner
<1>4. log[j].key = log[i].key <=>
        /\ log[i].key.limiter = log[j].key.limiter /\ log[i].key.id = log[j].key.id
        /\ log[i].key.window = log[j].key.window
  BY <1>2 DEF RouteKeys
<1>. QED
  BY <1>3, <1>4 DEF SameBudget

LEMMA BudgetHolds ==
    ASSUME LimitInv
    PROVE  WindowBudget
<1>1. Types /\ Booked /\ Bounds /\ Len(log) \in Nat /\ DOMAIN log = 1..Len(log)
  BY DEF LimitInv, Types
<1>2. SUFFICES ASSUME NEW i \in 1..Len(log)
               PROVE  Cardinality({f \in Entries : SameBudget(log[i], f) /\ f.admitted /\ f.in_time}) <= Times(log[i].key.limiter)
  BY <1>1 DEF WindowBudget, Entries
<1>. DEFINE F == {f \in Entries : SameBudget(log[i], f) /\ f.admitted /\ f.in_time}
            P == Passed(log[i].key, 0)
            g == [j \in P |-> log[j]]
<1>3. P = {j \in 1..Len(log) : log[j].key = log[i].key /\ log[j].admitted /\ log[j].in_time}
  BY <1>1 DEF Passed
<1>4. \A j \in P : log[j] \in F
  <2>1. \A j \in P : j \in 1..Len(log) /\ SameBudget(log[i], log[j]) /\ log[j].admitted /\ log[j].in_time
    BY <1>1, <1>2, <1>3, SameKey
  <2>. QED
    BY <1>1, <2>1 DEF Entries
<1>5. \A f \in F : \E j \in P : log[j] = f
  <2>1. SUFFICES ASSUME NEW f \in F PROVE \E j \in P : log[j] = f
    OBVIOUS
  <2>2. PICK j \in 1..Len(log) : f = log[j]
    BY <1>1 DEF Entries
  <2>. QED
    BY <1>1, <1>2, <1>3, <2>2, SameKey
<1>. HIDE DEF F, P
<1>6. g \in Surjection(P, F)
  BY <1>4, <1>5 DEF Surjection
<1>7. IsFiniteSet(P) /\ Cardinality(P) \in Nat
  BY <1>1, PassedIsFinite DEF P
<1>8. IsFiniteSet(F) /\ Cardinality(F) <= Cardinality(P)
  BY <1>6, <1>7, FS_Surjection
<1>9. Cardinality(F) \in Nat
  BY <1>8, FS_CardinalityType
<1>10. log[i].key \in RouteKeys
  <2>1. log[i] \in Hit
    BY <1>1 DEF Types
  <2>. QED
    BY <2>1 DEF Hit
<1>11. Cardinality(P) <= Times(log[i].key.limiter) /\ Times(log[i].key.limiter) \in Nat
  BY <1>1, <1>10, TimesAreNatural DEF Bounds, Bounded, P
<1>12. Cardinality(F) <= Times(log[i].key.limiter)
  BY <1>7, <1>8, <1>9, <1>11
<1>. QED
  BY <1>12 DEF F

LEMMA RefusalHolds ==
    ASSUME LimitInv
    PROVE  RefusedForCause
<1>1. Types /\ Booked /\ Refusals /\ Len(log) \in Nat
  BY DEF LimitInv, Types
<1>2. SUFFICES ASSUME NEW r \in DOMAIN answer, answer[r].status = 429
               PROVE  LET h == answer[r].headers
                      IN  Cardinality({i \in 1..(h.mark - 1) : SameBudget(log[h.mark], log[i])}) >= Times(log[h.mark].key.limiter)
  BY DEF RefusedForCause
<1>. DEFINE h == answer[r].headers
<1>3. r \in Requests /\ h \in Headers /\ answer[r] = [status |-> 429, headers |-> h]
  <2>1. r \in Requests /\ answer[r] \in [status : Nat, headers : Headers]
    BY <1>1 DEF Types
  <2>. QED
    BY <1>2, <2>1
<1>. HIDE DEF h
<1>4. Refusal(h)
  BY <1>1, <1>2, <1>3 DEF Refusals
<1>5. h.mark \in 1..Len(log) /\ log[h.mark].key = h.key
  BY <1>4 DEF Refusal
<1>6. ASSUME NEW i \in 1..(h.mark - 1) PROVE SameBudget(log[h.mark], log[i]) <=> log[i].key = h.key
  <2>1. i \in 1..Len(log)
    BY <1>1, <1>5
  <2>. QED
    BY <1>1, <1>5, <2>1, SameKey
<1>7. {i \in 1..(h.mark - 1) : SameBudget(log[h.mark], log[i])} = Counted(h.key, h.mark - 1)
  BY <1>6 DEF Counted
<1>8. Cardinality({i \in 1..(h.mark - 1) : SameBudget(log[h.mark], log[i])}) >= Times(log[h.mark].key.limiter)
  BY <1>4, <1>5, <1>7 DEF Refusal
<1>. QED
  BY <1>8 DEF h

LEMMA HeadersHold ==
    ASSUME LimitInv
    PROVE  HeadersBoundTheRest
<1>1. Types /\ Bounds /\ Tightest /\ Len(log) \in Nat /\ DOMAIN log = 1..Len(log)
  BY DEF LimitInv, Types
<1>2. \A r \in DOMAIN answer : r \in Requests /\ answer[r].headers \in Headers /\ Shown(answer[r].headers)
  BY <1>1 DEF Types, Shown
<1>3. ASSUME NEW r \in DOMAIN answer, answer[r].headers # NoHeaders
      PROVE  LET h == answer[r].headers
             IN  Cardinality({i \in DOMAIN log : i > h.mark /\ log[i].key = h.key /\ log[i].admitted /\ log[i].in_time}) <= h.remaining
  BY <1>1, <1>2, <1>3 DEF Bounds, Bounded, Passed
<1>4. ASSUME NEW r \in DOMAIN answer, answer[r].headers # NoHeaders, NEW e \in Entries, e.call = r
      PROVE  answer[r].headers.remaining <= e.remaining
  <2>1. Smallest(r, answer[r].headers)
    BY <1>1, <1>2, <1>4 DEF Tightest
  <2>2. PICK i \in 1..Len(log) : e = log[i]
    BY <1>1 DEF Entries
  <2>. QED
    BY <1>4, <2>1, <2>2 DEF Smallest
<1>. QED
  BY <1>3, <1>4 DEF HeadersBoundTheRest, RemainingIsABound, SmallestBudgetReported

(* On every backend, and for any number of clients, users, requests and     *)
(* limits: within one window a limiter lets a client's block, or a user,    *)
(* through at most `times` times, whatever the client writes into           *)
(* X-Forwarded-For (increment_and_check, get_client_ip, client_ip_key).     *)
THEOREM BudgetKept == Spec => []WindowBudget
BY LimitInvHolds, BudgetHolds, PTL

(* A 429 is given only to a request that `times` others of the same client  *)
(* or user came before in the same window (increment_and_check).            *)
THEOREM RefusalsHaveCause == Spec => []RefusedForCause
BY LimitInvHolds, RefusalHolds, PTL

(* After a response that carries X-RateLimit-Remaining: n at most n more    *)
(* requests pass on that budget in its window, and n is the smallest of the *)
(* budgets that counted the request (enforce_rate_limit,                    *)
(* record_rate_limit_headers, RateLimitHeadersMiddleware).                  *)
THEOREM HeadersAreBounds == Spec => []HeadersBoundTheRest
BY LimitInvHolds, HeadersHold, PTL

-----------------------------------------------------------------------------
(* The deadlines of the lockout's two counters.                             *)
Deadlines ==
    /\ WindowCloses
    /\ table[Rounds].n > 0 => table[Rounds].exp >= began.refresh + Period
    /\ table[Rounds].n = 0 => table[Rounds] = NoCounter

FallBackAllowed ==
    RoundsFallBack =>
        \/ clock >= began.refresh + Period
        \/ \E c \in LockCalls : pc'[c] = "deleted" /\ pc[c] = "lock"

LEMMA LockTypes ==
    ASSUME Types
    PROVE  /\ Attempts \in Keys /\ Rounds \in Keys /\ Period \in Nat \ {0} /\ clock \in Nat
           /\ \A k \in {Attempts, Rounds} : table[k] \in Counter /\ table[k].n \in Nat /\ table[k].exp \in Nat
           /\ began.start \in Nat /\ began.refresh \in Nat
BY BoundsAssumption DEF Types, Keys, Counter

(* A step of anyone but the lockout leaves them, or drops an expired one.   *)
LEMMA OthersFade ==
    ASSUME Types, Flow, Lasting, [Next]_vars, ~\E c \in LockCalls : LockStep(c)
    PROVE  Faded(Attempts) /\ Faded(Rounds) /\ began' = began
<1>1. CASE Tick \/ UNCHANGED vars
  BY <1>1 DEF Tick, vars, Faded
<1>2. ASSUME NEW k \in Keys, Purge(k) PROVE Faded(Attempts) /\ Faded(Rounds) /\ began' = began
  BY <1>2, LockTypes DEF Purge, Faded, Types
<1>3. ASSUME NEW r \in Requests, RequestStep(r) PROVE Faded(Attempts) /\ Faded(Rounds) /\ began' = began
  <2>1. CASE \/ Arrive(r) \/ Unauthenticated(r) \/ Route(r)
             \/ \E l \in {"ip", "user"} : Disabled(r, l) \/ Build(r, l)
    BY <2>1 DEF Arrive, Unauthenticated, Route, Disabled, Build, Faded
  <2>2. CASE CountMove(r)
    <3>1. PICK k \in RouteKeys, c \in Counter, e \in Hit : HitBy(r, k, c, e)
      BY <2>2 DEF CountMove
    <3>. QED
      BY <2>2, <3>1, KeysApart, LockTypes DEF CountMove, HitBy
  <2>3. CASE FailMove(r)
    <3>1. PICK k \in RouteKeys : UNCHANGED <<log, table>> \/ \E c \in Counter, e \in Hit : HitBy(r, k, c, e)
      BY <2>3 DEF FailMove
    <3>2. CASE UNCHANGED <<log, table>>
      BY <2>3, <3>2 DEF FailMove, Faded
    <3>3. ASSUME NEW c \in Counter, NEW e \in Hit, HitBy(r, k, c, e) PROVE Faded(Attempts) /\ Faded(Rounds)
      BY <3>3, KeysApart, LockTypes DEF HitBy
    <3>. QED
      BY <2>3, <3>1, <3>2, <3>3 DEF FailMove
  <2>. QED
    BY <1>3, <2>1, <2>2, <2>3, CountNowIsMove, CountBuiltIsMove, FailIsMove DEF RequestStep
<1>. QED
  BY <1>1, <1>2, <1>3 DEF Next

LEMMA FadedRounds ==
    ASSUME Types, Deadlines, Faded(Rounds), began'.refresh = began.refresh
    PROVE  /\ table'[Rounds].n > 0 => table'[Rounds].exp >= began'.refresh + Period
           /\ table'[Rounds].n = 0 => table'[Rounds] = NoCounter
           /\ FallBackAllowed
<1>1. CASE table'[Rounds] = table[Rounds]
  BY <1>1 DEF Deadlines, FallBackAllowed, RoundsFallBack
<1>2. CASE table'[Rounds] = NoCounter /\ ~Live(table[Rounds], clock)
  <2>1. table[Rounds].n > 0 => clock >= began.refresh + Period
    BY <1>2, LockTypes DEF Live, Deadlines
  <2>2. table[Rounds].n = 0 => table'[Rounds] = table[Rounds]
    BY <1>2 DEF Deadlines
  <2>. QED
    BY <1>2, <2>1, <2>2, LockTypes DEF NoCounter, FallBackAllowed, RoundsFallBack
<1>. QED
  BY <1>1, <1>2 DEF Faded

LEMMA FadedAttempts ==
    ASSUME Types, WindowCloses, Faded(Attempts), began'.start = began.start
    PROVE  WindowCloses'
BY DEF WindowCloses, Faded, NoCounter

(* What is stored is there, unless it has expired as it is stored.          *)
LEMMA StoreKeeps ==
    ASSUME Types, NEW k \in Keys, NEW c \in Counter, Store(k, c), backend = "memory" => Live(c, clock)
    PROVE  table'[k] = c
<1>1. CASE backend = "memory"
  BY <1>1, StoreMoves
<1>2. CASE backend # "memory"
  <2>1. table' = [table EXCEPT ![k] = c]
    BY <1>2 DEF Store, Swept
  <2>. QED
    BY <2>1 DEF Types
<1>. QED
  BY <1>1, <1>2

LEMMA LockDeadlines ==
    ASSUME Types, Flow, Deadlines, NEW c \in LockCalls, LockStep(c)
    PROVE  Deadlines' /\ FallBackAllowed
<1>1. /\ Attempts \in Keys /\ Rounds \in Keys /\ Period \in Nat \ {0} /\ clock \in Nat
      /\ \A k \in {Attempts, Rounds} : table[k] \in Counter /\ table[k].n \in Nat /\ table[k].exp \in Nat
      /\ began.start \in Nat /\ began.refresh \in Nat
  BY LockTypes
<1>2. c \in Calls /\ Now(c) \in Nat /\ Now(c) <= clock /\ (backend = "memory" => Now(c) = clock)
  BY <1>1, BoundsAssumption, SMTT(30) DEF Now, Types, Calls
<1>3. WindowCloses
  BY DEF Deadlines
<1>4. CASE \E k \in {Attempts, Rounds} : LockBuild(c, k)
  <2>1. table' = table /\ began' = began
    BY <1>4 DEF LockBuild
  <2>2. Faded(Attempts) /\ Faded(Rounds)
    BY <2>1 DEF Faded
  <2>. QED
    BY <1>3, <2>1, <2>2, FadedAttempts, FadedRounds DEF Deadlines
<1>5. CASE LockIncrement(c)
  <2>. DEFINE a == Incremented(table[Attempts], Now(c))
  <2>1. a \in Counter
    BY <1>1, <1>2 DEF Incremented, Fresh, Counter
  <2>2. Store(Attempts, a) /\ began' = IF Live(table[Attempts], Now(c)) THEN began ELSE [began EXCEPT !.start = clock]
    BY <1>5 DEF LockIncrement
  <2>3. began'.refresh = began.refresh
    BY <2>2 DEF Types
  <2>4. Faded(Rounds) /\ (table'[Attempts] = a \/ table'[Attempts] = NoCounter)
    BY <1>1, <2>1, <2>2, StoreMoves, KeysApart
  <2>5. a.exp <= began'.start + Period
    <3>1. CASE Live(table[Attempts], Now(c))
      <4>1. a.exp = table[Attempts].exp /\ table[Attempts].n > 0 /\ began' = began
        BY <1>1, <2>2, <3>1 DEF Incremented, Live, Counter
      <4>. QED
        BY <1>3, <4>1 DEF WindowCloses
    <3>2. CASE ~Live(table[Attempts], Now(c))
      <4>1. a.exp = Now(c) + Period /\ began'.start = clock
        BY <2>2, <3>2 DEF Incremented, Fresh, Types
      <4>. QED
        BY <1>1, <1>2, <4>1
    <3>. QED
      BY <3>1, <3>2
  <2>. HIDE DEF a
  <2>6. WindowCloses'
    BY <2>4, <2>5 DEF WindowCloses, NoCounter
  <2>. QED
    BY <2>3, <2>4, <2>6, FadedRounds DEF Deadlines
<1>6. CASE LockRefresh(c)
  <2>. DEFINE a == Refreshed(table[Rounds], Now(c))
  <2>1. a \in Counter /\ a.exp = Now(c) + Period /\ a.n > 0 /\ a.n \in Nat
    BY <1>1, <1>2 DEF Refreshed, Fresh, Counter
  <2>2. Store(Rounds, a) /\ began' = [began EXCEPT !.refresh = Now(c)]
    BY <1>6 DEF LockRefresh
  <2>3. began'.start = began.start /\ began'.refresh = Now(c)
    BY <2>2 DEF Types
  <2>4. a.n <= table[Rounds].n => table[Rounds].n > 0 /\ table[Rounds].exp <= Now(c)
    BY <1>1, <1>2 DEF Refreshed, Fresh, Live
  <2>. HIDE DEF a
  <2>5. Faded(Attempts)
    BY <1>1, <2>1, <2>2, StoreMoves, KeysApart
  <2>6. table'[Rounds] = a
    <3>1. backend = "memory" => Live(a, clock)
      BY <1>1, <1>2, <2>1 DEF Live
    <3>. QED
      BY <1>1, <2>1, <2>2, <3>1, StoreKeeps
  <2>7. RoundsFallBack => clock >= began.refresh + Period
    BY <1>1, <1>2, <2>1, <2>4, <2>6 DEF RoundsFallBack, Deadlines
  <2>8. WindowCloses'
    BY <1>3, <2>3, <2>5, FadedAttempts
  <2>9. table'[Rounds].exp >= began'.refresh + Period /\ table'[Rounds].n # 0
    BY <1>1, <1>2, <2>1, <2>3, <2>6
  <2>. QED
    BY <2>7, <2>8, <2>9 DEF Deadlines, FallBackAllowed
<1>7. CASE LockDelete(c)
  <2>1. key[c] \in {Attempts, Rounds} /\ pc[c] = "lock"
    BY <1>2, <1>7 DEF LockDelete, Flow
  <2>2. table' = [table EXCEPT ![key[c]] = NoCounter] /\ began' = began /\ pc' = [pc EXCEPT ![c] = "deleted"]
    BY <1>7 DEF LockDelete, Goto
  <2>3. pc'[c] = "deleted"
    BY <1>2, <2>2 DEF Types
  <2>4. \A k \in {Attempts, Rounds} : table'[k] = table[k] \/ table'[k] = NoCounter
    BY <1>1, <2>1, <2>2 DEF Types
  <2>. QED
    BY <2>1, <2>2, <2>3, <2>4 DEF Deadlines, WindowCloses, FallBackAllowed, NoCounter
<1>. QED
  BY <1>4, <1>5, <1>6, <1>7 DEF LockStep

LEMMA DeadlinesStep ==
    ASSUME LimitInv, Deadlines, [Next]_vars
    PROVE  Deadlines' /\ FallBackAllowed
<1>1. Types /\ Flow /\ Lasting /\ WindowCloses
  BY DEF LimitInv, Deadlines
<1>2. CASE \E c \in LockCalls : LockStep(c)
  BY <1>1, <1>2, LockDeadlines
<1>3. CASE ~\E c \in LockCalls : LockStep(c)
  <2>1. Faded(Attempts) /\ Faded(Rounds) /\ began' = began
    BY <1>1, <1>3, OthersFade
  <2>. QED
    BY <1>1, <2>1, FadedAttempts, FadedRounds DEF Deadlines
<1>. QED
  BY <1>2, <1>3

LEMMA DeadlinesInit == Init => Deadlines
BY DEF Init, Deadlines, WindowCloses, NoCounter, Keys

(* On every backend an attempts counter ends one Period after it started,   *)
(* however often it is incremented, and a rounds counter falls back only    *)
(* when it is deleted or one Period after its last refresh (increment,      *)
(* increment_and_refresh_ttl, reset of the counter backends).               *)
THEOREM DeadlinesKept == Spec => DeadlinesHold
<1>1. LimitInv /\ Deadlines /\ [Next]_vars => Deadlines'
  BY DeadlinesStep
<1>2. Spec => []Deadlines
  BY <1>1, DeadlinesInit, LimitInvHolds, PTL DEF Spec
<1>3. LimitInv /\ Deadlines /\ [Next]_vars
        => [/\ WindowCloses'
            /\ RoundsFallBack =>
                 \/ clock >= began.refresh + Period
                 \/ \E c \in LockCalls : pc'[c] = "deleted" /\ pc[c] = "lock"]_vars
  BY DeadlinesStep DEF Deadlines, FallBackAllowed
<1>. QED
  BY <1>2, <1>3, LimitInvHolds, PTL DEF Spec, DeadlinesHold

-----------------------------------------------------------------------------
(* Sudo mode, for any number of calls of elevate, sessions and attempts:    *)
(* the guesses that the lockout lets through, what the lock keeps plain,    *)
(* and that a session that is gone is never elevated.                       *)
SudoTypes ==
    /\ fail \in Nat /\ locked \in BOOLEAN
    /\ session = [s \in Sessions |-> session[s]]
    /\ stage = [c \in Elevations |-> stage[c]]
    /\ sess \in [Elevations -> Sessions] /\ right \in [Elevations -> BOOLEAN]
    /\ attempt \in [Elevations -> Nat]
    /\ told \subseteq Elevations /\ late \subseteq Elevations
    /\ inFlight \subseteq Elevations /\ cleared \subseteq Sessions

(* Who was told a number within the limit has been counted, and nobody else *)
(* than the calls that were late was told the same number.                  *)
ToldWithinLimit ==
    \A c \in told : stage[c] \notin {"guard", "count"} /\ attempt[c] \in 1..MaxAttempts

ToldApart == \A c, d \in told \ late : c # d => attempt[c] # attempt[d]

(* Without a lock the counter has reached every number told; while the lock *)
(* lasts only the calls that were late are still to be counted.             *)
CountedSoFar ==
    /\ ~locked => late = {} /\ \A c \in told : attempt[c] <= fail
    /\ locked => \A c \in Elevations : stage[c] = "count" => c \in late

(* While the lock lasts, whoever is past the guard was past it when the     *)
(* lock was set.                                                            *)
PastGuardInFlight == locked => \A c \in Elevations : stage[c] \in PastGuard => c \in inFlight

(* Only a correct call goes on to stamp its session.                        *)
RightToStamp == \A c \in Elevations : stage[c] \in {"clear", "stamp"} => right[c]

(* Only a lock that lasts has taken elevations.                             *)
ClearedWhileLocked == ~locked => cleared = {}

TriedInv == ToldWithinLimit /\ ToldApart /\ CountedSoFar
SudoLockInv == PastGuardInFlight /\ RightToStamp /\ ClearedWhileLocked /\ LockedStaysPlain
SudoInv == SudoTypes /\ TriedInv /\ SudoLockInv

-----------------------------------------------------------------------------
LEMMA SudoInvInit == SudoInit => SudoInv
<1>. SUFFICES ASSUME SudoInit PROVE SudoInv
  OBVIOUS
<1>1. SudoTypes
  BY DEF SudoInit, SudoTypes
<1>2. TriedInv
  BY DEF SudoInit, TriedInv, ToldWithinLimit, ToldApart, CountedSoFar
<1>3. SudoLockInv
  BY DEF SudoInit, SudoLockInv, PastGuardInFlight, RightToStamp, ClearedWhileLocked, LockedStaysPlain, PastGuard
<1>. QED
  BY <1>1, <1>2, <1>3 DEF SudoInv

LEMMA SudoTypesNext == SudoTypes /\ [SudoNext]_sudoVars => SudoTypes'
<1>. SUFFICES ASSUME SudoTypes, [SudoNext]_sudoVars PROVE SudoTypes'
  OBVIOUS
<1>. USE DEF SudoTypes, counters, call, history, Advance
<1>1. ASSUME NEW c \in Elevations, CallStep(c) PROVE SudoTypes'
  <2>1. CASE Guard(c)          BY <2>1 DEF Guard
  <2>2. CASE CountAttempt(c)   BY <2>2, SMTT(30) DEF CountAttempt, Told
  <2>3. CASE Verify(c)         BY <2>3 DEF Verify
  <2>4. CASE SetLock(c)        BY <2>4 DEF SetLock
  <2>5. CASE ResetFail(c)      BY <2>5 DEF ResetFail
  <2>6. CASE ClearElevation(c) BY <2>6 DEF ClearElevation
  <2>7. CASE ClearFailures(c)  BY <2>7 DEF ClearFailures, StartAfresh
  <2>8. CASE Stamp(c)          BY <2>8 DEF Stamp
  <2>9. QED
    BY <1>1, <2>1, <2>2, <2>3, <2>4, <2>5, <2>6, <2>7, <2>8 DEF CallStep
<1>2. CASE LockEnds   BY <1>2 DEF LockEnds
<1>3. CASE WindowEnds BY <1>3 DEF WindowEnds, StartAfresh
<1>4. ASSUME NEW s \in Sessions, ElevationEnds(s) \/ SessionEnds(s) PROVE SudoTypes'
  BY <1>4 DEF ElevationEnds, SessionEnds
<1>5. CASE UNCHANGED sudoVars BY <1>5 DEF sudoVars
<1>6. QED
  BY <1>1, <1>2, <1>3, <1>4, <1>5 DEF SudoNext

-----------------------------------------------------------------------------
(* A step that starts the counter afresh, or ends the lock.                 *)
LEMMA AfreshKeepsCounts ==
    ASSUME TriedInv, told' = {}, ~locked' => late' = {}, locked' => locked /\ late' = late,
           \A c \in Elevations : stage'[c] = "count" => stage[c] = "count"
    PROVE  TriedInv'
BY DEF TriedInv, ToldWithinLimit, ToldApart, CountedSoFar

(* A step that leaves the counter and what the calls were told alone; a     *)
(* call that passes the guard does so without a lock.                       *)
LEMMA CountsKept ==
    ASSUME TriedInv, UNCHANGED <<fail, attempt, told, late, locked>>,
           NEW c \in Elevations, \A d \in Elevations \ {c} : stage'[d] = stage[d],
           stage'[c] # "guard", stage'[c] = "count" => stage[c] = "guard" /\ ~locked,
           told \subseteq Elevations
    PROVE  TriedInv'
<1>1. ToldWithinLimit'
  BY DEF TriedInv, ToldWithinLimit
<1>2. ToldApart'
  BY DEF TriedInv, ToldApart
<1>3. CountedSoFar'
  BY DEF TriedInv, CountedSoFar
<1>. QED
  BY <1>1, <1>2, <1>3 DEF TriedInv

(* A call that counts without a lock is told a number above those told so   *)
(* far; under a lock it is one of those that were late.                     *)
LEMMA CountKeepsCounts ==
    ASSUME SudoTypes, TriedInv, NEW c \in Elevations, CountAttempt(c)
    PROVE  TriedInv'
<1>1. /\ fail' = fail + 1 /\ fail \in Nat /\ attempt'[c] = fail + 1
      /\ \A d \in Elevations \ {c} : attempt'[d] = attempt[d] /\ stage'[d] = stage[d]
      /\ stage[c] = "count" /\ stage'[c] \in {"setlock", "verify"}
      /\ locked' = locked /\ late' = late
      /\ told' \subseteq told \cup {c} /\ (c \in told' => c \in told \/ fail + 1 <= MaxAttempts)
  BY DEF CountAttempt, SudoTypes, Told, Advance
<1>2. c \notin told /\ told \subseteq Elevations /\ MaxAttempts \in Nat
  BY <1>1, MaxAttemptsIsPositive DEF TriedInv, ToldWithinLimit, SudoTypes
<1>3. \A d \in Elevations : attempt[d] \in Nat
  BY DEF SudoTypes
<1>4. ToldWithinLimit'
  <2>1. \A d \in told : stage'[d] \notin {"guard", "count"} /\ attempt'[d] \in 1..MaxAttempts
    BY <1>1, <1>2 DEF TriedInv, ToldWithinLimit
  <2>2. c \in told' => stage'[c] \notin {"guard", "count"} /\ attempt'[c] \in 1..MaxAttempts
    BY <1>1, <1>2
  <2>. QED
    BY <2>1, <2>2, <1>1 DEF ToldWithinLimit
<1>5. CountedSoFar'
  <2>1. locked' => \A d \in Elevations : stage'[d] = "count" => d \in late'
    BY <1>1 DEF TriedInv, CountedSoFar
  <2>2. ~locked' => late' = {} /\ \A d \in told' : attempt'[d] <= fail'
    BY <1>1, <1>2, <1>3 DEF TriedInv, CountedSoFar
  <2>. QED
    BY <2>1, <2>2 DEF CountedSoFar
<1>6. ToldApart'
  <2>1. CASE locked
    <3>1. told' \ late' \subseteq told \ late
      BY <1>1, <2>1 DEF TriedInv, CountedSoFar
    <3>. QED
      BY <1>1, <1>2, <3>1 DEF TriedInv, ToldApart
  <2>2. CASE ~locked
    <3>1. \A d \in told : attempt'[d] = attempt[d] /\ attempt'[d] < attempt'[c]
      BY <1>1, <1>2, <1>3, <2>2 DEF TriedInv, CountedSoFar
    <3>. QED
      BY <1>1, <1>2, <1>3, <3>1 DEF TriedInv, ToldApart
  <2>. QED
    BY <2>1, <2>2
<1>. QED
  BY <1>4, <1>5, <1>6 DEF TriedInv

(* The lock is set: what was told before stays told apart, and those still  *)
(* to be counted are late.                                                  *)
LEMMA LockKeepsCounts ==
    ASSUME SudoTypes, TriedInv, NEW c \in Elevations, SetLock(c)
    PROVE  TriedInv'
<1>1. /\ locked' = TRUE /\ UNCHANGED <<fail, attempt, told>>
      /\ late' = late \cup {d \in Elevations : stage[d] = "count"}
      /\ stage[c] = "setlock" /\ stage'[c] = "resetfail"
      /\ \A d \in Elevations \ {c} : stage'[d] = stage[d]
  BY DEF SetLock, SudoTypes, call, Advance
<1>2. told \subseteq Elevations
  BY DEF SudoTypes
<1>. QED
  BY <1>1, <1>2 DEF TriedInv, ToldWithinLimit, ToldApart, CountedSoFar

(* The lock's reset of the counter.                                         *)
LEMMA ResetKeepsCounts ==
    ASSUME SudoTypes, TriedInv, NEW c \in Elevations, ResetFail(c)
    PROVE  TriedInv'
<1>1. /\ UNCHANGED <<attempt, locked, late>> /\ fail' = 0
      /\ told' = IF locked THEN told ELSE {}
      /\ stage[c] = "resetfail" /\ stage'[c] = "unstamp"
      /\ \A d \in Elevations \ {c} : stage'[d] = stage[d]
  BY DEF ResetFail, SudoTypes, call, Advance
<1>2. told \subseteq Elevations
  BY DEF SudoTypes
<1>. QED
  BY <1>1, <1>2 DEF TriedInv, ToldWithinLimit, ToldApart, CountedSoFar

LEMMA TriedNext == SudoTypes /\ TriedInv /\ [SudoNext]_sudoVars => TriedInv'
<1>. SUFFICES ASSUME SudoTypes, TriedInv, [SudoNext]_sudoVars PROVE TriedInv'
  OBVIOUS
<1>1. ASSUME NEW c \in Elevations, CallStep(c) PROVE TriedInv'
  <2>1. CASE CountAttempt(c)
    BY <2>1, CountKeepsCounts
  <2>2. CASE SetLock(c)
    BY <2>2, LockKeepsCounts
  <2>3. CASE ResetFail(c)
    BY <2>3, ResetKeepsCounts
  <2>4. CASE ClearFailures(c)
    <3>1. told' = {} /\ late' = late /\ locked' = locked
      BY <2>4 DEF ClearFailures, StartAfresh
    <3>2. \A d \in Elevations : stage'[d] = "count" => stage[d] = "count"
      BY <2>4 DEF ClearFailures, Advance, SudoTypes
    <3>3. (~locked' => late' = {}) /\ (locked' => locked /\ late' = late)
      BY <3>1 DEF TriedInv, CountedSoFar
    <3>. QED
      BY <3>1, <3>2, <3>3, AfreshKeepsCounts
  <2>5. CASE Guard(c)
    BY <2>5, CountsKept DEF Guard, counters, call, history, Advance, SudoTypes
  <2>6. CASE Verify(c)
    BY <2>6, CountsKept DEF Verify, counters, call, history, Advance, SudoTypes
  <2>7. CASE ClearElevation(c)
    BY <2>7, CountsKept DEF ClearElevation, counters, call, history, Advance, SudoTypes
  <2>8. CASE Stamp(c)
    BY <2>8, CountsKept DEF Stamp, counters, call, history, Advance, SudoTypes
  <2>. QED
    BY <1>1, <2>1, <2>2, <2>3, <2>4, <2>5, <2>6, <2>7, <2>8 DEF CallStep
<1>2. CASE WindowEnds
  <2>1. told' = {} /\ late' = late /\ locked' = locked /\ stage' = stage
    BY <1>2 DEF WindowEnds, StartAfresh
  <2>2. (~locked' => late' = {}) /\ (locked' => locked /\ late' = late)
    BY <2>1 DEF TriedInv, CountedSoFar
  <2>. QED
    BY <2>1, <2>2, AfreshKeepsCounts
<1>3. CASE LockEnds
  <2>1. told' = {} /\ late' = {} /\ ~locked' /\ stage' = stage
    BY <1>3 DEF LockEnds
  <2>. QED
    BY <2>1, AfreshKeepsCounts
<1>4. CASE (\E s \in Sessions : ElevationEnds(s) \/ SessionEnds(s)) \/ UNCHANGED sudoVars
  BY <1>4 DEF ElevationEnds, SessionEnds, sudoVars, counters, call, history,
              TriedInv, ToldWithinLimit, ToldApart, CountedSoFar
<1>. QED
  BY <1>1, <1>2, <1>3, <1>4 DEF SudoNext

-----------------------------------------------------------------------------
(* The lock: its part of the invariant, one step per action.                *)
LEMMA SudoLockNext == SudoTypes /\ SudoLockInv /\ [SudoNext]_sudoVars => SudoLockInv'
<1>. SUFFICES ASSUME SudoTypes, SudoLockInv, [SudoNext]_sudoVars PROVE SudoLockInv'
  OBVIOUS
<1>. USE DEF SudoLockInv, PastGuardInFlight, RightToStamp, ClearedWhileLocked, LockedStaysPlain, PastGuard,
             SudoTypes, counters, call, history, Advance
<1>1. ASSUME NEW c \in Elevations, CallStep(c) PROVE SudoLockInv'
  <2>1. CASE Guard(c)          BY <2>1 DEF Guard
  <2>2. CASE CountAttempt(c)   BY <2>2 DEF CountAttempt, Told
  <2>3. CASE Verify(c)         BY <2>3, ZenonT(60) DEF Verify
  <2>4. CASE SetLock(c)        BY <2>4 DEF SetLock
  <2>5. CASE ResetFail(c)      BY <2>5 DEF ResetFail
  <2>6. CASE ClearElevation(c)
    <3>1. \A s \in Sessions : session'[s] = "elevated" => session[s] = "elevated" /\ s # sess[c]
      BY <2>6 DEF ClearElevation
    <3>2. \A d \in Elevations : stage[d] = "elevated" => stage'[d] = "elevated"
      BY <2>6 DEF ClearElevation
    <3>3. cleared' \subseteq cleared \cup {sess[c]} /\ cleared' \subseteq Sessions
      BY <2>6 DEF ClearElevation
    <3>4. \A s \in cleared : session'[s] = "elevated" =>
              \E d \in inFlight : sess[d] = s /\ right[d] /\ stage'[d] = "elevated"
      BY <3>1, <3>2
    <3>5. LockedStaysPlain'
      BY <2>6, <3>1, <3>3, <3>4 DEF ClearElevation
    <3>. QED
      BY <2>6, <3>5 DEF ClearElevation
  <2>7. CASE ClearFailures(c)  BY <2>7 DEF ClearFailures, StartAfresh
  <2>8. CASE Stamp(c)          BY <2>8 DEF Stamp
  <2>9. QED
    BY <1>1, <2>1, <2>2, <2>3, <2>4, <2>5, <2>6, <2>7, <2>8 DEF CallStep
<1>2. CASE LockEnds   BY <1>2 DEF LockEnds
<1>3. CASE WindowEnds BY <1>3 DEF WindowEnds, StartAfresh
<1>4. ASSUME NEW s \in Sessions, ElevationEnds(s) \/ SessionEnds(s) PROVE SudoLockInv'
  BY <1>4 DEF ElevationEnds, SessionEnds
<1>5. CASE UNCHANGED sudoVars BY <1>5 DEF sudoVars
<1>6. QED
  BY <1>1, <1>2, <1>3, <1>4, <1>5 DEF SudoNext

LEMMA SudoInvNext == SudoInv /\ [SudoNext]_sudoVars => SudoInv'
BY SudoTypesNext, TriedNext, SudoLockNext DEF SudoInv

(* Calls told different numbers up to max_attempts are at most that many.   *)
LEMMA InvImpliesGuesses == SudoInv => OvershootWasInFlight
<1>. SUFFICES ASSUME SudoInv PROVE Cardinality(Guesses \ late) <= MaxAttempts
  BY DEF OvershootWasInFlight
<1>. DEFINE G == Guesses \ late
            f == [c \in G |-> attempt[c]]
<1>1. f \in Injection(G, 1..MaxAttempts)
  <2>1. \A c, d \in G : c # d => attempt[c] # attempt[d]
    BY DEF Guesses, SudoInv, TriedInv, ToldApart
  <2>2. \A c \in G : attempt[c] \in 1..MaxAttempts
    BY DEF Guesses, SudoInv, TriedInv, ToldWithinLimit
  <2>. QED
    BY <2>1, <2>2 DEF Injection, IsInjective
<1>2. IsFiniteSet(1..MaxAttempts) /\ Cardinality(1..MaxAttempts) = MaxAttempts
  BY FS_Interval, MaxAttemptsIsPositive
<1>3. Cardinality(G) <= Cardinality(1..MaxAttempts)
  BY <1>1, <1>2, FS_Injection
<1>. QED
  BY <1>2, <1>3

-----------------------------------------------------------------------------
(* However many calls overlap, at most max_attempts wrong passwords or      *)
(* codes are looked at before the counter or the lock ends, and besides     *)
(* them only those of calls that the lock met between the guard and the     *)
(* counter (sudo.py elevate, _count_attempt, _lock).                        *)
THEOREM GuessesBounded == SudoSpec => []OvershootWasInFlight
<1>1. SudoSpec => []SudoInv
  BY SudoInvInit, SudoInvNext, PTL DEF SudoSpec
<1>. QED
  BY <1>1, InvImpliesGuesses, PTL

(* While the sudo lock lasts, a session it took the elevation from is       *)
(* elevated only by a correct call that was past the guard when the lock    *)
(* was set (sudo.py _guard_locked, _lock).                                  *)
THEOREM LockKeepsPlain == SudoSpec => []LockedStaysPlain
<1>1. SudoSpec => []SudoInv
  BY SudoInvInit, SudoInvNext, PTL DEF SudoSpec
<1>2. SudoInv => LockedStaysPlain
  BY DEF SudoInv, SudoLockInv
<1>. QED
  BY <1>1, <1>2, PTL

(* A session that is gone is not brought back by the stamp or the clearing  *)
(* of a call that was in flight (sudo.py elevate, _lock; modify_session).   *)
THEOREM GoneStaysGone == SudoSpec => ElevationDiesWithSession
<1>1. SudoInv /\ [SudoNext]_sudoVars => [\A s \in Sessions : session[s] = "gone" => session'[s] = "gone"]_sudoVars
  BY DEF SudoInv, SudoTypes, SudoNext, CallStep, Guard, CountAttempt, Verify, SetLock, ResetFail, ClearElevation,
         ClearFailures, Stamp, LockEnds, WindowEnds, ElevationEnds, SessionEnds, sudoVars
<1>2. SudoSpec => []SudoInv
  BY SudoInvInit, SudoInvNext, PTL DEF SudoSpec
<1>. QED
  BY <1>1, <1>2, PTL DEF SudoSpec, ElevationDiesWithSession
=============================================================================
