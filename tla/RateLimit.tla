------------------------------ MODULE RateLimit ------------------------------
(***************************************************************************)
(* The fixed-window limits that rate_limit() puts on a route, over the     *)
(* three counter backends. A route has two limiters: one keyed by client   *)
(* address, then one keyed by user. A request finds its window and builds  *)
(* its statement first and is counted when the backend runs it; in memory  *)
(* the two are one step. The lockout's use of the same counters is         *)
(* reduced to calls that increment, refresh or delete one counter: what is *)
(* decided from them is in Lockout.                                        *)
(***************************************************************************)
EXTENDS Naturals, Sequences, FiniteSets

CONSTANTS Requests,     \* requests to the route
          LockCalls,    \* the lockout's calls on its counter
          Backends,     \* the counter backends tried
          Clients,      \* address blocks: one subscriber's /64
          Hosts,        \* addresses within a block
          Users,        \* signed-in users
          Anonymous,    \* no principal
          Elsewhere,    \* an address of no client: a proxy's, or one a client makes up
          Mixes,        \* the calls, callers and limiters tried together; by_user tells
                        \* KeyBy.USER of the second limiter from KeyBy.USER_OR_IP
          Hops,         \* trusted_proxy_hops, as many as there are proxies
          Middleware,   \* whether RateLimitHeadersMiddleware is installed
          IpTimes,      \* RateLimit.times of the limiter by address
          UserTimes,    \* RateLimit.times of the limiter by user
          Period,       \* RateLimit.seconds, and the expiry of the lockout's counter
          SweepEvery,   \* MEMORY_SWEEP_EVERY_INCREMENTS
          MaxClock      \* bound: seconds the run lasts

ASSUME BoundsAssumption ==
    /\ IpTimes \in Nat /\ UserTimes \in Nat /\ MaxClock \in Nat
    /\ Period \in Nat \ {0} /\ SweepEvery \in Nat \ {0}

ASSUME BackendsAssumption == Backends \subseteq {"memory", "redis", "database"}

ASSUME HopsAssumption == Hops \in Nat

ASSUME IdentitiesDiffer == Anonymous \notin Users /\ Elsewhere \notin Clients /\ Users \cap (Clients \cup {Elsewhere}) = {}

Calls     == Requests \cup LockCalls
Addresses == [block : Clients, host : Hosts]
Foreign   == [block |-> Elsewhere, host |-> Elsewhere]
WindowOf(t) == t - (t % Period)
Windows   == {WindowOf(t) : t \in 0..MaxClock}
Attempts  == [limiter |-> "attempts", id |-> Anonymous, window |-> 0]
Rounds    == [limiter |-> "rounds", id |-> Anonymous, window |-> 0]
RouteKeys == [limiter : {"ip", "user"}, id : Clients \cup Users \cup {Elsewhere}, window : Windows]
Keys      == RouteKeys \cup {Attempts, Rounds}
NoCounter == [n |-> 0, exp |-> 0]
NoHeaders == [key |-> Attempts, remaining |-> 0, mark |-> 0]

(* A request: the client's address, its principal, and the addresses it     *)
(* wrote into X-Forwarded-For itself.                                       *)
Callers == [from : Addresses, user : Users \cup {Anonymous},
            claims : {<<>>, <<Foreign>>}]

ASSUME MixesAssumption ==
    Mixes \subseteq [calls : SUBSET Calls, callers : SUBSET Callers,
                     limiters : SUBSET {"ip", "user"}, by_user : BOOLEAN]

VARIABLES clock,       \* time.time(), in whole seconds
          backend,     \* the configured backend
          mix,         \* the calls, callers and limiters of this behaviour
          table,       \* the counters
          sweep,       \* _increments_since_sweep of the memory backend
          pc,          \* the next step of each call
          caller,      \* who sent a request
          key, built,  \* the counter a call is about, and the clock in its statement
          recorded,    \* the headers recorded on request.state
          answer,      \* the status of each answered request, and its headers
          log,         \* history: what was counted, in order
          began        \* history: the start of the attempts counter, the last refresh of the rounds

vars == <<clock, backend, mix, table, sweep, pc, caller, key, built, recorded, answer, log, began>>

Init ==
    /\ clock = 0
    /\ backend \in Backends
    /\ mix \in Mixes
    /\ table = [k \in Keys |-> NoCounter]
    /\ sweep = 0
    /\ pc = [c \in Calls |-> IF c \in mix.calls THEN "start" ELSE "idle"]
    /\ caller = <<>>
    /\ key = [c \in Calls |-> Attempts]
    /\ built = [c \in Calls |-> 0]
    /\ recorded = [r \in Requests |-> NoHeaders]
    /\ answer = <<>>
    /\ log = <<>>
    /\ began = [start |-> 0, refresh |-> 0]

Goto(c, label) == pc' = [pc EXCEPT ![c] = label]

With(f, x, v) == [y \in DOMAIN f \cup {x} |-> IF y = x THEN v ELSE f[y]]

Tick ==
    /\ clock < MaxClock
    /\ clock' = clock + 1
    /\ UNCHANGED <<backend, mix, table, sweep, pc, caller, key, built, recorded, answer, log, began>>

-----------------------------------------------------------------------------
(* The counters. A counter is live until its deadline; the memory backend   *)
(* keeps it through the second of the deadline, the others do not.          *)
Live(c, now) == c.n > 0 /\ (c.exp > now \/ (backend = "memory" /\ c.exp = now))

Fresh(now) == [n |-> 1, exp |-> now + Period]

(* The clock an operation goes by: a database statement carries the one it  *)
(* was built with.                                                          *)
Now(c) == IF backend = "database" THEN built[c] ELSE clock

(* Mutant: every increment moves the deadline. *)
IncrementedRearms(c, now) == IF Live(c, now) THEN [n |-> c.n + 1, exp |-> now + Period] ELSE Fresh(now)

(* increment: the deadline is set when the counter starts, and only then.   *)
Incremented(c, now) == IF Live(c, now) THEN [c EXCEPT !.n = @ + 1] ELSE Fresh(now)

(* increment_and_refresh_ttl: the deadline moves with every increment. Also *)
(* what the Redis override of increment_and_check does.                     *)
Refreshed(c, now) == IF Live(c, now) THEN [n |-> c.n + 1, exp |-> now + Period] ELSE Fresh(now)

(* The memory backend drops expired counters every SweepEvery increments.   *)
Swept(t) ==
    IF backend = "memory" /\ sweep + 1 = SweepEvery
      THEN [k \in Keys |-> IF Live(t[k], clock) THEN t[k] ELSE NoCounter]
      ELSE t

Store(k, counter) ==
    /\ table' = Swept([table EXCEPT ![k] = counter])
    /\ sweep' = IF backend = "memory" THEN (sweep + 1) % SweepEvery ELSE 0

(* The purge of another write removes a counter that has expired.           *)
Purge(k) ==
    /\ backend = "database"
    /\ table[k].n > 0 /\ ~Live(table[k], clock)
    /\ table' = [table EXCEPT ![k] = NoCounter]
    /\ UNCHANGED <<clock, backend, mix, sweep, pc, caller, key, built, recorded, answer, log, began>>

-----------------------------------------------------------------------------
(* Who a request is counted for. Each trusted proxy appends the address it  *)
(* was called from to whatever the client sent.                             *)
Forwarded(r) == caller[r].claims \o [i \in 1..Hops |-> IF i = 1 THEN caller[r].from ELSE Foreign]

(* Mutant: the left-most entry. *)
GetClientIpLeftMost(r) ==
    IF Hops > 0 /\ Forwarded(r) # <<>> THEN Forwarded(r)[1] ELSE caller[r].from

GetClientIp(r) ==
    LET parts == Forwarded(r)
        hops  == IF Hops < Len(parts) THEN Hops ELSE Len(parts)
    IN  IF Hops > 0 /\ parts # <<>> THEN parts[Len(parts) - hops + 1] ELSE caller[r].from

ClientIpKey(address) == address.block

Identity(r, limiter) ==
    IF limiter = "ip" \/ caller[r].user = Anonymous
      THEN ClientIpKey(GetClientIp(r))
      ELSE caller[r].user

Times(limiter) == IF limiter = "ip" THEN IpTimes ELSE UserTimes

(* Mutant: the counter's key carries no window. *)
WindowKeyUnstamped(r, limiter) == [limiter |-> limiter, id |-> Identity(r, limiter), window |-> 0]

WindowKey(r, limiter) ==
    [limiter |-> limiter, id |-> Identity(r, limiter), window |-> WindowOf(clock)]

Arrive(r) ==
    /\ pc[r] = "start"
    /\ \E c \in mix.callers : caller' = With(caller, r, c)
    /\ Goto(r, "ip")
    /\ UNCHANGED <<clock, backend, mix, table, sweep, key, built, recorded, answer, log, began>>

NextLimiter(r) == IF pc[r] \in {"ip", "ip_count"} THEN "user" ELSE "route"

Answer(r, status, headers) ==
    /\ answer' = With(answer, r, [status |-> status, headers |-> headers])
    /\ Goto(r, "answered")

(* What the middleware adds to a response that did not come from the route. *)
OnError(r) == IF Middleware THEN recorded[r] ELSE NoHeaders

(* KeyBy.USER: current_user turns an anonymous request away, uncounted.     *)
Unauthenticated(r) ==
    /\ pc[r] = "user" /\ "user" \in mix.limiters /\ mix.by_user /\ caller[r].user = Anonymous
    /\ Answer(r, 401, OnError(r))
    /\ UNCHANGED <<clock, backend, mix, table, sweep, caller, key, built, recorded, log, began>>

Limits(r, limiter) ==
    /\ pc[r] = limiter /\ limiter \in mix.limiters /\ Times(limiter) > 0
    /\ ~(limiter = "user" /\ mix.by_user /\ caller[r].user = Anonymous)

(* No such limiter, a resolver that returns None, or times = 0.             *)
Disabled(r, limiter) ==
    /\ pc[r] = limiter
    /\ limiter \notin mix.limiters \/ Times(limiter) = 0
    /\ Goto(r, NextLimiter(r))
    /\ UNCHANGED <<clock, backend, mix, table, sweep, caller, key, built, recorded, answer, log, began>>

Build(r, limiter) ==
    /\ Limits(r, limiter)
    /\ backend # "memory"
    /\ key' = [key EXCEPT ![r] = WindowKey(r, limiter)]
    /\ built' = [built EXCEPT ![r] = IF backend = "database" THEN clock ELSE WindowOf(clock)]
    /\ Goto(r, IF limiter = "ip" THEN "ip_count" ELSE "user_count")
    /\ UNCHANGED <<clock, backend, mix, table, sweep, caller, recorded, answer, log, began>>

(* record_rate_limit_headers: of several limiters, the smaller budget.      *)
(* Mutant: the limiter that ran first. *)
RecordFirst(r, headers) == IF recorded[r] # NoHeaders THEN recorded[r] ELSE headers

Record(r, headers) ==
    IF recorded[r] # NoHeaders /\ recorded[r].remaining <= headers.remaining
      THEN recorded[r] ELSE headers

Remaining(limiter, n) == IF n > Times(limiter) THEN 0 ELSE Times(limiter) - n

(* increment_and_check and enforce_rate_limit: count, record, go on or 429. *)
Count(r, k, asked, counter) ==
    LET limited == counter.n > Times(k.limiter)
        headers == [key |-> k, mark |-> Len(log) + 1,
                    remaining |-> Remaining(k.limiter, counter.n)]
    IN  /\ Store(k, counter)
        /\ log' = Append(log, [call |-> r, key |-> k, window |-> WindowOf(asked),
                               in_time |-> WindowOf(clock) = WindowOf(asked),
                               admitted |-> ~limited, remaining |-> headers.remaining])
        /\ recorded' = [recorded EXCEPT ![r] = Record(r, headers)]
        /\ IF limited THEN Answer(r, 429, headers)
                      ELSE Goto(r, NextLimiter(r)) /\ UNCHANGED answer

CountNow(r, limiter) ==
    /\ Limits(r, limiter)
    /\ backend = "memory"
    /\ LET k == WindowKey(r, limiter) IN Count(r, k, clock, Incremented(table[k], clock))
    /\ UNCHANGED <<clock, backend, mix, caller, key, built, began>>

Returned(c) == key' = [key EXCEPT ![c] = Attempts] /\ built' = [built EXCEPT ![c] = 0]

Counting(r) == pc[r] \in {"ip_count", "user_count"}

CountDatabase(r) ==
    /\ Counting(r) /\ backend = "database"
    /\ Count(r, key[r], built[r], Incremented(table[key[r]], built[r]))
    /\ Returned(r)
    /\ UNCHANGED <<clock, backend, mix, caller, began>>

CountRedis(r) ==
    /\ Counting(r) /\ backend = "redis"
    /\ Count(r, key[r], built[r], Refreshed(table[key[r]], clock))
    /\ Returned(r)
    /\ UNCHANGED <<clock, backend, mix, caller, began>>

(* The backend raises, having counted or not: the request is let through.   *)
FailOpen(r) ==
    /\ Counting(r)
    /\ LET k       == key[r]
           headers == [key |-> k, mark |-> Len(log), remaining |-> Remaining(k.limiter, 0)]
       IN  /\ recorded' = [recorded EXCEPT ![r] = Record(r, headers)]
           /\ \/ UNCHANGED <<table, log>>
              \/ /\ table' = [table EXCEPT ![k] = IF backend = "redis" THEN Refreshed(@, clock)
                                                   ELSE Incremented(@, built[r])]
                 /\ log' = Append(log, [call |-> r, key |-> k, window |-> WindowOf(built[r]),
                                        in_time |-> FALSE, admitted |-> FALSE, remaining |-> headers.remaining])
    /\ Goto(r, NextLimiter(r))
    /\ Returned(r)
    /\ UNCHANGED <<clock, backend, mix, sweep, caller, answer, began>>

(* The route answers, or it raises and FastAPI builds the response.         *)
Route(r) ==
    /\ pc[r] = "route"
    /\ Answer(r, 200, recorded[r]) \/ Answer(r, 500, OnError(r))
    /\ UNCHANGED <<clock, backend, mix, table, sweep, caller, key, built, recorded, log, began>>

-----------------------------------------------------------------------------
(* The lockout's counters: attempts are incremented, rounds refreshed, both *)
(* deleted.                                                                 *)
LockBuild(c, k) ==
    /\ pc[c] = "start" /\ c \in LockCalls
    /\ key' = [key EXCEPT ![c] = k]
    /\ built' = [built EXCEPT ![c] = clock]
    /\ Goto(c, "lock")
    /\ UNCHANGED <<clock, backend, mix, table, sweep, caller, recorded, answer, log, began>>

(* What the memory backend does has no gap before it, and a gap before a    *)
(* Redis command is not noticed, so they go by the clock of this step.      *)
LockIncrement(c) ==
    /\ pc[c] = "lock" /\ key[c] = Attempts
    /\ Store(Attempts, Incremented(table[Attempts], Now(c)))
    /\ began' = IF Live(table[Attempts], Now(c)) THEN began ELSE [began EXCEPT !.start = clock]
    /\ Goto(c, "done")
    /\ UNCHANGED <<clock, backend, mix, caller, key, built, recorded, answer, log>>

LockRefresh(c) ==
    /\ pc[c] = "lock" /\ key[c] = Rounds
    /\ Store(Rounds, Refreshed(table[Rounds], Now(c)))
    /\ began' = [began EXCEPT !.refresh = Now(c)]
    /\ Goto(c, "done")
    /\ UNCHANGED <<clock, backend, mix, caller, key, built, recorded, answer, log>>

LockDelete(c) ==
    /\ pc[c] = "lock"
    /\ table' = [table EXCEPT ![key[c]] = NoCounter]
    /\ Goto(c, "deleted")
    /\ UNCHANGED <<clock, backend, mix, sweep, caller, key, built, recorded, answer, log, began>>

-----------------------------------------------------------------------------
RequestStep(r) ==
    \/ Arrive(r) \/ Unauthenticated(r)
    \/ \E l \in {"ip", "user"} : Disabled(r, l) \/ Build(r, l) \/ CountNow(r, l)
    \/ CountDatabase(r) \/ CountRedis(r) \/ FailOpen(r) \/ Route(r)

LockStep(c) ==
    (\E k \in {Attempts, Rounds} : LockBuild(c, k)) \/ LockIncrement(c) \/ LockRefresh(c) \/ LockDelete(c)

Next ==
    \/ Tick
    \/ \E k \in Keys : Purge(k)
    \/ \E r \in Requests : RequestStep(r)
    \/ \E c \in LockCalls : LockStep(c)

Spec == Init /\ [][Next]_vars

-----------------------------------------------------------------------------
(* The type invariant.                                                      *)
TypeOK ==
    /\ clock \in 0..MaxClock
    /\ backend \in Backends
    /\ mix \in Mixes
    /\ table \in [Keys -> [n : 0..Cardinality(Calls), exp : 0..(MaxClock + Period)]]
    /\ sweep \in 0..(SweepEvery - 1)
    /\ pc \in [Calls -> {"idle", "start", "ip", "ip_count", "user", "user_count", "route",
                         "answered", "lock", "done", "deleted"}]
    /\ \A r \in DOMAIN caller : caller[r] \in Callers
    /\ key \in [Calls -> Keys]
    /\ built \in [Calls -> 0..MaxClock]
    /\ \A r \in DOMAIN answer : answer[r].status \in {200, 401, 429, 500}
    /\ \A i \in DOMAIN log : log[i].key \in RouteKeys /\ log[i].window \in Windows
    /\ began \in [start : 0..MaxClock, refresh : 0..MaxClock]

(* Who a counted request really came from, whatever it claimed.             *)
Owner(e) ==
    IF e.key.limiter = "ip" \/ caller[e.call].user = Anonymous
      THEN caller[e.call].from.block ELSE caller[e.call].user

SameBudget(e, f) ==
    e.key.limiter = f.key.limiter /\ Owner(e) = Owner(f) /\ e.window = f.window

Entries == {log[i] : i \in DOMAIN log}

(* A client, whatever it writes into X-Forwarded-For and whichever address  *)
(* of its block it sends from, and a user, is let through at most `times`   *)
(* times in a window by each limiter, on every backend, not counting what   *)
(* passed while the backend failed or what was counted after its window     *)
(* had ended (increment_and_check, get_client_ip, client_ip_key).           *)
WindowBudget ==
    \A e \in Entries :
        Cardinality({f \in Entries : SameBudget(e, f) /\ f.admitted /\ f.in_time})
          <= Times(e.key.limiter)

(* A request is refused only when `times` others of the same client or user *)
(* were counted in the same window: no other client, user, limiter or       *)
(* window uses up its budget (increment_and_check).                         *)
RefusedForCause ==
    \A r \in DOMAIN answer : answer[r].status = 429 =>
        LET e == log[answer[r].headers.mark]
        IN  Cardinality({i \in 1..(answer[r].headers.mark - 1) : SameBudget(e, log[i])})
              >= Times(e.key.limiter)

(* After a response has reported n for a budget, at most n more requests    *)
(* pass on that budget.                                                     *)
RemainingIsABound ==
    \A r \in DOMAIN answer :
        LET h == answer[r].headers
        IN  h # NoHeaders =>
              Cardinality({i \in DOMAIN log : i > h.mark /\ log[i].key = h.key
                                            /\ log[i].admitted /\ log[i].in_time}) <= h.remaining

(* The budget reported is the one closest to running out.                   *)
SmallestBudgetReported ==
    \A r \in DOMAIN answer : answer[r].headers # NoHeaders =>
        \A e \in Entries : e.call = r => answer[r].headers.remaining <= e.remaining

(* Every response that carries X-RateLimit-Remaining bounds what its caller *)
(* can still send, by the tightest of the limiters that counted the         *)
(* request, also when another limiter, the route or authentication refused  *)
(* it (enforce_rate_limit, record_rate_limit_headers, middleware).          *)
HeadersBoundTheRest == RemainingIsABound /\ SmallestBudgetReported

(* An attempts counter ends one Period after it started.                    *)
WindowCloses == table[Attempts].n > 0 => table[Attempts].exp <= began.start + Period

(* A step that makes the rounds counter fall back.                          *)
RoundsFallBack == table'[Rounds].n <= table[Rounds].n /\ table[Rounds] # table'[Rounds]

(* The two deadline rules: an attempts counter ends one Period after it     *)
(* started, however often it is incremented, so sustained load does not     *)
(* keep a window open; a rounds counter that is refreshed in time is never  *)
(* forgotten, it falls back only by a delete or one Period after its last   *)
(* refresh (RateLimiterBackend.increment, increment_and_refresh_ttl).       *)
DeadlinesHold ==
    [][/\ WindowCloses'
       /\ RoundsFallBack =>
            \/ clock >= began.refresh + Period
            \/ \E c \in LockCalls : pc'[c] = "deleted" /\ pc[c] = "lock"]_vars
=============================================================================
