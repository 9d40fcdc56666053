------------------------------ MODULE Sessions ------------------------------
(***************************************************************************)
(* The session manager and the session transport over a store whose calls  *)
(* take effect at once (SessionStore): logins and the session limit,       *)
(* requests that resolve a principal once or twice, CSRF rotation, logout, *)
(* revocation and the cleanup sweep, all of one user. A call that stops    *)
(* halfway is a worker that died there. Storage keys, handles, cookies and *)
(* hooks are left out, and a request's user row is in Credentials; every   *)
(* request has an unsafe method, a safe one does the same without a check  *)
(* of its token.                                                           *)
(***************************************************************************)
EXTENDS Naturals, FiniteSets

CONSTANTS Logins,       \* logins, each creating one session and its first CSRF token
          Rotations,    \* calls of /csrf/refresh, each minting one token
          Requests,     \* other authenticated requests
          Logouts,      \* calls of complete_logout
          Sweeps,       \* calls of cleanup_expired_sessions
          None,         \* no session, no token
          Mixes,        \* the sets of calls tried together
          MaxSessions,  \* max_sessions_per_user
          Idle,         \* the idle window, and the TTL of what is stored
          Absolute,     \* absolute_timeout
          MaxClock      \* bound: ticks of the clock

Sids   == Logins
Tokens == Logins \cup Rotations
Calls  == Logins \cup Rotations \cup Requests \cup Logouts \cup Sweeps

ASSUME CallsDisjoint ==
    /\ Logins \cap (Rotations \cup Requests \cup Logouts \cup Sweeps) = {}
    /\ Rotations \cap (Requests \cup Logouts \cup Sweeps) = {}
    /\ Requests \cap (Logouts \cup Sweeps) = {}
    /\ Logouts \cap Sweeps = {}
    /\ None \notin Calls

ASSUME MixesAreCalls == Mixes \subseteq SUBSET Calls

ASSUME BoundsAssumption ==
    /\ MaxSessions \in Nat \ {0} /\ Idle \in Nat \ {0}
    /\ Absolute \in Nat /\ MaxClock \in Nat

(* The checks a gate asks of a resolution.                                  *)
Checks == {"csrf", "activity"}

NoSession == [csrf |-> None, created |-> 0, seen |-> 0, exp |-> 0]
NoToken   == [session |-> None, exp |-> 0]
Nothing   == [sid |-> None, csrf |-> None]

VARIABLES clock,     \* the clock of the workers and of the store
          sessions,  \* the session records
          tokens,    \* the CSRF records
          pc,        \* the next step of each call
          cookie,    \* the session id in a request's cookie
          header,    \* the CSRF token it sends along
          gates,     \* how often a request still resolves its principal
          need,      \* the checks its current resolution has to do
          did,       \* the cached principal, and the checks done for it
          now,       \* the clock a validation or a sweep goes by
          copy,      \* the session a validation or a rotation has read or changed: id and CSRF id
          todo,      \* the sessions a call has yet to terminate, with the CSRF ids it read
          ret,       \* where it goes on then
          scan,      \* the keys a sweep has yet to look at
          ended,     \* history: the sessions that were deleted
          slid,      \* history: the tokens whose latest slide took effect while they were current
          since,     \* history: the logins that created their session since a login listed them
          size       \* history: how many sessions were live when a login had created its own

vars == <<clock, sessions, tokens, pc, cookie, header, gates, need, did, now, copy, todo, ret, scan,
          ended, slid, since, size>>

stored  == <<sessions, tokens>>
sent    == <<cookie, header>>
gating  == <<gates, need, did>>
ending  == <<todo, ret>>
history == <<ended, slid, since, size>>

Init ==
    /\ clock = 0
    /\ sessions = [s \in Sids |-> NoSession]
    /\ tokens = [t \in Tokens |-> NoToken]
    /\ \E mix \in Mixes : pc = [o \in Calls |-> IF o \in mix THEN "start" ELSE "idle"]
    /\ cookie = [o \in Calls |-> None]
    /\ header = [o \in Calls |-> None]
    /\ gates = [o \in Calls |-> 0]
    /\ need = [o \in Calls |-> {}]
    /\ did = [o \in Calls |-> {}]
    /\ now = [o \in Calls |-> 0]
    /\ copy = [o \in Calls |-> Nothing]
    /\ todo = [o \in Calls |-> {}]
    /\ ret = [o \in Calls |-> "done"]
    /\ scan = [o \in Sweeps |-> {}]
    /\ ended = {}
    /\ slid = {}
    /\ since = [l \in Logins |-> {}]
    /\ size = [l \in Logins |-> 0]

Goto(o, label) == pc' = [pc EXCEPT ![o] = label]

Alive(s) == sessions[s] # NoSession /\ sessions[s].exp > clock

Valid(t) == tokens[t] # NoToken /\ tokens[t].exp > clock

Live == {s \in Sids : Alive(s)}

Entry(s) == [sid |-> s, csrf |-> sessions[s].csrf]

Born == {s \in Sids : pc[s] = "done"}

Tick ==
    /\ clock < MaxClock
    /\ clock' = clock + 1
    /\ UNCHANGED <<stored, pc, sent, gating, now, copy, ending, scan, history>>

-----------------------------------------------------------------------------
(* _terminate, for each of some sessions: the record, then the token whose  *)
(* id was in the copy that was read; then the call goes on.                 *)
Terminate(o, entries, next) ==
    IF entries = {}
      THEN Goto(o, next) /\ UNCHANGED ending
      ELSE /\ Goto(o, "end")
           /\ todo' = [todo EXCEPT ![o] = entries]
           /\ ret' = [ret EXCEPT ![o] = next]

EndRecord(o) ==
    /\ pc[o] = "end"
    /\ \E e \in todo[o] :
         /\ sessions' = [sessions EXCEPT ![e.sid] = NoSession]
         /\ ended' = ended \cup {e.sid}
         /\ copy' = [copy EXCEPT ![o] = e]
    /\ Goto(o, "endtoken")
    /\ UNCHANGED <<clock, tokens, sent, gating, now, ending, scan, slid, since, size>>

EndToken(o) ==
    /\ pc[o] = "endtoken"
    /\ tokens' = [tokens EXCEPT ![copy[o].csrf] = NoToken]
    /\ todo' = [todo EXCEPT ![o] = @ \ {copy[o]}]
    /\ Goto(o, IF todo[o] = {copy[o]} THEN ret[o] ELSE "end")
    /\ UNCHANGED <<clock, sessions, sent, gating, now, copy, ret, scan, history>>

-----------------------------------------------------------------------------
(* create_session: the presented session is replaced, the limit enforced,   *)
(* a CSRF token stored, then the session.                                   *)
LoginStart(l) ==
    /\ pc[l] = "start" /\ l \in Logins
    /\ \E s \in Born \cup {None} :
         /\ cookie' = [cookie EXCEPT ![l] = s]
         /\ Terminate(l, {Entry(x) : x \in {s} \cap Live}, "list")
    /\ UNCHANGED <<clock, stored, header, gating, now, copy, scan, history>>

(* _enforce_session_limit: the sessions longest without activity make room. *)
(* Mutant: no room for the session about to be created. *)
ExcessWithoutRoom(n) == IF n >= MaxSessions THEN n - MaxSessions ELSE 0

Excess(n) == IF n >= MaxSessions THEN n - MaxSessions + 1 ELSE 0

LoginList(l) ==
    /\ pc[l] = "list"
    /\ \E out \in SUBSET Live :
         /\ Cardinality(out) = Excess(Cardinality(Live))
         /\ \A s \in out, x \in Live \ out : sessions[s].seen <= sessions[x].seen
         /\ Terminate(l, {Entry(s) : s \in out}, "token")
    /\ since' = [since EXCEPT ![l] = {}]
    /\ UNCHANGED <<clock, stored, sent, gating, now, copy, scan, ended, slid, size>>

LoginToken(l) ==
    /\ pc[l] = "token"
    /\ tokens' = [tokens EXCEPT ![l] = [session |-> l, exp |-> clock + Idle]]
    /\ now' = [now EXCEPT ![l] = clock]
    /\ Goto(l, "create")
    /\ UNCHANGED <<clock, sessions, sent, gating, copy, ending, scan, history>>

LoginCreate(l) ==
    /\ pc[l] = "create"
    /\ sessions' = [sessions EXCEPT ![l] =
                      [csrf |-> l, created |-> now[l], seen |-> now[l], exp |-> clock + Idle]]
    /\ since' = [x \in Logins |-> IF pc[x] \in {"idle", "start", "done"} \/ x = l THEN since[x] ELSE since[x] \cup {l}]
    /\ size' = [size EXCEPT ![l] = Cardinality(Live) + 1]
    /\ Goto(l, "done")
    /\ UNCHANGED <<clock, tokens, sent, gating, now, copy, ending, scan, ended, slid>>

-----------------------------------------------------------------------------
(* A request carries the cookie of some session and one of the tokens that  *)
(* were handed out, of that session or another, current or not.             *)
Arrive(o, s, t) ==
    /\ pc[o] = "start" /\ o \in Rotations \cup Requests \cup Logouts
    /\ s \in Born
    /\ t \in {None} \cup {x \in Tokens : pc[x] = "done"}
    /\ cookie' = [cookie EXCEPT ![o] = s]
    /\ header' = [header EXCEPT ![o] = t]
    /\ \E n \in (IF o \in Requests THEN {1, 2} ELSE {1}) : gates' = [gates EXCEPT ![o] = n]
    /\ need' = [need EXCEPT ![o] = IF o \in Rotations THEN {"activity"} ELSE {}]
    /\ Goto(o, IF o \in Requests THEN "gate" ELSE "get")
    /\ UNCHANGED <<clock, stored, did, now, copy, ending, scan, history>>

(* What a gate asks for: resolve_principal in middleware, a rate limit by   *)
(* caller, and current_user.                                                *)
Middleware  == {{}, {"activity"}}
Limiter     == {{"activity"}}
CurrentUser == {Checks}

(* The cache entry of the transports a gate selects: that of the gate       *)
(* before it, or none.                                                      *)
Selected(r) == {did[r], {}}

(* Mutant: a cached principal is taken as it is. *)
MissingNothing(known, wanted) == IF "principal" \in known THEN {} ELSE wanted

Missing(known, wanted) == IF "principal" \in known THEN wanted \ known ELSE wanted

(* PrincipalResolver.resolve: authenticate, or revalidate what the cached   *)
(* principal has not been checked for. A route that knows its caller is     *)
(* behind current_user.                                                     *)
Resolve(r) ==
    /\ pc[r] = "gate"
    /\ \E wanted \in (IF gates[r] > 1 THEN Middleware \cup Limiter \cup CurrentUser ELSE CurrentUser),
         known \in Selected(r) :
         /\ need' = [need EXCEPT ![r] = Missing(known, wanted)]
         /\ Goto(r, IF "principal" \notin known \/ "activity" \in Missing(known, wanted) THEN "get"
                    ELSE IF "csrf" \in Missing(known, wanted) THEN "csrf" ELSE "pass")
    /\ UNCHANGED <<clock, stored, sent, gates, did, now, copy, ending, scan, history>>

(* No principal: the cache entry goes, and the next gate or the client is   *)
(* told. Behind current_user(optional=True) the route runs with None for    *)
(* its caller: it is handed no session, so for this module the request is   *)
(* done, as it is after the 401.                                            *)
Unresolved(o) == IF o \in Requests /\ gates[o] > 1 THEN "next" ELSE "done"

Validated(o) ==
    IF o \in Rotations THEN "check"
    ELSE IF o \in Logouts \/ "csrf" \in need[o] THEN "csrf" ELSE "pass"

Overdue(s) == sessions[s].seen + Idle < clock \/ sessions[s].created + Absolute < clock

(* validate_session: read, end it when it is overdue, else touch it and     *)
(* slide its token, if the caller counts as activity.                       *)
Get(o) ==
    /\ pc[o] = "get"
    /\ LET s == cookie[o]
       IN  IF ~Alive(s) THEN Terminate(o, {}, Unresolved(o))
           ELSE IF Overdue(s) THEN Terminate(o, {Entry(s)}, Unresolved(o))
           ELSE Terminate(o, {}, IF "activity" \in need[o] THEN "touch" ELSE Validated(o))
    /\ now' = [now EXCEPT ![o] = clock]
    /\ UNCHANGED <<clock, stored, sent, gating, copy, scan, history>>

(* Mutant: the record is written back whether or not it is still there. *)
TouchRevives(o) ==
    /\ pc[o] = "touch"
    /\ LET s == cookie[o]
       IN  /\ sessions' = [sessions EXCEPT ![s] = [csrf |-> IF @.csrf = None THEN s ELSE @.csrf,
                               created |-> @.created, seen |-> now[o], exp |-> clock + Idle]]
           /\ copy' = [copy EXCEPT ![o] = Entry(s)]
           /\ Goto(o, "slide")
    /\ UNCHANGED <<clock, tokens, sent, gating, now, ending, scan, history>>

Touch(o) ==
    /\ pc[o] = "touch"
    /\ LET s == cookie[o]
       IN  IF Alive(s)
             THEN /\ sessions' = [sessions EXCEPT ![s].seen = now[o], ![s].exp = clock + Idle]
                  /\ copy' = [copy EXCEPT ![o] = Entry(s)]
                  /\ Goto(o, "slide")
             ELSE Goto(o, Unresolved(o)) /\ UNCHANGED <<sessions, copy>>
    /\ UNCHANGED <<clock, tokens, sent, gating, now, ending, scan, history>>

(* Mutant: the token keeps the TTL it was stored with. *)
SlideNothing(o) ==
    /\ pc[o] = "slide"
    /\ UNCHANGED tokens
    /\ slid' = (slid \ {copy[o].csrf})
                 \cup {t \in {copy[o].csrf} : Valid(t) /\ t = sessions[cookie[o]].csrf}
    /\ Goto(o, Validated(o))
    /\ UNCHANGED <<clock, sessions, sent, gating, now, copy, ending, scan, ended, since, size>>

Slide(o) ==
    /\ pc[o] = "slide"
    /\ tokens' = IF Valid(copy[o].csrf) THEN [tokens EXCEPT ![copy[o].csrf].exp = clock + Idle]
                                        ELSE tokens
    /\ slid' = (slid \ {copy[o].csrf})
                 \cup {t \in {copy[o].csrf} : Valid(t) /\ t = sessions[cookie[o]].csrf}
    /\ Goto(o, Validated(o))
    /\ UNCHANGED <<clock, sessions, sent, gating, now, copy, ending, scan, ended, since, size>>

(* validate_csrf_token: a stored token of the session in the cookie.        *)
GoodToken(o) == header[o] # None /\ Valid(header[o]) /\ tokens[header[o]].session = cookie[o]

EnforceCsrf(o) ==
    /\ pc[o] = "csrf"
    /\ Goto(o, IF ~GoodToken(o) THEN "done" ELSE IF o \in Logouts THEN "terminate" ELSE "pass")
    /\ UNCHANGED <<clock, stored, sent, gating, now, copy, ending, scan, history>>

(* The gate is passed, the result cached; after the last gate the route     *)
(* runs. An unresolved gate leaves nothing cached.                          *)
Pass(r) ==
    /\ pc[r] \in {"pass", "next"}
    /\ did' = [did EXCEPT ![r] = IF pc[r] = "pass" THEN @ \cup {"principal"} \cup need[r] ELSE {}]
    /\ gates' = [gates EXCEPT ![r] = @ - 1]
    /\ Goto(r, IF gates[r] > 1 THEN "gate" ELSE "route")
    /\ UNCHANGED <<clock, stored, sent, need, now, copy, ending, scan, history>>

(* current_user may still refuse the principal: superuser, verified,        *)
(* scopes, check.                                                           *)
Forbid(r) ==
    /\ pc[r] = "pass" /\ "csrf" \in did[r] \cup need[r]
    /\ Goto(r, "done")
    /\ UNCHANGED <<clock, stored, sent, gating, now, copy, ending, scan, history>>

(* The route: one of the application's, or /logout-all with or without      *)
(* keep_current, or DELETE /sessions/{handle}.                              *)
Route(r) ==
    /\ pc[r] = "route"
    /\ Goto(r, "done")
    /\ UNCHANGED <<clock, stored, sent, gating, now, copy, ending, scan, history>>

LogoutAll(r) ==
    /\ pc[r] = "route"
    /\ \E kept \in {{}, {cookie[r]}} : Terminate(r, {Entry(s) : s \in Live \ kept}, "done")
    /\ UNCHANGED <<clock, stored, sent, gating, now, copy, scan, history>>

RevokeByHandle(r) ==
    /\ pc[r] = "route"
    /\ \E s \in Live : Terminate(r, {Entry(s)}, "done")
    /\ UNCHANGED <<clock, stored, sent, gating, now, copy, scan, history>>

(* terminate_session at the end of complete_logout reads the record again.  *)
Logout(o) ==
    /\ pc[o] = "terminate"
    /\ Terminate(o, {Entry(s) : s \in {cookie[o]} \cap Live}, "done")
    /\ UNCHANGED <<clock, stored, sent, gating, now, copy, scan, history>>

-----------------------------------------------------------------------------
(* /csrf/refresh: a good token is returned as it is, else a new one is      *)
(* stored, bound to the session, and the one it replaced is deleted.        *)
RefreshCheck(q) ==
    /\ pc[q] = "check"
    /\ Goto(q, IF GoodToken(q) THEN "kept" ELSE "reread")
    /\ UNCHANGED <<clock, stored, sent, gating, now, copy, ending, scan, history>>

RefreshMint(q) ==
    /\ pc[q] = "mint"
    /\ tokens' = [tokens EXCEPT ![q] = [session |-> cookie[q], exp |-> clock + Idle]]
    /\ Goto(q, "rotate")
    /\ UNCHANGED <<clock, sessions, sent, gating, now, copy, ending, scan, history>>

RefreshRead(q) ==
    /\ pc[q] = "reread"
    /\ Goto(q, IF Alive(cookie[q]) THEN "mint" ELSE "kept")
    /\ UNCHANGED <<clock, stored, sent, gating, now, copy, ending, scan, history>>

RefreshRotate(q) ==
    /\ pc[q] = "rotate"
    /\ LET s == cookie[q]
       IN  IF Alive(s)
             THEN /\ copy' = [copy EXCEPT ![q] = Entry(s)]
                  /\ sessions' = [sessions EXCEPT ![s].csrf = q, ![s].exp = clock + Idle]
             ELSE copy' = [copy EXCEPT ![q] = [sid |-> s, csrf |-> q]] /\ UNCHANGED sessions
    /\ Goto(q, "replace")
    /\ UNCHANGED <<clock, tokens, sent, gating, now, ending, scan, history>>

(* Mutant: the replaced token stays. *)
RefreshReplaceNothing(q) ==
    /\ pc[q] = "replace"
    /\ Goto(q, "done")
    /\ UNCHANGED <<clock, stored, sent, gating, now, copy, ending, scan, history>>

RefreshReplace(q) ==
    /\ pc[q] = "replace"
    /\ tokens' = [tokens EXCEPT ![copy[q].csrf] = NoToken]
    /\ Goto(q, "done")
    /\ UNCHANGED <<clock, sessions, sent, gating, now, copy, ending, scan, history>>

-----------------------------------------------------------------------------
(* cleanup_expired_sessions: one reading of the clock for all the keys.     *)
SweepStart(c) ==
    /\ pc[c] = "start" /\ c \in Sweeps
    /\ now' = [now EXCEPT ![c] = clock]
    /\ scan' = [scan EXCEPT ![c] = Live]
    /\ Goto(c, "sweep")
    /\ UNCHANGED <<clock, stored, sent, gating, copy, ending, history>>

SweepLook(c) ==
    /\ pc[c] = "sweep"
    /\ \E s \in scan[c] :
         /\ scan' = [scan EXCEPT ![c] = @ \ {s}]
         /\ Terminate(c, {Entry(x) : x \in {y \in {s} \cap Live : sessions[y].seen + Idle < now[c]}},
                      "sweep")
    /\ UNCHANGED <<clock, stored, sent, gating, now, copy, history>>

-----------------------------------------------------------------------------
LoginStep(l) == LoginStart(l) \/ LoginList(l) \/ LoginToken(l) \/ LoginCreate(l)

Validate(o) == Get(o) \/ Touch(o) \/ Slide(o)

RequestStep(r) ==
    Resolve(r) \/ Validate(r) \/ EnforceCsrf(r) \/ Pass(r) \/ Forbid(r) \/ Route(r) \/ LogoutAll(r)
      \/ RevokeByHandle(r)

RefreshStep(q) ==
    Validate(q) \/ RefreshCheck(q) \/ RefreshRead(q) \/ RefreshMint(q) \/ RefreshRotate(q)
      \/ RefreshReplace(q)

Next ==
    \/ Tick
    \/ \E o \in Calls : EndRecord(o) \/ EndToken(o)
    \/ \E o \in Calls, s \in Sids, t \in Tokens \cup {None} : Arrive(o, s, t)
    \/ \E l \in Logins : LoginStep(l)
    \/ \E r \in Requests : RequestStep(r)
    \/ \E q \in Rotations : RefreshStep(q)
    \/ \E o \in Logouts : Get(o) \/ EnforceCsrf(o) \/ Logout(o)
    \/ \E c \in Sweeps : SweepStart(c) \/ SweepLook(c)

Spec == Init /\ [][Next]_vars

-----------------------------------------------------------------------------
(* The type invariant.                                                      *)
TypeOK ==
    /\ clock \in Nat
    /\ sessions \in [Sids -> [csrf : Tokens \cup {None}, created : Nat, seen : Nat, exp : Nat]]
    /\ tokens \in [Tokens -> [session : Sids \cup {None}, exp : Nat]]
    /\ pc \in [Calls -> {"idle", "start", "end", "endtoken", "list", "token", "create", "gate", "get",
                         "touch", "slide", "csrf", "pass", "next", "route", "terminate", "check",
                         "reread", "mint", "rotate", "replace", "kept", "sweep", "done"}]
    /\ cookie \in [Calls -> Sids \cup {None}]
    /\ header \in [Calls -> Tokens \cup {None}]
    /\ gates \in [Calls -> 0..2]
    /\ need \in [Calls -> SUBSET Checks]
    /\ did \in [Calls -> SUBSET (Checks \cup {"principal"})]
    /\ now \in [Calls -> Nat]
    /\ copy \in [Calls -> [sid : Sids \cup {None}, csrf : Tokens \cup {None}]]
    /\ todo \in [Calls -> SUBSET [sid : Sids, csrf : Tokens]]
    /\ ret \in [Calls -> {"list", "token", "next", "sweep", "done"}]
    /\ scan \in [Sweeps -> SUBSET Sids]
    /\ ended \subseteq Sids
    /\ slid \subseteq Tokens
    /\ since \in [Logins -> SUBSET Logins]
    /\ size \in [Logins -> Nat]

(* No call is between two steps that concern the session.                   *)
Quiet(s) ==
    \A o \in Calls : pc[o] \in {"idle", "start", "kept", "done"}
                     \/ (s # o /\ s # cookie[o] /\ \A e \in todo[o] : s # e.sid)

(* Between calls, a live session has exactly one stored CSRF token, the one *)
(* it names: rotations that overlap each other, a logout or a sweep leave   *)
(* no replaced token that still passes, and never lose the current one      *)
(* (regenerate_csrf_token, _terminate, create_session).                     *)
OneTokenPerSession ==
    \A s \in Live : Quiet(s) =>
        {t \in Tokens : tokens[t].session = s} = {sessions[s].csrf}

(* Once activity has slid a session's token along with it, the token does   *)
(* not expire before the session, so that a session kept alive by activity  *)
(* is not refused later for its token, unless the token had run out between *)
(* the touch of the session and its own (validate_session).                 *)
KeptAliveTogether ==
    \A s \in Live : Quiet(s) /\ sessions[s].csrf \in slid =>
        tokens[sessions[s].csrf].exp >= sessions[s].exp

(* A login leaves its user with at most max_sessions live sessions, and one *)
(* more for each login that created its session while this one was between  *)
(* listing the sessions and creating its own (_enforce_session_limit).      *)
LimitHolds ==
    \A l \in Born : size[l] <= MaxSessions + Cardinality(since[l])

(* The session a token was handed out for.                                  *)
IssuedFor(t) == IF t \in Logins THEN t ELSE cookie[t]

(* The caller of a route with an unsafe method is resolved, and a logout    *)
(* made, only with a token that was issued for the session in the cookie,   *)
(* also when middleware has resolved and cached the principal without       *)
(* checking it (PrincipalResolver.resolve, revalidate, enforce_csrf).       *)
OwnTokenAtRoute ==
    \A o \in Requests \cup Logouts : pc[o] \in {"route", "terminate"} =>
        header[o] # None /\ IssuedFor(header[o]) = cookie[o]

(* A session that was logged out, revoked, replaced, evicted or timed out   *)
(* never comes back, whatever requests were using it (terminate_session,    *)
(* validate_session).                                                       *)
EndedStaysEnded == \A s \in ended : ~Alive(s)
=============================================================================
