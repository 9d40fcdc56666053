------------------------------ MODULE Accounts ------------------------------
(***************************************************************************)
(* How accounts come to be and to whom they belong: registration, address  *)
(* verification and change by mailed links, sign-in through a provider     *)
(* with linking, claiming and creation, and the first password of an       *)
(* account that has none. A handler reads a row into a copy, and a write   *)
(* through the copy saves the columns that differ from it. The unique      *)
(* constraints are the database's. Rate limits, mail wording and hooks are *)
(* left out; a link that is not mailed was throttled or not delivered, and *)
(* a call that stops halfway is a worker that died there.                  *)
(***************************************************************************)
EXTENDS Naturals, Sequences, FiniteSets

CONSTANTS Seeds,          \* accounts registered earlier with the first address, not verified
          Registrations,  \* calls of /register, each creating at most one account
          Requests,       \* calls of /email/verify-request
          Changes,        \* calls of /email/change-request
          Confirms,       \* calls of /email/verify-confirm and /email/change-confirm
          Callbacks,      \* calls of /oauth/{provider}/callback, each creating at most one account
          Logins,         \* password logins
          SetPasswords,   \* calls of /set-password
          Disables,       \* an administrator's deactivation of an account
          Mixes,          \* the sets of calls tried together
          Browsers, Flows, Providers,
          Listing,        \* the providers that list several addresses, as GitHub does
          Payloads,       \* what the providers return for their accounts
          Emails, First,  \* addresses, and the one the seeds registered
          Suffixes,       \* the last number tried as a username suffix
          None,           \* no account, address, flow or link
          Unusable,       \* the password that no one can enter
          Mail            \* whether a mail channel is configured

Rows  == Seeds \cup Registrations \cup Callbacks
Calls == Registrations \cup Requests \cup Changes \cup Confirms \cup Callbacks \cup Logins
           \cup SetPasswords \cup Disables

(* A base username, numbered ones, and the random one a callback falls back *)
(* to.                                                                      *)
Names     == 0..Suffixes \cup Callbacks
Passwords == Rows \cup SetPasswords \cup {Unusable}

ASSUME CallsDisjoint ==
    /\ Registrations \cap (Requests \cup Changes \cup Confirms \cup Callbacks \cup Logins
                              \cup SetPasswords \cup Disables) = {}
    /\ Requests \cap (Changes \cup Confirms \cup Callbacks \cup Logins \cup SetPasswords \cup Disables) = {}
    /\ Changes \cap (Confirms \cup Callbacks \cup Logins \cup SetPasswords \cup Disables) = {}
    /\ Confirms \cap (Callbacks \cup Logins \cup SetPasswords \cup Disables) = {}
    /\ Callbacks \cap (Logins \cup SetPasswords \cup Disables) = {}
    /\ Logins \cap (SetPasswords \cup Disables) = {}
    /\ SetPasswords \cap Disables = {}
    /\ Seeds \cap Calls = {}
    /\ {None, Unusable} \cap (Rows \cup Calls \cup Emails \cup Flows \cup Browsers \cup Providers) = {}

Entry == [email : Emails, primary : BOOLEAN, verified : BOOLEAN]

ASSUME PayloadsAssumption ==
    /\ Listing \subseteq Providers
    /\ \A d \in Payloads : d.provider \in Providers /\ d.emails \in Seq(Entry)

ASSUME MixesAreCalls == Mixes \subseteq SUBSET (Calls \cup Seeds)

(* The seeds of one run would share their address.                          *)
ASSUME OneSeed == \A mix \in Mixes : \A x, y \in mix \cap Seeds : x = y

(* A random username is none of the numbered ones.                          *)
ASSUME NamesDisjoint == Callbacks \cap Nat = {}

ASSUME BoundsAssumption == First \in Emails /\ Suffixes \in Nat /\ Mail \in BOOLEAN

Accounts == {d.account : d \in Payloads}

VARIABLES rows,      \* the user table
          mailed,    \* the links that were mailed
          used,      \* the links that were consumed
          states,    \* the stored OAuth states: the provider each was stored for
          cookie,    \* the OAuth state in each browser's cookie
          sessions,  \* the sessions issued and not evicted
          pc,        \* the next step of each call
          given,     \* what the caller of each call sent
          target,    \* the row a call works on
          copy,      \* its copy of it
          name,      \* the username an OAuth creation is about to use
          started,   \* history: the browser that started each flow
          proved,    \* history: the addresses whose holder acted for an account
          released,  \* history: the addresses and provider accounts that some account gave up
          claims,    \* history: the callbacks that claimed each account
          era,       \* history: the claims of its account when a call read its copy
          late       \* history: the callbacks whose account was enrolled in two-factor login after their copy

vars == <<rows, mailed, used, states, cookie, sessions, pc, given, target, copy, name,
          started, proved, released, claims, era, late>>

links   == <<mailed, used>>
oauth   == <<states, cookie>>
working == <<target, copy>>
history == <<started, proved, released, claims, era, late>>

NoRow == [email |-> None, name |-> None, ids |-> [p \in Providers |-> None], verified |-> FALSE,
          password |-> Unusable, version |-> 0, active |-> FALSE, mfa |-> FALSE]

Registered(i, e, n, fields) ==
    [NoRow EXCEPT !.email = e, !.name = n, !.verified = "email_verified" \in fields,
                  !.password = i, !.active = TRUE]

Init ==
    /\ \E mix \in Mixes :
         /\ rows = [i \in Rows |-> IF i \in mix \cap Seeds THEN Registered(i, First, 0, {}) ELSE NoRow]
         /\ pc = [o \in Calls |-> IF o \in mix THEN "start" ELSE "idle"]
    /\ mailed = {}
    /\ used = {}
    /\ states = [f \in Flows |-> None]
    /\ cookie = [b \in Browsers |-> None]
    /\ sessions = {}
    /\ given = [o \in Calls |-> None]
    /\ target = [o \in Calls |-> None]
    /\ copy = [o \in Calls |-> NoRow]
    /\ name = [c \in Callbacks |-> 0]
    /\ started = [f \in Flows |-> None]
    /\ proved = {}
    /\ released = {}
    /\ claims = [i \in Rows |-> {}]
    /\ era = [o \in Calls |-> {}]
    /\ late = {}

Goto(o, label) == pc' = [pc EXCEPT ![o] = label]

Takes(o, input) == given' = [given EXCEPT ![o] = input]

-----------------------------------------------------------------------------
(* The user repository: look-ups by a unique column, the copy a call reads, *)
(* and the constraints an insert or an update meets.                        *)
Stored == {i \in Rows : rows[i] # NoRow}

ByEmail(e) == {i \in Stored : rows[i].email = e}

ByName(n) == {i \in Stored : rows[i].name = n}

ByOAuth(p, a) == {i \in Stored : rows[i].ids[p] = a}

(* The rows that a write of row i would meet at a unique column.            *)
Clashes(i, row) ==
    (ByEmail(row.email) \cup ByName(row.name)
       \cup UNION {ByOAuth(p, row.ids[p]) : p \in {q \in Providers : row.ids[q] # None}}) \ {i}

IsUnusable(password) == password = Unusable

Holds(o, i, row, n) ==
    /\ target' = [target EXCEPT ![o] = i]
    /\ copy' = [copy EXCEPT ![o] = row]
    /\ era' = [era EXCEPT ![o] = n]

Reads(o, i) == Holds(o, i, rows[i], claims[i])

(* Registration keeps the columns it allows, and a new_user_fields callback *)
(* sets only columns of the application.                                    *)
Fields == {"email_verified", "bio"}
Gated  == {"email_verified"}

FilterRegistration(fields, opted) == (fields \cap opted) \ Gated

FilterProvisioning(fields) == fields \ Gated

ResolveNewUserFields(callback) == UNION {FilterProvisioning(fields) : fields \in callback}

-----------------------------------------------------------------------------
(* /register.                                                               *)
Submit(r) ==
    /\ pc[r] = "start" /\ r \in Registrations
    /\ \E e \in Emails, n \in 0..1, fields, opted \in {{}, Fields}, callback \in {{}, {Fields}} :
         Takes(r, [email |-> e, name |-> n,
                   fields |-> FilterRegistration(fields, opted) \cup ResolveNewUserFields(callback)])
    /\ Goto(r, "email")
    /\ UNCHANGED <<rows, links, oauth, sessions, working, name, history>>

LookEmail(r) ==
    /\ pc[r] = "email"
    /\ Goto(r, IF ByEmail(given[r].email) # {} THEN "existing" ELSE "name")
    /\ UNCHANGED <<rows, links, oauth, sessions, given, working, name, history>>

LookName(r) ==
    /\ pc[r] = "name" /\ r \in Registrations
    /\ Goto(r, IF ByName(given[r].name) # {} THEN "existing" ELSE "insert")
    /\ UNCHANGED <<rows, links, oauth, sessions, given, working, name, history>>

(* _on_existing looks each value up again: the address first, then the      *)
(* username; neither is held when the account changed meanwhile.            *)
ExistingEmail(r) ==
    /\ pc[r] = "existing"
    /\ Goto(r, IF ByEmail(given[r].email) = {} THEN "existingname"
               ELSE IF Mail THEN "enrolled" ELSE "duplicate")
    /\ UNCHANGED <<rows, links, oauth, sessions, given, working, name, history>>

(* Mutant: only the private values are looked up again. *)
ExistingNameSkipped(r) ==
    /\ pc[r] = "existingname"
    /\ Goto(r, "exists")
    /\ UNCHANGED <<rows, links, oauth, sessions, given, working, name, history>>

ExistingName(r) ==
    /\ pc[r] = "existingname"
    /\ Goto(r, IF ByName(given[r].name) # {} THEN "taken" ELSE "exists")
    /\ UNCHANGED <<rows, links, oauth, sessions, given, working, name, history>>

Insert(r) ==
    /\ pc[r] = "insert"
    /\ LET row == Registered(r, given[r].email, given[r].name, given[r].fields)
       IN  IF Clashes(r, row) # {}
             THEN Goto(r, "existing") /\ UNCHANGED rows
             ELSE /\ rows' = [rows EXCEPT ![r] = row]
                  /\ Goto(r, IF Mail THEN "send" ELSE "created")
    /\ UNCHANGED <<links, oauth, sessions, given, working, name, history>>

-----------------------------------------------------------------------------
(* Mailed links. A link carries the state of the account that it is good    *)
(* for, and `by` tells apart the ones minted by different calls.            *)
(* Mutant: a change is bound to the address only. *)
StateFingerprintOfAddress(purpose, row) == <<row.email>>

StateFingerprint(purpose, row) ==
    IF purpose = "verify" THEN <<row.email>> ELSE <<row.password, row.email, row.version>>

MintToken(purpose, o, i, row, to) ==
    [purpose |-> purpose, row |-> i, state |-> StateFingerprint(purpose, row), to |-> to, by |-> o]

(* Throttled or undelivered mail is the same as none.                       *)
Deliver(tokens) == \E sent \in {{}, tokens} : mailed' = mailed \cup sent

SendVerification(o, e) ==
    Deliver({MintToken("verify", o, i, rows[i], e) :
               i \in {x \in ByEmail(e) : rows[x].active /\ ~rows[x].verified}})

RegisterSend(r) ==
    /\ pc[r] = "send"
    /\ SendVerification(r, given[r].email)
    /\ Goto(r, "enrolled")
    /\ UNCHANGED <<rows, used, oauth, sessions, given, working, name, history>>

RequestVerification(q) ==
    /\ pc[q] = "start" /\ q \in Requests
    /\ \E e \in Emails : SendVerification(q, e)
    /\ Goto(q, "done")
    /\ UNCHANGED <<rows, used, oauth, sessions, given, working, name, history>>

(* request_email_change: the principal's row, whose password was entered;   *)
(* later the look-up of the new address, and the link.                      *)
ChangeRead(g) ==
    /\ pc[g] = "start" /\ g \in Changes
    /\ \E i \in Stored, e \in Emails :
         /\ rows[i].active /\ ~IsUnusable(rows[i].password) /\ e # rows[i].email
         /\ Takes(g, e)
         /\ Reads(g, i)
    /\ Goto(g, "mint")
    /\ UNCHANGED <<rows, links, oauth, sessions, name, started, proved, released, claims, late>>

ChangeMint(g) ==
    /\ pc[g] = "mint"
    /\ Deliver(IF ByEmail(given[g]) = {} THEN {MintToken("change", g, target[g], copy[g], given[g])} ELSE {})
    /\ Goto(g, "done")
    /\ UNCHANGED <<rows, used, oauth, sessions, given, working, name, history>>

(* _redeem_token: whoever presents a link holds the address it was sent to. *)
Redeem(k) ==
    /\ pc[k] = "start" /\ k \in Confirms
    /\ \E l \in mailed :
         /\ Takes(k, l)
         /\ Reads(k, l.row)
         /\ proved' = proved \cup {<<l.row, l.to>>}
         /\ Goto(k, IF ~rows[l.row].active \/ l.state # StateFingerprint(l.purpose, rows[l.row]) THEN "refused"
                    ELSE IF l.purpose = "verify" THEN "consume" ELSE "available")
    /\ UNCHANGED <<rows, links, oauth, sessions, name, started, released, claims, late>>

Available(k) ==
    /\ pc[k] = "available"
    /\ Goto(k, IF ByEmail(given[k].to) # {} THEN "duplicate" ELSE "consume")
    /\ UNCHANGED <<rows, links, oauth, sessions, given, working, name, history>>

(* Mutant: a consumed link is accepted again. *)
ConsumeAlways(k) ==
    /\ pc[k] = "consume"
    /\ used' = used \cup {given[k]}
    /\ Goto(k, IF given[k].purpose = "change" THEN "write" ELSE IF copy[k].verified THEN "done" ELSE "mark")
    /\ UNCHANGED <<rows, mailed, oauth, sessions, given, working, name, history>>

Consume(k) ==
    /\ pc[k] = "consume"
    /\ used' = used \cup {given[k]}
    /\ Goto(k, IF given[k] \in used THEN "refused"
               ELSE IF given[k].purpose = "change" THEN "write" ELSE IF copy[k].verified THEN "done" ELSE "mark")
    /\ UNCHANGED <<rows, mailed, oauth, sessions, given, working, name, history>>

MarkVerified(k) ==
    /\ pc[k] = "mark"
    /\ rows' = [rows EXCEPT ![target[k]].verified = TRUE]
    /\ Goto(k, "done")
    /\ UNCHANGED <<links, oauth, sessions, given, working, name, history>>

WriteEmail(k) ==
    /\ pc[k] = "write"
    /\ LET i == target[k]
           row == [rows[i] EXCEPT !.email = given[k].to, !.verified = @ \/ ~copy[k].verified]
       IN  IF Clashes(i, row) # {}
             THEN Goto(k, "duplicate") /\ UNCHANGED <<rows, released>>
             ELSE /\ rows' = [rows EXCEPT ![i] = row]
                  /\ released' = released \cup {rows[i].email}
                  /\ Goto(k, "changed")
    /\ UNCHANGED <<links, oauth, sessions, given, working, name, started, proved, claims, era, late>>

-----------------------------------------------------------------------------
(* Password logins, the first password, two-factor enrollment and           *)
(* deactivation, as far as accounts need them: Credentials and Mfa have     *)
(* their steps.                                                             *)
Accepted(s) == rows[s.row].active /\ s.version = rows[s.row].version

Issue(o) == sessions' = sessions \cup {[row |-> target[o], version |-> copy[o].version, era |-> era[o], by |-> o]}

LoginRead(l) ==
    /\ pc[l] = "start" /\ l \in Logins
    /\ \E i \in Stored : rows[i].active /\ ~IsUnusable(rows[i].password) /\ Reads(l, i)
    /\ Goto(l, "issue")
    /\ UNCHANGED <<rows, links, oauth, sessions, given, name, started, proved, released, claims, late>>

LoginIssue(l) ==
    /\ pc[l] = "issue"
    /\ Issue(l)
    /\ Goto(l, "in")
    /\ UNCHANGED <<rows, links, oauth, given, working, name, history>>

Enroll(l) ==
    /\ pc[l] = "in" /\ l \in Logins
    /\ \E s \in sessions : s.by = l /\ Accepted(s)
    /\ rows' = [rows EXCEPT ![target[l]].mfa = TRUE]
    /\ late' = late \cup {c \in Callbacks : target[c] = target[l]}
    /\ Goto(l, "done")
    /\ UNCHANGED <<links, oauth, sessions, given, working, name, started, proved, released, claims, era>>

SetPasswordRead(w) ==
    /\ pc[w] = "start" /\ w \in SetPasswords
    /\ \E s \in sessions : Accepted(s) /\ IsUnusable(rows[s.row].password) /\ Reads(w, s.row)
    /\ Goto(w, "set")
    /\ UNCHANGED <<rows, links, oauth, sessions, given, name, started, proved, released, claims, late>>

SetPassword(w) ==
    /\ pc[w] = "set"
    /\ rows' = [rows EXCEPT ![target[w]].password = w]
    /\ Goto(w, "done")
    /\ UNCHANGED <<links, oauth, sessions, given, working, name, history>>

Disable(d) ==
    /\ pc[d] = "start" /\ d \in Disables
    /\ \E i \in Stored : rows' = [rows EXCEPT ![i].active = FALSE]
    /\ Goto(d, "done")
    /\ UNCHANGED <<links, oauth, sessions, given, working, name, history>>

-----------------------------------------------------------------------------
(* /oauth/{provider}/authorize stores a fresh state and puts it in the      *)
(* browser's cookie. (Bound: only while a callback is still to come.)        *)
Authorize(f, b, p) ==
    /\ started[f] = None
    /\ \E c \in Callbacks : pc[c] = "start"
    /\ states' = [states EXCEPT ![f] = p]
    /\ cookie' = [cookie EXCEPT ![b] = f]
    /\ started' = [started EXCEPT ![f] = b]
    /\ UNCHANGED <<rows, links, sessions, pc, given, working, name, proved, released, claims, era, late>>

(* An answer clears the cookie, unless it is lost, or an invalid state is   *)
(* reported as JSON.                                                        *)
Answer(c, label) ==
    /\ Goto(c, label)
    /\ \E f \in {cookie[given'[c].browser], None} : cookie' = [cookie EXCEPT ![given'[c].browser] = f]

(* The callback: the state must be the one in the browser's cookie; an      *)
(* error of the provider or a missing code ends it too.                     *)
(* Mutant: the cookie is not compared. *)
ArriveAnywhere(c, b, f, p) ==
    /\ pc[c] = "start" /\ c \in Callbacks
    /\ started[f] # None
    /\ Takes(c, [browser |-> b, flow |-> f, provider |-> p, payload |-> None])
    /\ Goto(c, "take") /\ UNCHANGED cookie
    /\ UNCHANGED <<rows, links, states, sessions, working, name, history>>

Arrive(c, b, f, p) ==
    /\ pc[c] = "start" /\ c \in Callbacks
    /\ started[f] # None
    /\ Takes(c, [browser |-> b, flow |-> f, provider |-> p, payload |-> None])
    /\ \/ cookie[b] = f /\ Goto(c, "take") /\ UNCHANGED cookie
       \/ Answer(c, "refused")
    /\ UNCHANGED <<rows, links, states, sessions, working, name, history>>

(* get_and_delete: a state that was used or has expired is not there, and   *)
(* one stored for another provider is used up and refused.                  *)
TakeState(c) ==
    /\ pc[c] = "take"
    /\ states' = [states EXCEPT ![given[c].flow] = None]
    /\ UNCHANGED given
    /\ \/ /\ states[given[c].flow] = given[c].provider
          /\ Goto(c, "exchange") /\ UNCHANGED cookie
       \/ Answer(c, "refused")
    /\ UNCHANGED <<rows, links, sessions, working, name, history>>

(* The code buys a token and the token the account's data, unless a request *)
(* fails or an answer has no token or no account.                           *)
Exchange(c) ==
    /\ pc[c] = "exchange"
    /\ \/ /\ \E d \in Payloads : /\ d.provider = given[c].provider
                                 /\ Takes(c, [given[c] EXCEPT !.payload = d])
          /\ Goto(c, "byid") /\ UNCHANGED cookie
       \/ UNCHANGED given /\ Answer(c, "refused")
    /\ UNCHANGED <<rows, links, states, sessions, working, name, history>>

(* process_user_info. A listing provider's address is the primary one if it *)
(* is verified, else a verified one, else the primary or any other.         *)
NoEntry == [email |-> None, primary |-> FALSE, verified |-> FALSE]

ClaimedEmail(entries) == IF entries = <<>> THEN NoEntry ELSE Head(entries)

(* Mutant: the primary address passes for verified if any address is. *)
SelectGithubEmailPrimary(entries) ==
    LET Primary(e) == e.primary
    IN  [Head(SelectSeq(entries, Primary) \o entries \o <<NoEntry>>) EXCEPT
           !.verified = \E n \in DOMAIN entries : entries[n].verified]

FirstOf(entries, S) == entries[CHOOSE n \in S : \A m \in S : n <= m]

SelectGithubEmail(entries) ==
    LET primary == {n \in DOMAIN entries : entries[n].primary}
        verified == {n \in DOMAIN entries : entries[n].verified}
    IN  IF primary \cap verified # {} THEN FirstOf(entries, primary \cap verified)
        ELSE IF verified # {} THEN FirstOf(entries, verified)
        ELSE IF primary # {} THEN FirstOf(entries, primary)
        ELSE ClaimedEmail(entries)

ProcessUserInfo(d) ==
    LET e == IF d.provider \in Listing THEN SelectGithubEmail(d.emails) ELSE ClaimedEmail(d.emails)
    IN  [provider |-> d.provider, account |-> d.account, email |-> e.email, vouched |-> e.verified]

Profile(c) == ProcessUserInfo(given[c].payload)

(* Whoever signs in holds the addresses that the payload says are verified. *)
Vouches(c, i) ==
    LET entries == given[c].payload.emails
    IN  proved' = proved \cup {<<i, entries[n].email>> : n \in {m \in DOMAIN entries : entries[m].verified}}

(* get_or_create_user: by the provider's account, then by its address if    *)
(* the provider vouches for it, else a new account.                         *)
FindByOAuth(c) ==
    /\ pc[c] = "byid"
    /\ UNCHANGED given
    /\ LET p == Profile(c)
           found == ByOAuth(p.provider, p.account)
           usable == p.email # None /\ p.vouched
       IN  \/ /\ found = {} /\ usable
              /\ Goto(c, "byemail") /\ UNCHANGED <<cookie, working, era>>
           \/ \E i \in found : rows[i].active /\ Reads(c, i) /\ Goto(c, "resolved") /\ UNCHANGED cookie
           \/ /\ (found = {} /\ ~usable) \/ \E i \in found : ~rows[i].active
              /\ Answer(c, "refused") /\ UNCHANGED <<working, era>>
    /\ UNCHANGED <<rows, links, states, sessions, name, started, proved, released, claims, late>>

FindByEmail(c) ==
    /\ pc[c] = "byemail"
    /\ UNCHANGED given
    /\ LET p == Profile(c)
           found == ByEmail(p.email)
           Linkable(i) == rows[i].active /\ rows[i].ids[p.provider] = None
       IN  \/ found = {} /\ Goto(c, "name") /\ UNCHANGED <<cookie, working, era, late>>
           \/ \E i \in found : /\ Linkable(i) /\ Reads(c, i) /\ late' = late \ {c}
                               /\ Goto(c, "link") /\ UNCHANGED cookie
           \/ /\ \E i \in found : ~Linkable(i)
              /\ Answer(c, "refused") /\ UNCHANGED <<working, era, late>>
    /\ UNCHANGED <<rows, links, states, sessions, name, started, proved, released, claims>>

(* _link: an account whose copy has no verified address is claimed.         *)
Linked(row, was, p) ==
    IF was.verified THEN [row EXCEPT !.ids[p.provider] = p.account]
    ELSE [row EXCEPT !.ids[p.provider] = p.account, !.password = Unusable, !.verified = TRUE,
                     !.mfa = @ /\ ~was.mfa]

Link(c) ==
    /\ pc[c] = "link"
    /\ UNCHANGED given
    /\ LET p == Profile(c)
           i == target[c]
           row == Linked(rows[i], copy[c], p)
           n == IF copy[c].verified THEN claims[i] ELSE claims[i] \cup {c}
       IN  IF Clashes(i, row) # {}
             THEN Answer(c, "error") /\ UNCHANGED <<rows, claims, proved, released, working, era>>
             ELSE /\ rows' = [rows EXCEPT ![i] = row]
                  /\ released' = released \cup
                       {<<p.provider, a>> : a \in {rows[i].ids[p.provider]} \ {None, p.account}}
                  /\ claims' = [claims EXCEPT ![i] = n]
                  /\ Holds(c, i, row, n)
                  /\ Vouches(c, i)
                  /\ Goto(c, IF copy[c].verified THEN "resolved" ELSE "bump") /\ UNCHANGED cookie
    /\ UNCHANGED <<links, states, sessions, name, started, late>>

(* Mutant: only the sessions listed next are ended. *)
BumpNothing(c) ==
    /\ pc[c] = "bump"
    /\ Goto(c, "evict")
    /\ UNCHANGED <<rows, links, oauth, sessions, given, working, name, history>>

Bump(c) ==
    /\ pc[c] = "bump"
    /\ LET row == [rows[target[c]] EXCEPT !.version = @ + 1]
       IN  /\ rows' = [rows EXCEPT ![target[c]] = row]
           /\ Holds(c, target[c], row, claims[target[c]])
    /\ Goto(c, "evict")
    /\ UNCHANGED <<links, oauth, sessions, given, name, started, proved, released, claims, late>>

(* A listing that fails ends nothing.                                       *)
Evict(c) ==
    /\ pc[c] = "evict"
    /\ \E kept \in {sessions, {s \in sessions : s.row # target[c]}} : sessions' = kept
    /\ Goto(c, "resolved")
    /\ UNCHANGED <<rows, links, oauth, given, working, name, history>>

(* _unique_username tries the base, then numbered names, then a random one. *)
RandomName(c) == c

UniqueUsername(c) ==
    /\ pc[c] = "name" /\ c \in Callbacks
    /\ \/ ByName(name[c]) = {} /\ Goto(c, "create") /\ UNCHANGED name
       \/ /\ ByName(name[c]) # {} /\ name[c] < Suffixes
          /\ name' = [name EXCEPT ![c] = @ + 1] /\ UNCHANGED pc
       \/ /\ ByName(name[c]) # {} /\ name[c] = Suffixes
          /\ name' = [name EXCEPT ![c] = RandomName(c)] /\ Goto(c, "create")
    /\ UNCHANGED <<rows, links, oauth, sessions, given, working, history>>

(* An insert that a constraint refuses is tried once more with a random     *)
(* username; the second failure is the server's error.                      *)
CreateUser(c) ==
    /\ pc[c] \in {"create", "retry"}
    /\ UNCHANGED given
    /\ LET p == Profile(c)
           row == [NoRow EXCEPT !.email = p.email, !.name = name[c], !.ids[p.provider] = p.account,
                                !.verified = TRUE, !.active = TRUE]
       IN  IF Clashes(c, row) = {}
             THEN /\ rows' = [rows EXCEPT ![c] = row]
                  /\ Holds(c, c, row, {})
                  /\ Vouches(c, c)
                  /\ Goto(c, "resolved") /\ UNCHANGED <<cookie, name>>
             ELSE /\ UNCHANGED <<rows, proved, working, era>>
                  /\ IF pc[c] = "create"
                       THEN /\ name' = [name EXCEPT ![c] = RandomName(c)]
                            /\ Goto(c, "retry") /\ UNCHANGED cookie
                       ELSE Answer(c, "error") /\ UNCHANGED name
    /\ UNCHANGED <<links, states, sessions, started, released, claims, late>>

(* An enrolled account is challenged instead, if two-factor login covers    *)
(* providers.                                                               *)
SignIn(c) ==
    /\ pc[c] = "resolved"
    /\ UNCHANGED given
    /\ \/ copy[c].active /\ Issue(c) /\ Answer(c, "in")
       \/ copy[c].active /\ copy[c].mfa /\ Answer(c, "challenged") /\ UNCHANGED sessions
       \/ ~copy[c].active /\ Answer(c, "refused") /\ UNCHANGED sessions
    /\ UNCHANGED <<rows, links, states, working, name, history>>

-----------------------------------------------------------------------------
RegisterStep(r) ==
    Submit(r) \/ LookEmail(r) \/ LookName(r) \/ ExistingEmail(r) \/ ExistingName(r) \/ Insert(r)
      \/ RegisterSend(r)

ChangeStep(g) == ChangeRead(g) \/ ChangeMint(g)

ConfirmStep(k) == Redeem(k) \/ Available(k) \/ Consume(k) \/ MarkVerified(k) \/ WriteEmail(k)

CallbackStep(c) ==
    \/ \E b \in Browsers, f \in Flows, p \in Providers : Arrive(c, b, f, p)
    \/ TakeState(c) \/ Exchange(c) \/ FindByOAuth(c) \/ FindByEmail(c) \/ Link(c) \/ Bump(c) \/ Evict(c)
    \/ UniqueUsername(c) \/ CreateUser(c) \/ SignIn(c)

Next ==
    \/ \E r \in Registrations : RegisterStep(r)
    \/ \E q \in Requests : RequestVerification(q)
    \/ \E g \in Changes : ChangeStep(g)
    \/ \E k \in Confirms : ConfirmStep(k)
    \/ \E l \in Logins : LoginRead(l) \/ LoginIssue(l) \/ Enroll(l)
    \/ \E w \in SetPasswords : SetPasswordRead(w) \/ SetPassword(w)
    \/ \E d \in Disables : Disable(d)
    \/ \E f \in Flows, b \in Browsers, p \in Providers : Authorize(f, b, p)
    \/ \E c \in Callbacks : CallbackStep(c)

Spec == Init /\ [][Next]_vars

-----------------------------------------------------------------------------
Row  == [email : Emails \cup {None}, name : Names \cup {None}, ids : [Providers -> Accounts \cup {None}],
         verified : BOOLEAN, password : Passwords, version : Nat, active : BOOLEAN, mfa : BOOLEAN]
Token == [purpose : {"verify", "change"}, row : Rows, to : Emails, by : Calls,
          state : {<<e>> : e \in Emails} \cup (Passwords \X Emails \X Nat)]
Given == [email : Emails, name : Names, fields : SUBSET Fields] \cup Emails \cup Token
           \cup [browser : Browsers, flow : Flows, provider : Providers, payload : Payloads \cup {None}]
           \cup {None}

(* The type invariant.                                                      *)
TypeOK ==
    /\ rows \in [Rows -> Row]
    /\ mailed \subseteq Token
    /\ used \subseteq Token
    /\ states \in [Flows -> Providers \cup {None}]
    /\ cookie \in [Browsers -> Flows \cup {None}]
    /\ sessions \subseteq [row : Rows, version : Nat, era : SUBSET Callbacks, by : Calls]
    /\ pc \in [Calls -> {"idle", "start", "email", "name", "existing", "existingname", "insert", "send",
                         "mint", "available", "consume", "mark", "write", "issue", "set", "take", "exchange", "byid",
                         "byemail", "link", "bump", "evict", "create", "retry", "resolved", "enrolled",
                         "created", "duplicate", "taken", "exists", "refused", "changed", "error",
                         "challenged", "in", "done"}]
    /\ given \in [Calls -> Given]
    /\ target \in [Calls -> Rows \cup {None}]
    /\ copy \in [Calls -> Row]
    /\ name \in [Callbacks -> Names]
    /\ started \in [Flows -> Browsers \cup {None}]
    /\ proved \subseteq Rows \X Emails
    /\ released \subseteq Emails \cup (Providers \X Accounts)
    /\ claims \in [Rows -> SUBSET Callbacks]
    /\ era \in [Calls -> SUBSET Callbacks]
    /\ late \subseteq Callbacks

(* An account's address is verified only if the holder of that very address *)
(* acted for the account: by a link mailed to it, or through a provider     *)
(* that vouches for it. No overlap of a verification, a change of address   *)
(* and a claim, and no submitted or provisioned column, brings a verified   *)
(* flag to another address (confirm_recovery_verification,                  *)
(* confirm_email_change, _link, filter_registration_data).                  *)
VerifiedMeansProved ==
    \A i \in Stored : rows[i].verified => <<i, rows[i].email>> \in proved

(* Once a provider has claimed an account whose address was never verified, *)
(* no session from a password checked before the claim is accepted, also    *)
(* one created afterwards by a login that had begun before, and a second    *)
(* factor enrolled before the claim read the account is gone (_link).       *)
ClaimEndsOldCredentials ==
    \A c \in Callbacks : c \in era[c] /\ pc[c] \in {"evict", "resolved", "in", "challenged"} =>
        /\ \A s \in sessions : s.row = target[c] /\ c \notin s.era => ~Accepted(s)
        /\ rows[target[c]].mfa => c \in late

(* A link to change the address that was requested with the credentials of  *)
(* an account before it was claimed is not redeemed after the claim, even   *)
(* when it is minted after it (_state_fingerprint, request_email_change).   *)
OldChangeLinkRefused ==
    \A k \in Confirms : pc[k] \in {"available", "write", "changed"} /\ given[k].purpose = "change" =>
        era[given[k].by] = era[k]

(* A link moves an account to its address at most once, also when the       *)
(* account has moved back meanwhile (_consume).                             *)
ChangeAppliedOnce ==
    \A j, k \in Confirms : pc[j] = "changed" /\ pc[k] = "changed" /\ given[j] = given[k] => j = k

(* One flow signs in at most once, and only the browser that started it,    *)
(* however often and wherever its callback is delivered (callback).         *)
OneLoginPerFlow ==
    \A c \in Callbacks : pc[c] \in {"in", "challenged"} =>
        /\ started[given[c].flow] = given[c].browser
        /\ \A d \in Callbacks \ {c} : pc[d] \in {"in", "challenged"} => given[d].flow # given[c].flow

(* A registration answers that a username is taken only if it is, and fails *)
(* without a cause only if the address it met was given up since.           *)
ClashHasCause ==
    \A r \in Registrations :
        /\ pc[r] = "taken" => ByName(given[r].name) \ {r} # {}
        /\ pc[r] = "exists" => given[r].email \in released

(* A sign-in through a provider fails only if an account other than the one *)
(* it was linking holds, or held, its provider account, or, when it was     *)
(* creating one, its address.                                               *)
ErrorHasCause ==
    \A c \in Callbacks : pc[c] = "error" =>
        LET p == Profile(c)
        IN  \/ ByOAuth(p.provider, p.account) \ {target[c]} # {}
            \/ <<p.provider, p.account>> \in released
            \/ target[c] = None /\ (ByEmail(p.email) # {} \/ p.email \in released)

(* A creation that loses a race, at its own look-up or at a unique          *)
(* constraint, ends for the right reason: a registration names the value    *)
(* that is taken, and a sign-in retries a username that collides and fails  *)
(* only on an address or a provider account of another (_on_existing,       *)
(* _create_user, _link).                                                    *)
LostRaceHasCause == ClashHasCause /\ ErrorHasCause
=============================================================================
