----------------------------- MODULE RedisStore -----------------------------
(***************************************************************************)
(* The Redis session backend, and what the session manager does on top of  *)
(* it for one user: every login and every sign-out everywhere lists the    *)
(* user's sessions. Every await on the client is a step: one command, or   *)
(* one MULTI/EXEC block. A call that stops being scheduled stands for a    *)
(* worker that died between two commands. Every call of a mix runs at most *)
(* once.                                                                   *)
(***************************************************************************)
EXTENDS Naturals, FiniteSets

CONSTANTS Sids,      \* session ids; each is created by one create_session() call
          Modifies,  \* modify() calls, each making one change of its own
          Deletes,   \* delete() calls
          Scans,     \* terminate_all_user_sessions() calls
          Mixes,     \* the sets of calls tried together
          MaxSessions,  \* sessions one user may hold (max_sessions_per_user)
          Absent     \* no record, no target

Listers == Sids \cup Scans  \* the calls that list the user's sessions

Calls == Sids \cup Modifies \cup Deletes \cup Scans

ASSUME CallsDisjoint ==
    /\ Sids \cap (Modifies \cup Deletes \cup Scans) = {}
    /\ Modifies \cap (Deletes \cup Scans) = {}
    /\ Deletes \cap Scans = {}

ASSUME MixesAreCalls == Mixes \subseteq SUBSET Calls

ASSUME MaxSessionsAssumption == MaxSessions \in Nat \ {0}

ASSUME AbsentIsNoCall == Absent \notin Calls

ASSUME AbsentIsNoValue == \A changes \in SUBSET Modifies : changes # Absent

VARIABLES rec,     \* {prefix}{sid}: the changes in the record, or Absent
          index,   \* {prefix}_users:{user}: the set of indexed session ids
          pc,      \* the next command of each call
          target,  \* the session a call is working on
          buf,     \* the changed copy a modify() will write
          broken,  \* modify() calls whose watched key was written
          todo,    \* the members a listing has yet to look at
          found,   \* the live sessions it found, then those it has yet to terminate
          before,  \* history: sessions whose login had returned when a scan began
          hidden,  \* history: pruned, as it was when a scan began
          pruned   \* history: sessions a listing took off the index, not indexed since

vars == <<rec, index, pc, target, buf, broken, todo, found, before, hidden, pruned>>

Init ==
    /\ rec = [s \in Sids |-> Absent]
    /\ index = {}
    /\ \E mix \in Mixes : pc = [o \in Calls |-> IF o \in mix THEN "start" ELSE "idle"]
    /\ target = [o \in Calls |-> Absent]
    /\ buf = [m \in Modifies |-> {}]
    /\ broken = {}
    /\ todo = [o \in Listers |-> {}]
    /\ found = [o \in Listers |-> {}]
    /\ before = [o \in Scans |-> {}]
    /\ hidden = [o \in Scans |-> {}]
    /\ pruned = {}

Goto(o, label) == pc' = [pc EXCEPT ![o] = label]

(* Mutant: the key is read without WATCH. *)
TouchUnwatched(s) == UNCHANGED broken

(* Any write or removal of a key breaks the WATCHes that are set on it.     *)
Touch(s) ==
    broken' = broken \cup {m \in Modifies : target[m] = s /\ pc[m] \in {"get", "exec"}}

Put(s, value) == rec' = [rec EXCEPT ![s] = value] /\ Touch(s)

-----------------------------------------------------------------------------
(* A listing: SMEMBERS, then a GET per member with a prune of the missing   *)
(* ones.                                                                    *)
ListMembers(o) ==
    /\ pc[o] = "start"
    /\ todo' = [todo EXCEPT ![o] = index]
    /\ IF o \in Scans
         THEN /\ before' = [before EXCEPT ![o] = {s \in Sids : pc[s] = "done"}]
              /\ hidden' = [hidden EXCEPT ![o] = pruned]
         ELSE UNCHANGED <<before, hidden>>
    /\ Goto(o, "look")
    /\ UNCHANGED <<rec, index, target, buf, broken, found, pruned>>

ListGet(o, s) ==
    /\ pc[o] = "look"
    /\ s \in todo[o]
    /\ todo' = [todo EXCEPT ![o] = @ \ {s}]
    /\ IF rec[s] = Absent
         THEN /\ target' = [target EXCEPT ![o] = s]
              /\ Goto(o, "prune")
              /\ UNCHANGED found
         ELSE /\ found' = [found EXCEPT ![o] = @ \cup {s}]
              /\ UNCHANGED <<pc, target>>
    /\ UNCHANGED <<rec, index, buf, broken, before, hidden, pruned>>

ListPrune(o) ==
    /\ pc[o] = "prune"
    /\ index' = index \ {target[o]}
    /\ pruned' = pruned \cup {target[o]}
    /\ Goto(o, "look")
    /\ UNCHANGED <<rec, target, buf, broken, todo, found, before, hidden>>

(* What a listing is for: a sign-out everywhere ends all it found, a login  *)
(* the oldest of them, as many as leave room for its own session. Which are *)
(* the oldest is left open.                                                 *)
Culls(o) ==
    IF o \in Scans THEN {found[o]}
    ELSE {cut \in SUBSET found[o] :
            LET n == Cardinality(found[o])
            IN  Cardinality(cut) = IF n >= MaxSessions THEN n - MaxSessions + 1 ELSE 0}

ListEnds(o) ==
    /\ pc[o] = "look" /\ todo[o] = {}
    /\ \E cut \in Culls(o) : found' = [found EXCEPT ![o] = cut]
    /\ Goto(o, "cull")
    /\ UNCHANGED <<rec, index, target, buf, broken, todo, before, hidden, pruned>>

CullDelete(o, s) ==
    /\ pc[o] = "cull"
    /\ s \in found[o]
    /\ found' = [found EXCEPT ![o] = @ \ {s}]
    /\ IF rec[s] = Absent
         THEN UNCHANGED <<rec, broken, pc, target>>
         ELSE /\ Put(s, Absent)
              /\ target' = [target EXCEPT ![o] = s]
              /\ Goto(o, "srem")
    /\ UNCHANGED <<index, buf, todo, before, hidden, pruned>>

CullUnindex(o) ==
    /\ pc[o] = "srem"
    /\ index' = index \ {target[o]}
    /\ Goto(o, "cull")
    /\ UNCHANGED <<rec, target, buf, broken, todo, found, before, hidden, pruned>>

ScanDone(o) ==
    /\ pc[o] = "cull" /\ found[o] = {}
    /\ Goto(o, "done")
    /\ UNCHANGED <<rec, index, target, buf, broken, todo, found, before, hidden, pruned>>

(* create, once the login has made room: the index entry first, then the    *)
(* record.                                                                  *)
CreateIndex(s) ==
    /\ pc[s] = "cull" /\ found[s] = {}
    /\ index' = index \cup {s}
    /\ Goto(s, "record")
    /\ UNCHANGED <<rec, target, buf, broken, todo, found, before, hidden, pruned>>

CreateRecord(s) ==
    /\ pc[s] = "record"
    /\ Put(s, {})
    /\ Goto(s, "done")
    /\ UNCHANGED <<index, target, buf, todo, found, before, hidden, pruned>>

-----------------------------------------------------------------------------
(* modify: WATCH, GET, MULTI SET EXEC, retried when the watch was broken,   *)
(* then the index entry again.                                              *)
ModifyCall(m, s) ==
    /\ pc[m] = "start"
    /\ target' = [target EXCEPT ![m] = s]
    /\ Goto(m, "watch")
    /\ UNCHANGED <<rec, index, buf, broken, todo, found, before, hidden, pruned>>

(* Mutant: a retry goes on with the watch that was broken. *)
ModifyWatchAgain(m) ==
    /\ pc[m] = "watch"
    /\ Goto(m, "get")
    /\ UNCHANGED <<rec, index, target, buf, broken, todo, found, before, hidden, pruned>>

ModifyWatch(m) ==
    /\ pc[m] = "watch"
    /\ broken' = broken \ {m}
    /\ Goto(m, "get")
    /\ UNCHANGED <<rec, index, target, buf, todo, found, before, hidden, pruned>>

ModifyGet(m) ==
    /\ pc[m] = "get"
    /\ IF rec[target[m]] = Absent
         THEN Goto(m, "missing") /\ UNCHANGED buf
         ELSE Goto(m, "exec") /\ buf' = [buf EXCEPT ![m] = rec[target[m]] \cup {m}]
    /\ UNCHANGED <<rec, index, target, broken, todo, found, before, hidden, pruned>>

(* Mutant: EXEC is sent without the transaction's condition. *)
ModifyExecAlways(m) ==
    /\ pc[m] = "exec"
    /\ Goto(m, "index")
    /\ Put(target[m], buf[m])
    /\ UNCHANGED <<index, target, buf, todo, found, before, hidden, pruned>>

ModifyExec(m) ==
    /\ pc[m] = "exec"
    /\ IF m \in broken
         THEN Goto(m, "watch") /\ UNCHANGED <<rec, broken>>
         ELSE Goto(m, "index") /\ Put(target[m], buf[m])
    /\ UNCHANGED <<index, target, buf, todo, found, before, hidden, pruned>>

ModifyIndex(m) ==
    /\ pc[m] = "index"
    /\ index' = index \cup {target[m]}
    /\ pruned' = pruned \ {target[m]}
    /\ Goto(m, "done")
    /\ UNCHANGED <<rec, target, buf, broken, todo, found, before, hidden>>

-----------------------------------------------------------------------------
(* delete: DEL, then SREM only if a record was deleted.                     *)
(* Mutant: the index entry is removed whether or not a record was. *)
DeleteKeyAlwaysUnindexes(d, s) ==
    /\ pc[d] = "start"
    /\ target' = [target EXCEPT ![d] = s]
    /\ Goto(d, "srem")
    /\ Put(s, Absent)
    /\ UNCHANGED <<index, buf, todo, found, before, hidden, pruned>>

DeleteKey(d, s) ==
    /\ pc[d] = "start"
    /\ target' = [target EXCEPT ![d] = s]
    /\ IF rec[s] = Absent
         THEN Goto(d, "missing") /\ UNCHANGED <<rec, broken>>
         ELSE Goto(d, "srem") /\ Put(s, Absent)
    /\ UNCHANGED <<index, buf, todo, found, before, hidden, pruned>>

DeleteIndex(d) ==
    /\ pc[d] = "srem"
    /\ index' = index \ {target[d]}
    /\ Goto(d, "done")
    /\ UNCHANGED <<rec, target, buf, broken, todo, found, before, hidden, pruned>>

(* The record's TTL runs out.                                               *)
Expire(s) ==
    /\ rec[s] # Absent
    /\ Put(s, Absent)
    /\ UNCHANGED <<index, pc, target, buf, todo, found, before, hidden, pruned>>

-----------------------------------------------------------------------------
ListStep(o) ==
    \/ ListMembers(o) \/ ListPrune(o) \/ ListEnds(o) \/ CullUnindex(o)
    \/ \E s \in Sids : ListGet(o, s) \/ CullDelete(o, s)

LoginStep(s) == ListStep(s) \/ CreateIndex(s) \/ CreateRecord(s)

ScanStep(o) == ListStep(o) \/ ScanDone(o)

ModifyStep(m) ==
    \/ \E s \in Sids : ModifyCall(m, s)
    \/ ModifyWatch(m) \/ ModifyGet(m) \/ ModifyExec(m) \/ ModifyIndex(m)

DeleteStep(d) == (\E s \in Sids : DeleteKey(d, s)) \/ DeleteIndex(d)

Next ==
    \/ \E s \in Sids : LoginStep(s) \/ Expire(s)
    \/ \E m \in Modifies : ModifyStep(m)
    \/ \E d \in Deletes : DeleteStep(d)
    \/ \E o \in Scans : ScanStep(o)

Spec == Init /\ [][Next]_vars

(* The server answers every command, so each call goes on.                  *)
FairSpec ==
    /\ Spec
    /\ \A s \in Sids : WF_vars(LoginStep(s))
    /\ \A m \in Modifies : WF_vars(ModifyStep(m))
    /\ \A d \in Deletes : WF_vars(DeleteStep(d))
    /\ \A o \in Scans : WF_vars(ScanStep(o))

-----------------------------------------------------------------------------
(* The type invariant: an indexed or targeted id is a session id, a record  *)
(* holds changes that modify() calls made.                                  *)
TypeOK ==
    /\ rec \in [Sids -> (SUBSET Modifies) \cup {Absent}]
    /\ index \subseteq Sids
    /\ pc \in [Calls -> {"idle", "start", "record", "watch", "get", "exec", "index", "look",
                         "prune", "cull", "srem", "done", "missing"}]
    /\ target \in [Calls -> Sids \cup {Absent}]
    /\ buf \in [Modifies -> SUBSET Modifies]
    /\ broken \subseteq Modifies
    /\ todo \in [Listers -> SUBSET Sids]
    /\ found \in [Listers -> SUBSET Sids]
    /\ before \in [Scans -> SUBSET Sids]
    /\ hidden \in [Scans -> SUBSET Sids]
    /\ pruned \subseteq Sids

Born == {s \in Sids : pc[s] = "done"}

Store == INSTANCE SessionStore WITH Writers <- Modifies, val <- rec, born <- Born

(* Seen from outside, each call takes effect in one step of the abstract    *)
(* store: modify() at its EXEC, create() at the record write, delete() at   *)
(* DEL. In particular a session deleted while a request was touching it     *)
(* stays deleted (redis.py modify).                                         *)
ImplementsStore == Store!Spec

(* Two writers of different fields both land: once modify() has written,    *)
(* its change is in the record for as long as the record lives, whatever    *)
(* other requests write (redis.py modify; storage/base.py modify).          *)
NoLostChange ==
    \A m \in Modifies :
        pc[m] \in {"index", "done"} /\ rec[target[m]] # Absent => m \in rec[target[m]]

(* A live session is missing from its owner's index only when a listing     *)
(* that found no record, of a login still on its way, has pruned it: no     *)
(* delete, expiry or crash between two commands hides a session             *)
(* (redis.py, the class comment of RedisSessionStorage and delete).         *)
IndexCoversLive == \A s \in Sids : rec[s] # Absent => s \in index \cup pruned

(* What manager.py terminate_all_user_sessions says of itself: it ends      *)
(* every active session of the user, so every one whose login had returned  *)
(* when it began.                                                           *)
LogoutAllComplete ==
    \A o \in Scans : pc[o] = "done" => \A s \in before[o] : rec[s] = Absent

(* Signing out everywhere ends every session whose login had returned when  *)
(* it began, whatever logins, listings, deletes and activity run beside it, *)
(* except one that an earlier listing pruned between its index write and    *)
(* its record write and that no request has touched since                   *)
(* (manager.py terminate_all_user_sessions).                                *)
LogoutEndsUnpruned ==
    \A o \in Scans : pc[o] = "done" => \A s \in before[o] \ hidden[o] : rec[s] = Absent

(* Every call returns: the retry loop of modify() ends once the writers it  *)
(* races with have finished.                                                *)
EveryCallReturns ==
    \A o \in Calls : pc[o] \notin {"idle", "start"} ~> pc[o] \in {"done", "missing"}
=============================================================================
