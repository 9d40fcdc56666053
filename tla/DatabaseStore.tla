--------------------------- MODULE DatabaseStore ---------------------------
(***************************************************************************)
(* The SQL session backend: the store table of DatabaseStore, its purge of *)
(* expired rows, and the calls of DatabaseSessionStorage. A transaction is *)
(* one step: a deadlocked one is rolled back whole and run again, which    *)
(* changes nothing, and a call whose transaction or purge fails for good   *)
(* is one that stops there. An expired row stays in the table until        *)
(* something removes it, and reads as absent. now_ms() is read where the   *)
(* code builds the statement: a call that builds its statement before the  *)
(* transaction may execute it later, with an older clock.                  *)
(***************************************************************************)
EXTENDS Naturals, FiniteSets

CONSTANTS Sids,        \* keys written by create(): sessions, CSRF tokens, states, challenges
          Marks,       \* keys written by set_if_absent(): used links
          Modifies,    \* modify() calls, each making one change of its own
          Extends,     \* extend() calls
          Deletes,     \* delete() calls
          Takes,       \* get_and_delete() calls
          Claims,      \* set_if_absent() calls
          Mixes,       \* the sets of calls that are tried together
          NoRow,       \* no such row; also: no target
          TTL,         \* the expiration every write asks for
          MaxClock,    \* bound: ticks of the clock during the run
          Attempts,    \* DATABASE_MODIFY_MAX_ATTEMPTS
          PurgeEvery,  \* purge_every
          BatchSize    \* purge_batch_size

Keys  == Sids \cup Marks
Calls == Sids \cup Modifies \cup Extends \cup Deletes \cup Takes \cup Claims

ASSUME CallsDisjoint ==
    /\ Sids \cap (Modifies \cup Extends \cup Deletes \cup Takes \cup Claims) = {}
    /\ Modifies \cap (Extends \cup Deletes \cup Takes \cup Claims) = {}
    /\ Extends \cap (Deletes \cup Takes \cup Claims) = {}
    /\ Deletes \cap (Takes \cup Claims) = {}
    /\ Takes \cap Claims = {}
    /\ Marks \cap Calls = {}

ASSUME MixesAreCalls == Mixes \subseteq SUBSET Calls

ASSUME NoRowIsNoKey == NoRow \notin Keys

ASSUME BoundsArePositive ==
    /\ MaxClock \in Nat
    /\ TTL \in Nat \ {0} /\ Attempts \in Nat \ {0}
    /\ PurgeEvery \in Nat \ {0} /\ BatchSize \in Nat \ {0}

Rows == [val : SUBSET Modifies, ver : Nat, exp : Nat]

ASSUME NoRowIsNoValue == NoRow \notin Rows /\ \A changes \in SUBSET Modifies : changes # NoRow

VARIABLES clock,   \* now_ms() of the workers, in ticks
          row,     \* the store table
          pc,      \* the next step of each call
          target,  \* the key a call is about
          at,      \* now_ms() in the statement a call has built
          copy,    \* the row a modify() or a get_and_delete() has read
          stamp,   \* now_ms() in the guarded update of a modify()
          tries,   \* lost attempts of a modify()
          writes,  \* _writes_since_purge
          batch,   \* the keys a purge has selected
          left,    \* the batches a purge may still delete
          won      \* history: when a claim was granted, and until when

vars == <<clock, row, pc, target, at, copy, stamp, tries, writes, batch, left, won>>

Writers == Sids \cup Claims
Blank   == [val |-> {}, ver |-> 0, exp |-> 0]
Never   == [from |-> 0, until |-> 0]

Init ==
    /\ clock = 0
    /\ row = [k \in Keys |-> NoRow]
    /\ \E mix \in Mixes, deletes_returning \in BOOLEAN :
         pc = [o \in Calls |-> IF o \notin mix THEN "idle"
                              ELSE IF o \notin Takes THEN "start"
                              ELSE IF deletes_returning THEN "take" ELSE "look"]
    /\ target = [o \in Calls |-> NoRow]
    /\ at = [o \in Calls |-> 0]
    /\ copy = [o \in Modifies \cup Takes |-> Blank]
    /\ stamp = [m \in Modifies |-> 0]
    /\ tries = [m \in Modifies |-> 0]
    /\ writes = 0
    /\ batch = [o \in Writers |-> {}]
    /\ left = [o \in Writers |-> 0]
    /\ won = [c \in Claims |-> Never]

Goto(o, label) == pc' = [pc EXCEPT ![o] = label]

(* The statement is built: the call's key and clock are in it.              *)
Call(o, k, label) ==
    /\ pc[o] = "start"
    /\ target' = [target EXCEPT ![o] = k]
    /\ at' = [at EXCEPT ![o] = clock]
    /\ Goto(o, label)
    /\ UNCHANGED <<clock, row, copy, stamp, tries, writes, batch, left, won>>

Live(k, now) == row[k] # NoRow /\ row[k].exp > now

Expired(now) == {k \in Keys : row[k] # NoRow /\ row[k].exp <= now}

Set(k, value) == row' = [row EXCEPT ![k] = value]

Tick ==
    /\ clock < MaxClock
    /\ clock' = clock + 1
    /\ UNCHANGED <<row, pc, target, at, copy, stamp, tries, writes, batch, left, won>>

-----------------------------------------------------------------------------
(* create: an UPDATE of the key, or an INSERT when there is no row; ids are *)
(* fresh, so the INSERT meets no duplicate. Then the write is noted.        *)
CreateCall(s) == Call(s, s, "write")

CreateWrite(s) ==
    /\ pc[s] = "write"
    /\ Set(s, [val |-> {}, ver |-> IF row[s] = NoRow THEN 1 ELSE row[s].ver + 1,
               exp |-> at[s] + TTL])
    /\ Goto(s, "note")
    /\ UNCHANGED <<clock, target, at, copy, stamp, tries, writes, batch, left, won>>

(* set_if_absent: an expired row is deleted, then an INSERT decides.        *)
ClaimCall(c, k) == Call(c, k, "claim")

ClaimRow(c) ==
    /\ pc[c] = "claim"
    /\ IF Live(target[c], clock)
         THEN Goto(c, "missing") /\ UNCHANGED <<row, won>>
         ELSE /\ Set(target[c], [val |-> {}, ver |-> 1, exp |-> at[c] + TTL])
              /\ won' = [won EXCEPT ![c] = [from |-> clock, until |-> at[c] + TTL]]
              /\ Goto(c, "note")
    /\ UNCHANGED <<clock, target, at, copy, stamp, tries, writes, batch, left>>

(* note_write: every PurgeEvery writes, a purge of that many rows.          *)
Batches == (PurgeEvery + BatchSize - 1) \div BatchSize

NoteWrite(o) ==
    /\ pc[o] = "note"
    /\ IF writes + 1 < PurgeEvery
         THEN writes' = writes + 1 /\ Goto(o, "done") /\ UNCHANGED left
         ELSE writes' = 0 /\ Goto(o, "select") /\ left' = [left EXCEPT ![o] = Batches]
    /\ UNCHANGED <<clock, row, target, at, copy, stamp, tries, batch, won>>

PurgeSelect(o) ==
    /\ pc[o] = "select"
    /\ \E keys \in SUBSET Expired(clock) :
         /\ Cardinality(keys) <= BatchSize
         /\ Cardinality(keys) < BatchSize => keys = Expired(clock)
         /\ batch' = [batch EXCEPT ![o] = keys]
         /\ Goto(o, IF keys = {} THEN "done" ELSE "purge")
    /\ UNCHANGED <<clock, row, target, at, copy, stamp, tries, writes, left, won>>

(* Mutant: the selected keys are deleted without looking at them again. *)
PurgeDeleteSelected(o) ==
    /\ pc[o] = "purge"
    /\ row' = [k \in Keys |-> IF k \in batch[o] THEN NoRow ELSE row[k]]
    /\ left' = [left EXCEPT ![o] = @ - 1]
    /\ Goto(o, IF Cardinality(batch[o]) < BatchSize \/ left[o] = 1 THEN "done" ELSE "select")
    /\ UNCHANGED <<clock, target, at, copy, stamp, tries, writes, batch, won>>

PurgeDelete(o) ==
    /\ pc[o] = "purge"
    /\ row' = [k \in Keys |-> IF k \in batch[o] \cap Expired(clock) THEN NoRow ELSE row[k]]
    /\ left' = [left EXCEPT ![o] = @ - 1]
    /\ Goto(o, IF Cardinality(batch[o]) < BatchSize \/ left[o] = 1 THEN "done" ELSE "select")
    /\ UNCHANGED <<clock, target, at, copy, stamp, tries, writes, batch, won>>

-----------------------------------------------------------------------------
(* modify: read the row, then update it if its version is still the same.   *)
(* The SELECT is built once, before the loop, the UPDATE in each round.     *)
ModifyCall(m, s) == Call(m, s, "read")

ModifyRead(m) ==
    /\ pc[m] = "read"
    /\ IF Live(target[m], at[m])
         THEN /\ copy' = [copy EXCEPT ![m] = row[target[m]]]
              /\ stamp' = [stamp EXCEPT ![m] = clock]
              /\ Goto(m, "update")
         ELSE Goto(m, "missing") /\ UNCHANGED <<copy, stamp>>
    /\ UNCHANGED <<clock, row, target, at, tries, writes, batch, left, won>>

(* The UPDATE matched no row: read again, up to Attempts rounds.            *)
ModifyLost(m) ==
    /\ UNCHANGED row
    /\ tries' = [tries EXCEPT ![m] = @ + 1]
    /\ Goto(m, IF tries[m] + 1 < Attempts THEN "read" ELSE "gaveup")

(* Mutant: the update is not guarded by the version. *)
UnchangedVersionIgnored(m) == Live(target[m], stamp[m])

UnchangedVersion(m) == Live(target[m], stamp[m]) /\ row[target[m]].ver = copy[m].ver

ModifyUpdate(m) ==
    /\ pc[m] = "update"
    /\ IF UnchangedVersion(m)
         THEN /\ \E exp \in {stamp[m] + TTL, row[target[m]].exp} :
                   Set(target[m], [val |-> copy[m].val \cup {m}, ver |-> copy[m].ver + 1,
                                   exp |-> exp])
              /\ Goto(m, "done")
              /\ UNCHANGED tries
         ELSE ModifyLost(m)
    /\ UNCHANGED <<clock, target, at, copy, stamp, writes, batch, left, won>>

-----------------------------------------------------------------------------
ExtendCall(e, s) == Call(e, s, "extend")

ExtendRow(e) ==
    /\ pc[e] = "extend"
    /\ IF Live(target[e], at[e])
         THEN row' = [row EXCEPT ![target[e]].exp = at[e] + TTL] /\ Goto(e, "done")
         ELSE Goto(e, "missing") /\ UNCHANGED row
    /\ UNCHANGED <<clock, target, at, copy, stamp, tries, writes, batch, left, won>>

(* delete: one transaction removes the row, and tells whether it was live.  *)
DeleteRow(d, s) ==
    /\ pc[d] = "start"
    /\ target' = [target EXCEPT ![d] = s]
    /\ Set(s, NoRow)
    /\ Goto(d, IF Live(s, clock) THEN "done" ELSE "missing")
    /\ UNCHANGED <<clock, at, copy, stamp, tries, writes, batch, left, won>>

(* get_and_delete: DELETE ... RETURNING, or else a SELECT and a DELETE of   *)
(* the row that still holds the value read.                                 *)
TakeReturning(g, s) ==
    /\ pc[g] = "take"
    /\ target' = [target EXCEPT ![g] = s]
    /\ IF Live(s, clock)
         THEN Set(s, NoRow) /\ Goto(g, "done")
         ELSE Goto(g, "missing") /\ UNCHANGED row
    /\ UNCHANGED <<clock, at, copy, stamp, tries, writes, batch, left, won>>

TakeLook(g, s) ==
    /\ pc[g] = "look"
    /\ target' = [target EXCEPT ![g] = s]
    /\ IF Live(s, clock)
         THEN copy' = [copy EXCEPT ![g] = row[s]] /\ Goto(g, "remove")
         ELSE Goto(g, "missing") /\ UNCHANGED copy
    /\ UNCHANGED <<clock, row, at, stamp, tries, writes, batch, left, won>>

(* Mutant: the value read is handed out whatever the DELETE removed. *)
TakeRemoveAlways(g) ==
    /\ pc[g] = "remove"
    /\ Set(target[g], NoRow)
    /\ Goto(g, "done")
    /\ UNCHANGED <<clock, target, at, copy, stamp, tries, writes, batch, left, won>>

TakeRemove(g) ==
    /\ pc[g] = "remove"
    /\ IF Live(target[g], clock) /\ row[target[g]].val = copy[g].val
         THEN Set(target[g], NoRow) /\ Goto(g, "done")
         ELSE Goto(g, "missing") /\ UNCHANGED row
    /\ UNCHANGED <<clock, target, at, copy, stamp, tries, writes, batch, left, won>>

-----------------------------------------------------------------------------
PurgeStep(o) == NoteWrite(o) \/ PurgeSelect(o) \/ PurgeDelete(o)

CreateStep(s) == CreateCall(s) \/ CreateWrite(s) \/ PurgeStep(s)

ClaimStep(c) == (\E k \in Marks : ClaimCall(c, k)) \/ ClaimRow(c) \/ PurgeStep(c)

ModifyStep(m) == (\E s \in Sids : ModifyCall(m, s)) \/ ModifyRead(m) \/ ModifyUpdate(m)

ExtendStep(e) == (\E s \in Sids : ExtendCall(e, s)) \/ ExtendRow(e)

TakeStep(g) == (\E s \in Sids : TakeReturning(g, s) \/ TakeLook(g, s)) \/ TakeRemove(g)

Next ==
    \/ Tick
    \/ \E s \in Sids : CreateStep(s)
    \/ \E c \in Claims : ClaimStep(c)
    \/ \E m \in Modifies : ModifyStep(m)
    \/ \E e \in Extends : ExtendStep(e)
    \/ \E d \in Deletes, s \in Sids : DeleteRow(d, s)
    \/ \E g \in Takes : TakeStep(g)

Spec == Init /\ [][Next]_vars

-----------------------------------------------------------------------------
(* The type invariant; a counter of noted writes stays below PurgeEvery.    *)
TypeOK ==
    /\ clock \in Nat
    /\ row \in [Keys -> Rows \cup {NoRow}]
    /\ pc \in [Calls -> {"idle", "start", "write", "note", "select", "purge", "claim", "read", "update",
                         "extend", "take", "look", "remove",
                         "done", "missing", "gaveup"}]
    /\ target \in [Calls -> Keys \cup {NoRow}]
    /\ at \in [Calls -> Nat]
    /\ copy \in [Modifies \cup Takes -> Rows]
    /\ stamp \in [Modifies -> Nat]
    /\ tries \in [Modifies -> 0..Attempts]
    /\ writes \in 0..(PurgeEvery - 1)
    /\ batch \in [Writers -> SUBSET Keys]
    /\ left \in [Writers -> 0..Batches]
    /\ won \in [Claims -> [from : Nat, until : Nat]]

Born == {s \in Sids : pc[s] \in {"note", "select", "purge", "done"}}

Value == [s \in Sids |-> IF row[s] = NoRow THEN NoRow ELSE row[s].val]

Store == INSTANCE SessionStore
           WITH Writers <- Modifies, Absent <- NoRow, val <- Value, born <- Born

(* Seen from outside, each call takes effect in one step of the abstract    *)
(* store, and a purge removes any number of rows: no change of a modify()   *)
(* is lost to another, and no write brings back a row that was deleted,     *)
(* consumed or purged under it (database.py modify, create, delete,         *)
(* get_and_delete, _purge).                                                 *)
ImplementsStore == Store!Spec

(* A row that is live disappears only by a delete() or get_and_delete() of  *)
(* its own key: a purge that selected it before it was extended or claimed  *)
(* again leaves it alone (database.py _purge).                              *)
PurgeSparesLive ==
    [][\A k \in Keys :
          Live(k, clock) /\ row'[k] = NoRow
            => \E o \in Deletes \cup Takes : target'[o] = k /\ pc'[o] # pc[o]]_vars

(* Two set_if_absent() calls of one key are both granted only if the mark   *)
(* of the earlier had expired when the later was granted.                   *)
ClaimedOnce ==
    \A c, d \in Claims :
        c # d /\ Never \notin {won[c], won[d]} /\ target[c] = target[d]
          => won[c].until <= won[d].from \/ won[d].until <= won[c].from

(* A value is handed to one get_and_delete() at most.                       *)
TakenOnce ==
    \A g, h \in Takes : pc[g] = "done" /\ pc[h] = "done" /\ target[g] = target[h] => g = h

(* What is meant for one caller goes to one caller, whatever expires and is *)
(* purged meanwhile: the mark of a used link while it lasts, and a stored   *)
(* value, on databases with and without DELETE ... RETURNING (database.py   *)
(* set_if_absent, get_and_delete).                                          *)
GrantedOnce == ClaimedOnce /\ TakenOnce
=============================================================================
