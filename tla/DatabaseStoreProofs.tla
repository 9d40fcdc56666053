------------------------ MODULE DatabaseStoreProofs ------------------------
(***************************************************************************)
(* Theorems about DatabaseStore, for any number of keys and calls: the SQL *)
(* backend implements the abstract session store, grants what is meant for *)
(* one caller once, and its purge spares live rows.                        *)
(*                                                                         *)
(* The invariant is stated call by call (CallInv). A step moves one call   *)
(* and changes the table in a way no other call has to fear (RowMove), so  *)
(* an action has to show only what it does to its own call.                *)
(***************************************************************************)
EXTENDS DatabaseStore, TLAPS

Types ==
    /\ clock \in Nat
    /\ row \in [Keys -> Rows \cup {NoRow}]
    /\ pc = [o \in Calls |-> pc[o]]
    /\ target = [o \in Calls |-> target[o]]
    /\ at \in [Calls -> Nat]
    /\ copy \in [Modifies \cup Takes -> Rows]
    /\ stamp \in [Modifies -> Nat]
    /\ won \in [Claims -> [from : Nat, until : Nat]]

(* A modify() about to update: while the row has the version it has read,   *)
(* the row has the value it has read.                                       *)
ModifyInv(m) ==
    /\ pc[m] \in {"read", "update"} => target[m] \in Sids
    /\ pc[m] = "update" =>
          /\ target[m] \in Born
          /\ row[target[m]] # NoRow =>
                /\ copy[m].ver <= row[target[m]].ver
                /\ copy[m].ver = row[target[m]].ver => copy[m].val = row[target[m]].val

ExtendInv(e) == pc[e] = "extend" => target[e] \in Sids

(* What a get_and_delete() was given is gone, and its create() is over.     *)
TakeInv(g) ==
    /\ pc[g] = "remove" => target[g] \in Sids
    /\ pc[g] = "done" => target[g] \in Born /\ row[target[g]] = NoRow

(* A mark that was granted is in the table until it has expired.            *)
ClaimInv(c) ==
    /\ pc[c] \in {"idle", "start"} => won[c] = Never
    /\ pc[c] \notin {"idle", "start"} => target[c] \in Marks
    /\ won[c] # Never =>
          \/ won[c].until <= clock
          \/ row[target[c]] # NoRow /\ won[c].until <= row[target[c]].exp

CallInv(o) ==
    /\ o \in Modifies => ModifyInv(o)
    /\ o \in Extends => ExtendInv(o)
    /\ o \in Takes => TakeInv(o)
    /\ o \in Claims => ClaimInv(o)

(* Only a created session has a row.                                        *)
Created == \A s \in Sids : row[s] # NoRow => s \in Born

Inv == Types /\ Created /\ (\A o \in Calls : CallInv(o)) /\ GrantedOnce

-----------------------------------------------------------------------------
(* What a step never does to the table: bring back the row of a session,    *)
(* change its value under the same version, or drop a mark that lasts.      *)
RowMove ==
    /\ clock' \in Nat /\ clock <= clock' /\ Born \subseteq Born'
    /\ \A s \in Sids : row[s] # NoRow /\ row'[s] # NoRow =>
          /\ row[s].ver <= row'[s].ver
          /\ row'[s].ver = row[s].ver => row'[s].val = row[s].val
    /\ \A s \in Sids : row[s] = NoRow /\ row'[s] # NoRow => s \notin Born /\ s \in Born'
    /\ \A k \in Marks : row[k] # NoRow => row[k].exp <= clock \/ row'[k] = row[k]

(* A call the step does not move.                                           *)
Stays(o) ==
    /\ pc'[o] = pc[o] /\ target'[o] = target[o]
    /\ o \in Modifies \cup Takes => copy'[o] = copy[o]
    /\ o \in Claims => won'[o] = won[o]

(* A claim is granted now, over no live mark, or as it was before.          *)
GrantedNow(o) ==
    \/ won'[o] = won[o] /\ (target'[o] = target[o] \/ won[o] = Never)
    \/ target'[o] = target[o] /\ won'[o].from = clock /\ ~Live(target[o], clock)

(* A value is handed out only from a row.                                   *)
TakenNow(o) == pc'[o] = "done" => row[target'[o]] # NoRow

(* What an action has to show of the call it moves.                         *)
Moves(o) ==
    /\ \A x \in Calls \ {o} : Stays(x)
    /\ CallInv(o)'
    /\ o \in Claims => GrantedNow(o)
    /\ o \in Takes => TakenNow(o)

-----------------------------------------------------------------------------
(* Lemmas about the table and its rows.                                     *)
LEMMA RowFields ==
    ASSUME NEW r \in Rows
    PROVE  r # NoRow /\ r.val \in SUBSET Modifies /\ r.ver \in Nat /\ r.exp \in Nat
BY NoRowIsNoValue DEF Rows

LEMMA RowIsRow ==
    ASSUME NEW v \in SUBSET Modifies, NEW n \in Nat, NEW x \in Nat
    PROVE  /\ [val |-> v, ver |-> n, exp |-> x] \in Rows
           /\ [val |-> v, ver |-> n, exp |-> x] # NoRow
BY NoRowIsNoValue DEF Rows

LEMMA TableTyped ==
    ASSUME Types, NEW k \in Keys, row[k] # NoRow
    PROVE  row[k] \in Rows /\ row[k].val \in SUBSET Modifies /\ row[k].ver \in Nat /\ row[k].exp \in Nat
BY RowFields DEF Types

(* A call that stays where it is keeps its invariant.                       *)
LEMMA StaysKept ==
    ASSUME Types, Types', Created, RowMove, NEW o \in Calls, CallInv(o), Stays(o)
    PROVE  CallInv(o)'
<1>1. \A k \in Keys : row[k] # NoRow => row[k].ver \in Nat /\ row[k].exp \in Nat
  BY TableTyped
<1>2. \A k \in Keys : row'[k] # NoRow => row'[k].ver \in Nat /\ row'[k].exp \in Nat
  BY RowFields DEF Types
<1>3. ASSUME o \in Modifies PROVE ModifyInv(o)'
  <2>1. copy[o].ver \in Nat
    BY <1>3, RowFields DEF Types
  <2>2. ModifyInv(o) /\ pc'[o] = pc[o] /\ target'[o] = target[o] /\ copy'[o] = copy[o]
    BY <1>3 DEF CallInv, Stays
  <2>3. ASSUME pc[o] = "update", row'[target[o]] # NoRow
        PROVE  /\ copy[o].ver <= row'[target[o]].ver
               /\ copy[o].ver = row'[target[o]].ver => copy[o].val = row'[target[o]].val
    <3>1. target[o] \in Sids /\ target[o] \in Born /\ target[o] \in Keys
      BY <2>2, <2>3 DEF ModifyInv, Keys
    <3>2. row[target[o]] # NoRow
      BY <3>1, <2>3 DEF RowMove
    <3>3. /\ row[target[o]].ver <= row'[target[o]].ver
          /\ row'[target[o]].ver = row[target[o]].ver => row'[target[o]].val = row[target[o]].val
      BY <3>1, <3>2, <2>3 DEF RowMove
    <3>4. /\ copy[o].ver <= row[target[o]].ver
          /\ copy[o].ver = row[target[o]].ver => copy[o].val = row[target[o]].val
      BY <2>2, <2>3, <3>2 DEF ModifyInv
    <3>. QED
      BY <3>1, <3>2, <3>3, <3>4, <2>1, <2>3, <1>1, <1>2
  <2>4. pc[o] = "update" => target[o] \in Born'
    BY <2>2 DEF ModifyInv, RowMove
  <2>. QED
    BY <2>2, <2>3, <2>4 DEF ModifyInv
<1>4. ASSUME o \in Extends PROVE ExtendInv(o)'
  BY <1>4 DEF CallInv, Stays, ExtendInv
<1>5. ASSUME o \in Takes PROVE TakeInv(o)'
  BY <1>5 DEF CallInv, Stays, TakeInv, RowMove, Born
<1>6. ASSUME o \in Claims PROVE ClaimInv(o)'
  <2>1. ClaimInv(o) /\ pc'[o] = pc[o] /\ target'[o] = target[o] /\ won'[o] = won[o]
    BY <1>6 DEF CallInv, Stays
  <2>2. won[o].until \in Nat /\ clock \in Nat /\ clock' \in Nat /\ clock <= clock'
    BY <1>6 DEF Types, RowMove
  <2>3. ASSUME won[o] # Never
        PROVE  \/ won[o].until <= clock'
               \/ row'[target[o]] # NoRow /\ won[o].until <= row'[target[o]].exp
    <3>1. target[o] \in Marks /\ target[o] \in Keys
      BY <2>1, <2>3 DEF ClaimInv, Keys
    <3>2. CASE won[o].until <= clock
      BY <3>2, <2>2
    <3>3. CASE row[target[o]] # NoRow /\ won[o].until <= row[target[o]].exp
      BY <3>1, <3>3, <2>2, <1>1 DEF RowMove
    <3>. QED
      BY <2>1, <2>3, <3>2, <3>3 DEF ClaimInv
  <2>. QED
    BY <2>1, <2>3 DEF ClaimInv
<1>. QED
  BY <1>3, <1>4, <1>5, <1>6 DEF CallInv

LEMMA CreatedKept == ASSUME Created, RowMove PROVE Created'
BY DEF Created, RowMove

(* A step that moves no call keeps the invariant, and so does a step that   *)
(* moves one call properly.                                                 *)
LEMMA QuietKeeps ==
    ASSUME Inv, Types', RowMove, \A x \in Calls : Stays(x)
    PROVE  Inv'
<1>1. \A x \in Calls : CallInv(x)'
  BY StaysKept DEF Inv
<1>2. GrantedOnce'
  BY DEF Inv, GrantedOnce, ClaimedOnce, TakenOnce, Stays, Calls
<1>. QED
  BY <1>1, <1>2, CreatedKept DEF Inv

LEMMA MoveKeeps ==
    ASSUME Inv, Types', RowMove, NEW o \in Calls, Moves(o)
    PROVE  Inv'
<1>1. \A x \in Calls : CallInv(x)'
  BY StaysKept DEF Inv, Moves
<1>2. ClaimedOnce'
  <2>1. \A c \in Claims \ {o} : won'[c] = won[c] /\ target'[c] = target[c]
    BY DEF Moves, Stays, Calls
  <2>2. ASSUME NEW c \in Claims \ {o}, o \in Claims, Never \notin {won[c], won'[o]}, target[c] = target'[o]
        PROVE  won[c].until <= won'[o].from \/ won'[o].until <= won[c].from
    <3>1. CASE won'[o] = won[o] /\ (target'[o] = target[o] \/ won[o] = Never)
      BY <2>2, <3>1 DEF Inv, GrantedOnce, ClaimedOnce
    <3>2. CASE target'[o] = target[o] /\ won'[o].from = clock /\ ~Live(target[o], clock)
      <4>1. ClaimInv(c)
        BY <2>2 DEF Inv, CallInv, Calls
      <4>2. won[c].until \in Nat /\ clock \in Nat
        BY <2>2 DEF Inv, Types
      <4>3. target[c] \in Marks /\ target[c] \in Keys
        BY <4>1, <2>2 DEF ClaimInv, Keys
      <4>4. row[target[c]] # NoRow => row[target[c]].exp \in Nat
        BY <4>3, TableTyped DEF Inv
      <4>. QED
        BY <4>1, <4>2, <4>4, <3>2, <2>2 DEF ClaimInv, Live
    <3>. QED
      BY <2>2, <3>1, <3>2 DEF Moves, GrantedNow
  <2>. QED
    BY <2>1, <2>2 DEF ClaimedOnce, Inv, GrantedOnce
<1>3. TakenOnce'
  <2>1. \A g \in Takes \ {o} : pc'[g] = pc[g] /\ target'[g] = target[g]
    BY DEF Moves, Stays, Calls
  <2>2. \A g \in Takes : pc[g] = "done" => row[target[g]] = NoRow
    BY DEF Inv, CallInv, TakeInv, Calls
  <2>3. o \in Takes /\ pc'[o] = "done" => row[target'[o]] # NoRow
    BY DEF Moves, TakenNow
  <2>. QED
    BY <2>1, <2>2, <2>3 DEF TakenOnce, Inv, GrantedOnce
<1>. QED
  BY <1>1, <1>2, <1>3, CreatedKept DEF Inv, GrantedOnce
-----------------------------------------------------------------------------
(* The created sessions grow by the creates alone.                          *)
LEMMA BornKept ==
    ASSUME NEW o \in Calls, \A x \in Calls \ {o} : Stays(x),
           o \in Sids => (pc'[o] \in {"note", "select", "purge", "done"}
                            <=> pc[o] \in {"note", "select", "purge", "done"})
    PROVE  Born' = Born
BY DEF Born, Stays, Calls

(* A step that leaves the table alone.                                      *)
LEMMA TableKept ==
    ASSUME Types, UNCHANGED <<clock, row>>, Born' = Born
    PROVE  RowMove
<1>1. \A s \in Sids : row[s] # NoRow => row[s].ver \in Nat
  BY TableTyped DEF Keys
<1>. QED
  BY <1>1 DEF RowMove, Types

(* A step that changes the row of one session.                              *)
LEMMA SessionRowSet ==
    ASSUME Types, NEW s \in Sids, NEW r \in Rows \cup {NoRow},
           row' = [row EXCEPT ![s] = r], UNCHANGED clock, Born' = Born,
           r # NoRow => /\ row[s] # NoRow /\ row[s].ver <= r.ver
                        /\ r.ver = row[s].ver => r.val = row[s].val
    PROVE  RowMove
<1>1. \A k \in Keys \ {s} : row'[k] = row[k]
  BY DEF Types
<1>2. row'[s] = r
  BY DEF Types, Keys
<1>3. \A k \in Marks : k # s
  BY CallsDisjoint DEF Calls
<1>4. \A k \in Sids : row[k] # NoRow => row[k].ver \in Nat
  BY TableTyped DEF Keys
<1>. QED
  BY <1>1, <1>2, <1>3, <1>4 DEF RowMove, Types, Keys

(* The statement of a call is built.                                        *)
LEMMA CallKeeps ==
    ASSUME Inv, NEW o \in Calls, NEW k, NEW label, Call(o, k, label),
           label \notin {"idle", "start", "note", "select", "purge", "done", "update", "remove"},
           o \in Modifies \cup Extends => k \in Sids, o \in Claims => k \in Marks, o \notin Takes
    PROVE  Inv' /\ Born' = Born
<1>1. Types'
  BY DEF Inv, Types, Call, Goto
<1>2. \A x \in Calls \ {o} : Stays(x)
  BY DEF Inv, Types, Call, Goto, Stays
<1>3. pc[o] = "start" /\ pc'[o] = label /\ target'[o] = k /\ UNCHANGED <<clock, row, copy, won>>
  BY DEF Inv, Types, Call, Goto
<1>4. Born' = Born
  BY <1>2, <1>3, BornKept
<1>5. RowMove
  BY <1>3, <1>4, TableKept DEF Inv
<1>6. CallInv(o)'
  BY <1>3 DEF Inv, CallInv, ModifyInv, ExtendInv, TakeInv, ClaimInv
<1>7. Moves(o)
  BY <1>2, <1>3, <1>6 DEF Moves, GrantedNow, Inv, CallInv, ClaimInv
<1>. QED
  BY <1>1, <1>4, <1>5, <1>7, MoveKeeps

LEMMA CreateWriteKeeps ==
    ASSUME Inv, NEW s \in Sids, CreateWrite(s)
    PROVE  Inv' /\ Born' = Born \cup {s} /\ s \notin Born /\ row'[s].val = {} /\ row'[s] # NoRow
<1>. DEFINE r == [val |-> {}, ver |-> IF row[s] = NoRow THEN 1 ELSE row[s].ver + 1, exp |-> at[s] + TTL]
<1>1. r \in Rows /\ r # NoRow /\ r.val = {}
  <2>1. (IF row[s] = NoRow THEN 1 ELSE row[s].ver + 1) \in Nat
    BY TableTyped DEF Inv, Keys
  <2>2. at[s] + TTL \in Nat
    BY BoundsArePositive DEF Inv, Types, Calls
  <2>. QED
    BY <2>1, <2>2, RowIsRow
<1>2. /\ row' = [row EXCEPT ![s] = r] /\ pc[s] = "write" /\ pc' = [pc EXCEPT ![s] = "note"]
      /\ UNCHANGED <<clock, target, at, copy, stamp, won>>
  BY DEF CreateWrite, Set, Goto
<1>. HIDE DEF r
<1>3. Types'
  BY <1>1, <1>2 DEF Inv, Types
<1>4. \A x \in Calls \ {s} : Stays(x)
  BY <1>2 DEF Inv, Types, Stays
<1>5. s \in Calls /\ s \in Keys /\ pc'[s] = "note"
  BY <1>2 DEF Inv, Types, Calls, Keys
<1>6. s \notin Born /\ Born' = Born \cup {s}
  BY <1>2, <1>4, <1>5 DEF Born, Stays, Calls
<1>7. row'[s] = r /\ \A k \in Keys \ {s} : row'[k] = row[k]
  BY <1>2, <1>5 DEF Inv, Types
<1>8. row[s] = NoRow
  BY <1>6 DEF Inv, Created
<1>9. RowMove
  <2>1. \A k \in Marks : k # s /\ k \in Keys
    BY CallsDisjoint DEF Calls, Keys
  <2>2. \A k \in Sids : row[k] # NoRow => row[k].ver \in Nat
    BY TableTyped DEF Keys, Inv
  <2>. QED
    BY <1>2, <1>6, <1>7, <1>8, <2>1, <2>2 DEF RowMove, Inv, Types, Keys
<1>10. Moves(s)
  BY <1>4, CallsDisjoint DEF Moves, CallInv
<1>. QED
  BY <1>1, <1>3, <1>5, <1>6, <1>7, <1>9, <1>10, MoveKeeps

LEMMA ClaimRowKeeps ==
    ASSUME Inv, NEW c \in Claims, ClaimRow(c)
    PROVE  Inv' /\ Born' = Born /\ (\A s \in Sids : row'[s] = row[s])
<1>1. pc[c] = "claim" /\ UNCHANGED <<clock, target, at, copy, stamp>> /\ c \in Calls /\ c \notin Sids
  BY CallsDisjoint DEF ClaimRow, Calls
<1>2. ClaimInv(c) /\ target[c] \in Marks /\ target[c] \in Keys
  BY <1>1 DEF Inv, CallInv, ClaimInv, Keys
<1>3. c \notin Modifies /\ c \notin Extends /\ c \notin Takes
  BY CallsDisjoint
<1>4. CASE Live(target[c], clock)
  <2>1. pc' = [pc EXCEPT ![c] = "missing"] /\ UNCHANGED <<row, won>>
    BY <1>4 DEF ClaimRow, Goto
  <2>2. Types'
    BY <1>1, <2>1 DEF Inv, Types
  <2>3. (\A x \in Calls \ {c} : Stays(x)) /\ pc'[c] = "missing"
    BY <1>1, <2>1 DEF Inv, Types, Stays
  <2>4. Born' = Born
    BY <1>1, <2>3, BornKept
  <2>5. RowMove
    BY <1>1, <2>1, <2>4, TableKept DEF Inv
  <2>6. Moves(c)
    BY <1>1, <1>2, <1>3, <2>1, <2>3 DEF Moves, CallInv, ClaimInv, GrantedNow
  <2>. QED
    BY <1>1, <2>1, <2>2, <2>4, <2>5, <2>6, MoveKeeps
<1>5. CASE ~Live(target[c], clock)
  <2>. DEFINE r == [val |-> {}, ver |-> 1, exp |-> at[c] + TTL]
              w == [from |-> clock, until |-> at[c] + TTL]
  <2>1. r \in Rows /\ r # NoRow /\ w \in [from : Nat, until : Nat]
        /\ w.from = clock /\ w.until = r.exp /\ w.until \in Nat
    <3>1. at[c] + TTL \in Nat /\ clock \in Nat
      BY BoundsArePositive, <1>1 DEF Inv, Types
    <3>. QED
      BY <3>1, RowIsRow
  <2>2. /\ row' = [row EXCEPT ![target[c]] = r] /\ won' = [won EXCEPT ![c] = w]
        /\ pc' = [pc EXCEPT ![c] = "note"]
    BY <1>5 DEF ClaimRow, Set, Goto
  <2>. HIDE DEF r, w
  <2>3. Types'
    BY <1>1, <2>1, <2>2 DEF Inv, Types
  <2>4. (\A x \in Calls \ {c} : Stays(x)) /\ pc'[c] = "note" /\ won'[c] = w
    BY <1>1, <2>2 DEF Inv, Types, Stays
  <2>5. Born' = Born
    BY <1>1, <2>4, BornKept
  <2>6. row'[target[c]] = r /\ \A k \in Keys \ {target[c]} : row'[k] = row[k]
    BY <1>2, <2>2 DEF Inv, Types
  <2>7. \A s \in Sids : row'[s] = row[s]
    BY <1>2, <2>6, CallsDisjoint DEF Keys, Calls
  <2>8. RowMove
    <3>1. \A k \in Sids : row[k] # NoRow => row[k].ver \in Nat
      BY TableTyped DEF Keys, Inv
    <3>2. row[target[c]] # NoRow => row[target[c]].exp \in Nat /\ clock \in Nat
      BY <1>2, TableTyped DEF Inv, Types
    <3>3. row[target[c]] # NoRow => row[target[c]].exp <= clock
      BY <1>5, <3>2 DEF Live
    <3>. QED
      BY <1>1, <2>5, <2>6, <2>7, <3>1, <3>3 DEF RowMove, Inv, Types, Keys
  <2>9. ClaimInv(c)'
    BY <1>1, <1>2, <2>1, <2>4, <2>6 DEF ClaimInv
  <2>10. Moves(c)
    BY <1>1, <1>3, <1>5, <2>1, <2>4, <2>9 DEF Moves, CallInv, GrantedNow
  <2>. QED
    BY <1>1, <2>3, <2>5, <2>7, <2>8, <2>10, MoveKeeps
<1>. QED
  BY <1>4, <1>5

(* The writes are noted and the purge selects: the table stays as it is.    *)
LEMMA NoteKeeps ==
    ASSUME Inv, NEW o \in Writers, NoteWrite(o) \/ PurgeSelect(o)
    PROVE  Inv' /\ Born' = Born /\ UNCHANGED row
<1>1. /\ UNCHANGED <<clock, row, target, at, copy, stamp, won>> /\ o \in Calls
      /\ o \notin Modifies /\ o \notin Extends /\ o \notin Takes
  BY CallsDisjoint DEF NoteWrite, PurgeSelect, Writers, Calls
<1>2. pc[o] \in {"note", "select"} /\ \E label \in {"done", "select", "purge"} : pc' = [pc EXCEPT ![o] = label]
  BY DEF NoteWrite, PurgeSelect, Goto
<1>3. Types'
  BY <1>1, <1>2 DEF Inv, Types
<1>4. (\A x \in Calls \ {o} : Stays(x)) /\ pc'[o] \in {"done", "select", "purge"}
  BY <1>1, <1>2 DEF Inv, Types, Stays
<1>5. Born' = Born
  BY <1>1, <1>2, <1>4, BornKept
<1>6. RowMove
  BY <1>1, <1>5, TableKept DEF Inv
<1>7. o \in Claims => ClaimInv(o)'
  BY <1>1, <1>2, <1>4 DEF Inv, CallInv, ClaimInv
<1>8. Moves(o)
  BY <1>1, <1>4, <1>7 DEF Moves, CallInv, GrantedNow
<1>. QED
  BY <1>1, <1>3, <1>5, <1>6, <1>8, MoveKeeps

LEMMA PurgeKeeps ==
    ASSUME Inv, NEW o \in Writers, PurgeDelete(o)
    PROVE  Inv' /\ Born' = Born
<1>1. /\ UNCHANGED <<clock, target, at, copy, stamp, won>> /\ o \in Calls
      /\ o \notin Modifies /\ o \notin Extends /\ o \notin Takes
  BY CallsDisjoint DEF PurgeDelete, Writers, Calls
<1>2. pc[o] = "purge" /\ \E label \in {"done", "select"} : pc' = [pc EXCEPT ![o] = label]
  BY DEF PurgeDelete, Goto
<1>3. \A k \in Keys : row'[k] = row[k] \/ (row'[k] = NoRow /\ row[k].exp <= clock)
  BY DEF PurgeDelete, Expired
<1>4. Types'
  <2>1. row' = [k \in Keys |-> IF k \in batch[o] \cap Expired(clock) THEN NoRow ELSE row[k]]
    BY DEF PurgeDelete
  <2>2. row' \in [Keys -> Rows \cup {NoRow}]
    BY <2>1 DEF Inv, Types
  <2>. QED
    BY <1>1, <1>2, <2>2 DEF Inv, Types
<1>5. (\A x \in Calls \ {o} : Stays(x)) /\ pc'[o] \in {"done", "select"}
  BY <1>1, <1>2 DEF Inv, Types, Stays
<1>6. Born' = Born
  BY <1>1, <1>2, <1>5, BornKept
<1>7. RowMove
  <2>1. \A s \in Sids : row[s] # NoRow => row[s].ver \in Nat
    BY TableTyped DEF Keys, Inv
  <2>. QED
    BY <1>1, <1>3, <1>6, <2>1 DEF RowMove, Inv, Types, Keys
<1>8. o \in Claims => ClaimInv(o)'
  <2>. SUFFICES ASSUME o \in Claims PROVE ClaimInv(o)'
    OBVIOUS
  <2>1. ClaimInv(o) /\ target[o] \in Marks /\ target[o] \in Keys
    BY <1>1, <1>2 DEF Inv, CallInv, ClaimInv, Keys
  <2>2. won[o].until \in Nat /\ clock \in Nat
    BY DEF Inv, Types
  <2>3. row[target[o]] # NoRow => row[target[o]].exp \in Nat
    BY <2>1, TableTyped DEF Inv
  <2>. QED
    BY <1>1, <1>3, <1>5, <2>1, <2>2, <2>3 DEF ClaimInv
<1>9. Moves(o)
  BY <1>1, <1>5, <1>8 DEF Moves, CallInv, GrantedNow
<1>. QED
  BY <1>1, <1>4, <1>6, <1>7, <1>9, MoveKeeps
LEMMA ModifyReadKeeps ==
    ASSUME Inv, NEW m \in Modifies, ModifyRead(m)
    PROVE  Inv' /\ Born' = Born /\ UNCHANGED row
<1>1. /\ UNCHANGED <<clock, row, target, at, won>> /\ pc[m] = "read"
      /\ m \in Calls /\ m \notin Sids /\ m \notin Extends /\ m \notin Takes /\ m \notin Claims
  BY CallsDisjoint DEF ModifyRead, Calls
<1>2. target[m] \in Sids /\ target[m] \in Keys
  BY <1>1 DEF Inv, CallInv, ModifyInv, Keys
<1>3. CASE Live(target[m], at[m])
  <2>1. /\ copy' = [copy EXCEPT ![m] = row[target[m]]] /\ stamp' = [stamp EXCEPT ![m] = clock]
        /\ pc' = [pc EXCEPT ![m] = "update"]
    BY <1>3 DEF ModifyRead, Goto
  <2>2. row[target[m]] # NoRow /\ row[target[m]] \in Rows /\ row[target[m]].ver \in Nat
    BY <1>2, <1>3, TableTyped DEF Live, Inv
  <2>3. Types'
    BY <1>1, <2>1, <2>2 DEF Inv, Types
  <2>4. (\A x \in Calls \ {m} : Stays(x)) /\ pc'[m] = "update" /\ copy'[m] = row[target[m]]
    BY <1>1, <2>1 DEF Inv, Types, Stays
  <2>5. Born' = Born
    BY <1>1, <2>4, BornKept
  <2>6. ModifyInv(m)'
    BY <1>1, <1>2, <2>2, <2>4, <2>5 DEF ModifyInv, Inv, Created
  <2>7. Moves(m)
    BY <1>1, <2>4, <2>6 DEF Moves, CallInv
  <2>. QED
    BY <1>1, <2>3, <2>5, <2>7, TableKept, MoveKeeps DEF Inv
<1>4. CASE ~Live(target[m], at[m])
  <2>1. pc' = [pc EXCEPT ![m] = "missing"] /\ UNCHANGED <<copy, stamp>>
    BY <1>4 DEF ModifyRead, Goto
  <2>2. Types'
    BY <1>1, <2>1 DEF Inv, Types
  <2>3. (\A x \in Calls \ {m} : Stays(x)) /\ pc'[m] = "missing"
    BY <1>1, <2>1 DEF Inv, Types, Stays
  <2>4. Born' = Born
    BY <1>1, <2>3, BornKept
  <2>5. Moves(m)
    BY <1>1, <2>3 DEF Moves, CallInv, ModifyInv
  <2>. QED
    BY <1>1, <2>2, <2>4, <2>5, TableKept, MoveKeeps DEF Inv
<1>. QED
  BY <1>3, <1>4

(* The guarded UPDATE: it adds the caller's change to the row as it is, or  *)
(* leaves the row alone.                                                    *)
LEMMA ModifyUpdateKeeps ==
    ASSUME Inv, NEW m \in Modifies, ModifyUpdate(m)
    PROVE  /\ Inv' /\ Born' = Born
           /\ \/ UNCHANGED row
              \/ /\ target[m] \in Sids /\ row[target[m]] # NoRow /\ row'[target[m]] # NoRow
                 /\ row'[target[m]].val = row[target[m]].val \cup {m}
                 /\ \A k \in Keys \ {target[m]} : row'[k] = row[k]
<1>1. /\ UNCHANGED <<clock, target, at, copy, stamp, won>> /\ pc[m] = "update"
      /\ m \in Calls /\ m \notin Sids /\ m \notin Extends /\ m \notin Takes /\ m \notin Claims
  BY CallsDisjoint DEF ModifyUpdate, Calls
<1>2. ModifyInv(m) /\ target[m] \in Sids /\ target[m] \in Keys
  BY <1>1 DEF Inv, CallInv, ModifyInv, Keys
<1>3. CASE UnchangedVersion(m)
  <2>1. row[target[m]] # NoRow /\ row[target[m]].ver = copy[m].ver /\ row[target[m]].val = copy[m].val
    BY <1>1, <1>2, <1>3 DEF UnchangedVersion, Live, ModifyInv
  <2>2. row[target[m]].ver \in Nat /\ row[target[m]].exp \in Nat /\ row[target[m]].val \in SUBSET Modifies
    BY <1>2, <2>1, TableTyped DEF Inv
  <2>3. PICK exp \in {stamp[m] + TTL, row[target[m]].exp} :
               Set(target[m], [val |-> copy[m].val \cup {m}, ver |-> copy[m].ver + 1, exp |-> exp])
    BY <1>3 DEF ModifyUpdate
  <2>4. exp \in Nat
    BY <2>2, <2>3, BoundsArePositive DEF Inv, Types
  <2>. DEFINE r == [val |-> copy[m].val \cup {m}, ver |-> copy[m].ver + 1, exp |-> exp]
  <2>5. r \in Rows /\ r # NoRow /\ r.val = row[target[m]].val \cup {m} /\ r.ver = row[target[m]].ver + 1
    <3>1. copy[m].val \cup {m} \in SUBSET Modifies /\ copy[m].ver + 1 \in Nat
      BY <2>1, <2>2
    <3>. QED
      BY <2>1, <2>4, <3>1, RowIsRow
  <2>6. row' = [row EXCEPT ![target[m]] = r] /\ pc' = [pc EXCEPT ![m] = "done"]
    BY <1>3, <2>3 DEF ModifyUpdate, Set, Goto
  <2>. HIDE DEF r
  <2>7. Types'
    BY <1>1, <2>5, <2>6 DEF Inv, Types
  <2>8. (\A x \in Calls \ {m} : Stays(x)) /\ pc'[m] = "done"
    BY <1>1, <2>6 DEF Inv, Types, Stays
  <2>9. Born' = Born
    BY <1>1, <2>8, BornKept
  <2>10. RowMove
    <3>1. row[target[m]].ver <= r.ver /\ r.ver # row[target[m]].ver
      BY <2>2, <2>5
    <3>. QED
      BY <1>1, <1>2, <2>1, <2>5, <2>6, <2>9, <3>1, SessionRowSet DEF Inv
  <2>11. Moves(m)
    BY <1>1, <2>8 DEF Moves, CallInv, ModifyInv
  <2>12. row'[target[m]] = r /\ \A k \in Keys \ {target[m]} : row'[k] = row[k]
    BY <1>2, <2>6 DEF Inv, Types
  <2>. QED
    BY <1>1, <1>2, <2>1, <2>5, <2>7, <2>9, <2>10, <2>11, <2>12, MoveKeeps
<1>4. CASE ~UnchangedVersion(m)
  <2>1. UNCHANGED row /\ \E label \in {"read", "gaveup"} : pc' = [pc EXCEPT ![m] = label]
    BY <1>4 DEF ModifyUpdate, ModifyLost, Goto
  <2>2. Types'
    BY <1>1, <2>1 DEF Inv, Types
  <2>3. (\A x \in Calls \ {m} : Stays(x)) /\ pc'[m] \in {"read", "gaveup"}
    BY <1>1, <2>1 DEF Inv, Types, Stays
  <2>4. Born' = Born
    BY <1>1, <2>3, BornKept
  <2>5. Moves(m)
    BY <1>1, <1>2, <2>3 DEF Moves, CallInv, ModifyInv
  <2>. QED
    BY <1>1, <2>1, <2>2, <2>4, <2>5, TableKept, MoveKeeps DEF Inv
<1>. QED
  BY <1>3, <1>4

LEMMA ExtendRowKeeps ==
    ASSUME Inv, NEW e \in Extends, ExtendRow(e)
    PROVE  /\ Inv' /\ Born' = Born
           /\ \A k \in Keys :
                 \/ row'[k] = row[k]
                 \/ row[k] # NoRow /\ row'[k] # NoRow /\ row'[k].val = row[k].val
<1>1. /\ UNCHANGED <<clock, target, at, copy, stamp, won>> /\ pc[e] = "extend"
      /\ e \in Calls /\ e \notin Sids /\ e \notin Modifies /\ e \notin Takes /\ e \notin Claims
  BY CallsDisjoint DEF ExtendRow, Calls
<1>2. target[e] \in Sids /\ target[e] \in Keys
  BY <1>1 DEF Inv, CallInv, ExtendInv, Keys
<1>3. \E label \in {"done", "missing"} : pc' = [pc EXCEPT ![e] = label]
  BY DEF ExtendRow, Goto
<1>4. (\A x \in Calls \ {e} : Stays(x)) /\ pc'[e] \in {"done", "missing"}
  BY <1>1, <1>3 DEF Inv, Types, Stays
<1>5. Born' = Born
  BY <1>1, <1>4, BornKept
<1>6. Moves(e)
  BY <1>1, <1>4 DEF Moves, CallInv, ExtendInv
<1>7. CASE Live(target[e], at[e])
  <2>. DEFINE r == [row[target[e]] EXCEPT !.exp = at[e] + TTL]
  <2>1. row[target[e]] # NoRow /\ row[target[e]] \in Rows /\ row[target[e]].ver \in Nat
    BY <1>2, <1>7, TableTyped DEF Live, Inv
  <2>2. r \in Rows /\ r # NoRow /\ r.val = row[target[e]].val /\ r.ver = row[target[e]].ver
    <3>1. at[e] + TTL \in Nat
      BY <1>1, BoundsArePositive DEF Inv, Types
    <3>2. r \in Rows /\ r.val = row[target[e]].val /\ r.ver = row[target[e]].ver
      BY <2>1, <3>1 DEF Rows
    <3>. QED
      BY <3>2, NoRowIsNoValue
  <2>3. row' = [row EXCEPT ![target[e]] = r]
    BY <1>7 DEF ExtendRow
  <2>. HIDE DEF r
  <2>4. Types'
    BY <1>1, <1>3, <2>2, <2>3 DEF Inv, Types
  <2>5. RowMove
    <3>1. row[target[e]].ver <= r.ver
      BY <2>1, <2>2
    <3>. QED
      BY <1>1, <1>2, <1>5, <2>1, <2>2, <2>3, <3>1, SessionRowSet DEF Inv
  <2>6. row'[target[e]] = r /\ \A k \in Keys \ {target[e]} : row'[k] = row[k]
    BY <1>2, <2>3 DEF Inv, Types
  <2>7. Inv'
    BY <1>1, <1>6, <2>4, <2>5, MoveKeeps
  <2>. QED
    BY <1>5, <2>1, <2>2, <2>6, <2>7
<1>8. CASE ~Live(target[e], at[e])
  <2>1. UNCHANGED row
    BY <1>8 DEF ExtendRow
  <2>2. Types'
    BY <1>1, <1>3, <2>1 DEF Inv, Types
  <2>3. Inv'
    BY <1>1, <1>5, <1>6, <2>1, <2>2, TableKept, MoveKeeps DEF Inv
  <2>. QED
    BY <1>5, <2>1, <2>3
<1>. QED
  BY <1>7, <1>8

(* A delete, and a get_and_delete, remove one row or leave the table alone. *)
LEMMA RemovalKeeps ==
    ASSUME Inv, NEW o \in Deletes \cup Takes, NEW s \in Sids, NEW label,
           target' = [target EXCEPT ![o] = s], pc' = [pc EXCEPT ![o] = label],
           UNCHANGED <<clock, at, copy, stamp, won>>,
           row' = row \/ row' = [row EXCEPT ![s] = NoRow],
           o \in Takes /\ label = "done" => row[s] # NoRow /\ row' = [row EXCEPT ![s] = NoRow]
    PROVE  Inv' /\ Born' = Born
<1>1. o \in Calls /\ o \notin Sids /\ o \notin Modifies /\ o \notin Extends /\ o \notin Claims /\ s \in Keys
  BY CallsDisjoint DEF Calls, Keys
<1>2. Types'
  BY <1>1 DEF Inv, Types
<1>3. (\A x \in Calls \ {o} : Stays(x)) /\ pc'[o] = label /\ target'[o] = s
  BY <1>1 DEF Inv, Types, Stays
<1>4. Born' = Born
  BY <1>1, <1>3, BornKept
<1>5. RowMove
  BY <1>4, TableKept, SessionRowSet DEF Inv
<1>6. o \in Takes => TakeInv(o)'
  BY <1>1, <1>3, <1>4 DEF TakeInv, Inv, Types, Created
<1>7. Moves(o)
  BY <1>1, <1>3, <1>6 DEF Moves, CallInv, TakenNow
<1>. QED
  BY <1>1, <1>2, <1>4, <1>5, <1>7, MoveKeeps

LEMMA TakeKeeps ==
    ASSUME Inv, NEW g \in Takes, TakeStep(g)
    PROVE  /\ Inv' /\ Born' = Born
           /\ \/ UNCHANGED row
              \/ \E s \in Sids : row' = [row EXCEPT ![s] = NoRow] /\ target'[g] = s /\ pc'[g] # pc[g]
<1>. /\ g \in Deletes \cup Takes /\ g \in Calls /\ g \notin Sids
     /\ g \notin Modifies /\ g \notin Extends /\ g \notin Claims
  BY CallsDisjoint DEF Calls
<1>1. ASSUME NEW s \in Sids, TakeReturning(g, s)
      PROVE  /\ Inv' /\ Born' = Born
             /\ \/ UNCHANGED row
                \/ row' = [row EXCEPT ![s] = NoRow] /\ target'[g] = s /\ pc'[g] # pc[g]
  <2>1. /\ target' = [target EXCEPT ![g] = s] /\ UNCHANGED <<clock, at, copy, stamp, won>> /\ pc[g] = "take"
    BY <1>1 DEF TakeReturning
  <2>2. \/ /\ row[s] # NoRow /\ row' = [row EXCEPT ![s] = NoRow] /\ pc' = [pc EXCEPT ![g] = "done"]
        \/ UNCHANGED row /\ pc' = [pc EXCEPT ![g] = "missing"]
    BY <1>1 DEF TakeReturning, Set, Goto, Live
  <2>3. Inv' /\ Born' = Born
    BY <2>1, <2>2, RemovalKeeps
  <2>4. target'[g] = s /\ pc'[g] # pc[g]
    BY <2>1, <2>2 DEF Inv, Types
  <2>. QED
    BY <2>2, <2>3, <2>4
<1>2. ASSUME NEW s \in Sids, TakeLook(g, s)
      PROVE  Inv' /\ Born' = Born /\ UNCHANGED row
  <2>1. /\ target' = [target EXCEPT ![g] = s] /\ UNCHANGED <<clock, row, at, stamp, won>> /\ s \in Keys
    BY <1>2 DEF TakeLook, Keys
  <2>2. \/ /\ row[s] # NoRow /\ copy' = [copy EXCEPT ![g] = row[s]] /\ pc' = [pc EXCEPT ![g] = "remove"]
        \/ UNCHANGED copy /\ pc' = [pc EXCEPT ![g] = "missing"]
    BY <1>2 DEF TakeLook, Goto, Live
  <2>3. Types'
    BY <2>1, <2>2 DEF Inv, Types
  <2>4. (\A x \in Calls \ {g} : Stays(x)) /\ pc'[g] \in {"remove", "missing"} /\ target'[g] = s
    BY <2>1, <2>2 DEF Inv, Types, Stays
  <2>5. Born' = Born
    BY <2>4, BornKept
  <2>6. Moves(g)
    BY <2>4 DEF Moves, CallInv, TakeInv, TakenNow
  <2>7. RowMove
    BY <2>1, <2>5, TableKept DEF Inv
  <2>. QED
    BY <2>1, <2>3, <2>5, <2>6, <2>7, MoveKeeps
<1>3. ASSUME TakeRemove(g)
      PROVE  /\ Inv' /\ Born' = Born
             /\ UNCHANGED row \/ (/\ target[g] \in Sids /\ row' = [row EXCEPT ![target[g]] = NoRow]
                                  /\ target'[g] = target[g] /\ pc'[g] # pc[g])
  <2>1. UNCHANGED <<clock, target, at, copy, stamp, won>> /\ pc[g] = "remove"
    BY <1>3 DEF TakeRemove
  <2>2. target[g] \in Sids
    BY <2>1 DEF Inv, CallInv, TakeInv
  <2>3. \/ /\ row[target[g]] # NoRow /\ row' = [row EXCEPT ![target[g]] = NoRow]
           /\ pc' = [pc EXCEPT ![g] = "done"]
        \/ UNCHANGED row /\ pc' = [pc EXCEPT ![g] = "missing"]
    BY <1>3 DEF TakeRemove, Set, Goto, Live
  <2>4. target' = [target EXCEPT ![g] = target[g]]
    BY <2>1 DEF Inv, Types
  <2>5. Inv' /\ Born' = Born
    <3>1. PICK s \in Sids : s = target[g]
      BY <2>2
    <3>2. \/ /\ row[s] # NoRow /\ row' = [row EXCEPT ![s] = NoRow] /\ pc' = [pc EXCEPT ![g] = "done"]
          \/ UNCHANGED row /\ pc' = [pc EXCEPT ![g] = "missing"]
      BY <2>3, <3>1
    <3>3. target' = [target EXCEPT ![g] = s]
      BY <2>4, <3>1
    <3>4. UNCHANGED <<clock, at, copy, stamp, won>>
      BY <2>1
    <3>. QED
      BY <3>2, <3>3, <3>4, RemovalKeeps
  <2>6. target'[g] = target[g] /\ pc'[g] # pc[g]
    BY <2>1, <2>3 DEF Inv, Types
  <2>. QED
    BY <2>2, <2>3, <2>5, <2>6
<1>. QED
  BY <1>1, <1>2, <1>3 DEF TakeStep

LEMMA DeleteKeeps ==
    ASSUME Inv, NEW d \in Deletes, NEW s \in Sids, DeleteRow(d, s)
    PROVE  /\ Inv' /\ Born' = Born
           /\ row' = [row EXCEPT ![s] = NoRow] /\ target'[d] = s /\ pc'[d] # pc[d]
<1>1. d \in Deletes \cup Takes /\ d \in Calls /\ d \notin Takes
  BY CallsDisjoint DEF Calls
<1>2. /\ target' = [target EXCEPT ![d] = s] /\ row' = [row EXCEPT ![s] = NoRow] /\ pc[d] = "start"
      /\ UNCHANGED <<clock, at, copy, stamp, won>>
  BY DEF DeleteRow, Set
<1>3. \E label \in {"done", "missing"} : pc' = [pc EXCEPT ![d] = label]
  BY DEF DeleteRow, Goto
<1>4. Inv' /\ Born' = Born
  BY <1>1, <1>2, <1>3, RemovalKeeps
<1>. QED
  BY <1>1, <1>2, <1>3, <1>4 DEF Inv, Types

LEMMA TickKeeps == ASSUME Inv, Tick \/ UNCHANGED vars PROVE Inv' /\ Born' = Born /\ UNCHANGED row
<1>1. /\ UNCHANGED <<row, pc, target, at, copy, stamp, won>>
      /\ clock' \in Nat /\ clock <= clock'
  BY DEF Tick, vars, Inv, Types
<1>2. Types' /\ (\A x \in Calls : Stays(x)) /\ Born' = Born
  BY <1>1 DEF Inv, Types, Stays, Born
<1>3. RowMove
  <2>1. \A s \in Sids : row[s] # NoRow => row[s].ver \in Nat
    BY TableTyped DEF Keys, Inv
  <2>. QED
    BY <1>1, <1>2, <2>1 DEF RowMove
<1>. QED
  BY <1>1, <1>2, <1>3, QuietKeeps

-----------------------------------------------------------------------------
(* Every step keeps the invariant, and is a step of the abstract store.     *)
Simulates == Inv' /\ [Store!Next]_<<Value, Born>>

LEMMA ValueKept ==
    ASSUME Inv, Inv', Born' = Born,
           \A s \in Sids : \/ row'[s] = row[s]
                           \/ row[s] # NoRow /\ row'[s] # NoRow /\ row'[s].val = row[s].val
    PROVE  Simulates
<1>1. Value' = Value
  BY DEF Value
<1>. QED
  BY <1>1 DEF Simulates

LEMMA PurgeSimulates ==
    ASSUME Inv, Inv', Born' = Born, NEW keys \in SUBSET Sids,
           \A s \in Sids : row'[s] = IF s \in keys THEN NoRow ELSE row[s]
    PROVE  Simulates
<1>1. Value' = [s \in Sids |-> IF s \in keys THEN NoRow ELSE Value[s]]
  BY DEF Value
<1>2. Store!Purge(keys)
  BY <1>1 DEF Store!Purge
<1>. QED
  BY <1>2 DEF Simulates, Store!Next

LEMMA RemoveSimulates ==
    ASSUME Inv, Inv', Born' = Born, NEW s \in Sids, row' = [row EXCEPT ![s] = NoRow]
    PROVE  Simulates
<1>1. \A x \in Sids : row'[x] = IF x \in {s} THEN NoRow ELSE row[x]
  BY DEF Inv, Types, Keys
<1>. QED
  BY <1>1, PurgeSimulates

LEMMA WriterStep ==
    ASSUME Inv, NEW o \in Writers, PurgeStep(o)
    PROVE  Simulates
<1>1. CASE NoteWrite(o) \/ PurgeSelect(o)
  BY <1>1, NoteKeeps, ValueKept
<1>2. CASE PurgeDelete(o)
  <2>. DEFINE keys == {s \in Sids : s \in batch[o] \cap Expired(clock)}
  <2>1. \A s \in Sids : row'[s] = IF s \in keys THEN NoRow ELSE row[s]
    BY <1>2 DEF PurgeDelete, Keys
  <2>2. keys \in SUBSET Sids
    OBVIOUS
  <2>3. Inv' /\ Born' = Born
    BY <1>2, PurgeKeeps
  <2>. HIDE DEF keys
  <2>. QED
    BY <2>1, <2>2, <2>3, PurgeSimulates
<1>. QED
  BY <1>1, <1>2 DEF PurgeStep

LEMMA StepSimulates == Inv /\ [Next]_vars => Simulates
<1>. SUFFICES ASSUME Inv, [Next]_vars PROVE Simulates
  OBVIOUS
<1>1. ASSUME NEW s \in Sids, CreateStep(s) PROVE Simulates
  <2>1. CASE CreateCall(s)
    <3>1. s \in Calls /\ s \notin Modifies \cup Extends /\ s \notin Claims /\ s \notin Takes
      BY CallsDisjoint DEF Calls
    <3>2. Call(s, s, "write") /\ UNCHANGED row
      BY <2>1 DEF CreateCall, Call
    <3>3. Inv' /\ Born' = Born
      BY <3>1, <3>2, CallKeeps
    <3>. QED
      BY <3>2, <3>3, ValueKept
  <2>2. CASE CreateWrite(s)
    <3>1. /\ Inv' /\ Born' = Born \cup {s} /\ s \notin Born /\ row'[s].val = {} /\ row'[s] # NoRow
      BY <2>2, CreateWriteKeeps
    <3>2. \A x \in Sids \ {s} : row'[x] = row[x]
      BY <2>2 DEF CreateWrite, Set, Inv, Types, Keys
    <3>3. Value' = [Value EXCEPT ![s] = {}]
      BY <3>1, <3>2 DEF Value
    <3>4. Store!Create(s)
      BY <3>1, <3>3 DEF Store!Create
    <3>. QED
      BY <3>1, <3>4 DEF Simulates, Store!Next
  <2>. QED
    BY <1>1, <2>1, <2>2, WriterStep DEF CreateStep, Writers
<1>2. ASSUME NEW c \in Claims, ClaimStep(c) PROVE Simulates
  <2>1. ASSUME NEW k \in Marks, ClaimCall(c, k) PROVE Simulates
    <3>1. c \in Calls /\ c \notin Modifies \cup Extends /\ c \notin Takes
      BY CallsDisjoint DEF Calls
    <3>2. Call(c, k, "claim") /\ UNCHANGED row
      BY <2>1 DEF ClaimCall, Call
    <3>3. Inv' /\ Born' = Born
      BY <3>1, <3>2, CallKeeps
    <3>. QED
      BY <3>2, <3>3, ValueKept
  <2>2. CASE ClaimRow(c)
    BY <2>2, ClaimRowKeeps, ValueKept
  <2>. QED
    BY <1>2, <2>1, <2>2, WriterStep DEF ClaimStep, Writers
<1>3. ASSUME NEW m \in Modifies, ModifyStep(m) PROVE Simulates
  <2>1. ASSUME NEW s \in Sids, ModifyCall(m, s) PROVE Simulates
    <3>1. m \in Calls /\ m \notin Claims /\ m \notin Takes
      BY CallsDisjoint DEF Calls
    <3>2. Call(m, s, "read") /\ UNCHANGED row
      BY <2>1 DEF ModifyCall, Call
    <3>3. Inv' /\ Born' = Born
      BY <3>1, <3>2, CallKeeps
    <3>. QED
      BY <3>2, <3>3, ValueKept
  <2>2. CASE ModifyRead(m)
    BY <2>2, ModifyReadKeeps, ValueKept
  <2>3. CASE ModifyUpdate(m)
    <3>1. Inv' /\ Born' = Born
      BY <2>3, ModifyUpdateKeeps
    <3>2. CASE UNCHANGED row
      BY <3>1, <3>2, ValueKept
    <3>3. CASE /\ target[m] \in Sids /\ row[target[m]] # NoRow /\ row'[target[m]] # NoRow
               /\ row'[target[m]].val = row[target[m]].val \cup {m}
               /\ \A k \in Keys \ {target[m]} : row'[k] = row[k]
      <4>1. Value[target[m]] # NoRow
        BY <3>3, TableTyped, NoRowIsNoValue DEF Value, Inv, Keys
      <4>2. Value' = [Value EXCEPT ![target[m]] = Value[target[m]] \cup {m}]
        BY <3>3 DEF Value, Keys
      <4>3. Store!Modify(target[m], m)
        BY <3>1, <4>1, <4>2 DEF Store!Modify
      <4>. QED
        BY <3>1, <3>3, <4>3 DEF Simulates, Store!Next
    <3>. QED
      BY <2>3, <3>2, <3>3, ModifyUpdateKeeps
  <2>. QED
    BY <1>3, <2>1, <2>2, <2>3 DEF ModifyStep
<1>4. ASSUME NEW e \in Extends, ExtendStep(e) PROVE Simulates
  <2>1. ASSUME NEW s \in Sids, ExtendCall(e, s) PROVE Simulates
    <3>1. e \in Calls /\ e \notin Claims /\ e \notin Takes
      BY CallsDisjoint DEF Calls
    <3>2. Call(e, s, "extend") /\ UNCHANGED row
      BY <2>1 DEF ExtendCall, Call
    <3>3. Inv' /\ Born' = Born
      BY <3>1, <3>2, CallKeeps
    <3>. QED
      BY <3>2, <3>3, ValueKept
  <2>2. CASE ExtendRow(e)
    BY <2>2, ExtendRowKeeps, ValueKept DEF Keys
  <2>. QED
    BY <1>4, <2>1, <2>2 DEF ExtendStep
<1>5. ASSUME NEW d \in Deletes, NEW s \in Sids, DeleteRow(d, s) PROVE Simulates
  BY <1>5, DeleteKeeps, RemoveSimulates
<1>6. ASSUME NEW g \in Takes, TakeStep(g) PROVE Simulates
  BY <1>6, TakeKeeps, ValueKept, RemoveSimulates
<1>7. CASE Tick \/ UNCHANGED vars
  BY <1>7, TickKeeps, ValueKept
<1>. QED
  BY <1>1, <1>2, <1>3, <1>4, <1>5, <1>6, <1>7 DEF Next

LEMMA InvInit == Init => Inv /\ Store!Init
<1>. SUFFICES ASSUME Init PROVE Inv /\ Store!Init
  OBVIOUS
<1>1. Blank \in Rows /\ Never \in [from : Nat, until : Nat]
  BY RowIsRow DEF Blank, Never
<1>2. Types
  BY <1>1 DEF Init, Types
<1>3. \A s \in Sids : row[s] = NoRow /\ s \notin Born
  BY CallsDisjoint DEF Init, Keys, Calls, Born
<1>4. \A o \in Calls : pc[o] \in {"idle", "start", "take", "look"} /\ (o \in Claims => pc[o] \in {"idle", "start"})
  BY CallsDisjoint DEF Init
<1>5. \A c \in Claims : won[c] = Never
  BY DEF Init
<1>6. \A o \in Calls : CallInv(o)
  BY <1>4, <1>5 DEF CallInv, ModifyInv, ExtendInv, TakeInv, ClaimInv
<1>7. GrantedOnce
  BY <1>4, <1>5 DEF GrantedOnce, ClaimedOnce, TakenOnce, Calls
<1>8. Store!Init
  BY <1>3 DEF Store!Init, Value, Born
<1>. QED
  BY <1>2, <1>3, <1>6, <1>7, <1>8 DEF Inv, Created

-----------------------------------------------------------------------------
(* The SQL backend implements the abstract session store: every call takes  *)
(* effect in one step, no change of a modify() is lost, and no removed row  *)
(* comes back (database.py modify, create, delete, get_and_delete, _purge). *)
THEOREM DatabaseImplementsStore == Spec => ImplementsStore
<1>1. Spec => []Inv
  BY InvInit, StepSimulates, PTL DEF Spec, Simulates
<1>2. Inv /\ [Next]_vars => [Store!Next]_<<Value, Born>>
  BY StepSimulates DEF Simulates
<1>. QED
  BY <1>1, <1>2, InvInit, PTL DEF Spec, ImplementsStore, Store!Spec

(* A mark is granted to one claim while it lasts, and a stored value is     *)
(* handed to one get_and_delete() (database.py set_if_absent,               *)
(* get_and_delete).                                                         *)
THEOREM OneCallerGetsIt == Spec => []GrantedOnce
<1>1. Spec => []Inv
  BY InvInit, StepSimulates, PTL DEF Spec, Simulates
<1>2. Inv => GrantedOnce
  BY DEF Inv
<1>. QED
  BY <1>1, <1>2, PTL

(* A live row disappears only by a delete() or a get_and_delete() of its    *)
(* key: the purge looks at the clock again (database.py _purge).            *)
LEMMA StepSparesLive ==
    ASSUME Inv, [Next]_vars, NEW k \in Keys, Live(k, clock), row'[k] = NoRow
    PROVE  \E o \in Deletes \cup Takes : target'[o] = k /\ pc'[o] # pc[o]
<1>1. row'[k] # row[k]
  BY DEF Live
<1>2. row[k].exp \in Nat /\ clock \in Nat /\ ~(row[k].exp <= clock)
  BY TableTyped DEF Live, Inv, Types
<1>3. ASSUME NEW s \in Sids, row' = [row EXCEPT ![s] = NoRow] PROVE s = k
  BY <1>1, <1>3 DEF Inv, Types
<1>4. ASSUME NEW o \in Writers, PurgeStep(o) PROVE FALSE
  BY <1>1, <1>2, <1>4 DEF PurgeStep, NoteWrite, PurgeSelect, PurgeDelete, Expired
<1>5. ASSUME NEW s \in Sids, CreateStep(s) PROVE FALSE
  <2>1. CASE CreateWrite(s)
    <3>1. row'[s] # NoRow
      BY <2>1, CreateWriteKeeps
    <3>. QED
      BY <1>1, <2>1, <3>1 DEF CreateWrite, Set, Inv, Types
  <2>. QED
    BY <1>1, <1>4, <1>5, <2>1 DEF CreateStep, CreateCall, Call, Writers
<1>6. ASSUME NEW c \in Claims, ClaimStep(c) PROVE FALSE
  <2>1. CASE ClaimRow(c)
    <3>1. c \in Calls /\ at[c] + TTL \in Nat
      BY BoundsArePositive DEF Inv, Types, Calls
    <3>2. [val |-> {}, ver |-> 1, exp |-> at[c] + TTL] # NoRow
      BY <3>1, RowIsRow
    <3>. QED
      BY <1>1, <2>1, <3>2 DEF ClaimRow, Set, Inv, Types
  <2>. QED
    BY <1>1, <1>4, <1>6, <2>1 DEF ClaimStep, ClaimCall, Call, Writers
<1>7. ASSUME NEW m \in Modifies, ModifyStep(m) PROVE FALSE
  <2>1. CASE ModifyUpdate(m)
    BY <1>1, <2>1, ModifyUpdateKeeps
  <2>. QED
    BY <1>1, <1>7, <2>1 DEF ModifyStep, ModifyCall, ModifyRead, Call
<1>8. ASSUME NEW e \in Extends, ExtendStep(e) PROVE FALSE
  <2>1. CASE ExtendRow(e)
    BY <1>1, <2>1, ExtendRowKeeps
  <2>. QED
    BY <1>1, <1>8, <2>1 DEF ExtendStep, ExtendCall, Call
<1>9. ASSUME NEW d \in Deletes, NEW s \in Sids, DeleteRow(d, s)
      PROVE  \E o \in Deletes \cup Takes : target'[o] = k /\ pc'[o] # pc[o]
  BY <1>3, <1>9, DeleteKeeps
<1>10. ASSUME NEW g \in Takes, TakeStep(g)
       PROVE  \E o \in Deletes \cup Takes : target'[o] = k /\ pc'[o] # pc[o]
  BY <1>1, <1>3, <1>10, TakeKeeps
<1>11. ~(Tick \/ UNCHANGED vars)
  BY <1>1, TickKeeps
<1>. QED
  BY <1>5, <1>6, <1>7, <1>8, <1>9, <1>10, <1>11 DEF Next

(* A live row disappears only by a delete() or a get_and_delete() of its    *)
(* own key, whatever a purge selected before (database.py _purge).          *)
THEOREM PurgeIsSafe == Spec => PurgeSparesLive
<1>1. Spec => []Inv
  BY InvInit, StepSimulates, PTL DEF Spec, Simulates
<1>2. Inv /\ [Next]_vars =>
        [\A k \in Keys :
            Live(k, clock) /\ row'[k] = NoRow
              => \E o \in Deletes \cup Takes : target'[o] = k /\ pc'[o] # pc[o]]_vars
  BY StepSparesLive
<1>. QED
  BY <1>1, <1>2, PTL DEF Spec, PurgeSparesLive
=============================================================================
