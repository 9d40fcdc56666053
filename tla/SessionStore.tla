---------------------------- MODULE SessionStore ----------------------------
(***************************************************************************)
(* What AbstractSessionStorage promises its callers: each call takes       *)
(* effect in one step. A value is the set of changes applied to it; a      *)
(* change is never lost while the value lives, and a key that was removed  *)
(* or has expired stays absent (session ids are fresh UUIDs). The          *)
(* in-memory backend is this specification: its methods never yield to     *)
(* the event loop.                                                         *)
(***************************************************************************)
CONSTANTS Sids,     \* session ids, each created at most once
          Writers,  \* calls of modify(), each owning one change
          Absent    \* the value of a key that is not stored

VARIABLES val,      \* the stored value of each key
          born      \* the keys that have been created

Init == val = [s \in Sids |-> Absent] /\ born = {}

Create(s) ==
    /\ s \notin born
    /\ val' = [val EXCEPT ![s] = {}]
    /\ born' = born \cup {s}

Modify(s, w) ==
    /\ val[s] # Absent
    /\ val' = [val EXCEPT ![s] = @ \cup {w}]
    /\ UNCHANGED born

Remove(s) ==
    /\ val[s] # Absent
    /\ val' = [val EXCEPT ![s] = Absent]
    /\ UNCHANGED born

(* Values whose time has run out may vanish together.                       *)
Purge(keys) ==
    /\ val' = [s \in Sids |-> IF s \in keys THEN Absent ELSE val[s]]
    /\ UNCHANGED born

Next ==
    \/ \E s \in Sids : Create(s) \/ Remove(s) \/ \E w \in Writers : Modify(s, w)
    \/ \E keys \in SUBSET Sids : Purge(keys)

Spec == Init /\ [][Next]_<<val, born>>
=============================================================================
