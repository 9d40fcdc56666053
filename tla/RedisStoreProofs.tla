-------------------------- MODULE RedisStoreProofs --------------------------
(***************************************************************************)
(* The Redis backend implements the abstract session store, for any number *)
(* of sessions and concurrent calls.                                       *)
(***************************************************************************)
EXTENDS RedisStore, TLAPS

(* The labels each kind of call goes through, and what it has fixed by then.*)
Shape ==
    /\ TypeOK
    /\ \A s \in Sids : pc[s] \in {"idle", "start", "look", "prune", "cull", "srem", "record", "done"}
    /\ \A m \in Modifies :
          /\ pc[m] \in {"idle", "start", "watch", "get", "exec", "index", "done", "missing"}
          /\ pc[m] \notin {"idle", "start"} => target[m] \in Sids
    /\ \A d \in Deletes : pc[d] \in {"idle", "start", "srem", "done", "missing"}
    /\ \A d \in Deletes : pc[d] \notin {"idle", "start"} => target[d] \in Sids
    /\ \A o \in Scans : pc[o] \in {"idle", "start", "look", "prune", "cull", "srem", "done"}
    /\ \A o \in Listers : pc[o] \in {"prune", "srem"} => target[o] \in Sids

(* Only a created session has a record.                                     *)
Created == \A s \in Sids : rec[s] # Absent => pc[s] = "done"

(* What a modify() that may still write holds: the record as it is now,     *)
(* with its own change. This is what WATCH buys.                            *)
Watched ==
    \A m \in Modifies :
        pc[m] = "exec" /\ m \notin broken =>
            rec[target[m]] # Absent /\ buf[m] = rec[target[m]] \cup {m}

(* A modify() that has written wrote to a created session.                  *)
Wrote == \A m \in Modifies : pc[m] \in {"index", "done"} => pc[target[m]] = "done"

StoreInv == Shape /\ Created /\ Watched /\ Wrote /\ NoLostChange

LEMMA InitialLabels == Init => pc \in [Calls -> {"idle", "start"}]
  BY DEF Init

LEMMA StoreInit == Init => StoreInv /\ Store!Init
  <1> SUFFICES ASSUME Init PROVE StoreInv /\ Store!Init
    OBVIOUS
  <1>1. \A o \in Calls : pc[o] \in {"idle", "start"}
    BY InitialLabels
  <1>2. TypeOK
    BY InitialLabels DEF Init, TypeOK
  <1>3. Shape
    BY <1>1, <1>2 DEF Shape, Calls, Listers
  <1>4. Created /\ Watched /\ Wrote /\ NoLostChange
    BY <1>1 DEF Init, Created, Watched, Wrote, NoLostChange, Calls
  <1>5. Store!Init
    BY <1>1 DEF Init, Born, Store!Init, Calls
  <1> QED
    BY <1>3, <1>4, <1>5 DEF StoreInv

(* The steps of the abstract store that each call's commands stand for.     *)
LEMMA ListSimulates ==
    ASSUME StoreInv, NEW o \in Listers, ListStep(o)
    PROVE  StoreInv' /\ [Store!Next]_<<rec, Born>>
  <1> USE CallsDisjoint, AbsentIsNoCall, AbsentIsNoValue
          DEF StoreInv, Shape, TypeOK, Created, Watched, Wrote, NoLostChange, Calls, Listers, Goto, Born
  <1>1. CASE ListMembers(o)
    BY <1>1 DEF ListMembers
  <1>2. CASE ListPrune(o)
    BY <1>2 DEF ListPrune
  <1>3. CASE ListEnds(o)
    <2>1. \A cut \in Culls(o) : cut \in SUBSET Sids
      BY DEF Culls
    <2>2. found' \in [Listers -> SUBSET Sids]
      BY <1>3, <2>1 DEF ListEnds
    <2> QED
      BY <1>3, <2>2 DEF ListEnds
  <1>4. CASE CullUnindex(o)
    BY <1>4 DEF CullUnindex
  <1>5. ASSUME NEW s \in Sids, ListGet(o, s)
        PROVE  StoreInv' /\ UNCHANGED <<rec, Born>>
    BY <1>5 DEF ListGet
  <1>6. ASSUME NEW s \in Sids, CullDelete(o, s), rec[s] = Absent
        PROVE  StoreInv' /\ UNCHANGED <<rec, Born>>
    BY <1>6 DEF CullDelete
  <1>7. ASSUME NEW s \in Sids, CullDelete(o, s), rec[s] # Absent
        PROVE  StoreInv' /\ Store!Remove(s)
    <2> USE <1>7 DEF CullDelete, Put, Touch
    <2>1. /\ rec' = [rec EXCEPT ![s] = Absent] /\ pc[o] = "cull"
          /\ pc' = [pc EXCEPT ![o] = "srem"] /\ target' = [target EXCEPT ![o] = s]
          /\ found' \in [Listers -> SUBSET Sids]
      OBVIOUS
    <2>2. TypeOK'
      BY <2>1
    <2>3. Shape' /\ Created'
      BY <2>1, <2>2
    <2>4. Watched' /\ Wrote' /\ NoLostChange'
      BY SMTT(30)
    <2>5. Store!Remove(s)
      BY <2>1 DEF Store!Remove
    <2> QED
      BY <2>3, <2>4, <2>5
  <1> QED
    BY <1>1, <1>2, <1>3, <1>4, <1>5, <1>6, <1>7 DEF ListStep, Store!Next

LEMMA LoginSimulates ==
    ASSUME StoreInv, NEW s \in Sids, LoginStep(s)
    PROVE  StoreInv' /\ [Store!Next]_<<rec, Born>>
  <1> USE CallsDisjoint, AbsentIsNoCall, AbsentIsNoValue
          DEF StoreInv, Shape, TypeOK, Created, Watched, Wrote, NoLostChange, Calls, Listers, Goto, Born
  <1>1. CASE CreateIndex(s)
    BY <1>1 DEF CreateIndex
  <1>2. CASE CreateRecord(s)
    <2> USE <1>2 DEF CreateRecord, Put, Touch
    <2>1. StoreInv'
      OBVIOUS
    <2>2. rec' = [rec EXCEPT ![s] = {}] /\ s \notin Born
      OBVIOUS
    <2>3. Born' = Born \cup {s}
      OBVIOUS
    <2>4. Store!Create(s)
      BY <2>2, <2>3 DEF Store!Create
    <2> QED
      BY <2>1, <2>4 DEF Store!Next
  <1>3. CASE ListStep(s)
    BY <1>3, ListSimulates
  <1> QED
    BY <1>1, <1>2, <1>3 DEF LoginStep

LEMMA ExpireSimulates ==
    ASSUME StoreInv, NEW s \in Sids, Expire(s)
    PROVE  StoreInv' /\ Store!Remove(s)
  BY CallsDisjoint, AbsentIsNoCall
  DEF StoreInv, Shape, TypeOK, Created, Watched, Wrote, NoLostChange, Calls, Listers, Expire, Put,
      Touch, Born, Store!Remove

LEMMA ModifySimulates ==
    ASSUME StoreInv, NEW m \in Modifies, ModifyStep(m)
    PROVE  StoreInv' /\ [Store!Next]_<<rec, Born>>
  <1> USE CallsDisjoint, AbsentIsNoCall, AbsentIsNoValue
          DEF StoreInv, Shape, TypeOK, Created, Watched, Wrote, NoLostChange, Calls, Listers, Goto, Born
  <1>1. ASSUME NEW s \in Sids, ModifyCall(m, s)
        PROVE  StoreInv' /\ UNCHANGED <<rec, Born>>
    BY <1>1 DEF ModifyCall
  <1>2. CASE ModifyWatch(m)
    BY <1>2 DEF ModifyWatch
  <1>3. CASE ModifyGet(m)
    BY <1>3 DEF ModifyGet
  <1>4. CASE ModifyIndex(m)
    BY <1>4 DEF ModifyIndex
  <1>5. CASE ModifyExec(m) /\ m \in broken
    BY <1>5 DEF ModifyExec
  <1>6. CASE ModifyExec(m) /\ m \notin broken
    <2> USE <1>6 DEF ModifyExec, Put, Touch
    <2>1. StoreInv'
      <3>1. Shape'
        OBVIOUS
      <3>2. Created' /\ Wrote'
        OBVIOUS
      <3>3. Watched'
        OBVIOUS
      <3>4. NoLostChange'
        OBVIOUS
      <3> QED
        BY <3>1, <3>2, <3>3, <3>4
    <2>2. /\ target[m] \in Sids /\ rec[target[m]] # Absent
          /\ rec' = [rec EXCEPT ![target[m]] = @ \cup {m}]
          /\ \A q \in Sids : pc'[q] = pc[q]
      OBVIOUS
    <2>3. Store!Modify(target[m], m)
      BY <2>2 DEF Store!Modify
    <2> QED
      BY <2>1, <2>2, <2>3 DEF Store!Next
  <1> QED
    BY <1>1, <1>2, <1>3, <1>4, <1>5, <1>6 DEF ModifyStep

LEMMA DeleteSimulates ==
    ASSUME StoreInv, NEW d \in Deletes, DeleteStep(d)
    PROVE  StoreInv' /\ [Store!Next]_<<rec, Born>>
  <1> USE CallsDisjoint, AbsentIsNoCall, AbsentIsNoValue
          DEF StoreInv, Shape, TypeOK, Created, Watched, Wrote, NoLostChange, Calls, Listers, Goto, Born
  <1>1. ASSUME NEW s \in Sids, DeleteKey(d, s), rec[s] = Absent
        PROVE  StoreInv' /\ UNCHANGED <<rec, Born>>
    BY <1>1 DEF DeleteKey
  <1>2. ASSUME NEW s \in Sids, DeleteKey(d, s), rec[s] # Absent
        PROVE  StoreInv' /\ Store!Remove(s)
    BY <1>2, SMTT(60) DEF DeleteKey, Put, Touch, Store!Remove
  <1>3. CASE DeleteIndex(d)
    BY <1>3 DEF DeleteIndex
  <1> QED
    BY <1>1, <1>2, <1>3 DEF DeleteStep, Store!Next

LEMMA ScanSimulates ==
    ASSUME StoreInv, NEW o \in Scans, ScanStep(o)
    PROVE  StoreInv' /\ [Store!Next]_<<rec, Born>>
  <1>1. CASE ListStep(o)
    BY <1>1, ListSimulates DEF Listers
  <1>2. CASE ScanDone(o)
    BY <1>2, CallsDisjoint
    DEF ScanDone, StoreInv, Shape, TypeOK, Created, Watched, Wrote, NoLostChange, Calls, Listers, Goto, Born
  <1> QED
    BY <1>1, <1>2 DEF ScanStep

LEMMA StoreStep ==
    StoreInv /\ [Next]_vars =>
        StoreInv' /\ [Store!Next]_<<rec, Born>>
  <1> SUFFICES ASSUME StoreInv, [Next]_vars
               PROVE  StoreInv' /\ [Store!Next]_<<rec, Born>>
    OBVIOUS
  <1>1. CASE UNCHANGED vars
    BY <1>1 DEF vars, Born, StoreInv, Shape, TypeOK, Created, Watched, Wrote, NoLostChange
  <1>2. ASSUME NEW s \in Sids, Expire(s)
        PROVE  StoreInv' /\ Store!Next
    BY <1>2, ExpireSimulates DEF Store!Next
  <1> QED
    BY <1>1, <1>2, LoginSimulates, ModifySimulates, DeleteSimulates, ScanSimulates DEF Next

(* Whatever calls race, the record of each session behaves as one register  *)
(* with atomic read-modify-write: the abstract store, implemented.          *)
THEOREM RedisImplementsStore == Spec => ImplementsStore
  <1>1. Init => StoreInv /\ Store!Init
    BY StoreInit
  <1>2. StoreInv /\ [Next]_vars => StoreInv' /\ [Store!Next]_<<rec, Born>>
    BY StoreStep
  <1> QED
    BY <1>1, <1>2, PTL DEF Spec, ImplementsStore, Store!Spec

(* No change that modify() wrote is lost while its session lives.           *)
THEOREM ChangesKept == Spec => []NoLostChange
  <1>1. StoreInv => NoLostChange
    BY DEF StoreInv
  <1>2. Init => StoreInv
    BY StoreInit
  <1>3. StoreInv /\ [Next]_vars => StoreInv'
    BY StoreStep
  <1> QED
    BY <1>1, <1>2, <1>3, PTL DEF Spec

-----------------------------------------------------------------------------
(* An index entry that a delete is about to remove belongs to a session     *)
(* that was created, has no record now and cannot get one again.            *)
Gone ==
    \A o \in Deletes \cup Listers :
        pc[o] = "srem" => rec[target[o]] = Absent /\ pc[target[o]] = "done"

(* A login that is about to write its record has its index entry, unless    *)
(* a listing pruned it.                                                     *)
Listed == \A s \in Sids : pc[s] = "record" => s \in index \cup pruned

IndexInv == IndexCoversLive /\ Gone /\ Listed

LEMMA IndexStep == StoreInv /\ IndexInv /\ [Next]_vars => IndexInv'
  <1> SUFFICES ASSUME StoreInv, IndexInv, [Next]_vars
               PROVE  IndexInv'
    OBVIOUS
  <1> USE CallsDisjoint, AbsentIsNoCall, AbsentIsNoValue
          DEF IndexInv, IndexCoversLive, Gone, Listed, StoreInv, Shape, TypeOK, Created, Watched,
              Wrote, Calls, Listers, Goto
  <1>1. CASE UNCHANGED vars
    BY <1>1 DEF vars
  <1>5. ASSUME NEW o \in Listers, ListStep(o)
        PROVE  IndexInv'
    <2>1. CASE ListMembers(o) \/ ListEnds(o)
      BY <2>1 DEF ListMembers, ListEnds
    <2>2. CASE ListPrune(o)
      BY <2>2 DEF ListPrune
    <2>3. CASE CullUnindex(o)
      BY <2>3 DEF CullUnindex
    <2>4. ASSUME NEW s \in Sids, ListGet(o, s)
          PROVE  IndexInv'
      BY <2>4 DEF ListGet
    <2>5. ASSUME NEW s \in Sids, CullDelete(o, s)
          PROVE  IndexInv'
      BY <2>5 DEF CullDelete, Put
    <2> QED
      BY <1>5, <2>1, <2>2, <2>3, <2>4, <2>5 DEF ListStep
  <1>2. ASSUME NEW s \in Sids, LoginStep(s) \/ Expire(s)
        PROVE  IndexInv'
    <2>1. CASE CreateIndex(s)
      BY <2>1 DEF CreateIndex
    <2>2. CASE CreateRecord(s)
      BY <2>2 DEF CreateRecord, Put
    <2>3. CASE Expire(s)
      BY <2>3 DEF Expire, Put
    <2> QED
      BY <1>2, <1>5, <2>1, <2>2, <2>3 DEF LoginStep
  <1>3. ASSUME NEW m \in Modifies, ModifyStep(m)
        PROVE  IndexInv'
    <2>1. CASE ModifyExec(m)
      BY <2>1 DEF ModifyExec, Put
    <2>2. CASE ModifyIndex(m)
      BY <2>2 DEF ModifyIndex
    <2>3. CASE ModifyWatch(m)
      BY <2>3 DEF ModifyWatch
    <2>4. CASE ModifyGet(m)
      BY <2>4 DEF ModifyGet
    <2>5. ASSUME NEW s \in Sids, ModifyCall(m, s)
          PROVE  IndexInv'
      BY <2>5 DEF ModifyCall
    <2> QED
      BY <1>3, <2>1, <2>2, <2>3, <2>4, <2>5 DEF ModifyStep
  <1>4. ASSUME NEW d \in Deletes, DeleteStep(d)
        PROVE  IndexInv'
    <2>1. ASSUME NEW s \in Sids, DeleteKey(d, s)
          PROVE  IndexInv'
      BY <2>1 DEF DeleteKey, Put
    <2>2. CASE DeleteIndex(d)
      BY <2>2 DEF DeleteIndex
    <2> QED
      BY <1>4, <2>1, <2>2 DEF DeleteStep
  <1>6. ASSUME NEW o \in Scans, ScanStep(o)
        PROVE  IndexInv'
    <2>1. CASE ScanDone(o)
      BY <2>1 DEF ScanDone
    <2> QED
      BY <1>5, <1>6, <2>1 DEF ScanStep
  <1> QED
    BY <1>1, <1>2, <1>3, <1>4, <1>6 DEF Next

(* Wherever a worker stops and whatever calls race, only a pruning listing  *)
(* can hide a live session from its owner's index.                          *)
THEOREM IndexComplete == Spec => []IndexCoversLive
  <1>1. Init => StoreInv /\ IndexInv
    BY StoreInit, InitialLabels, CallsDisjoint
    DEF Init, IndexInv, IndexCoversLive, Gone, Listed, Calls, Listers
  <1>2. StoreInv /\ IndexInv /\ [Next]_vars => StoreInv' /\ IndexInv'
    BY StoreStep, IndexStep
  <1>3. IndexInv => IndexCoversLive
    BY DEF IndexInv
  <1> QED
    BY <1>1, <1>2, <1>3, PTL DEF Spec

-----------------------------------------------------------------------------
(* Signing out everywhere. From its SMEMBERS on, what a scan has to end and *)
(* is still live is on its list or among the sessions it found live.        *)
ScanOK(o) ==
    /\ pc[o] \notin {"idle", "start"} =>
          \A s \in before[o] \ hidden[o] : pc[s] = "done" /\ (rec[s] # Absent => s \in todo[o] \cup found[o])
    /\ pc[o] \in {"cull", "srem"} => todo[o] = {}
    /\ pc[o] = "done" => todo[o] = {} /\ found[o] = {}

ScanInv == \A o \in Scans : ScanOK(o)

(* A record does not come back once its session was created and lost it.    *)
LEMMA StaysAbsent ==
    ASSUME StoreInv, [Next]_vars, NEW s \in Sids, pc[s] = "done"
    PROVE  pc'[s] = "done" /\ (rec'[s] # Absent => rec[s] # Absent)
  <1> USE CallsDisjoint, AbsentIsNoCall, AbsentIsNoValue
          DEF StoreInv, Shape, TypeOK, Watched, Calls, Listers, Goto, Put
  <1>1. CASE UNCHANGED vars
    BY <1>1 DEF vars
  <1>2. ASSUME NEW o \in Listers, ListStep(o)
        PROVE  pc'[s] = "done" /\ (rec'[s] # Absent => rec[s] # Absent)
    BY <1>2 DEF ListStep, ListMembers, ListGet, ListPrune, ListEnds, CullDelete, CullUnindex
  <1>3. ASSUME NEW t \in Sids, LoginStep(t) \/ Expire(t)
        PROVE  pc'[s] = "done" /\ (rec'[s] # Absent => rec[s] # Absent)
    BY <1>2, <1>3 DEF LoginStep, CreateIndex, CreateRecord, Expire
  <1>4. ASSUME NEW m \in Modifies, ModifyStep(m)
        PROVE  pc'[s] = "done" /\ (rec'[s] # Absent => rec[s] # Absent)
    BY <1>4 DEF ModifyStep, ModifyCall, ModifyWatch, ModifyGet, ModifyExec, ModifyIndex
  <1>5. ASSUME NEW d \in Deletes, DeleteStep(d)
        PROVE  pc'[s] = "done" /\ (rec'[s] # Absent => rec[s] # Absent)
    BY <1>5 DEF DeleteStep, DeleteKey, DeleteIndex
  <1>6. ASSUME NEW o \in Scans, ScanStep(o)
        PROVE  pc'[s] = "done" /\ (rec'[s] # Absent => rec[s] # Absent)
    BY <1>2, <1>6 DEF ScanStep, ScanDone
  <1> QED
    BY <1>1, <1>3, <1>4, <1>5, <1>6 DEF Next

(* A step that is not this scan's.                                          *)
LEMMA OthersKeepScan ==
    ASSUME StoreInv, [Next]_vars, NEW o \in Scans, ScanOK(o),
           pc'[o] = pc[o] /\ todo'[o] = todo[o] /\ found'[o] = found[o],
           before'[o] = before[o] /\ hidden'[o] = hidden[o]
    PROVE  ScanOK(o)'
  <1>1. before[o] \subseteq Sids
    BY DEF StoreInv, Shape, TypeOK
  <1>2. pc[o] \notin {"idle", "start"} =>
            \A s \in before[o] \ hidden[o] : pc'[s] = "done" /\ (rec'[s] # Absent => s \in todo[o] \cup found[o])
    BY <1>1, StaysAbsent DEF ScanOK
  <1> QED
    BY <1>2 DEF ScanOK

(* A step of another call leaves a scan's own state alone.                  *)
LEMMA OthersLeaveScan ==
    ASSUME StoreInv, NEW o \in Scans, NEW q \in Calls, q # o,
           \/ q \in Listers /\ ListStep(q)
           \/ q \in Sids /\ (LoginStep(q) \/ Expire(q))
           \/ q \in Modifies /\ ModifyStep(q)
           \/ q \in Deletes /\ DeleteStep(q)
           \/ q \in Scans /\ ScanStep(q)
    PROVE  /\ pc'[o] = pc[o] /\ todo'[o] = todo[o] /\ found'[o] = found[o]
           /\ before'[o] = before[o] /\ hidden'[o] = hidden[o]
  <1> DEFINE Left == /\ pc'[o] = pc[o] /\ todo'[o] = todo[o] /\ found'[o] = found[o]
                     /\ before'[o] = before[o] /\ hidden'[o] = hidden[o]
  <1> USE DEF StoreInv, Shape, TypeOK, Calls, Listers, Goto
  <1>1. ASSUME q \in Listers, ListStep(q) PROVE Left
    BY <1>1 DEF ListStep, ListMembers, ListGet, ListPrune, ListEnds, CullDelete, CullUnindex
  <1>2. ASSUME q \in Sids, LoginStep(q) \/ Expire(q) PROVE Left
    BY <1>1, <1>2 DEF LoginStep, CreateIndex, CreateRecord, Expire
  <1>3. ASSUME q \in Modifies, ModifyStep(q) PROVE Left
    BY <1>3 DEF ModifyStep, ModifyCall, ModifyWatch, ModifyGet, ModifyExec, ModifyIndex
  <1>4. ASSUME q \in Deletes, DeleteStep(q) PROVE Left
    BY <1>4 DEF DeleteStep, DeleteKey, DeleteIndex
  <1>5. ASSUME q \in Scans, ScanStep(q) PROVE Left
    BY <1>1, <1>5 DEF ScanStep, ScanDone
  <1> QED
    BY <1>1, <1>2, <1>3, <1>4, <1>5

LEMMA ScanStepKeepsScan ==
    ASSUME StoreInv, IndexInv, NEW o \in Scans, ScanOK(o), ScanStep(o)
    PROVE  ScanOK(o)'
  <1>1. /\ o \in Calls /\ o \in Listers /\ before[o] \subseteq Sids /\ todo[o] \subseteq Sids
        /\ found[o] \subseteq Sids /\ index \subseteq Sids
    BY DEF StoreInv, Shape, TypeOK, Calls, Listers
  <1>2. \A s \in Sids : s # o
    BY CallsDisjoint
  <1> USE DEF StoreInv, Shape, TypeOK, Calls, Goto
  <1>3. CASE ListMembers(o)
    <2>1. \A s \in Sids \ pruned : rec[s] # Absent => s \in index
      BY DEF IndexInv, IndexCoversLive
    <2>2. /\ pc'[o] = "look" /\ before'[o] = {s \in Sids : pc[s] = "done"} /\ hidden'[o] = pruned
          /\ todo'[o] = index /\ rec' = rec /\ \A s \in Sids : pc'[s] = pc[s]
      BY <1>1, <1>2, <1>3 DEF ListMembers
    <2> QED
      BY <2>1, <2>2 DEF ScanOK
  <1>4. ASSUME NEW s \in Sids, ListGet(o, s) PROVE ScanOK(o)'
    <2>1. /\ pc[o] = "look" /\ pc'[o] \in {"look", "prune"} /\ UNCHANGED <<before, hidden, rec>>
          /\ todo'[o] = todo[o] \ {s} /\ \A t \in Sids : pc'[t] = pc[t]
      BY <1>1, <1>2, <1>4 DEF ListGet
    <2>2. /\ rec[s] = Absent => found'[o] = found[o]
          /\ rec[s] # Absent => found'[o] = found[o] \cup {s}
      BY <1>1, <1>4 DEF ListGet
    <2> QED
      BY <1>1, <2>1, <2>2 DEF ScanOK
  <1>5. CASE ListPrune(o)
    <2>1. /\ pc[o] = "prune" /\ pc'[o] = "look" /\ UNCHANGED <<before, hidden, rec, todo, found>>
          /\ \A t \in Sids : pc'[t] = pc[t]
      BY <1>2, <1>5 DEF ListPrune
    <2> QED
      BY <1>1, <2>1 DEF ScanOK
  <1>6. CASE ListEnds(o)
    <2>1. /\ pc[o] = "look" /\ pc'[o] = "cull" /\ todo[o] = {} /\ UNCHANGED <<before, hidden, rec, todo>>
          /\ found'[o] = found[o] /\ \A t \in Sids : pc'[t] = pc[t]
      BY <1>1, <1>2, <1>6 DEF ListEnds, Culls
    <2> QED
      BY <1>1, <2>1 DEF ScanOK
  <1>7. CASE CullUnindex(o)
    <2>1. /\ pc[o] = "srem" /\ pc'[o] = "cull" /\ UNCHANGED <<before, hidden, rec, todo, found>>
          /\ \A t \in Sids : pc'[t] = pc[t]
      BY <1>2, <1>7 DEF CullUnindex
    <2> QED
      BY <1>1, <2>1 DEF ScanOK
  <1>8. ASSUME NEW s \in Sids, CullDelete(o, s) PROVE ScanOK(o)'
    <2>1. /\ pc[o] = "cull" /\ pc'[o] \in {"cull", "srem"} /\ UNCHANGED <<before, hidden, todo>>
          /\ found'[o] = found[o] \ {s} /\ rec'[s] = Absent
          /\ \A t \in Sids : pc'[t] = pc[t] /\ (t # s => rec'[t] = rec[t])
      BY <1>1, <1>2, <1>8 DEF CullDelete, Put
    <2> QED
      BY <1>1, <2>1 DEF ScanOK
  <1>9. CASE ScanDone(o)
    <2>1. /\ pc[o] = "cull" /\ pc'[o] = "done" /\ UNCHANGED <<before, hidden, rec, todo, found>>
          /\ found[o] = {} /\ \A t \in Sids : pc'[t] = pc[t]
      BY <1>2, <1>9 DEF ScanDone
    <2> QED
      BY <1>1, <2>1 DEF ScanOK
  <1> QED
    BY <1>3, <1>4, <1>5, <1>6, <1>7, <1>8, <1>9 DEF ScanStep, ListStep

LEMMA ScanInvStep ==
    ASSUME StoreInv, IndexInv, ScanInv, [Next]_vars
    PROVE  ScanInv'
  <1> SUFFICES ASSUME NEW o \in Scans PROVE ScanOK(o)'
    BY DEF ScanInv
  <1>1. ScanOK(o)
    BY DEF ScanInv
  <1>2. CASE UNCHANGED vars
    BY <1>1, <1>2, OthersKeepScan DEF vars
  <1>3. ASSUME NEW q \in Calls, q # o,
               \/ q \in Sids /\ (LoginStep(q) \/ Expire(q))
               \/ q \in Modifies /\ ModifyStep(q)
               \/ q \in Deletes /\ DeleteStep(q)
               \/ q \in Scans /\ ScanStep(q)
        PROVE  ScanOK(o)'
    BY <1>1, <1>3, OthersLeaveScan, OthersKeepScan
  <1>4. CASE ScanStep(o)
    BY <1>1, <1>4, ScanStepKeepsScan
  <1> QED
    BY <1>2, <1>3, <1>4, CallsDisjoint DEF Next, Calls

(* Signing out everywhere ends every session whose login had returned when  *)
(* it began and that no listing had pruned, for any number of sessions,     *)
(* logins that list beside it, sign-outs, and requests that change or       *)
(* delete the sessions meanwhile (manager.py terminate_all_user_sessions).  *)
THEOREM LogoutEndsAll == Spec => []LogoutEndsUnpruned
  <1>1. Init => StoreInv /\ IndexInv /\ ScanInv
    BY StoreInit, InitialLabels, CallsDisjoint
    DEF Init, IndexInv, IndexCoversLive, Gone, Listed, Calls, Listers, ScanInv, ScanOK
  <1>2. StoreInv /\ IndexInv /\ ScanInv /\ [Next]_vars => StoreInv' /\ IndexInv' /\ ScanInv'
    BY StoreStep, IndexStep, ScanInvStep
  <1>3. StoreInv /\ ScanInv => LogoutEndsUnpruned
    BY DEF ScanInv, ScanOK, LogoutEndsUnpruned
  <1> QED
    BY <1>1, <1>2, <1>3, PTL DEF Spec
=============================================================================
