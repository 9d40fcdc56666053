------------------------- MODULE CredentialsProofs -------------------------
(***************************************************************************)
(* Proofs about Credentials, for any number of requests of each kind.      *)
(***************************************************************************)
EXTENDS Credentials, TLAPS

(* TypeOK is not inductive by itself: a rehash writes back the password its *)
(* login checked, and a reset marks the link it redeemed.                   *)
TypeInv ==
    /\ TypeOK
    /\ \A l \in Requests : pc[l] = "rehash" => seen[l].pw \in Passwords
    /\ \A r \in Resets : pc[r] \notin {"idle", "start"} => via[r] \in Links

LEMMA TypeInit == Init => TypeInv
  <1> SUFFICES ASSUME Init PROVE TypeInv
    OBVIOUS
  <1>1. PICK mix \in Mixes :
            /\ row = [hash |-> [pw |-> Initial, by |-> IF Legacy \in mix THEN Legacy ELSE Initial],
                      ver |-> 0, active |-> TRUE, mfa |-> Enrolled \in mix]
            /\ pc = [r \in Requests |-> IF r \in mix THEN "start" ELSE "idle"]
    BY DEF Init
  <1>2. row \in [hash : Hashes, ver : Nat, active : BOOLEAN, mfa : BOOLEAN]
    <2>1. (Enrolled \in mix) \in BOOLEAN
      OBVIOUS
    <2> QED
      BY <1>1, <2>1 DEF Hashes, Passwords
  <1>3. pc \in [Requests -> Labels] /\ \A r \in Requests : pc[r] \in {"idle", "start"}
    BY <1>1 DEF Labels
  <1> QED
    BY <1>2, <1>3 DEF Init, TypeInv, TypeOK, Passwords, NoCred, Requests

LEMMA TypeLogin ==
    ASSUME TypeInv, NEW l \in Logins \cup TokenLogins, LoginStep(l)
    PROVE  TypeInv'
  <1> USE DEF TypeInv, TypeOK, Hashes, Passwords, Labels, Requests, Issuers,
              Installers, Goto, history
  <1>1. ASSUME NEW p \in Passwords, LoginRead(l, p) PROVE TypeInv'
    <2>1. CASE Authenticates(p)
      <3>1. PICK label \in {"rehash", "challenge", "issue"} : Goto(l, label)
        BY <1>1, <2>1 DEF LoginRead
      <3> QED
        BY <1>1, <2>1, <3>1, KindsDisjoint, SMTT(30) DEF LoginRead, ReadRow
    <2>2. CASE ~Authenticates(p)
      BY <1>1, <2>2, KindsDisjoint, SMTT(30) DEF LoginRead
    <2> QED
      BY <2>1, <2>2
  <1>2. CASE LoginRehash(l)
    BY <1>2, KindsDisjoint DEF LoginRehash
  <1>3. CASE LoginReload(l)
    BY <1>3, KindsDisjoint DEF LoginReload, ReloadLogin, ReloadRow
  <1>4. CASE VerifyRead(l)
    BY <1>4, KindsDisjoint DEF VerifyRead
  <1>5. CASE VerifyClaim(l)
    BY <1>5, KindsDisjoint DEF VerifyClaim, ReloadLogin, ReloadRow
  <1>6. CASE LoginIssue(l)
    BY <1>6, KindsDisjoint DEF LoginIssue
  <1> QED
    BY <1>1, <1>2, <1>3, <1>4, <1>5, <1>6 DEF LoginStep

LEMMA TypeRefresh ==
    ASSUME TypeInv, NEW f \in Refreshes, RefreshStep(f)
    PROVE  TypeInv'
  <1> USE DEF TypeInv, TypeOK, Hashes, Passwords, Labels, Requests, Issuers,
              Installers, Goto, history
  <1>1. ASSUME NEW t \in TokenLogins, RefreshRead(f, t) PROVE TypeInv'
    <2>1. CASE row.active /\ row.ver = cred[t].ver
      <3>1. cred[t].proof \in Nat /\ row.ver \in Nat /\ t \in Requests
        OBVIOUS
      <3>2. seen' \in [Requests -> [pw : Passwords \cup {None}, ver : Nat]]
        BY <1>1, <2>1, <3>1 DEF RefreshRead
      <3>3. proof' \in [Requests -> Nat] /\ pc' \in [Requests -> Labels]
        BY <1>1, <2>1, <3>1 DEF RefreshRead
      <3>4. reloaded' \subseteq Issuers
        BY <1>1, <2>1 DEF RefreshRead
      <3>5. /\ via' \in [Requests -> Requests \cup Links \cup {None}]
            /\ UNCHANGED <<row, pending, cred, links, used, gen, at, epoch, crossed, unlisted>>
        BY <1>1, <3>1 DEF RefreshRead
      <3>6. TypeOK'
        BY <3>2, <3>3, <3>4, <3>5
      <3>7. \A q \in Requests \ {f} : pc'[q] = pc[q] /\ seen'[q] = seen[q] /\ via'[q] = via[q]
        BY <1>1, <2>1 DEF RefreshRead
      <3>8. pc'[f] = "issue" /\ f \notin Resets
        BY <1>1, <2>1, KindsDisjoint DEF RefreshRead
      <3> QED
        BY <3>6, <3>7, <3>8
    <2>2. CASE ~(row.active /\ row.ver = cred[t].ver)
      BY <1>1, <2>2, KindsDisjoint, SMTT(30) DEF RefreshRead
    <2> QED
      BY <2>1, <2>2
  <1>2. CASE LoginIssue(f)
    BY <1>2, KindsDisjoint DEF LoginIssue
  <1> QED
    BY <1>1, <1>2 DEF RefreshStep

LEMMA TypeInstall ==
    ASSUME TypeInv, NEW r \in Installers, InstallStep(r)
    PROVE  TypeInv'
  <1> USE DEF TypeInv, TypeOK, Hashes, Passwords, Labels, Requests, Issuers,
              Installers, Goto, history
  <1>1. CASE WritePassword(r)
    BY <1>1 DEF WritePassword
  <1>2. CASE BumpVersion(r)
    BY <1>2 DEF BumpVersion
  <1>3. CASE ListSessions(r)
    BY <1>3 DEF ListSessions, LiveSessions
  <1>4. ASSUME NEW s \in Logins, EvictSession(r, s) PROVE TypeInv'
    BY <1>4 DEF EvictSession
  <1>5. CASE EvictDone(r)
    BY <1>5 DEF EvictDone
  <1> QED
    BY <1>1, <1>2, <1>3, <1>4, <1>5 DEF InstallStep

LEMMA TypeReset ==
    ASSUME TypeInv, NEW r \in Resets, ResetStep(r)
    PROVE  TypeInv'
  <1> USE DEF TypeInv, TypeOK, Hashes, Passwords, Labels, Requests, Issuers,
              Installers, Goto, history
  <1>1. ASSUME NEW k \in Links, ResetRedeem(r, k) PROVE TypeInv'
    <2>1. /\ seen' \in [Requests -> [pw : Passwords \cup {None}, ver : Nat]]
          /\ proof' \in [Requests -> Nat]
          /\ \A q \in Requests \ {r} : seen'[q] = seen[q]
      <3>1. row.hash.pw \in Passwords /\ row.ver \in Nat
        OBVIOUS
      <3>2. CASE ReadRow(r)
        <4>1. [pw |-> row.hash.pw, ver |-> row.ver] \in [pw : Passwords \cup {None}, ver : Nat]
          BY <3>1
        <4> QED
          BY <3>2, <4>1 DEF ReadRow
      <3>3. CASE UNCHANGED <<seen, proof>>
        BY <3>3
      <3> QED
        BY <1>1, <3>2, <3>3 DEF ResetRedeem
    <2>2. pc' \in [Requests -> Labels] /\ pc'[r] # "rehash" /\ \A q \in Requests \ {r} : pc'[q] = pc[q]
      BY <1>1 DEF ResetRedeem
    <2>3. /\ via' \in [Requests -> Requests \cup Links \cup {None}] /\ via'[r] = k
          /\ \A q \in Requests \ {r} : via'[q] = via[q]
          /\ UNCHANGED <<row, pending, cred, links, used, gen, at, epoch, crossed, reloaded, unlisted>>
      BY <1>1 DEF ResetRedeem
    <2>4. TypeOK'
      BY <2>1, <2>2, <2>3
    <2> QED
      BY <2>1, <2>2, <2>3, <2>4
  <1>2. CASE ResetConsume(r)
    BY <1>2 DEF ResetConsume
  <1>3. CASE InstallStep(r)
    BY <1>3, TypeInstall
  <1> QED
    BY <1>1, <1>2, <1>3 DEF ResetStep

LEMMA TypeChange ==
    ASSUME TypeInv, NEW c \in Changes, ChangeStep(c)
    PROVE  TypeInv'
  <1> USE DEF TypeInv, TypeOK, Hashes, Passwords, Labels, Requests, Issuers,
              Installers, Goto, history
  <1>1. ASSUME NEW v \in Issuers, ChangeAuth(c, v) PROVE TypeInv'
    BY <1>1, KindsDisjoint DEF ChangeAuth
  <1>2. ASSUME NEW p \in Passwords, ChangeRead(c, p) PROVE TypeInv'
    <2>1. crossed' \subseteq Changes
      BY <1>2 DEF ChangeRead, Beside
    <2>2. /\ UNCHANGED <<row, via, pending, cred, links, used, gen, at, epoch, reloaded, unlisted>>
          /\ \E label \in {"write", "refused"} : pc' = [pc EXCEPT ![c] = label]
      BY <1>2 DEF ChangeRead
    <2>3. seen' \in [Requests -> [pw : Passwords \cup {None}, ver : Nat]] /\ proof' \in [Requests -> Nat]
      <3>1. CASE ReadRow(c)
        <4>1. [pw |-> row.hash.pw, ver |-> row.ver] \in [pw : Passwords \cup {None}, ver : Nat]
          OBVIOUS
        <4> QED
          BY <3>1, <4>1 DEF ReadRow
      <3> QED
        BY <1>2, <3>1 DEF ChangeRead
    <2>4. \A q \in Requests \ {c} : seen'[q] = seen[q]
      BY <1>2 DEF ChangeRead, ReadRow
    <2>5. TypeOK'
      BY <2>1, <2>2, <2>3
    <2>6. \A q \in Requests : pc'[q] = "rehash" => pc[q] = "rehash" /\ q # c
      BY <2>2
    <2> QED
      BY <2>2, <2>4, <2>5, <2>6, KindsDisjoint
  <1>3. CASE ChangeReload(c)
    BY <1>3, KindsDisjoint DEF ChangeReload, ReloadRow
  <1>4. CASE ChangeRebind(c)
    BY <1>4, KindsDisjoint DEF ChangeRebind, LiveSessions
  <1>5. CASE InstallStep(c)
    BY <1>5, TypeInstall
  <1> QED
    BY <1>1, <1>2, <1>3, <1>4, <1>5 DEF ChangeStep

LEMMA TypeStep == TypeInv /\ [Next]_vars => TypeInv'
  <1> SUFFICES ASSUME TypeInv, [Next]_vars PROVE TypeInv'
    OBVIOUS
  <1>1. ASSUME NEW l \in Logins \cup TokenLogins, LoginStep(l) PROVE TypeInv'
    BY <1>1, TypeLogin
  <1>2. ASSUME NEW f \in Refreshes, RefreshStep(f) PROVE TypeInv'
    BY <1>2, TypeRefresh
  <1>3. ASSUME NEW r \in Resets, ResetStep(r) PROVE TypeInv'
    BY <1>3, TypeReset
  <1>4. ASSUME NEW c \in Changes, ChangeStep(c) PROVE TypeInv'
    BY <1>4, TypeChange
  <1>5. ASSUME NEW k \in Links, RequestReset(k) PROVE TypeInv'
    BY <1>5 DEF RequestReset, TypeInv, TypeOK, history
  <1>6. ASSUME NEW s \in Logins, SessionEnds(s) PROVE TypeInv'
    BY <1>6 DEF SessionEnds, TypeInv, TypeOK, history, Issuers
  <1>7. ASSUME NEW b \in BOOLEAN, SetActive(b) PROVE TypeInv'
    BY <1>7 DEF SetActive, TypeInv, TypeOK, history
  <1>8. CASE UNCHANGED vars
    BY <1>8 DEF vars, TypeInv, TypeOK
  <1> QED
    BY <1>1, <1>2, <1>3, <1>4, <1>5, <1>6, <1>7, <1>8 DEF Next

(* The type invariant holds in every reachable state, for any sets of       *)
(* requests and links.                                                      *)
THEOREM TypeCorrect == Spec => []TypeOK
  <1>1. TypeInv => TypeOK
    BY DEF TypeInv
  <1> QED
    BY <1>1, TypeInit, TypeStep, PTL DEF Spec

-----------------------------------------------------------------------------
(***************************************************************************)
(* Eviction. A login that does not reload the row after a bump carries the *)
(* version of its password check. So a request that read the row after r's *)
(* bump read a generation no older than r's (Issued, Issues), and a        *)
(* credential of r's epoch that is older can only be a session some change *)
(* rebound. Such a session was listed or will be listed by r, as it was    *)
(* live before r's bump, unless the listing raises (Kept, Asks, Rebinds).  *)
(***************************************************************************)
Bumped(r) == pc[r] \in {"refresh", "rebind", "list", "evict", "done"}

(* r has yet to delete the session, keeps it as its own, or could not list it. *)
Spares(r, s) ==
    /\ s \in Logins
    /\ \/ r \in Changes /\ s = via[r]
       \/ pc[r] \in {"refresh", "rebind", "list"}
       \/ pc[r] = "evict" /\ s \in pending[r]
       \/ r \in unlisted

(* What was written and bumped is never taken back. *)
Monotone ==
    /\ \A r \in Installers : pc[r] = "bump" \/ Bumped(r) => at[r] <= gen
    /\ \A r \in Installers : Bumped(r) => epoch[r] <= row.ver
    /\ \A r \in Installers : ~Bumped(r) => epoch[r] = 0
    /\ \A q \in Requests : seen[q].ver <= row.ver
    /\ \A c \in Issuers : cred[c].ver <= row.ver

(* Credentials come from finished requests; a change uses, and an eviction  *)
(* lists, only credentials that were issued.                                *)
Issued ==
    /\ \A r \in Installers : \A s \in pending[r] : cred[s].state # "none"
    /\ \A c \in Issuers : cred[c].state # "none" => pc[c] = "done"
    /\ \A d \in Changes : pc[d] \notin {"idle", "start"} =>
          via[d] \in Issuers /\ cred[via[d]].state # "none"

(* From the password check to the credential. *)
Holding == {"rehash", "reload", "challenge", "claim", "issue"}

(* A request on its way to issue at r's epoch has checked r's password or later. *)
Issues ==
    \A q \in Issuers \ reloaded, r \in Installers :
        pc[q] \in Holding /\ Bumped(r) /\ epoch[r] <= seen[q].ver => at[r] <= proof[q]

(* So has a live credential of r's epoch, unless r spares it. *)
Kept ==
    \A c \in Issuers \ reloaded, r \in Installers :
        cred[c].state = "live" /\ Bumped(r) /\ epoch[r] <= cred[c].ver
            => at[r] <= cred[c].proof \/ Spares(r, c)

(* A change that validated a live session at r's epoch: the same of it. *)
Asks ==
    \A d \in Changes, r \in Installers :
        /\ pc[d] = "user" /\ via[d] \notin reloaded
        /\ cred[via[d]].state = "live" /\ Bumped(r) /\ epoch[r] <= seen[d].ver
        => at[r] <= cred[via[d]].proof \/ Spares(r, via[d])

(* A change on its way to rebind its session: the same at any epoch. *)
Rebinds ==
    \A d \in Changes, r \in Installers :
        /\ pc[d] \in {"write", "bump", "refresh", "rebind"}
        /\ via[d] \in Logins \ reloaded
        /\ cred[via[d]].state = "live"
        /\ Bumped(r)
        => at[r] <= cred[via[d]].proof \/ Spares(r, via[d])

EvictionInv ==
    TypeInv /\ Monotone /\ Issued /\ Issues /\ Kept /\ Asks /\ Rebinds
(* One lemma per action: it preserves EvictionInv. *)

LEMMA EvictLoginRead ==
    ASSUME EvictionInv, TypeInv', 
           NEW l \in Logins \cup TokenLogins, NEW p \in Passwords, LoginRead(l, p)
    PROVE  EvictionInv'
  <1> USE KindsDisjoint
          DEF EvictionInv, TypeInv, TypeOK, Bumped, Spares, Goto, history,
              Requests, Issuers, Installers, ReadRow
  <1>a. PICK label \in Holding \cup {"refused"} :
            /\ Goto(l, label)
            /\ label # "refused" => ReadRow(l)
            /\ label = "refused" => UNCHANGED <<seen, proof>>
    BY DEF LoginRead, Holding
  <1>b. UNCHANGED <<row, via, pending, cred, gen, at, epoch, reloaded, unlisted>> /\ pc[l] = "start"
    BY DEF LoginRead
  <1>c. \A r \in Installers : pc'[r] = pc[r]
    BY <1>a
  <1>d. \A d \in Changes : seen'[d] = seen[d]
    BY <1>a
  <1>1. (Issued /\ Kept /\ Asks /\ Rebinds)'
    <2>1. Issued'
      BY <1>a, <1>b, <1>c DEF Issued, Holding
    <2>2. Kept'
      BY <1>b, <1>c DEF Kept
    <2>3. Asks'
      BY <1>b, <1>c, <1>d DEF Asks
    <2>4. Rebinds'
      BY <1>b, <1>c DEF Rebinds
    <2> QED
      BY <2>1, <2>2, <2>3, <2>4
  <1>3. Monotone'
    BY <1>a, <1>b, <1>c DEF Monotone
  <1>2. Issues'
    <2> SUFFICES ASSUME NEW q \in Issuers, q \notin reloaded, NEW r \in Installers, pc'[q] \in Holding,
                        Bumped(r)', epoch'[r] <= seen'[q].ver
                 PROVE  at'[r] <= proof'[q]
      BY <1>b DEF Issues
    <2>1. CASE q = l
      <3>1. Bumped(r) /\ proof'[q] = gen
        BY <1>a, <1>b, <1>c, <2>1 DEF Holding
      <3> QED
        BY <1>b, <3>1 DEF Monotone
    <2>2. CASE q # l
      BY <1>a, <1>b, <1>c, <2>2 DEF Issues
    <2> QED
      BY <2>1, <2>2
  <1> QED
    BY <1>1, <1>2, <1>3

(* The steps between the password check and the credential: a version that  *)
(* has moved puts the login among the reloaded ones.                        *)
LEMMA EvictHold ==
    ASSUME EvictionInv, TypeInv', NEW l \in Logins \cup TokenLogins,
           LoginRehash(l) \/ LoginReload(l) \/ VerifyRead(l) \/ VerifyClaim(l)
    PROVE  EvictionInv'
  <1> USE KindsDisjoint
          DEF EvictionInv, TypeInv, TypeOK, Goto, history, Requests, Issuers, Installers
  <1>a. /\ UNCHANGED <<via, pending, cred, gen, proof, at, epoch, unlisted>>
        /\ row'.ver = row.ver /\ reloaded \subseteq reloaded'
        /\ pc[l] \in Holding /\ pc'[l] \in Holding \cup {"refused"} /\ pc[l] # "issue"
        /\ \A q \in Requests \ {l} : pc'[q] = pc[q] /\ seen'[q] = seen[q]
    BY DEF LoginRehash, LoginReload, VerifyRead, VerifyClaim, ReloadLogin, ReloadRow, Holding
  <1>b. seen'[l].ver = seen[l].ver \/ (l \in reloaded' /\ seen'[l].ver = row.ver)
    BY DEF LoginRehash, LoginReload, VerifyRead, VerifyClaim, ReloadLogin, ReloadRow
  <1>c. \A r \in Installers : pc'[r] = pc[r] /\ (Bumped(r)' <=> Bumped(r))
    BY <1>a DEF Bumped
  <1>d. \A r \in Installers, s \in Issuers : Spares(r, s)' <=> Spares(r, s)
    BY <1>a, <1>c DEF Spares
  <1>1. Monotone'
    BY <1>a, <1>b, <1>c DEF Monotone
  <1>2. Issued'
    BY <1>a DEF Issued, Holding
  <1>3. Issues'
    <2> SUFFICES ASSUME NEW q \in Issuers, q \notin reloaded', NEW r \in Installers, pc'[q] \in Holding,
                        Bumped(r)', epoch'[r] <= seen'[q].ver
                 PROVE  at'[r] <= proof'[q]
      BY DEF Issues
    <2>1. q \notin reloaded /\ pc[q] \in Holding /\ seen'[q].ver = seen[q].ver
      BY <1>a, <1>b
    <2> QED
      BY <1>a, <1>c, <2>1 DEF Issues
  <1>4. Kept'
    BY <1>a, <1>c, <1>d DEF Kept
  <1>5. \A d \in Changes : pc'[d] = pc[d] /\ seen'[d] = seen[d] /\ via'[d] = via[d]
    BY <1>a
  <1>6. \A d \in Changes : pc[d] \notin {"idle", "start"} => via[d] \in Issuers
    BY DEF Issued
  <1>7. Asks'
    <2>1. ASSUME NEW d \in Changes, NEW r \in Installers, pc'[d] = "user", via[d] \notin reloaded',
                 cred[via[d]].state = "live", Bumped(r), epoch[r] <= seen[d].ver
          PROVE  at[r] <= cred[via[d]].proof \/ Spares(r, via[d])'
      <3>1. pc[d] = "user" /\ via[d] \in Issuers /\ via[d] \notin reloaded
        BY <1>a, <1>5, <1>6, <2>1
      <3>2. at[r] <= cred[via[d]].proof \/ Spares(r, via[d])
        BY <2>1, <3>1 DEF Asks
      <3> QED
        BY <1>5, <1>d, <3>1, <3>2
    <2> QED
      BY <1>a, <1>c, <1>5, <2>1 DEF Asks
  <1>8. Rebinds'
    BY <1>a, <1>c, <1>d, <1>5, <1>6 DEF Rebinds
  <1> QED
    BY <1>1, <1>2, <1>3, <1>4, <1>7, <1>8

LEMMA EvictLoginIssue ==
    ASSUME EvictionInv, TypeInv', NEW l \in Issuers, LoginIssue(l)
    PROVE  EvictionInv'
  <1> USE KindsDisjoint
          DEF EvictionInv, TypeInv, TypeOK, Bumped, Spares, Goto, history,
              Requests, Issuers, Installers, LoginIssue
  <1>1. (Monotone /\ Issued /\ Issues)'
    BY DEF Monotone, Issued, Issues, Holding
  <1>2. Kept'
    <2> SUFFICES ASSUME NEW c \in Issuers, c \notin reloaded, NEW r \in Installers, cred'[c].state = "live",
                        Bumped(r)', epoch'[r] <= cred'[c].ver
                 PROVE  (at[r] <= cred[c].proof \/ Spares(r, c))'
      BY DEF Kept
    <2>1. CASE c = l
      <3>1. cred'[l].ver = seen[l].ver /\ cred'[l].proof = proof[l]
        OBVIOUS
      <3>2. Bumped(r) /\ at' = at /\ epoch' = epoch
        OBVIOUS
      <3> QED
        BY <2>1, <3>1, <3>2 DEF Issues, Holding
    <2>2. CASE c # l
      BY <2>2 DEF Kept
    <2> QED
      BY <2>1, <2>2
  <1>3. Asks'
    <2>1. \A d \in Changes : pc[d] \notin {"idle", "start"} => via[d] # l
      BY DEF Issued
    <2> QED
      BY <2>1 DEF Asks, Issued
  <1>4. Rebinds'
    <2>1. \A d \in Changes : pc[d] \notin {"idle", "start"} => via[d] # l
      BY DEF Issued
    <2> QED
      BY <2>1 DEF Rebinds, Issued
  <1> QED
    BY <1>1, <1>2, <1>3, <1>4

LEMMA EvictSessionEnds ==
    ASSUME EvictionInv, TypeInv', NEW s \in Logins, SessionEnds(s)
    PROVE  EvictionInv'
  BY KindsDisjoint
  DEF EvictionInv, TypeInv, TypeOK, Bumped, Spares, Goto, history, Requests, Issuers,
      Installers, Monotone, Issued, Issues, Holding, Kept, Asks, Rebinds, SessionEnds

LEMMA EvictRefreshRead ==
    ASSUME EvictionInv, TypeInv', 
           NEW f \in Refreshes, NEW t \in TokenLogins, RefreshRead(f, t)
    PROVE  EvictionInv'
  <1> USE KindsDisjoint
          DEF EvictionInv, TypeInv, TypeOK, Bumped, Spares, Goto, history,
              Requests, Issuers, Installers
  <1>a. \/ /\ row.ver = cred[t].ver
           /\ seen' = [seen EXCEPT ![f] = [pw |-> None, ver |-> row.ver]]
           /\ proof' = [proof EXCEPT ![f] = cred[t].proof]
           /\ reloaded' = IF t \in reloaded THEN reloaded \cup {f} ELSE reloaded
           /\ Goto(f, "issue")
        \/ Goto(f, "refused") /\ UNCHANGED <<seen, proof, reloaded>>
    BY DEF RefreshRead
  <1>b. /\ UNCHANGED <<row, pending, cred, gen, at, epoch, unlisted>>
        /\ via' = [via EXCEPT ![f] = t]
        /\ pc[f] = "start" /\ cred[t].state = "live"
    BY DEF RefreshRead
  <1>c. \A r \in Installers : pc'[r] = pc[r] /\ via'[r] = via[r] /\ seen'[r] = seen[r]
    BY <1>a, <1>b
  <1>d. reloaded \subseteq reloaded'
    BY <1>a
  <1>2. Issued'
    BY <1>a, <1>b DEF Issued
  <1>3. Kept'
    <2>1. \A r \in Installers : Bumped(r)' <=> Bumped(r)
      BY <1>c
    <2>2. \A r \in Installers, c \in Issuers : Spares(r, c) => Spares(r, c)'
      BY <1>b, <1>c
    <2> HIDE DEF Bumped, Spares
    <2> QED
      BY <1>b, <1>d, <2>1, <2>2 DEF Kept
  <1>4. Asks'
    BY <1>b, <1>c, <1>d DEF Asks
  <1>5. Rebinds'
    BY <1>b, <1>c, <1>d DEF Rebinds
  <1>6. Monotone'
    <2>1. ASSUME NEW q \in Requests PROVE seen'[q].ver <= row.ver
      <3>1. seen'[q] = seen[q] \/ seen'[q].ver = row.ver
        BY <1>a
      <3> QED
        BY <3>1 DEF Monotone
    <2> QED
      BY <1>b, <1>c, <2>1 DEF Monotone
  <1>7. Issues'
    <2>1. \A r \in Installers : ~Spares(r, t)
      OBVIOUS
    <2>2. \A r \in Installers : t \notin reloaded /\ Bumped(r) /\ epoch[r] <= row.ver /\ row.ver = cred[t].ver
                                    => at[r] <= cred[t].proof
      BY <1>b, <2>1 DEF Kept
    <2> SUFFICES ASSUME NEW q \in Issuers, q \notin reloaded', NEW r \in Installers, pc'[q] \in Holding,
                        Bumped(r)', epoch'[r] <= seen'[q].ver
                 PROVE  at'[r] <= proof'[q]
      BY DEF Issues
    <2>3. CASE q = f
      <3>1. /\ Bumped(r) /\ proof'[q] = cred[t].proof
            /\ seen'[q].ver = row.ver /\ row.ver = cred[t].ver /\ t \notin reloaded
        BY <1>a, <1>b, <2>3 DEF Holding
      <3> QED
        BY <1>b, <2>2, <3>1
    <2>4. CASE q # f
      <3>1. pc'[q] = pc[q] /\ seen'[q] = seen[q] /\ proof'[q] = proof[q] /\ q \notin reloaded
        BY <1>a, <2>4
      <3>2. pc'[r] = pc[r] /\ at'[r] = at[r] /\ epoch'[r] = epoch[r]
        BY <1>a, <1>b
      <3>3. Bumped(r)
        BY <3>2
      <3> QED
        BY <3>1, <3>2, <3>3 DEF Issues
    <2> QED
      BY <2>3, <2>4
  <1> QED
    BY <1>2, <1>3, <1>4, <1>5, <1>6, <1>7

LEMMA EvictRedeem ==
    ASSUME EvictionInv, TypeInv', 
           NEW r \in Resets, NEW k \in Links, ResetRedeem(r, k)
    PROVE  EvictionInv'
  <1> USE KindsDisjoint
          DEF EvictionInv, TypeInv, TypeOK, Bumped, Spares, Goto, history,
              Requests, Issuers, Installers, ReadRow
  <1>a. PICK label \in {"consume", "refused"} :
            /\ Goto(r, label)
            /\ label = "consume" => ReadRow(r)
            /\ label = "refused" => UNCHANGED <<seen, proof>>
    BY DEF ResetRedeem
  <1>b. /\ UNCHANGED <<row, pending, cred, gen, at, epoch, reloaded, unlisted>>
        /\ via' = [via EXCEPT ![r] = k]
        /\ pc[r] = "start"
    BY DEF ResetRedeem
  <1>2. Monotone'
    BY <1>a, <1>b DEF Monotone
  <1>3. Issued'
    BY <1>a, <1>b DEF Issued
  <1>4. Issues'
    <2>1. \A q \in Issuers : pc'[q] = pc[q] /\ seen'[q] = seen[q] /\ proof'[q] = proof[q]
      BY <1>a
    <2>2. \A q \in Installers : Bumped(q)' => Bumped(q)
      BY <1>a
    <2> QED
      BY <1>b, <2>1, <2>2 DEF Issues
  <1>5. Kept'
    BY <1>a, <1>b, ZenonT(60) DEF Kept
  <1>6. Asks'
    BY <1>a, <1>b DEF Asks
  <1>7. Rebinds'
    BY <1>a, <1>b DEF Rebinds
  <1> QED
    BY <1>2, <1>3, <1>4, <1>5, <1>6, <1>7

LEMMA EvictConsume ==
    ASSUME EvictionInv, TypeInv', NEW r \in Resets, ResetConsume(r)
    PROVE  EvictionInv'
  BY KindsDisjoint
  DEF EvictionInv, TypeInv, TypeOK, Bumped, Spares, Goto, history, Requests, Issuers,
      Installers, Monotone, Issued, Issues, Holding, Kept, Asks, Rebinds, ResetConsume

LEMMA EvictAuth ==
    ASSUME EvictionInv, TypeInv', NEW d \in Changes, NEW v \in Issuers, ChangeAuth(d, v)
    PROVE  EvictionInv'
  <1> USE KindsDisjoint
          DEF EvictionInv, TypeInv, TypeOK, Bumped, Spares, Goto, history,
              Requests, Issuers, Installers, ChangeAuth
  <1>1. (Monotone /\ Issued /\ Issues /\ Kept /\ Rebinds)'
    <2>2. Monotone'
      BY SMTT(30) DEF Monotone
    <2>3. Issued'
      BY SMTT(30) DEF Issued
    <2>4. Issues'
      BY SMTT(30) DEF Issues, Holding
    <2>5. Kept'
      BY ZenonT(60) DEF Kept
    <2>6. Rebinds'
      BY SMTT(30) DEF Rebinds
    <2>. QED
      BY <2>2, <2>3, <2>4, <2>5, <2>6
  <1>2. Asks'
    <2> SUFFICES ASSUME NEW e \in Changes, NEW r \in Installers, pc'[e] = "user", via'[e] \notin reloaded,
                        cred'[via'[e]].state = "live", Bumped(r)', epoch'[r] <= seen'[e].ver
                 PROVE  (at[r] <= cred[via[e]].proof \/ Spares(r, via[e]))'
      BY DEF Asks
    <2>1. CASE e = d
      <3>1. via'[e] = v /\ seen'[e].ver = cred[v].ver /\ cred[v].state = "live"
        BY <2>1
      <3>2. Bumped(r) /\ r # d /\ epoch[r] <= cred[v].ver
        BY <3>1
      <3>3. at[r] <= cred[v].proof \/ Spares(r, v)
        BY <3>1, <3>2 DEF Kept
      <3>4. Spares(r, v) => Spares(r, v)'
        BY <3>2
      <3> QED
        BY <3>1, <3>3, <3>4
    <2>2. CASE e # d
      BY <2>2 DEF Asks
    <2> QED
      BY <2>1, <2>2
  <1> QED
    BY <1>1, <1>2

LEMMA EvictRead ==
    ASSUME EvictionInv, TypeInv', 
           NEW d \in Changes, NEW p \in Passwords, ChangeRead(d, p)
    PROVE  EvictionInv'
  <1> USE KindsDisjoint
          DEF EvictionInv, TypeInv, TypeOK, Bumped, Spares, Goto, history,
              Requests, Issuers, Installers, ReadRow
  <1>a. PICK label \in {"write", "refused"} :
            /\ Goto(d, label)
            /\ label = "write" => ReadRow(d) /\ row.ver = seen[d].ver
            /\ label = "refused" => UNCHANGED <<seen, proof>>
    BY DEF ChangeRead
  <1>b. UNCHANGED <<row, via, pending, cred, gen, at, epoch, reloaded, unlisted>> /\ pc[d] = "user"
    BY DEF ChangeRead
  <1>c. \A q \in Requests \ {d} : pc'[q] = pc[q] /\ seen'[q] = seen[q] /\ proof'[q] = proof[q]
    BY <1>a
  <1>d. \A r \in Installers : Bumped(r)' <=> Bumped(r)
    BY <1>a, <1>b
  <1>e. \A r \in Installers, s \in Issuers : Spares(r, s)' <=> Spares(r, s)
    BY <1>a, <1>b
  <1>2. Monotone'
    BY <1>a, <1>b, SMTT(60) DEF Monotone
  <1>3. Issued'
    BY <1>a, <1>b DEF Issued
  <1>4. Issues'
    <2>1. \A q \in Issuers : pc'[q] = pc[q] /\ seen'[q] = seen[q] /\ proof'[q] = proof[q]
      BY <1>c
    <2> QED
      BY <1>b, <1>d, <2>1 DEF Issues
  <1>5. Kept'
    <2> HIDE DEF Bumped, Spares
    <2> QED
      BY <1>b, <1>d, <1>e DEF Kept
  <1>6. Asks'
    <2>1. \A e \in Changes : pc'[e] = "user" => e # d /\ pc[e] = "user" /\ seen'[e] = seen[e]
      BY <1>a, <1>c
    <2>2. \A e \in Changes : pc[e] \notin {"idle", "start"} => via[e] \in Issuers
      BY DEF Issued
    <2> HIDE DEF Bumped, Spares
    <2> QED
      BY <1>b, <1>d, <1>e, <2>1, <2>2 DEF Asks
  <1>7. Rebinds'
    <2> SUFFICES ASSUME NEW e \in Changes, NEW r \in Installers,
                        pc'[e] \in {"write", "bump", "refresh", "rebind"},
                        via'[e] \in Logins \ reloaded, cred'[via'[e]].state = "live", Bumped(r)'
                 PROVE  (at[r] <= cred[via[e]].proof \/ Spares(r, via[e]))'
      BY <1>b DEF Rebinds
    <2>1. CASE e = d
      <3>1. label = "write" /\ Bumped(r) /\ epoch[r] <= seen[d].ver
        BY <1>a, <1>b, <2>1 DEF Monotone
      <3> QED
        BY <1>a, <1>b, <2>1, <3>1 DEF Asks
    <2>2. CASE e # d
      BY <1>a, <1>b, <2>2 DEF Rebinds
    <2> QED
      BY <2>1, <2>2
  <1> QED
    BY <1>2, <1>3, <1>4, <1>5, <1>6, <1>7

LEMMA EvictReload ==
    ASSUME EvictionInv, TypeInv', NEW d \in Changes, ChangeReload(d)
    PROVE  EvictionInv'
  BY KindsDisjoint, SMTT(30)
  DEF EvictionInv, TypeInv, TypeOK, Bumped, Spares, Goto, history, Requests, Issuers,
      Installers, Monotone, Issued, Issues, Holding, Kept, Asks, Rebinds, ChangeReload, ReloadRow

LEMMA EvictRebind ==
    ASSUME EvictionInv, TypeInv', NEW d \in Changes, ChangeRebind(d)
    PROVE  EvictionInv'
  <1> USE KindsDisjoint
          DEF EvictionInv, TypeInv, TypeOK, Bumped, Spares, Goto, history,
              Requests, Issuers, Installers, ChangeRebind, LiveSessions
  <1>1. (Monotone /\ Issued /\ Issues /\ Asks /\ Rebinds)'
    <2>2. Monotone'
      BY SMTT(30) DEF Monotone
    <2>3. Issued'
      BY SMTT(30) DEF Issued
    <2>4. Issues'
      BY ZenonT(60) DEF Issues, Holding
    <2>5. Asks'
      BY SMTT(30) DEF Asks
    <2>6. Rebinds'
      BY SMTT(30) DEF Rebinds
    <2>. QED
      BY <2>2, <2>3, <2>4, <2>5, <2>6
  <1>2. Kept'
    <2> SUFFICES ASSUME NEW c \in Issuers, c \notin reloaded, NEW r \in Installers, cred'[c].state = "live",
                        Bumped(r)', epoch'[r] <= cred'[c].ver
                 PROVE  (at[r] <= cred[c].proof \/ Spares(r, c))'
      BY DEF Kept
    <2>1. /\ cred[c].state = "live" /\ cred'[c].proof = cred[c].proof
          /\ Bumped(r) /\ (Spares(r, c) => Spares(r, c)')
      OBVIOUS
    <2>2. CASE c \in Logins /\ c = via[d]
      BY <2>1, <2>2 DEF Rebinds
    <2>3. CASE ~(c \in Logins /\ c = via[d])
      <3>1. cred'[c] = cred[c]
        BY <2>3
      <3> QED
        BY <2>1, <3>1 DEF Kept
    <2> QED
      BY <2>2, <2>3
  <1> QED
    BY <1>1, <1>2

LEMMA EvictWrite ==
    ASSUME EvictionInv, TypeInv', NEW q \in Installers, WritePassword(q)
    PROVE  EvictionInv'
  BY KindsDisjoint
  DEF EvictionInv, TypeInv, TypeOK, Bumped, Spares, Goto, history, Requests, Issuers,
      Installers, Monotone, Issued, Issues, Holding, Kept, Asks, Rebinds, WritePassword

LEMMA EvictBump ==
    ASSUME EvictionInv, TypeInv', NEW q \in Installers, BumpVersion(q)
    PROVE  EvictionInv'
  <1> USE KindsDisjoint
          DEF EvictionInv, TypeInv, TypeOK, Bumped, Spares, Goto, history,
              Requests, Issuers, Installers, BumpVersion
  <1>1. (Monotone /\ Issued /\ Rebinds)'
    BY DEF Monotone, Issued, Rebinds
  <1>2. Issues'
    BY SMTT(30) DEF Issues, Holding, Monotone
  <1>3. Kept'
    <2>1. \A c \in Issuers : cred[c].ver < row.ver + 1
      BY DEF Monotone
    <2> QED
      BY <2>1 DEF Kept
  <1>4. Asks'
    <2>1. \A d \in Requests : seen[d].ver < row.ver + 1
      BY DEF Monotone
    <2> QED
      BY <2>1 DEF Asks
  <1> QED
    BY <1>1, <1>2, <1>3, <1>4

LEMMA EvictList ==
    ASSUME EvictionInv, TypeInv', NEW q \in Installers, ListSessions(q)
    PROVE  EvictionInv'
  BY KindsDisjoint, SMTT(60)
  DEF EvictionInv, TypeInv, TypeOK, Bumped, Spares, Goto, history, Requests, Issuers,
      Installers, Monotone, Issued, Issues, Holding, Kept, Asks, Rebinds, ListSessions,
      LiveSessions

LEMMA EvictOne ==
    ASSUME EvictionInv, TypeInv', NEW q \in Installers, NEW s \in Logins, EvictSession(q, s)
    PROVE  EvictionInv'
  <1> USE KindsDisjoint
          DEF EvictionInv, TypeInv, TypeOK, Bumped, history, Requests, Issuers, Installers,
              EvictSession
  <1>1. (Monotone /\ Issued /\ Issues)'
    BY DEF Monotone, Issued, Issues, Holding
  <1>2. cred'[s].state = "dead" /\ \A c \in Issuers \ {s} : cred'[c] = cred[c]
    OBVIOUS
  <1>3. \A r \in Installers, c \in Issuers \ {s} : Spares(r, c) => Spares(r, c)'
    BY DEF Spares
  <1>4. \A d \in Changes : pc[d] \notin {"idle", "start"} => via[d] \in Issuers
    BY DEF Issued
  <1>5. Kept'
    BY <1>2, <1>3 DEF Kept
  <1>6. Asks'
    BY <1>2, <1>3, <1>4 DEF Asks
  <1>7. Rebinds'
    BY <1>2, <1>3, <1>4 DEF Rebinds
  <1> QED
    BY <1>1, <1>5, <1>6, <1>7

LEMMA EvictEnd ==
    ASSUME EvictionInv, TypeInv', NEW q \in Installers, EvictDone(q)
    PROVE  EvictionInv'
  BY KindsDisjoint
  DEF EvictionInv, TypeInv, TypeOK, Bumped, Spares, Goto, history, Requests, Issuers,
      Installers, Monotone, Issued, Issues, Holding, Kept, Asks, Rebinds, EvictDone

LEMMA EvictRequest ==
    ASSUME EvictionInv, TypeInv', NEW k \in Links, RequestReset(k)
    PROVE  EvictionInv'
  BY KindsDisjoint
  DEF EvictionInv, TypeInv, TypeOK, Bumped, Spares, Goto, history, Requests, Issuers,
      Installers, Monotone, Issued, Issues, Holding, Kept, Asks, Rebinds, RequestReset

LEMMA EvictActive ==
    ASSUME EvictionInv, TypeInv', NEW b \in BOOLEAN, SetActive(b)
    PROVE  EvictionInv'
  BY KindsDisjoint
  DEF EvictionInv, TypeInv, TypeOK, Bumped, Spares, Goto, history, Requests, Issuers,
      Installers, Monotone, Issued, Issues, Holding, Kept, Asks, Rebinds, SetActive

LEMMA EvictionInit == Init => EvictionInv
  <1> SUFFICES ASSUME Init PROVE EvictionInv
    OBVIOUS
  <1>1. TypeInv
    BY TypeInit
  <1>2. \A r \in Requests : pc[r] \in {"idle", "start"}
    BY DEF Init
  <1>3. row.ver = 0
    BY DEF Init
  <1>4. \A r \in Installers : ~Bumped(r)
    BY <1>2 DEF Bumped, Requests, Installers
  <1>5. \A c \in Issuers : cred[c].state = "none" /\ cred[c].ver = 0
    BY DEF Init, NoCred
  <1>6. \A q \in Requests : seen[q].ver = 0
    BY DEF Init
  <1>7. \A r \in Installers : epoch[r] = 0 /\ pending[r] = {} /\ pc[r] \in {"idle", "start"}
    BY <1>2 DEF Init, Requests, Installers
  <1>8. Monotone
    BY <1>3, <1>4, <1>5, <1>6, <1>7 DEF Monotone
  <1>9. Issued
    BY <1>5, <1>7 DEF Issued, Installers
  <1>10. Issues /\ Kept /\ Asks /\ Rebinds
    BY <1>4 DEF Issues, Kept, Asks, Rebinds
  <1> QED
    BY <1>1, <1>8, <1>9, <1>10 DEF EvictionInv

LEMMA EvictionInstall ==
    ASSUME EvictionInv, TypeInv', NEW r \in Installers, InstallStep(r)
    PROVE  EvictionInv'
  BY EvictWrite, EvictBump, EvictList, EvictOne, EvictEnd DEF InstallStep

LEMMA EvictionStep == EvictionInv /\ [Next]_vars => EvictionInv'
  <1> SUFFICES ASSUME EvictionInv, [Next]_vars PROVE EvictionInv'
    OBVIOUS
  <1>1. TypeInv'
    BY TypeStep DEF EvictionInv
  <1>2. ASSUME NEW l \in Logins \cup TokenLogins, LoginStep(l) PROVE EvictionInv'
    BY <1>1, <1>2, EvictLoginRead, EvictHold, EvictLoginIssue DEF LoginStep, Issuers
  <1>3. ASSUME NEW f \in Refreshes, RefreshStep(f) PROVE EvictionInv'
    BY <1>1, <1>3, EvictRefreshRead, EvictLoginIssue DEF RefreshStep, Issuers
  <1>4. ASSUME NEW r \in Resets, ResetStep(r) PROVE EvictionInv'
    BY <1>1, <1>4, EvictRedeem, EvictConsume, EvictionInstall DEF ResetStep, Installers
  <1>5. ASSUME NEW c \in Changes, ChangeStep(c) PROVE EvictionInv'
    BY <1>1, <1>5, EvictAuth, EvictRead, EvictReload, EvictRebind, EvictionInstall
    DEF ChangeStep, Installers
  <1>6. ASSUME NEW k \in Links, RequestReset(k) PROVE EvictionInv'
    BY <1>1, <1>6, EvictRequest
  <1>7. ASSUME NEW s \in Logins, SessionEnds(s) PROVE EvictionInv'
    BY <1>1, <1>7, EvictSessionEnds
  <1>8. ASSUME NEW b \in BOOLEAN, SetActive(b) PROVE EvictionInv'
    BY <1>1, <1>8, EvictActive
  <1>9. CASE UNCHANGED vars
    BY <1>1, <1>9 DEF vars, EvictionInv, Monotone, Issued, Issues, Kept, Asks,
                      Rebinds, Bumped, Spares
  <1> QED
    BY <1>2, <1>3, <1>4, <1>5, <1>6, <1>7, <1>8, <1>9 DEF Next

LEMMA InvEvicts == EvictionInv => EvictionComplete
  <1> SUFFICES ASSUME EvictionInv, NEW r \in Installers, r \notin unlisted, pc[r] = "done",
                      NEW c \in Issuers, c \notin reloaded, Usable(c)
               PROVE  ~Superseded(c, r)
    BY DEF EvictionComplete, Evicted
  <1>1. Bumped(r) /\ epoch[r] <= cred[c].ver /\ cred[c].state = "live"
    BY DEF EvictionInv, Monotone, Bumped, Usable
  <1>2. at[r] <= cred[c].proof \/ Spares(r, c)
    BY <1>1 DEF EvictionInv, Kept
  <1>3. CASE at[r] <= cred[c].proof
    BY <1>3 DEF Superseded, EvictionInv, TypeInv, TypeOK
  <1>4. CASE Spares(r, c)
    BY <1>4 DEF Superseded, Spares
  <1> QED
    BY <1>2, <1>3, <1>4

(* Eviction is complete for every account, whatever requests run and        *)
(* however they interleave: once a reset or change whose listing worked has *)
(* answered, no session and no token that rests on an older password check  *)
(* is accepted, except that of a login which reloaded the row after a bump. *)
THEOREM EvictionCorrect == Spec => []EvictionComplete
  BY EvictionInit, EvictionStep, InvEvicts, PTL DEF Spec

-----------------------------------------------------------------------------
(* A consumed link stays marked, and only one reset finds it unmarked.      *)
LinkInv ==
    /\ LinkAppliedOnce
    /\ \A r \in Resets : pc[r] \in Consumed => via[r] \in used

LEMMA LinkStep == TypeInv /\ LinkInv /\ [Next]_vars => LinkInv'
  <1> SUFFICES ASSUME TypeInv, LinkInv, [Next]_vars PROVE LinkInv'
    OBVIOUS
  <1> USE KindsDisjoint DEF LinkInv, LinkAppliedOnce, Consumed, TypeInv, TypeOK,
                            Requests, Goto, history
  <1>1. ASSUME NEW l \in Logins \cup TokenLogins, LoginStep(l) PROVE LinkInv'
    <2>1. /\ \A r \in Resets : pc'[r] = pc[r]
          /\ via' = via /\ used' = used
      BY <1>1 DEF LoginStep, LoginRead, LoginRehash, LoginReload, VerifyRead,
                  VerifyClaim, LoginIssue
    <2> QED
      BY <2>1
  <1>2. ASSUME NEW f \in Refreshes, RefreshStep(f) PROVE LinkInv'
    <2>1. /\ \A r \in Resets : pc'[r] = pc[r] /\ via'[r] = via[r]
          /\ used' = used
      BY <1>2 DEF RefreshStep, RefreshRead, LoginIssue
    <2> QED
      BY <2>1
  <1>3. ASSUME NEW r \in Resets, NEW k \in Links, ResetRedeem(r, k) PROVE LinkInv'
    BY <1>3 DEF ResetRedeem
  <1>4. ASSUME NEW r \in Resets, ResetConsume(r) PROVE LinkInv'
    BY <1>4 DEF ResetConsume
  <1>5. ASSUME NEW c \in Changes, ChangeStep(c) PROVE LinkInv'
    <2>1. /\ \A r \in Resets : pc'[r] = pc[r] /\ via'[r] = via[r]
          /\ used' = used
      BY <1>5 DEF ChangeStep, ChangeAuth, ChangeRead, ChangeReload, ChangeRebind,
                  InstallStep, WritePassword, BumpVersion, ListSessions, EvictSession,
                  EvictDone
    <2> QED
      BY <2>1
  <1>6. ASSUME NEW r \in Resets, InstallStep(r) PROVE LinkInv'
    <2>1. /\ pc[r] \in Consumed /\ via' = via /\ used' = used
          /\ \A q \in Resets \ {r} : pc'[q] = pc[q]
      BY <1>6 DEF InstallStep, WritePassword, BumpVersion, ListSessions, EvictSession,
                  EvictDone
    <2> QED
      BY <2>1
  <1>7. CASE \/ \E k \in Links : RequestReset(k)
             \/ \E s \in Logins : SessionEnds(s)
             \/ \E b \in BOOLEAN : SetActive(b)
             \/ UNCHANGED vars
    BY <1>7 DEF RequestReset, SessionEnds, SetActive, vars
  <1> QED
    BY <1>1, <1>2, <1>3, <1>4, <1>5, <1>6, <1>7 DEF Next, ResetStep

(* A reset link sets at most one password, for every account: rehashes and  *)
(* two-factor logins included.                                              *)
THEOREM LinkOnceCorrect == Spec => []LinkAppliedOnce
  <1>1. Init => LinkInv
    BY DEF Init, LinkInv, LinkAppliedOnce, Consumed, Requests
  <1>2. LinkInv => LinkAppliedOnce
    BY DEF LinkInv
  <1> QED
    BY <1>1, <1>2, TypeInit, TypeStep, LinkStep, PTL DEF Spec

-----------------------------------------------------------------------------
(* A two-factor challenge is not accepted once a reset or a change that     *)
(* wrote its password after the check has bumped the version, for any number *)
(* of logins, resets and changes, unless the login's rehash reloaded the    *)
(* row after a bump (mfa/service.py complete_challenge).                    *)
THEOREM ChallengesDie == Spec => ChallengeDiesWithPassword
  <1> DEFINE Step == \A l \in Logins \cup TokenLogins, r \in Installers :
                         /\ pc[l] = "challenge" /\ pc'[l] = "claim"
                         /\ l \notin reloaded
                         /\ epoch[r] # 0
                         => proof[l] >= at[r]
  <1>1. EvictionInv /\ [Next]_vars => [Step]_vars
    <2> SUFFICES ASSUME EvictionInv, Next,
                        NEW l \in Logins \cup TokenLogins, NEW r \in Installers,
                        pc[l] = "challenge", pc'[l] = "claim",
                        l \notin reloaded, epoch[r] # 0
                 PROVE  proof[l] >= at[r]
      OBVIOUS
    <2>1. VerifyRead(l)
      <3> USE DEF EvictionInv, TypeInv, TypeOK, Goto, Requests, Installers, Issuers, history
      <3>1. ASSUME NEW q \in Logins \cup TokenLogins, LoginStep(q) PROVE VerifyRead(l)
        <4>1. q = l
          BY <3>1 DEF LoginStep, LoginRead, LoginRehash, LoginReload, VerifyRead, VerifyClaim, LoginIssue
        <4>0. \/ VerifyRead(l) \/ LoginRehash(l) \/ LoginReload(l) \/ VerifyClaim(l) \/ LoginIssue(l)
              \/ \E p \in Passwords : LoginRead(l, p)
          BY <3>1, <4>1, Zenon DEF LoginStep
        <4>2. LoginRehash(l) \/ LoginReload(l) \/ VerifyClaim(l) \/ LoginIssue(l) => FALSE
          BY DEF LoginRehash, LoginReload, VerifyClaim, LoginIssue
        <4>3. ASSUME NEW p \in Passwords, LoginRead(l, p) PROVE FALSE
          BY <4>3 DEF LoginRead
        <4> QED
          BY <4>0, <4>2, <4>3, Zenon
      <3>2. ASSUME NEW f \in Refreshes, RefreshStep(f) PROVE pc'[l] = pc[l]
        <4>1. f # l
          BY KindsDisjoint
        <4>2. \E label \in {"issue", "refused", "done"} : Goto(f, label)
          BY <3>2 DEF RefreshStep, RefreshRead, LoginIssue
        <4> QED
          BY <4>1, <4>2
      <3>3. ASSUME NEW q \in Installers, InstallStep(q) PROVE pc'[l] = pc[l]
        BY <3>3, KindsDisjoint DEF InstallStep, WritePassword, BumpVersion, ListSessions, EvictSession, EvictDone
      <3>4. ASSUME NEW q \in Resets, ResetStep(q) PROVE pc'[l] = pc[l]
        BY <3>3, <3>4, KindsDisjoint DEF ResetStep, ResetRedeem, ResetConsume
      <3>5. ASSUME NEW c \in Changes, ChangeStep(c) PROVE pc'[l] = pc[l]
        BY <3>3, <3>5, KindsDisjoint DEF ChangeStep, ChangeAuth, ChangeRead, ChangeReload, ChangeRebind
      <3>6. CASE \/ \E k \in Links : RequestReset(k)
                 \/ \E s \in Logins : SessionEnds(s)
                 \/ \E b \in BOOLEAN : SetActive(b)
        BY <3>6 DEF RequestReset, SessionEnds, SetActive
      <3> QED
        BY <3>1, <3>2, <3>4, <3>5, <3>6 DEF Next
    <2>2. row.ver = seen[l].ver
      BY <2>1 DEF VerifyRead, Goto, EvictionInv, TypeInv, TypeOK, Requests
    <2>3. Bumped(r) /\ epoch[r] <= seen[l].ver
      BY <2>2 DEF EvictionInv, Monotone
    <2>4. at[r] <= proof[l] /\ at[r] \in Nat /\ proof[l] \in Nat
      BY <2>3 DEF EvictionInv, Issues, Holding, Issuers, TypeInv, TypeOK, Requests
    <2> QED
      BY <2>4
  <1> QED
    BY <1>1, EvictionInit, EvictionStep, PTL DEF Spec, ChallengeDiesWithPassword

-----------------------------------------------------------------------------
(***************************************************************************)
(* The caller of a change. Two changes that work on one session at once    *)
(* may rebind it in the order opposite to their bumps, and are crossed;    *)
(* the argument is about the others.                                       *)
(***************************************************************************)
Past == {"list", "evict", "done"}

(* Where the version comes from: the last bump, which its request knows.    *)
VersionInv ==
    /\ \A r \in Installers : epoch[r] <= row.ver
    /\ row.ver # 0 => \E r \in Installers : epoch[r] = row.ver

(* The session or token a change calls with has been issued, so no login    *)
(* writes it again, and from the rebind on it carries a version no older    *)
(* than the change's own bump.                                              *)
CallerInv ==
    \A c \in Changes :
        /\ pc[c] \notin {"idle", "start"} => via[c] \in Issuers /\ pc[via[c]] = "done"
        /\ pc[c] = "rebind" => epoch[c] <= seen[c].ver /\ seen[c].ver <= row.ver
        /\ c \notin crossed /\ pc[c] \in Past /\ via[c] \in LiveSessions =>
              epoch[c] <= cred[via[c]].ver /\ cred[via[c]].ver <= row.ver

(* No other change on the session is at work beside one that is not         *)
(* crossed, and one that rebinds the session later read a version no older  *)
(* than its bump.                                                           *)
AloneInv ==
    \A c \in Changes \ crossed, d \in Changes :
        via[d] = via[c] /\ d # c =>
            /\ ~(pc[c] \in AtWork /\ pc[d] \in AtWork)
            /\ pc[d] = "rebind" /\ pc[c] \in Past => epoch[c] <= seen[d].ver

(* A credential that exists belongs to a request that has finished, and     *)
(* only sessions that exist are waiting to be evicted.                      *)
IssuedInv ==
    /\ \A i \in Issuers : cred[i].state # "none" => pc[i] = "done"
    /\ \A r \in Installers : \A s \in pending[r] : cred[s].state # "none"

KeepInv == VersionInv /\ CallerInv /\ AloneInv /\ IssuedInv

(* A step with which no change starts to work, passes its rebind or reads   *)
(* a version.                                                               *)
LEMMA AloneSame ==
    ASSUME AloneInv, crossed' = crossed,
           \A c \in Changes : /\ via'[c] = via[c]
                              /\ pc'[c] \in AtWork => pc[c] \in AtWork
                              /\ pc'[c] = "rebind" => pc[c] = "rebind" /\ seen'[c] = seen[c]
                              /\ pc'[c] \in Past => pc[c] \in Past /\ epoch'[c] = epoch[c]
    PROVE  AloneInv'
  <1> SUFFICES ASSUME NEW c \in Changes, c \notin crossed, NEW d \in Changes, via[d] = via[c], d # c
               PROVE  /\ ~(pc'[c] \in AtWork /\ pc'[d] \in AtWork)
                      /\ pc'[d] = "rebind" /\ pc'[c] \in Past => epoch'[c] <= seen'[d].ver
    BY DEF AloneInv
  <1>1. ~(pc[c] \in AtWork /\ pc[d] \in AtWork)
    BY DEF AloneInv
  <1>2. pc[d] = "rebind" /\ pc[c] \in Past => epoch[c] <= seen[d].ver
    BY DEF AloneInv
  <1> QED
    BY <1>1, <1>2

(* A step of neither the change nor the version, that ends sessions at most *)
(* and issues credentials only for requests that had not finished.          *)
LEMMA KeepSame ==
    ASSUME TypeInv, KeepInv, UNCHANGED <<epoch, crossed>>, row'.ver = row.ver,
           \A i \in Issuers : pc[i] = "done" => pc'[i] = "done",
           \A i \in Issuers : cred'[i].state # "none" => pc'[i] = "done",
           UNCHANGED pending, \A i \in Issuers : cred'[i].state = "none" => cred[i].state = "none",
           \A i \in Issuers : pc[i] = "done" /\ cred'[i].state = "live" =>
               cred[i].state = "live" /\ cred'[i].ver = cred[i].ver,
           \A c \in Changes : pc'[c] = pc[c] /\ via'[c] = via[c] /\ seen'[c] = seen[c]
    PROVE  KeepInv'
  <1>1. VersionInv'
    BY DEF KeepInv, VersionInv
  <1>2. IssuedInv'
    BY DEF KeepInv, IssuedInv, TypeInv, TypeOK, Issuers
  <1>3. ASSUME NEW c \in Changes, pc'[c] \notin {"idle", "start"} PROVE via'[c] \in Issuers /\ pc'[via'[c]] = "done"
    BY <1>3 DEF KeepInv, CallerInv
  <1>4. ASSUME NEW c \in Changes, c \notin crossed, pc'[c] \in Past, via'[c] \in LiveSessions'
        PROVE  epoch'[c] <= cred'[via'[c]].ver /\ cred'[via'[c]].ver <= row'.ver
    <2>1. via[c] \in Issuers /\ pc[via[c]] = "done" /\ cred'[via[c]].state = "live" /\ via[c] \in Logins
      BY <1>4 DEF KeepInv, CallerInv, LiveSessions, Past
    <2>2. via[c] \in LiveSessions /\ cred'[via[c]].ver = cred[via[c]].ver
      BY <2>1 DEF LiveSessions
    <2> QED
      BY <1>4, <2>2 DEF KeepInv, CallerInv
  <1>5. CallerInv'
    BY <1>3, <1>4 DEF KeepInv, CallerInv
  <1>6. AloneInv'
    BY AloneSame DEF KeepInv
  <1> QED
    BY <1>1, <1>2, <1>5, <1>6 DEF KeepInv

LEMMA KeepLogin ==
    ASSUME TypeInv, KeepInv, NEW l \in Issuers, LoginStep(l) \/ RefreshStep(l)
    PROVE  KeepInv'
  <1> USE DEF TypeInv, TypeOK, Goto, Requests, Installers, Issuers, history
  <1>1. pc[l] # "done" /\ UNCHANGED <<epoch, crossed>> /\ row'.ver = row.ver /\ l \notin Changes
    BY KindsDisjoint DEF LoginStep, LoginRead, LoginRehash, LoginReload, VerifyRead, VerifyClaim, LoginIssue,
                         RefreshStep, RefreshRead
  <1>2. \A q \in Requests \ {l} : pc'[q] = pc[q] /\ via'[q] = via[q] /\ seen'[q] = seen[q]
    BY DEF LoginStep, LoginRead, LoginRehash, LoginReload, VerifyRead, VerifyClaim, LoginIssue,
           RefreshStep, RefreshRead, ReadRow, ReloadLogin, ReloadRow
  <1>3. pending' = pending /\ (cred' = cred \/ (pc'[l] = "done" /\ \A i \in Issuers \ {l} : cred'[i] = cred[i]))
    BY DEF LoginStep, LoginRead, LoginRehash, LoginReload, VerifyRead, VerifyClaim, LoginIssue,
           RefreshStep, RefreshRead
  <1>4. cred[l].state = "none"
    BY <1>1 DEF KeepInv, IssuedInv
  <1>5. \A i \in Issuers : pc[i] = "done" => pc'[i] = "done" /\ cred'[i] = cred[i]
    BY <1>1, <1>2, <1>3
  <1>6. \A i \in Issuers : /\ cred'[i].state # "none" => pc'[i] = "done"
                           /\ cred'[i].state = "none" => cred[i].state = "none"
    BY <1>2, <1>3, <1>4 DEF KeepInv, IssuedInv
  <1>7. \A c \in Changes : pc'[c] = pc[c] /\ via'[c] = via[c] /\ seen'[c] = seen[c]
    BY <1>1, <1>2
  <1>8. \A i \in Issuers : pc[i] = "done" /\ cred'[i].state = "live" =>
            cred[i].state = "live" /\ cred'[i].ver = cred[i].ver
    BY <1>5
  <1>9. UNCHANGED <<epoch, crossed>> /\ row'.ver = row.ver /\ pending' = pending
    BY <1>1, <1>3
  <1> HIDE DEF TypeInv, TypeOK, Requests, Installers, Issuers
  <1> QED
    BY <1>5, <1>6, <1>7, <1>8, <1>9, KeepSame

(* The steps of a reset, and those a change shares with it.                 *)
LEMMA KeepInstall ==
    ASSUME TypeInv, KeepInv, NEW r \in Installers, InstallStep(r)
    PROVE  KeepInv'
  <1> USE DEF TypeInv, TypeOK, Goto, Requests, Installers, Issuers, history
  <1>1. r \notin Issuers /\ r \in Requests
    BY KindsDisjoint
  <1>2. \A q \in Requests \ {r} : pc'[q] = pc[q]
    BY DEF InstallStep, WritePassword, BumpVersion, ListSessions, EvictSession, EvictDone
  <1>3. via' = via /\ seen' = seen /\ crossed' = crossed
    BY DEF InstallStep, WritePassword, BumpVersion, ListSessions, EvictSession, EvictDone
  <1>8. AloneInv'
    <2>1. \A q \in Changes : /\ pc'[q] \in AtWork => pc[q] \in AtWork
                             /\ pc'[q] = "rebind" => pc[q] = "rebind"
                             /\ pc'[q] \in Past => pc[q] \in Past /\ epoch'[q] = epoch[q]
      <3> SUFFICES ASSUME NEW q \in Changes
                   PROVE  /\ pc'[q] \in AtWork => pc[q] \in AtWork
                          /\ pc'[q] = "rebind" => pc[q] = "rebind"
                          /\ pc'[q] \in Past => pc[q] \in Past /\ epoch'[q] = epoch[q]
        OBVIOUS
      <3>1. CASE q # r
        <4>1. pc'[q] = pc[q] /\ epoch'[q] = epoch[q]
          BY <1>2, <3>1 DEF InstallStep, WritePassword, BumpVersion, ListSessions, EvictSession, EvictDone
        <4> QED
          BY <4>1
      <3>2. CASE q = r
        BY <3>2 DEF InstallStep, WritePassword, BumpVersion, ListSessions, EvictSession, EvictDone, AtWork, Past
      <3> QED
        BY <3>1, <3>2
    <2> HIDE DEF TypeInv, TypeOK, Requests, Installers, Issuers
    <2> QED
      BY <1>3, <2>1, AloneSame DEF KeepInv
  <1>4. CASE WritePassword(r)
    <2>1. /\ row'.ver = row.ver /\ UNCHANGED <<epoch, cred, pending>>
          /\ pc[r] = "write" /\ pc'[r] = "bump"
      BY <1>4 DEF WritePassword
    <2>2. VersionInv' /\ IssuedInv'
      BY <1>1, <1>2, <2>1 DEF KeepInv, VersionInv, IssuedInv
    <2>3. LiveSessions' = LiveSessions
      BY <2>1 DEF LiveSessions
    <2>4. CallerInv'
      <3>1. \A c \in Changes : pc'[c] \notin {"idle", "start"} => via[c] \in Issuers /\ pc'[via[c]] = "done"
        BY <1>1, <1>2, <2>1, SMTT(30) DEF KeepInv, CallerInv
      <3>2. \A c \in Changes : pc'[c] \in {"rebind", "list", "evict", "done"} => pc'[c] = pc[c]
        BY <1>2, <2>1
      <3> QED
        BY <1>3, <2>1, <2>3, <3>1, <3>2 DEF KeepInv, CallerInv, Past
    <2> QED
      BY <1>8, <2>2, <2>4 DEF KeepInv
  <1>5. CASE BumpVersion(r)
    <2>1. /\ row'.ver = row.ver + 1 /\ row.ver \in Nat /\ UNCHANGED <<cred, pending>>
          /\ epoch' = [epoch EXCEPT ![r] = row.ver + 1] /\ pc'[r] \in {"refresh", "list"}
          /\ (r \in Changes => pc'[r] = "refresh") /\ pc[r] = "bump"
      BY <1>5 DEF BumpVersion
    <2>2. VersionInv'
      BY <2>1 DEF KeepInv, VersionInv
    <2>3. IssuedInv'
      BY <1>1, <1>2, <2>1 DEF KeepInv, IssuedInv
    <2>4. \A c \in Changes \ {r} : epoch'[c] = epoch[c] /\ pc'[c] = pc[c]
      BY <1>2, <2>1
    <2>5. \A c \in Changes : seen[c].ver \in Nat /\ \A i \in Issuers : cred[i].ver \in Nat
      OBVIOUS
    <2>6. CallerInv'
      BY <1>1, <1>2, <1>3, <2>1, <2>4, <2>5 DEF KeepInv, CallerInv, LiveSessions, Past
    <2> QED
      BY <1>8, <2>2, <2>3, <2>6 DEF KeepInv
  <1>6. CASE ListSessions(r) \/ EvictDone(r)
    <2>1. /\ row' = row /\ epoch' = epoch /\ cred' = cred /\ pc[r] \in {"list", "evict"}
          /\ pc'[r] \in {"evict", "done"}
      BY <1>6 DEF ListSessions, EvictDone
    <2>2. \A q \in Installers : pending'[q] \subseteq pending[q] \cup LiveSessions
      BY <1>6 DEF ListSessions, EvictDone
    <2>3. IssuedInv'
      BY <1>1, <1>2, <2>1, <2>2 DEF KeepInv, IssuedInv, LiveSessions
    <2>4. /\ \A c \in Changes :
                /\ pc'[c] \in Past => pc[c] \in Past
                /\ pc'[c] = "rebind" => pc[c] = "rebind"
                /\ pc'[c] \notin {"idle", "start"} => pc[c] \notin {"idle", "start"}
          /\ \A i \in Issuers : pc'[i] = pc[i]
      BY <1>1, <1>2, <2>1 DEF Past
    <2>5. LiveSessions' = LiveSessions
      BY <2>1 DEF LiveSessions
    <2>6. CallerInv'
      <3> HIDE DEF TypeInv, TypeOK, Requests, Installers
      <3>1. \A c \in Changes : pc'[c] \notin {"idle", "start"} => via[c] \in Issuers /\ pc'[via[c]] = "done"
        BY <2>4 DEF KeepInv, CallerInv
      <3> QED
        BY <1>3, <2>1, <2>4, <2>5, <3>1 DEF KeepInv, CallerInv
    <2> QED
      BY <1>8, <2>1, <2>3, <2>6 DEF KeepInv, VersionInv
  <1>7. ASSUME NEW s \in Logins, EvictSession(r, s) PROVE KeepInv'
    <2>1. /\ row' = row /\ epoch' = epoch /\ pc' = pc /\ s \in pending[r]
          /\ cred' = [cred EXCEPT ![s].state = "dead"]
      BY <1>7 DEF EvictSession
    <2>2. \A i \in Issuers : cred'[i].ver = cred[i].ver /\ (i # s => cred'[i] = cred[i])
      BY <2>1
    <2>3. cred'[s].state = "dead" /\ s \in Issuers
      BY <2>1
    <2>4. CallerInv'
      BY <1>3, <2>1, <2>2, <2>3 DEF KeepInv, CallerInv, LiveSessions
    <2>5. \A q \in Installers : pending'[q] \subseteq pending[q]
      BY <1>7 DEF EvictSession
    <2>6. IssuedInv'
      BY <2>1, <2>2, <2>3, <2>5 DEF KeepInv, IssuedInv
    <2> QED
      BY <1>8, <2>1, <2>4, <2>6 DEF KeepInv, VersionInv
  <1> QED
    BY <1>4, <1>5, <1>6, <1>7 DEF InstallStep

(* The steps of a change of its own.                                        *)
LEMMA KeepChange ==
    ASSUME TypeInv, KeepInv, NEW c \in Changes, ChangeStep(c)
    PROVE  KeepInv'
  <1> USE DEF TypeInv, TypeOK, Goto, Requests, Installers, Issuers, history
  <1>1. c \notin Issuers /\ c \in Requests
    BY KindsDisjoint
  <1>2. ASSUME NEW v \in Issuers, ChangeAuth(c, v) PROVE KeepInv'
    <2>1. /\ UNCHANGED <<row, epoch, cred, pending, crossed>> /\ pc'[c] = "user" /\ via'[c] = v
          /\ cred[v].state = "live"
          /\ \A q \in Requests \ {c} : pc'[q] = pc[q] /\ via'[q] = via[q] /\ seen'[q] = seen[q]
      BY <1>2 DEF ChangeAuth
    <2>2. VersionInv' /\ IssuedInv'
      BY <1>1, <2>1 DEF KeepInv, VersionInv, IssuedInv
    <2>3. CallerInv'
      BY <1>1, <2>1 DEF KeepInv, CallerInv, IssuedInv, LiveSessions, Past
    <2>4. AloneInv'
      BY <1>1, <2>1 DEF KeepInv, AloneInv, AtWork, Past
    <2> QED
      BY <2>2, <2>3, <2>4 DEF KeepInv
  <1>3. ASSUME NEW p \in Passwords, ChangeRead(c, p) PROVE KeepInv'
    <2>1. /\ UNCHANGED <<row, epoch, cred, pending, via>> /\ pc[c] = "user" /\ pc'[c] \in {"write", "refused"}
          /\ \A q \in Requests \ {c} : pc'[q] = pc[q] /\ seen'[q] = seen[q]
          /\ crossed \subseteq crossed'
      BY <1>3 DEF ChangeRead, ReadRow
    <2>2. VersionInv' /\ IssuedInv'
      BY <1>1, <2>1 DEF KeepInv, VersionInv, IssuedInv
    <2>3. CallerInv'
      BY <1>1, <2>1 DEF KeepInv, CallerInv, IssuedInv, LiveSessions, Past
    <2>4. pc'[c] = "write" => \A d \in Changes \ {c} : via[d] = via[c] /\ pc[d] \in AtWork =>
              c \in crossed' /\ d \in crossed'
      BY <1>3 DEF ChangeRead, Beside
    <2>5. AloneInv'
      <3> SUFFICES ASSUME NEW a \in Changes, a \notin crossed', NEW d \in Changes, via[d] = via[a], d # a
                   PROVE  /\ ~(pc'[a] \in AtWork /\ pc'[d] \in AtWork)
                          /\ pc'[d] = "rebind" /\ pc'[a] \in Past => epoch[a] <= seen'[d].ver
        BY <2>1 DEF AloneInv
      <3>1. /\ ~(pc[a] \in AtWork /\ pc[d] \in AtWork)
            /\ pc[d] = "rebind" /\ pc[a] \in Past => epoch[a] <= seen[d].ver
        BY <2>1 DEF KeepInv, AloneInv
      <3>2. CASE a # c /\ d # c
        BY <2>1, <3>1, <3>2
      <3>3. CASE a = c
        BY <2>1, <2>4, <3>3 DEF AtWork, Past
      <3>4. CASE d = c
        BY <2>1, <2>4, <3>4 DEF AtWork, Past
      <3> QED
        BY <3>2, <3>3, <3>4
    <2> QED
      BY <2>2, <2>3, <2>5 DEF KeepInv
  <1>4. CASE ChangeReload(c)
    <2>1. /\ UNCHANGED <<row, epoch, cred, pending, via, crossed>> /\ pc[c] = "refresh" /\ pc'[c] = "rebind"
          /\ seen'[c].ver = row.ver /\ row.ver \in Nat
          /\ \A q \in Requests \ {c} : pc'[q] = pc[q] /\ seen'[q] = seen[q]
      BY <1>4 DEF ChangeReload, ReloadLogin, ReloadRow
    <2>2. VersionInv' /\ IssuedInv'
      BY <1>1, <2>1 DEF KeepInv, VersionInv, IssuedInv
    <2>3. CallerInv'
      <3>1. LiveSessions' = LiveSessions /\ epoch[c] <= row.ver
        BY <2>1 DEF LiveSessions, KeepInv, VersionInv
      <3>2. \A i \in Issuers : pc'[i] = pc[i]
        BY <1>1, <2>1
      <3>3. \A d \in Changes \ {c} : pc'[d] = pc[d] /\ seen'[d] = seen[d]
        BY <2>1
      <3> QED
        BY <2>1, <3>1, <3>2, <3>3 DEF KeepInv, CallerInv, Past
    <2>4. AloneInv'
      <3> SUFFICES ASSUME NEW a \in Changes, a \notin crossed, NEW d \in Changes, via[d] = via[a], d # a
                   PROVE  /\ ~(pc'[a] \in AtWork /\ pc'[d] \in AtWork)
                          /\ pc'[d] = "rebind" /\ pc'[a] \in Past => epoch[a] <= seen'[d].ver
        BY <2>1 DEF AloneInv
      <3>1. /\ ~(pc[a] \in AtWork /\ pc[d] \in AtWork)
            /\ pc[d] = "rebind" /\ pc[a] \in Past => epoch[a] <= seen[d].ver
            /\ epoch[a] <= row.ver
        BY <2>1 DEF KeepInv, AloneInv, VersionInv
      <3> QED
        BY <2>1, <3>1 DEF AtWork, Past
    <2> QED
      BY <2>2, <2>3, <2>4 DEF KeepInv
  <1>5. CASE ChangeRebind(c)
    <2>1. /\ UNCHANGED <<row, epoch, pending, via, seen, crossed>> /\ pc[c] = "rebind" /\ pc'[c] = "list"
          /\ \A q \in Requests \ {c} : pc'[q] = pc[q]
      BY <1>5 DEF ChangeRebind
    <2>2. \A i \in Issuers : cred'[i].state = cred[i].state
      BY <1>5 DEF ChangeRebind, LiveSessions
    <2>3. \A i \in Issuers : \/ cred'[i].ver = cred[i].ver /\ (i = via[c] => i \notin LiveSessions)
                             \/ i = via[c] /\ cred'[i].ver = seen[c].ver
      BY <1>5 DEF ChangeRebind, LiveSessions
    <2>4. LiveSessions' = LiveSessions /\ LiveSessions \subseteq Issuers
      BY <2>2 DEF LiveSessions
    <2>5. VersionInv' /\ IssuedInv'
      BY <1>1, <2>1, <2>2 DEF KeepInv, VersionInv, IssuedInv
    <2>6. epoch[c] <= seen[c].ver /\ seen[c].ver <= row.ver
      BY <2>1 DEF KeepInv, CallerInv
    <2>7. ASSUME NEW d \in Changes, d \notin crossed, pc'[d] \in Past, via[d] \in LiveSessions
          PROVE  epoch[d] <= cred'[via[d]].ver /\ cred'[via[d]].ver <= row.ver
      <3>1. CASE d = c
        BY <2>3, <2>4, <2>6, <2>7, <3>1
      <3>2. CASE d # c
        <4>1. pc[d] \in Past
          BY <2>1, <2>7, <3>2
        <4>2. epoch[d] <= cred[via[d]].ver /\ cred[via[d]].ver <= row.ver
          BY <2>7, <4>1 DEF KeepInv, CallerInv
        <4>3. via[d] = via[c] => epoch[d] <= seen[c].ver
          BY <2>1, <2>7, <3>2, <4>1 DEF KeepInv, AloneInv
        <4> QED
          BY <2>3, <2>4, <2>6, <2>7, <4>2, <4>3
      <3> QED
        BY <3>1, <3>2
    <2>8. CallerInv'
      <3>1. \A d \in Changes : pc'[d] \notin {"idle", "start"} => via[d] \in Issuers /\ pc'[via[d]] = "done"
        BY <1>1, <2>1, SMTT(30) DEF KeepInv, CallerInv
      <3>2. \A d \in Changes : pc'[d] = "rebind" => epoch[d] <= seen[d].ver /\ seen[d].ver <= row.ver
        BY <1>1, <2>1, SMTT(30) DEF KeepInv, CallerInv
      <3> QED
        BY <2>1, <2>4, <2>7, <3>1, <3>2 DEF CallerInv
    <2>9. AloneInv'
      <3> SUFFICES ASSUME NEW a \in Changes, a \notin crossed, NEW d \in Changes, via[d] = via[a], d # a
                   PROVE  /\ ~(pc'[a] \in AtWork /\ pc'[d] \in AtWork)
                          /\ pc'[d] = "rebind" /\ pc'[a] \in Past => epoch[a] <= seen[d].ver
        BY <2>1 DEF AloneInv
      <3>1. /\ ~(pc[a] \in AtWork /\ pc[d] \in AtWork)
            /\ pc[d] = "rebind" /\ pc[a] \in Past => epoch[a] <= seen[d].ver
        BY DEF KeepInv, AloneInv
      <3> QED
        BY <2>1, <3>1 DEF AtWork, Past
    <2> QED
      BY <2>5, <2>8, <2>9 DEF KeepInv
  <1>6. CASE InstallStep(c)
    BY <1>6, KeepInstall
  <1> QED
    BY <1>2, <1>3, <1>4, <1>5, <1>6 DEF ChangeStep

LEMMA KeepStep ==
    ASSUME TypeInv, KeepInv, [Next]_vars
    PROVE  KeepInv'
  <1> USE DEF TypeInv, TypeOK, Goto, Requests, Installers, Issuers, history
  <1>1. ASSUME NEW l \in Logins \cup TokenLogins, LoginStep(l) PROVE KeepInv'
    BY <1>1, KeepLogin
  <1>2. ASSUME NEW f \in Refreshes, RefreshStep(f) PROVE KeepInv'
    BY <1>2, KeepLogin
  <1>3. ASSUME NEW r \in Resets, ResetStep(r) PROVE KeepInv'
    <2>1. CASE InstallStep(r)
      BY <2>1, KeepInstall
    <2>2. CASE ResetConsume(r) \/ \E k \in Links : ResetRedeem(r, k)
      <3>1. /\ UNCHANGED <<row, epoch, crossed, cred, pending>> /\ r \notin Changes /\ r \notin Issuers
            /\ \A q \in Requests \ {r} : pc'[q] = pc[q] /\ via'[q] = via[q] /\ seen'[q] = seen[q]
        BY <2>2, KindsDisjoint DEF ResetConsume, ResetRedeem, ReadRow
      <3>2. \A i \in Issuers : pc'[i] = pc[i]
        BY <3>1
      <3>3. \A c \in Changes : pc'[c] = pc[c] /\ via'[c] = via[c] /\ seen'[c] = seen[c]
        BY <3>1
      <3> QED
        BY <3>1, <3>2, <3>3, KeepSame DEF KeepInv, IssuedInv
    <2> QED
      BY <1>3, <2>1, <2>2 DEF ResetStep
  <1>4. ASSUME NEW c \in Changes, ChangeStep(c) PROVE KeepInv'
    BY <1>4, KeepChange
  <1>5. ASSUME NEW s \in Logins, SessionEnds(s) PROVE KeepInv'
    <2>1. /\ UNCHANGED <<row, epoch, crossed, pending, pc, via, seen>> /\ cred[s].state = "live"
          /\ \A i \in Issuers : cred'[i].ver = cred[i].ver /\ (i # s => cred'[i] = cred[i])
          /\ cred'[s].state = "dead"
      BY <1>5 DEF SessionEnds
    <2> QED
      BY <2>1, KeepSame DEF KeepInv, IssuedInv
  <1>6. CASE (\E k \in Links : RequestReset(k)) \/ (\E b \in BOOLEAN : SetActive(b)) \/ UNCHANGED vars
    <2>1. UNCHANGED <<epoch, crossed, pending, pc, via, seen, cred>> /\ row'.ver = row.ver
      BY <1>6 DEF RequestReset, SetActive, vars
    <2> QED
      BY <2>1, KeepSame DEF KeepInv, IssuedInv
  <1> QED
    BY <1>1, <1>2, <1>3, <1>4, <1>5, <1>6 DEF Next

(* A change keeps its caller signed in, unless a later reset or change      *)
(* bumped the version again or the session was ended, for any number of     *)
(* logins, refreshes, resets and changes around it, when no other change on *)
(* the same session passed its password check while this one was between    *)
(* its own check and its rebind, nor the other way round                    *)
(* (account/router.py change_password).                                     *)
THEOREM CallerKept == Spec => []UncrossedChangeKeepsCaller
  <1>1. Init => KeepInv
    <2> SUFFICES ASSUME Init PROVE KeepInv
      OBVIOUS
    <2>1. row.ver = 0 /\ \A r \in Requests : pc[r] \in {"idle", "start"}
      BY DEF Init
    <2>2. \A r \in Installers : epoch[r] = 0 /\ pending[r] = {}
      BY DEF Init
    <2>3. \A i \in Issuers : cred[i].state = "none"
      BY DEF Init, NoCred
    <2>4. \A c \in Changes : pc[c] \in {"idle", "start"}
      BY <2>1 DEF Requests
    <2> QED
      BY <2>1, <2>2, <2>3, <2>4 DEF KeepInv, VersionInv, CallerInv, AloneInv, IssuedInv, AtWork, Past
  <1>2. TypeInv /\ KeepInv => UncrossedChangeKeepsCaller
    <2> SUFFICES ASSUME TypeInv, KeepInv, NEW c \in Changes, c \notin crossed, pc[c] = "done", via[c] \in LiveSessions,
                        \A r \in Installers : epoch[r] <= epoch[c]
                 PROVE  Usable(via[c])
      BY DEF UncrossedChangeKeepsCaller, LastChange
    <2>1. epoch[c] <= cred[via[c]].ver /\ cred[via[c]].ver <= row.ver
      BY DEF KeepInv, CallerInv, Past
    <2>2. epoch[c] \in Nat /\ cred[via[c]].ver \in Nat /\ row.ver \in Nat
      BY DEF TypeInv, TypeOK, LiveSessions, Installers, Issuers
    <2>3. row.ver <= epoch[c]
      BY <2>2 DEF KeepInv, VersionInv
    <2> QED
      BY <2>1, <2>2, <2>3 DEF Usable, LiveSessions
  <1> QED
    BY <1>1, <1>2, TypeInit, TypeStep, KeepStep, PTL DEF Spec
=============================================================================
