------------------------- MODULE ConfigStoreProofs -------------------------
(***************************************************************************)
(* Proofs about ConfigStore for any number of processes, transactions and  *)
(* crashes: the lock directory excludes, and no committed change is lost.  *)
(*                                                                         *)
(* Mutual exclusion is not inductive as it stands: a process that removes  *)
(* an owner decided so some steps earlier.  The argument is that a token   *)
(* somebody is about to remove is RETIRED (its transaction is over or its  *)
(* process died), and that a retired token is never published again        *)
(* because every transaction has a fresh one.                              *)
(***************************************************************************)
EXTENDS ConfigStore, TLAPS

Outside == {"idle", "rmdir", "rmdirRetry", "dead"}

\* The transaction that made the token is not between lock() and release().
Retired(t) == t[2] < n[t[1]] \/ pc[t[1]] \in Outside

Begun(t) == t[2] <= n[t[1]]

\* A process that is past Begin has a token.
Numbered == \A p \in Procs :
    pc[p] \in Waiting \cup Holding \cup {"rmdir"} => n[p] >= 1

TokensBegun ==
    /\ lock # Absent => \A t \in lock : Begun(t)
    /\ \A p \in Procs : \A t \in seen[p] \cup pend[p] : Begun(t)

RemovesRetired == \A p \in Procs :
    /\ pc[p] = "steal" => \A t \in seen[p] : Retired(t)
    /\ \A t \in pend[p] : Retired(t)

OwnTokenLive == \A p \in Procs : pc[p] \in Waiting => Mine(p) \in live[p]

Typed == TypeOK /\ Numbered

LockInv == Typed /\ TokensBegun /\ RemovesRetired /\ OwnTokenLive /\ HolderKeepsLock

\* What a holder read inside the lock is still what the file holds.
FreshBuffer == \A p \in Procs : pc[p] = "commit" => buf[p] = file

UpdateInv == LockInv /\ FreshBuffer /\ NoLostUpdate

\* The constants a step of the proof uses.
LEMMA AbsentIsNoSet == \A S \in SUBSET Token : S # Absent
BY ConfigAssumption DEF Token

\* A transaction past Begin has a proper token.
LEMMA MineIsToken ==
    ASSUME Typed, NEW p \in Procs, pc[p] \in Waiting \cup Holding \cup {"rmdir"}
    PROVE  Mine(p) \in Token
BY ConfigAssumption DEF Typed, TypeOK, Numbered, Mine, Token

----------------------------------------------------------------------------
(* Types.                                                                  *)

\* Init makes the types right.
LEMMA TypedInit == Init => Typed
<1> SUFFICES ASSUME Init PROVE Typed
  OBVIOUS
<1>1. 0 \in 0..MaxUpdates /\ 0 \in 0..MaxCrashes
  BY ConfigAssumption
<1>2. lock \in (SUBSET Token) \cup {Absent}
  BY DEF Init
<1>3. pc \in [Procs -> Stages] /\ n \in [Procs -> 0..MaxUpdates] /\ crashes \in 0..MaxCrashes
  BY <1>1 DEF Init, Stages
<1>4. file \in SUBSET Token /\ committed \in SUBSET Token
  BY DEF Init
<1>5. buf \in [Procs -> SUBSET Token] /\ seen \in [Procs -> SUBSET Token]
  BY DEF Init
<1>6. live \in [Procs -> SUBSET Token] /\ pend \in [Procs -> SUBSET Token]
  BY DEF Init
<1>7. TypeOK
  BY <1>2, <1>3, <1>4, <1>5, <1>6 DEF TypeOK
<1>8. Numbered
  BY DEF Init, Numbered, Waiting, Holding
<1>. QED
  BY <1>7, <1>8 DEF Typed

\* rmdir leaves a directory or nothing.
LEMMA RemovedTyped ==
    ASSUME lock \in (SUBSET Token) \cup {Absent}
    PROVE  RemovedIfEmpty \in (SUBSET Token) \cup {Absent}
<1>1. RemovedIfEmpty = Absent \/ RemovedIfEmpty = lock
  BY Zenon DEF RemovedIfEmpty
<1>. QED
  BY <1>1, Zenon

\* Every action keeps the types right.
LEMMA TypedNext == Typed /\ [Next]_vars => Typed'
<1> SUFFICES ASSUME Typed, [Next]_vars PROVE Typed'
  OBVIOUS
<1> USE ConfigAssumption
<1>1. ASSUME UNCHANGED vars PROVE Typed'
  BY <1>1 DEF vars, Typed, TypeOK, Numbered
<1>2. ASSUME NEW p \in Procs, Begin(p) PROVE Typed'
  <2>1. <<p, n[p] + 1>> \in Token
    BY <1>2 DEF Begin, Typed, TypeOK, Token
  <2>. QED
    BY <1>2, <2>1 DEF Begin, Goto, Typed, TypeOK, Numbered, Stages, Waiting, Holding
<1>3. ASSUME NEW p \in Procs, RetryRelease(p) PROVE Typed'
  BY <1>3, MineIsToken DEF RetryRelease, Goto, Without, Typed, TypeOK, Numbered, Stages, Waiting, Holding
<1>4. ASSUME NEW p \in Procs, RetryRmdir(p) PROVE Typed'
  <2>1. lock' \in (SUBSET Token) \cup {Absent}
    BY <1>4, RemovedTyped DEF RetryRmdir, Typed, TypeOK
  <2>. QED
    BY <1>4, <2>1 DEF RetryRmdir, Goto, Typed, TypeOK, Numbered, Stages, Waiting, Holding
<1>5. ASSUME NEW p \in Procs, Acquire(p) PROVE Typed'
  BY <1>5, MineIsToken DEF Acquire, Goto, Publishable, Typed, TypeOK, Numbered, Stages, Waiting, Holding
<1>6. ASSUME NEW p \in Procs, Blocked(p) PROVE Typed'
  BY <1>6, MineIsToken DEF Blocked, Goto, Typed, TypeOK, Numbered, Stages, Waiting, Holding
<1>7. ASSUME NEW p \in Procs, TimeOut(p) PROVE Typed'
  BY <1>7, MineIsToken DEF TimeOut, Goto, Typed, TypeOK, Numbered, Stages, Waiting, Holding
<1>8. ASSUME NEW p \in Procs, LockFails(p) PROVE Typed'
  BY <1>8, MineIsToken DEF LockFails, Goto, Typed, TypeOK, Numbered, Stages, Waiting, Holding
<1>9. ASSUME NEW p \in Procs, ListOwners(p) PROVE Typed'
  <2>1. CASE lock = Absent
    BY <1>9, <2>1 DEF ListOwners, Goto, Typed, TypeOK, Numbered, Stages, Waiting, Holding
  <2>2. CASE lock # Absent
    <3>0. seen' = [seen EXCEPT ![p] = lock] /\ lock \in SUBSET Token
      BY <1>9, <2>2 DEF ListOwners, Typed, TypeOK
    <3>1. seen' \in [Procs -> SUBSET Token]
      BY <3>0 DEF Typed, TypeOK
    <3>2. PICK s \in {"rmdirEmpty", "reclaim"} : pc' = [pc EXCEPT ![p] = s]
      BY <1>9, <2>2 DEF ListOwners, Goto
    <3>. QED
      BY <1>9, <3>1, <3>2 DEF ListOwners, Typed, TypeOK, Numbered, Stages, Waiting, Holding
  <2>. QED
    BY <2>1, <2>2
<1>10. ASSUME NEW p \in Procs, RmdirEmpty(p) PROVE Typed'
  <2>1. lock' \in (SUBSET Token) \cup {Absent}
    BY <1>10, RemovedTyped DEF RmdirEmpty, Typed, TypeOK
  <2>. QED
    BY <1>10, <2>1 DEF RmdirEmpty, Goto, Typed, TypeOK, Numbered, Stages, Waiting, Holding
<1>11. ASSUME NEW p \in Procs, Reclaim(p) PROVE Typed'
  BY <1>11, MineIsToken DEF Reclaim, Goto, Reclaimable, Typed, TypeOK, Numbered, Stages, Waiting, Holding
<1>12. ASSUME NEW p \in Procs, Sleep(p) PROVE Typed'
  BY <1>12, MineIsToken DEF Sleep, Goto, Reclaimable, Typed, TypeOK, Numbered, Stages, Waiting, Holding
<1>13. ASSUME NEW p \in Procs, Steal(p) PROVE Typed'
  BY <1>13, MineIsToken DEF Steal, Goto, Without, Typed, TypeOK, Numbered, Stages, Waiting, Holding
<1>14. ASSUME NEW p \in Procs, Read(p) PROVE Typed'
  BY <1>14, MineIsToken DEF Read, Goto, Typed, TypeOK, Numbered, Stages, Waiting, Holding
<1>15. ASSUME NEW p \in Procs, Commit(p) PROVE Typed'
  BY <1>15, MineIsToken DEF Commit, Goto, Typed, TypeOK, Numbered, Stages, Waiting, Holding
<1>16. ASSUME NEW p \in Procs, Abort(p) PROVE Typed'
  BY <1>16, MineIsToken DEF Abort, Goto, Typed, TypeOK, Numbered, Stages, Waiting, Holding
<1>17. ASSUME NEW p \in Procs, Release(p) PROVE Typed'
  BY <1>17, MineIsToken DEF Release, Goto, Without, Typed, TypeOK, Numbered, Stages, Waiting, Holding
<1>18. ASSUME NEW p \in Procs, ReleaseRmdir(p) PROVE Typed'
  <2>1. lock' \in (SUBSET Token) \cup {Absent}
    BY <1>18, RemovedTyped DEF ReleaseRmdir, Typed, TypeOK
  <2>. QED
    BY <1>18, <2>1 DEF ReleaseRmdir, Goto, Typed, TypeOK, Numbered, Stages, Waiting, Holding
<1>19. ASSUME NEW p \in Procs, ReleaseFails(p) PROVE Typed'
  BY <1>19, MineIsToken DEF ReleaseFails, Goto, Typed, TypeOK, Numbered, Stages, Waiting, Holding
<1>20. ASSUME NEW p \in Procs, Crash(p) PROVE Typed'
  BY <1>20, MineIsToken DEF Crash, Goto, Typed, TypeOK, Numbered, Stages, Waiting, Holding
<1>21. ASSUME NEW p \in Procs, Restart(p) PROVE Typed'
  BY <1>21, MineIsToken DEF Restart, Goto, Typed, TypeOK, Numbered, Stages, Waiting, Holding
<1>. QED
  BY <1>1, <1>2, <1>3, <1>4, <1>5, <1>6, <1>7, <1>8, <1>9, <1>10, <1>11, <1>12, <1>13, <1>14, <1>15, <1>16, <1>17, <1>18, <1>19, <1>20, <1>21 DEF Next

----------------------------------------------------------------------------
(* Tokens age.                                                             *)

\* Only a new transaction takes a process back inside, under a new number.
LEMMA NumbersGrow ==
    ASSUME Typed, [Next]_vars, NEW q \in Procs
    PROVE  /\ n'[q] \in Nat /\ n[q] \in Nat
           /\ n'[q] >= n[q]
           /\ pc[q] \in Outside /\ pc'[q] \notin Outside => n'[q] = n[q] + 1
<1> DEFINE Goal == /\ n'[q] \in Nat /\ n[q] \in Nat
                   /\ n'[q] >= n[q]
                   /\ pc[q] \in Outside /\ pc'[q] \notin Outside => n'[q] = n[q] + 1
<1> USE ConfigAssumption
<1>1. ASSUME UNCHANGED vars PROVE Goal
  BY <1>1 DEF vars, Typed, TypeOK
<1>2. ASSUME NEW p \in Procs, Begin(p) PROVE Goal
  BY <1>2 DEF Begin, Goto, Typed, TypeOK, Outside, Waiting, Holding
<1>3. ASSUME NEW p \in Procs, RetryRelease(p) PROVE Goal
  BY <1>3 DEF RetryRelease, Goto, Without, Typed, TypeOK, Outside, Waiting, Holding
<1>4. ASSUME NEW p \in Procs, RetryRmdir(p) PROVE Goal
  BY <1>4 DEF RetryRmdir, Goto, RemovedIfEmpty, Typed, TypeOK, Outside, Waiting, Holding
<1>5. ASSUME NEW p \in Procs, Acquire(p) PROVE Goal
  BY <1>5 DEF Acquire, Goto, Publishable, Typed, TypeOK, Outside, Waiting, Holding
<1>6. ASSUME NEW p \in Procs, Blocked(p) PROVE Goal
  BY <1>6 DEF Blocked, Goto, Typed, TypeOK, Outside, Waiting, Holding
<1>7. ASSUME NEW p \in Procs, TimeOut(p) PROVE Goal
  BY <1>7 DEF TimeOut, Goto, Typed, TypeOK, Outside, Waiting, Holding
<1>8. ASSUME NEW p \in Procs, LockFails(p) PROVE Goal
  BY <1>8 DEF LockFails, Goto, Typed, TypeOK, Outside, Waiting, Holding
<1>9. ASSUME NEW p \in Procs, ListOwners(p) PROVE Goal
  BY <1>9 DEF ListOwners, Goto, Typed, TypeOK, Outside, Waiting, Holding
<1>10. ASSUME NEW p \in Procs, RmdirEmpty(p) PROVE Goal
  BY <1>10 DEF RmdirEmpty, Goto, RemovedIfEmpty, Typed, TypeOK, Outside, Waiting, Holding
<1>11. ASSUME NEW p \in Procs, Reclaim(p) PROVE Goal
  BY <1>11 DEF Reclaim, Goto, Reclaimable, Typed, TypeOK, Outside, Waiting, Holding
<1>12. ASSUME NEW p \in Procs, Sleep(p) PROVE Goal
  BY <1>12 DEF Sleep, Goto, Reclaimable, Typed, TypeOK, Outside, Waiting, Holding
<1>13. ASSUME NEW p \in Procs, Steal(p) PROVE Goal
  BY <1>13 DEF Steal, Goto, Without, Typed, TypeOK, Outside, Waiting, Holding
<1>14. ASSUME NEW p \in Procs, Read(p) PROVE Goal
  BY <1>14 DEF Read, Goto, Typed, TypeOK, Outside, Waiting, Holding
<1>15. ASSUME NEW p \in Procs, Commit(p) PROVE Goal
  BY <1>15 DEF Commit, Goto, Typed, TypeOK, Outside, Waiting, Holding
<1>16. ASSUME NEW p \in Procs, Abort(p) PROVE Goal
  BY <1>16 DEF Abort, Goto, Typed, TypeOK, Outside, Waiting, Holding
<1>17. ASSUME NEW p \in Procs, Release(p) PROVE Goal
  BY <1>17 DEF Release, Goto, Without, Typed, TypeOK, Outside, Waiting, Holding
<1>18. ASSUME NEW p \in Procs, ReleaseRmdir(p) PROVE Goal
  BY <1>18 DEF ReleaseRmdir, Goto, RemovedIfEmpty, Typed, TypeOK, Outside, Waiting, Holding
<1>19. ASSUME NEW p \in Procs, ReleaseFails(p) PROVE Goal
  BY <1>19 DEF ReleaseFails, Goto, Typed, TypeOK, Outside, Waiting, Holding
<1>20. ASSUME NEW p \in Procs, Crash(p) PROVE Goal
  BY <1>20 DEF Crash, Goto, Typed, TypeOK, Outside, Waiting, Holding
<1>21. ASSUME NEW p \in Procs, Restart(p) PROVE Goal
  BY <1>21 DEF Restart, Goto, Typed, TypeOK, Outside, Waiting, Holding
<1>. QED
  BY <1>1, <1>2, <1>3, <1>4, <1>5, <1>6, <1>7, <1>8, <1>9, <1>10, <1>11, <1>12, <1>13, <1>14, <1>15, <1>16, <1>17, <1>18, <1>19, <1>20, <1>21 DEF Next

\* A token that was handed out stays handed out.
LEMMA BegunStays ==
    ASSUME Typed, [Next]_vars, NEW t \in Token, Begun(t)
    PROVE  Begun(t)'
<1>1. t[1] \in Procs /\ t[2] \in Nat
  BY DEF Token
<1>. QED
  BY <1>1, NumbersGrow DEF Begun

\* A transaction that is over never gets its token back.
LEMMA RetiredStays ==
    ASSUME Typed, [Next]_vars, NEW t \in Token, Begun(t), Retired(t)
    PROVE  Retired(t)'
<1>1. t[1] \in Procs /\ t[2] \in Nat
  BY DEF Token
<1>2. CASE t[2] < n[t[1]]
  BY <1>1, <1>2, NumbersGrow DEF Retired
<1>3. CASE pc[t[1]] \in Outside
  BY <1>1, <1>3, NumbersGrow DEF Retired, Begun
<1>. QED
  BY <1>2, <1>3 DEF Retired

\* The token of a process inside the lock, or on its way, is not retired.
LEMMA NotRetired ==
    ASSUME Typed, NEW p \in Procs, pc[p] \in Waiting \cup Holding
    PROVE  ~Retired(Mine(p))
BY DEF Retired, Mine, Outside, Waiting, Holding, Typed, TypeOK

----------------------------------------------------------------------------
(* The lock's invariant.                                                   *)

\* Init has no lock, no token and no transaction.
LEMMA LockInvInit == Init => LockInv
<1> SUFFICES ASSUME Init PROVE LockInv
  OBVIOUS
<1>1. Typed
  BY TypedInit
<1>2. TokensBegun /\ RemovesRetired
  BY DEF Init, TokensBegun, RemovesRetired
<1>3. OwnTokenLive /\ HolderKeepsLock
  BY DEF Init, OwnTokenLive, HolderKeepsLock, Waiting, Holding
<1>. QED
  BY <1>1, <1>2, <1>3 DEF LockInv

\* Tokens in the directory, and tokens a process remembers, come from the
\* directory, from the process's own transaction or from its pending ones.
LEMMA TokensBegunNext ==
    ASSUME LockInv, [Next]_vars
    PROVE  TokensBegun'
<1> USE DEF LockInv
<1>1. Typed'
  BY TypedNext
<1> DEFINE Known == {t \in Token : Begun(t)}
<1>2. /\ lock # Absent => lock \subseteq Known
      /\ \A p \in Procs : seen[p] \subseteq Known /\ pend[p] \subseteq Known
  BY DEF Typed, TypeOK, TokensBegun
<1>3. \A p \in Procs : pc[p] \in Waiting \cup Holding \cup {"rmdir"} => Mine(p) \in Known
  BY MineIsToken DEF Mine, Begun, Typed, TypeOK
<1> DEFINE Goal == /\ lock' # Absent => lock' \subseteq Known
                   /\ \A p \in Procs : seen'[p] \subseteq Known /\ pend'[p] \subseteq Known
<1> SUFFICES Goal
  <2>1. \A t \in Known : Begun(t)'
    BY BegunStays
  <2>. QED
    BY <2>1 DEF TokensBegun
<1> HIDE DEF Known
<1>4. ASSUME UNCHANGED vars PROVE Goal
  BY <1>2, <1>4 DEF vars
<1>5. ASSUME NEW p \in Procs, Begin(p) PROVE Goal
  BY <1>2, <1>3, <1>5 DEF Begin, Goto, Typed, TypeOK, Waiting, Holding
<1>6. ASSUME NEW p \in Procs, RetryRelease(p) PROVE Goal
  BY <1>2, <1>3, <1>6 DEF RetryRelease, Goto, Without, Typed, TypeOK, Waiting, Holding
<1>7. ASSUME NEW p \in Procs, RetryRmdir(p) PROVE Goal
  BY <1>2, <1>3, <1>7 DEF RetryRmdir, Goto, RemovedIfEmpty, Typed, TypeOK, Waiting, Holding
<1>8. ASSUME NEW p \in Procs, Acquire(p) PROVE Goal
  BY <1>2, <1>3, <1>8 DEF Acquire, Goto, Publishable, Typed, TypeOK, Waiting, Holding
<1>9. ASSUME NEW p \in Procs, Blocked(p) PROVE Goal
  BY <1>2, <1>3, <1>9 DEF Blocked, Goto, Typed, TypeOK, Waiting, Holding
<1>10. ASSUME NEW p \in Procs, TimeOut(p) PROVE Goal
  BY <1>2, <1>3, <1>10 DEF TimeOut, Goto, Typed, TypeOK, Waiting, Holding
<1>11. ASSUME NEW p \in Procs, LockFails(p) PROVE Goal
  BY <1>2, <1>3, <1>11 DEF LockFails, Goto, Typed, TypeOK, Waiting, Holding
<1>12. ASSUME NEW p \in Procs, ListOwners(p) PROVE Goal
  BY <1>2, <1>3, <1>12 DEF ListOwners, Goto, Typed, TypeOK, Waiting, Holding
<1>13. ASSUME NEW p \in Procs, RmdirEmpty(p) PROVE Goal
  BY <1>2, <1>3, <1>13 DEF RmdirEmpty, Goto, RemovedIfEmpty, Typed, TypeOK, Waiting, Holding
<1>14. ASSUME NEW p \in Procs, Reclaim(p) PROVE Goal
  BY <1>2, <1>3, <1>14 DEF Reclaim, Goto, Reclaimable, Typed, TypeOK, Waiting, Holding
<1>15. ASSUME NEW p \in Procs, Sleep(p) PROVE Goal
  BY <1>2, <1>3, <1>15 DEF Sleep, Goto, Reclaimable, Typed, TypeOK, Waiting, Holding
<1>16. ASSUME NEW p \in Procs, Steal(p) PROVE Goal
  BY <1>2, <1>3, <1>16 DEF Steal, Goto, Without, Typed, TypeOK, Waiting, Holding
<1>17. ASSUME NEW p \in Procs, Read(p) PROVE Goal
  BY <1>2, <1>3, <1>17 DEF Read, Goto, Typed, TypeOK, Waiting, Holding
<1>18. ASSUME NEW p \in Procs, Commit(p) PROVE Goal
  BY <1>2, <1>3, <1>18 DEF Commit, Goto, Typed, TypeOK, Waiting, Holding
<1>19. ASSUME NEW p \in Procs, Abort(p) PROVE Goal
  BY <1>2, <1>3, <1>19 DEF Abort, Goto, Typed, TypeOK, Waiting, Holding
<1>20. ASSUME NEW p \in Procs, Release(p) PROVE Goal
  BY <1>2, <1>3, <1>20 DEF Release, Goto, Without, Typed, TypeOK, Waiting, Holding
<1>21. ASSUME NEW p \in Procs, ReleaseRmdir(p) PROVE Goal
  BY <1>2, <1>3, <1>21 DEF ReleaseRmdir, Goto, RemovedIfEmpty, Typed, TypeOK, Waiting, Holding
<1>22. ASSUME NEW p \in Procs, ReleaseFails(p) PROVE Goal
  BY <1>2, <1>3, <1>22 DEF ReleaseFails, Goto, Typed, TypeOK, Waiting, Holding
<1>23. ASSUME NEW p \in Procs, Crash(p) PROVE Goal
  BY <1>2, <1>3, <1>23 DEF Crash, Goto, Typed, TypeOK, Waiting, Holding
<1>24. ASSUME NEW p \in Procs, Restart(p) PROVE Goal
  BY <1>2, <1>3, <1>24 DEF Restart, Goto, Typed, TypeOK, Waiting, Holding
<1>. QED
  BY <1>4, <1>5, <1>6, <1>7, <1>8, <1>9, <1>10, <1>11, <1>12, <1>13, <1>14, <1>15, <1>16, <1>17, <1>18, <1>19, <1>20, <1>21, <1>22, <1>23, <1>24 DEF Next

\* Whoever removes a token decided so when its transaction was over.
LEMMA RemovesRetiredNext ==
    ASSUME LockInv, [Next]_vars
    PROVE  RemovesRetired'
<1> USE DEF LockInv
<1> DEFINE Over == {t \in Token : Retired(t) /\ Begun(t)}
<1>1. \A t \in Over : Retired(t)'
  BY RetiredStays
<1>2. \A p \in Procs : /\ pend[p] \subseteq Over
                       /\ pc[p] = "steal" => seen[p] \subseteq Over
  BY DEF Typed, TypeOK, TokensBegun, RemovesRetired
<1> DEFINE Goal(p) == /\ \A t \in pend'[p] : Retired(t)'
                      /\ pc'[p] = "steal" => \A t \in seen'[p] : Retired(t)'
<1> SUFFICES ASSUME NEW q \in Procs PROVE Goal(q)
  BY DEF RemovesRetired
<1>3. ASSUME pend'[q] \subseteq pend[q], pc'[q] = "steal" => pc[q] = "steal" /\ seen'[q] = seen[q]
      PROVE  Goal(q)
  BY <1>1, <1>2, <1>3
<1> HIDE DEF Over, Goal
<1>4. ASSUME UNCHANGED vars PROVE Goal(q)
  BY <1>3, <1>4 DEF vars
<1>5. ASSUME NEW p \in Procs, Begin(p) PROVE Goal(q)
  BY <1>3, <1>5 DEF Begin, Goto, Typed, TypeOK
<1>6. ASSUME NEW p \in Procs, RetryRelease(p) PROVE Goal(q)
  BY <1>3, <1>6 DEF RetryRelease, Goto, Typed, TypeOK
<1>7. ASSUME NEW p \in Procs, RetryRmdir(p) PROVE Goal(q)
  BY <1>3, <1>7 DEF RetryRmdir, Goto, Typed, TypeOK
<1>8. ASSUME NEW p \in Procs, Acquire(p) PROVE Goal(q)
  BY <1>3, <1>8 DEF Acquire, Goto, Typed, TypeOK
<1>9. ASSUME NEW p \in Procs, Blocked(p) PROVE Goal(q)
  BY <1>3, <1>9 DEF Blocked, Goto, Typed, TypeOK
<1>10. ASSUME NEW p \in Procs, TimeOut(p) PROVE Goal(q)
  BY <1>3, <1>10 DEF TimeOut, Goto, Typed, TypeOK
<1>11. ASSUME NEW p \in Procs, LockFails(p) PROVE Goal(q)
  BY <1>3, <1>11 DEF LockFails, Goto, Typed, TypeOK
<1>12. ASSUME NEW p \in Procs, ListOwners(p) PROVE Goal(q)
  BY <1>3, <1>12 DEF ListOwners, Goto, Typed, TypeOK
<1>13. ASSUME NEW p \in Procs, RmdirEmpty(p) PROVE Goal(q)
  BY <1>3, <1>13 DEF RmdirEmpty, Goto, Typed, TypeOK
<1>14. ASSUME NEW p \in Procs, Reclaim(p) PROVE Goal(q)
  <2>1. CASE q # p
    BY <1>3, <1>14, <2>1 DEF Reclaim, Goto, Typed, TypeOK
  <2>2. CASE q = p
    <3> DEFINE t == CHOOSE t \in seen[p] : Reclaimable(p, t)
    <3>1. t \in seen[p] /\ Reclaimable(p, t)
      BY <1>14 DEF Reclaim
    <3>2. seen'[p] = {t} /\ pend' = pend
      BY <1>14 DEF Reclaim, Typed, TypeOK
    <3> HIDE DEF t
    <3>3. t \in Token /\ Begun(t)
      BY <3>1 DEF TokensBegun, Typed, TypeOK
    <3>4. pc[p] \in Waiting /\ Mine(p) \in live[p]
      BY <1>14 DEF Reclaim, OwnTokenLive, Waiting
    <3>5. ASSUME t[1] = p PROVE Retired(t)
      <4>1. t # <<p, n[p]>>
        BY <3>1, <3>4, <3>5 DEF Reclaimable, Mine
      <4>2. t = <<t[1], t[2]>> /\ t[2] \in Nat /\ n[p] \in Nat
        BY <3>3 DEF Token, Typed, TypeOK
      <4>3. t[2] # n[p]
        BY <3>5, <4>1, <4>2
      <4>. QED
        BY <3>3, <3>5, <4>2, <4>3 DEF Retired, Begun
    <3>6. ASSUME t[1] # p PROVE Retired(t)
      BY <3>1, <3>6 DEF Reclaimable, Retired, Outside
    <3>7. t \in Over
      BY <3>3, <3>5, <3>6 DEF Over
    <3>. QED
      BY <1>1, <1>2, <2>2, <3>2, <3>7 DEF Goal
  <2>. QED
    BY <2>1, <2>2
<1>15. ASSUME NEW p \in Procs, Sleep(p) PROVE Goal(q)
  BY <1>3, <1>15 DEF Sleep, Goto, Typed, TypeOK
<1>16. ASSUME NEW p \in Procs, Steal(p) PROVE Goal(q)
  BY <1>3, <1>16 DEF Steal, Goto, Typed, TypeOK
<1>17. ASSUME NEW p \in Procs, Read(p) PROVE Goal(q)
  BY <1>3, <1>17 DEF Read, Goto, Typed, TypeOK
<1>18. ASSUME NEW p \in Procs, Commit(p) PROVE Goal(q)
  BY <1>3, <1>18 DEF Commit, Goto, Typed, TypeOK
<1>19. ASSUME NEW p \in Procs, Abort(p) PROVE Goal(q)
  BY <1>3, <1>19 DEF Abort, Goto, Typed, TypeOK
<1>20. ASSUME NEW p \in Procs, Release(p) PROVE Goal(q)
  BY <1>3, <1>20 DEF Release, Goto, Typed, TypeOK
<1>21. ASSUME NEW p \in Procs, ReleaseRmdir(p) PROVE Goal(q)
  BY <1>3, <1>21 DEF ReleaseRmdir, Goto, Typed, TypeOK
<1>22. ASSUME NEW p \in Procs, ReleaseFails(p) PROVE Goal(q)
  <2>1. CASE q # p
    BY <1>3, <1>22, <2>1 DEF ReleaseFails, Goto, Typed, TypeOK
  <2>2. CASE q = p
    <3>1. PICK m : m = Mine(p)
      OBVIOUS
    <3>2. pend'[p] = pend[p] \cup {m} /\ pc'[p] = "idle"
      BY <3>1, <1>22 DEF ReleaseFails, Goto, Typed, TypeOK
    <3>3. Retired(m)'
      BY <3>1, <3>2 DEF Retired, Outside, Mine
    <3>. QED
      BY <1>1, <1>2, <2>2, <3>2, <3>3 DEF Goal
  <2>. QED
    BY <2>1, <2>2
<1>23. ASSUME NEW p \in Procs, Crash(p) PROVE Goal(q)
  BY <1>3, <1>23 DEF Crash, Goto, Typed, TypeOK
<1>24. ASSUME NEW p \in Procs, Restart(p) PROVE Goal(q)
  BY <1>3, <1>24 DEF Restart, Goto, Typed, TypeOK
<1>. QED
  BY <1>4, <1>5, <1>6, <1>7, <1>8, <1>9, <1>10, <1>11, <1>12, <1>13, <1>14, <1>15, <1>16, <1>17, <1>18, <1>19, <1>20, <1>21, <1>22, <1>23, <1>24 DEF Next

\* A waiting process knows its own token as live, so it never removes it.
LEMMA OwnTokenLiveNext ==
    ASSUME LockInv, [Next]_vars
    PROVE  OwnTokenLive'
<1> USE DEF LockInv
<1> SUFFICES ASSUME NEW q \in Procs, pc'[q] \in Waiting PROVE <<q, n'[q]>> \in live'[q]
  BY DEF OwnTokenLive, Mine
<1>1. pc[q] \in Waiting => <<q, n[q]>> \in live[q]
  BY DEF OwnTokenLive, Mine
<1>2. ASSUME UNCHANGED vars PROVE <<q, n'[q]>> \in live'[q]
  BY <1>1, <1>2 DEF vars
<1>3. ASSUME NEW p \in Procs, Begin(p) PROVE <<q, n'[q]>> \in live'[q]
  BY <1>1, <1>3 DEF Begin, Goto, Mine, Typed, TypeOK, Waiting, Holding
<1>4. ASSUME NEW p \in Procs, RetryRelease(p) PROVE <<q, n'[q]>> \in live'[q]
  BY <1>1, <1>4 DEF RetryRelease, Goto, Mine, Typed, TypeOK, Waiting, Holding
<1>5. ASSUME NEW p \in Procs, RetryRmdir(p) PROVE <<q, n'[q]>> \in live'[q]
  BY <1>1, <1>5 DEF RetryRmdir, Goto, Mine, Typed, TypeOK, Waiting, Holding
<1>6. ASSUME NEW p \in Procs, Acquire(p) PROVE <<q, n'[q]>> \in live'[q]
  BY <1>1, <1>6 DEF Acquire, Goto, Mine, Typed, TypeOK, Waiting, Holding
<1>7. ASSUME NEW p \in Procs, Blocked(p) PROVE <<q, n'[q]>> \in live'[q]
  BY <1>1, <1>7 DEF Blocked, Goto, Mine, Typed, TypeOK, Waiting, Holding
<1>8. ASSUME NEW p \in Procs, TimeOut(p) PROVE <<q, n'[q]>> \in live'[q]
  BY <1>1, <1>8 DEF TimeOut, Goto, Mine, Typed, TypeOK, Waiting, Holding
<1>9. ASSUME NEW p \in Procs, LockFails(p) PROVE <<q, n'[q]>> \in live'[q]
  BY <1>1, <1>9 DEF LockFails, Goto, Mine, Typed, TypeOK, Waiting, Holding
<1>10. ASSUME NEW p \in Procs, ListOwners(p) PROVE <<q, n'[q]>> \in live'[q]
  BY <1>1, <1>10 DEF ListOwners, Goto, Mine, Typed, TypeOK, Waiting, Holding
<1>11. ASSUME NEW p \in Procs, RmdirEmpty(p) PROVE <<q, n'[q]>> \in live'[q]
  BY <1>1, <1>11 DEF RmdirEmpty, Goto, Mine, Typed, TypeOK, Waiting, Holding
<1>12. ASSUME NEW p \in Procs, Reclaim(p) PROVE <<q, n'[q]>> \in live'[q]
  BY <1>1, <1>12 DEF Reclaim, Goto, Mine, Typed, TypeOK, Waiting, Holding
<1>13. ASSUME NEW p \in Procs, Sleep(p) PROVE <<q, n'[q]>> \in live'[q]
  BY <1>1, <1>13 DEF Sleep, Goto, Mine, Typed, TypeOK, Waiting, Holding
<1>14. ASSUME NEW p \in Procs, Steal(p) PROVE <<q, n'[q]>> \in live'[q]
  BY <1>1, <1>14 DEF Steal, Goto, Mine, Typed, TypeOK, Waiting, Holding
<1>15. ASSUME NEW p \in Procs, Read(p) PROVE <<q, n'[q]>> \in live'[q]
  BY <1>1, <1>15 DEF Read, Goto, Mine, Typed, TypeOK, Waiting, Holding
<1>16. ASSUME NEW p \in Procs, Commit(p) PROVE <<q, n'[q]>> \in live'[q]
  BY <1>1, <1>16 DEF Commit, Goto, Mine, Typed, TypeOK, Waiting, Holding
<1>17. ASSUME NEW p \in Procs, Abort(p) PROVE <<q, n'[q]>> \in live'[q]
  BY <1>1, <1>17 DEF Abort, Goto, Mine, Typed, TypeOK, Waiting, Holding
<1>18. ASSUME NEW p \in Procs, Release(p) PROVE <<q, n'[q]>> \in live'[q]
  BY <1>1, <1>18 DEF Release, Goto, Mine, Typed, TypeOK, Waiting, Holding
<1>19. ASSUME NEW p \in Procs, ReleaseRmdir(p) PROVE <<q, n'[q]>> \in live'[q]
  BY <1>1, <1>19 DEF ReleaseRmdir, Goto, Mine, Typed, TypeOK, Waiting, Holding
<1>20. ASSUME NEW p \in Procs, ReleaseFails(p) PROVE <<q, n'[q]>> \in live'[q]
  BY <1>1, <1>20 DEF ReleaseFails, Goto, Mine, Typed, TypeOK, Waiting, Holding
<1>21. ASSUME NEW p \in Procs, Crash(p) PROVE <<q, n'[q]>> \in live'[q]
  BY <1>1, <1>21 DEF Crash, Goto, Mine, Typed, TypeOK, Waiting, Holding
<1>22. ASSUME NEW p \in Procs, Restart(p) PROVE <<q, n'[q]>> \in live'[q]
  BY <1>1, <1>22 DEF Restart, Goto, Mine, Typed, TypeOK, Waiting, Holding
<1>. QED
  BY <1>2, <1>3, <1>4, <1>5, <1>6, <1>7, <1>8, <1>9, <1>10, <1>11, <1>12, <1>13, <1>14, <1>15, <1>16, <1>17, <1>18, <1>19, <1>20, <1>21, <1>22 DEF Next

\* Nobody takes a holder's directory away: unlinks hit retired tokens, rmdir
\* an empty directory, and rename a missing or an empty one.
LEMMA HolderKeepsLockNext ==
    ASSUME LockInv, [Next]_vars
    PROVE  HolderKeepsLock'
<1> USE DEF LockInv
<1> SUFFICES ASSUME NEW q \in Procs, pc'[q] \in Holding PROVE lock' = {<<q, n'[q]>>}
  BY DEF HolderKeepsLock, Mine
<1>1. pc[q] \in Holding => /\ lock = {Mine(q)} /\ Mine(q) \in Token /\ ~Retired(Mine(q))
                           /\ lock # Absent
  BY MineIsToken, NotRetired, AbsentIsNoSet DEF HolderKeepsLock
<1>2. Mine(q) = <<q, n[q]>>
  BY DEF Mine
<1>3. ASSUME UNCHANGED vars PROVE lock' = {<<q, n'[q]>>}
  BY <1>1, <1>2, <1>3 DEF vars
<1>4. ASSUME NEW p \in Procs, Begin(p) PROVE lock' = {<<q, n'[q]>>}
  BY <1>1, <1>2, <1>4 DEF Begin, Goto, Typed, TypeOK, Waiting, Holding
<1>5. ASSUME NEW p \in Procs, RetryRelease(p) PROVE lock' = {<<q, n'[q]>>}
  <2>1. PICK t \in pend[p] : lock' = Without(t)
    BY <1>5 DEF RetryRelease
  <2>2. Retired(t)
    BY <1>5, <2>1 DEF RetryRelease, RemovesRetired
  <2>3. pc[q] \in Holding /\ n'[q] = n[q]
    BY <1>5 DEF RetryRelease, Goto, Typed, TypeOK, Waiting, Holding
  <2>. QED
    BY <1>1, <1>2, <2>1, <2>2, <2>3 DEF Without
<1>6. ASSUME NEW p \in Procs, RetryRmdir(p) PROVE lock' = {<<q, n'[q]>>}
  <2>1. pc[q] \in Holding /\ n' = n
    BY <1>6 DEF RetryRmdir, Goto, Typed, TypeOK, Waiting, Holding
  <2>. QED
    BY <1>1, <1>2, <1>6, <2>1 DEF RetryRmdir, RemovedIfEmpty
<1>7. ASSUME NEW p \in Procs, Acquire(p) PROVE lock' = {<<q, n'[q]>>}
  <2>1. CASE q = p
    BY <1>7, <2>1 DEF Acquire, Mine
  <2>2. CASE q # p
    BY <1>1, <1>7, <2>2 DEF Acquire, Publishable, Goto, Typed, TypeOK, Waiting, Holding
  <2>. QED
    BY <2>1, <2>2
<1>8. ASSUME NEW p \in Procs, Blocked(p) PROVE lock' = {<<q, n'[q]>>}
  BY <1>1, <1>2, <1>8 DEF Blocked, Goto, Typed, TypeOK, Waiting, Holding
<1>9. ASSUME NEW p \in Procs, TimeOut(p) PROVE lock' = {<<q, n'[q]>>}
  BY <1>1, <1>2, <1>9 DEF TimeOut, Goto, Typed, TypeOK, Waiting, Holding
<1>10. ASSUME NEW p \in Procs, LockFails(p) PROVE lock' = {<<q, n'[q]>>}
  BY <1>1, <1>2, <1>10 DEF LockFails, Goto, Typed, TypeOK, Waiting, Holding
<1>11. ASSUME NEW p \in Procs, ListOwners(p) PROVE lock' = {<<q, n'[q]>>}
  BY <1>1, <1>2, <1>11 DEF ListOwners, Goto, Typed, TypeOK, Waiting, Holding
<1>12. ASSUME NEW p \in Procs, RmdirEmpty(p) PROVE lock' = {<<q, n'[q]>>}
  <2>1. pc[q] \in Holding /\ n' = n
    BY <1>12 DEF RmdirEmpty, Goto, Typed, TypeOK, Waiting, Holding
  <2>. QED
    BY <1>1, <1>2, <1>12, <2>1 DEF RmdirEmpty, RemovedIfEmpty
<1>13. ASSUME NEW p \in Procs, Reclaim(p) PROVE lock' = {<<q, n'[q]>>}
  BY <1>1, <1>2, <1>13 DEF Reclaim, Goto, Typed, TypeOK, Waiting, Holding
<1>14. ASSUME NEW p \in Procs, Sleep(p) PROVE lock' = {<<q, n'[q]>>}
  BY <1>1, <1>2, <1>14 DEF Sleep, Goto, Typed, TypeOK, Waiting, Holding
<1>15. ASSUME NEW p \in Procs, Steal(p) PROVE lock' = {<<q, n'[q]>>}
  <2>1. PICK t \in seen[p] : lock' = Without(t)
    BY <1>15 DEF Steal
  <2>2. Retired(t)
    BY <1>15, <2>1 DEF Steal, RemovesRetired
  <2>3. pc[q] \in Holding /\ n'[q] = n[q]
    BY <1>15 DEF Steal, Goto, Typed, TypeOK, Waiting, Holding
  <2>. QED
    BY <1>1, <1>2, <2>1, <2>2, <2>3 DEF Without
<1>16. ASSUME NEW p \in Procs, Read(p) PROVE lock' = {<<q, n'[q]>>}
  BY <1>1, <1>2, <1>16 DEF Read, Goto, Typed, TypeOK, Waiting, Holding
<1>17. ASSUME NEW p \in Procs, Commit(p) PROVE lock' = {<<q, n'[q]>>}
  BY <1>1, <1>2, <1>17 DEF Commit, Goto, Typed, TypeOK, Waiting, Holding
<1>18. ASSUME NEW p \in Procs, Abort(p) PROVE lock' = {<<q, n'[q]>>}
  BY <1>1, <1>2, <1>18 DEF Abort, Goto, Typed, TypeOK, Waiting, Holding
<1>19. ASSUME NEW p \in Procs, Release(p) PROVE lock' = {<<q, n'[q]>>}
  <2>1. pc[q] \in Holding /\ q # p /\ n' = n /\ lock' = Without(<<p, n[p]>>)
    BY <1>19 DEF Release, Mine, Goto, Typed, TypeOK, Waiting, Holding
  <2>. QED
    BY <1>1, <1>2, <2>1 DEF Without
<1>20. ASSUME NEW p \in Procs, ReleaseRmdir(p) PROVE lock' = {<<q, n'[q]>>}
  <2>1. pc[q] \in Holding /\ n' = n
    BY <1>20 DEF ReleaseRmdir, Goto, Typed, TypeOK, Waiting, Holding
  <2>. QED
    BY <1>1, <1>2, <1>20, <2>1 DEF ReleaseRmdir, RemovedIfEmpty
<1>21. ASSUME NEW p \in Procs, ReleaseFails(p) PROVE lock' = {<<q, n'[q]>>}
  BY <1>1, <1>2, <1>21 DEF ReleaseFails, Goto, Typed, TypeOK, Waiting, Holding
<1>22. ASSUME NEW p \in Procs, Crash(p) PROVE lock' = {<<q, n'[q]>>}
  BY <1>1, <1>2, <1>22 DEF Crash, Goto, Typed, TypeOK, Waiting, Holding
<1>23. ASSUME NEW p \in Procs, Restart(p) PROVE lock' = {<<q, n'[q]>>}
  BY <1>1, <1>2, <1>23 DEF Restart, Goto, Typed, TypeOK, Waiting, Holding
<1>. QED
  BY <1>3, <1>4, <1>5, <1>6, <1>7, <1>8, <1>9, <1>10, <1>11, <1>12, <1>13, <1>14, <1>15, <1>16, <1>17, <1>18, <1>19, <1>20, <1>21, <1>22, <1>23 DEF Next

\* The invariant is inductive.
LEMMA LockInvNext == LockInv /\ [Next]_vars => LockInv'
BY TypedNext, TokensBegunNext, RemovesRetiredNext, OwnTokenLiveNext, HolderKeepsLockNext
   DEF LockInv

\* Two holders would each have the directory to themselves.
LEMMA HoldersExclude == LockInv => MutualExclusion
<1> SUFFICES ASSUME LockInv, NEW p \in Procs, NEW q \in Procs,
                    pc[p] \in Holding, pc[q] \in Holding
             PROVE  p = q
  BY DEF MutualExclusion
<1>1. {<<p, n[p]>>} = {<<q, n[q]>>}
  BY DEF LockInv, HolderKeepsLock, Mine
<1>2. <<p, n[p]>> = <<q, n[q]>>
  BY <1>1, Zenon
<1>. QED
  BY <1>2

----------------------------------------------------------------------------
(* The file's invariant.                                                   *)

\* A holder's copy stays current because nobody else is inside, so the file
\* it writes holds every earlier transaction.
LEMMA UpdateInvNext == UpdateInv /\ [Next]_vars => UpdateInv'
<1> SUFFICES ASSUME UpdateInv, [Next]_vars PROVE UpdateInv'
  OBVIOUS
<1> USE DEF UpdateInv
<1>1. LockInv'
  BY LockInvNext
<1>2. Typed /\ MutualExclusion
  BY HoldersExclude DEF LockInv
<1> DEFINE Goal == FreshBuffer' /\ NoLostUpdate'
<1>3. ASSUME UNCHANGED vars PROVE Goal
  BY <1>3 DEF vars, FreshBuffer, NoLostUpdate
<1>4. ASSUME NEW p \in Procs, Begin(p) PROVE Goal
  BY <1>2, <1>4 DEF Begin, Goto, Typed, TypeOK, FreshBuffer, NoLostUpdate
<1>5. ASSUME NEW p \in Procs, RetryRelease(p) PROVE Goal
  BY <1>2, <1>5 DEF RetryRelease, Goto, Typed, TypeOK, FreshBuffer, NoLostUpdate
<1>6. ASSUME NEW p \in Procs, RetryRmdir(p) PROVE Goal
  BY <1>2, <1>6 DEF RetryRmdir, Goto, Typed, TypeOK, FreshBuffer, NoLostUpdate
<1>7. ASSUME NEW p \in Procs, Acquire(p) PROVE Goal
  BY <1>2, <1>7 DEF Acquire, Goto, Typed, TypeOK, FreshBuffer, NoLostUpdate
<1>8. ASSUME NEW p \in Procs, Blocked(p) PROVE Goal
  BY <1>2, <1>8 DEF Blocked, Goto, Typed, TypeOK, FreshBuffer, NoLostUpdate
<1>9. ASSUME NEW p \in Procs, TimeOut(p) PROVE Goal
  BY <1>2, <1>9 DEF TimeOut, Goto, Typed, TypeOK, FreshBuffer, NoLostUpdate
<1>10. ASSUME NEW p \in Procs, LockFails(p) PROVE Goal
  BY <1>2, <1>10 DEF LockFails, Goto, Typed, TypeOK, FreshBuffer, NoLostUpdate
<1>11. ASSUME NEW p \in Procs, ListOwners(p) PROVE Goal
  BY <1>2, <1>11 DEF ListOwners, Goto, Typed, TypeOK, FreshBuffer, NoLostUpdate
<1>12. ASSUME NEW p \in Procs, RmdirEmpty(p) PROVE Goal
  BY <1>2, <1>12 DEF RmdirEmpty, Goto, Typed, TypeOK, FreshBuffer, NoLostUpdate
<1>13. ASSUME NEW p \in Procs, Reclaim(p) PROVE Goal
  BY <1>2, <1>13 DEF Reclaim, Goto, Typed, TypeOK, FreshBuffer, NoLostUpdate
<1>14. ASSUME NEW p \in Procs, Sleep(p) PROVE Goal
  BY <1>2, <1>14 DEF Sleep, Goto, Typed, TypeOK, FreshBuffer, NoLostUpdate
<1>15. ASSUME NEW p \in Procs, Steal(p) PROVE Goal
  BY <1>2, <1>15 DEF Steal, Goto, Typed, TypeOK, FreshBuffer, NoLostUpdate
<1>16. ASSUME NEW p \in Procs, Read(p) PROVE Goal
  BY <1>2, <1>16 DEF Read, Goto, Typed, TypeOK, FreshBuffer, NoLostUpdate
<1>17. ASSUME NEW p \in Procs, Commit(p) PROVE Goal
  <2>1. NoLostUpdate'
    BY <1>17 DEF Commit, FreshBuffer, NoLostUpdate
  <2>2. \A q \in Procs : pc'[q] # "commit"
    BY <1>2, <1>17 DEF Commit, Goto, MutualExclusion, Holding, Typed, TypeOK
  <2>. QED
    BY <2>1, <2>2 DEF FreshBuffer
<1>18. ASSUME NEW p \in Procs, Abort(p) PROVE Goal
  BY <1>2, <1>18 DEF Abort, Goto, Typed, TypeOK, FreshBuffer, NoLostUpdate
<1>19. ASSUME NEW p \in Procs, Release(p) PROVE Goal
  BY <1>2, <1>19 DEF Release, Goto, Typed, TypeOK, FreshBuffer, NoLostUpdate
<1>20. ASSUME NEW p \in Procs, ReleaseRmdir(p) PROVE Goal
  BY <1>2, <1>20 DEF ReleaseRmdir, Goto, Typed, TypeOK, FreshBuffer, NoLostUpdate
<1>21. ASSUME NEW p \in Procs, ReleaseFails(p) PROVE Goal
  BY <1>2, <1>21 DEF ReleaseFails, Goto, Typed, TypeOK, FreshBuffer, NoLostUpdate
<1>22. ASSUME NEW p \in Procs, Crash(p) PROVE Goal
  BY <1>2, <1>22 DEF Crash, Goto, Typed, TypeOK, FreshBuffer, NoLostUpdate
<1>23. ASSUME NEW p \in Procs, Restart(p) PROVE Goal
  BY <1>2, <1>23 DEF Restart, Goto, Typed, TypeOK, FreshBuffer, NoLostUpdate
<1>24. FreshBuffer' /\ NoLostUpdate'
  BY <1>3, <1>4, <1>5, <1>6, <1>7, <1>8, <1>9, <1>10, <1>11, <1>12, <1>13, <1>14, <1>15, <1>16, <1>17, <1>18, <1>19, <1>20, <1>21, <1>22, <1>23 DEF Next
<1>. QED
  BY <1>1, <1>24

----------------------------------------------------------------------------
(* Theorems.                                                               *)

\* The lock directory, the config file and every process's bookkeeping keep
\* their types through update() (TypeOK), for every set of processes.
THEOREM TypeCorrect == Spec => []TypeOK
<1>1. Typed => TypeOK
  BY DEF Typed
<1>. QED
  BY <1>1, TypedInit, TypedNext, PTL DEF Spec

\* ConfigStore.update is a critical section across processes: whatever
\* crashes, pid reuse and failed releases do, two are never inside.
THEOREM ExclusiveUpdate == Spec => []MutualExclusion
BY LockInvInit, LockInvNext, HoldersExclude, PTL DEF Spec

\* removeOwner never takes away the directory of a process inside the lock.
THEOREM StaleReleaserHarmless == Spec => []HolderKeepsLock
<1>1. LockInv => HolderKeepsLock
  BY DEF LockInv
<1>. QED
  BY <1>1, LockInvInit, LockInvNext, PTL DEF Spec

\* No transaction that replaced the config file is ever lost from it.
THEOREM ChangesKept == Spec => []NoLostUpdate
<1>1. Init => UpdateInv
  BY LockInvInit DEF Init, UpdateInv, FreshBuffer, NoLostUpdate
<1>2. UpdateInv => NoLostUpdate
  BY DEF UpdateInv
<1>. QED
  BY <1>1, <1>2, UpdateInvNext, PTL DEF Spec
============================================================================
