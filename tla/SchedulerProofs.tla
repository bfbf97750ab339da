------------------------- MODULE SchedulerProofs -------------------------
(***************************************************************************)
(* Proofs about one job, for any number of fires, timers, concurrent       *)
(* edits, crashes and restarts: at most one invocation runs while the      *)
(* job's first incarnation exists (OneFireWhileStored), the lock never     *)
(* outlives its owner (LockHasLiveOwner), successful runs are counted      *)
(* (RunsCounted) and no write undoes a pin (PinKept).                      *)
(***************************************************************************)
EXTENDS Scheduler, FiniteSetTheorems, SequenceTheorems, TLAPS

\* TypeOK in three parts, with what the parts say about each other: a fire
\* that is under way, and a reload about to attach, name an object.
FiresOK ==
    /\ fires \in [Fires -> Fire]
    /\ \A f \in Fires : Waiting(f) => fires[f].obj \in Objs

ControllersOK ==
    /\ ctl \in [Controllers -> Request]
    /\ \A c \in Controllers : ctl[c].pc = "attach" => ctl[c].obj \in Objs

DataOK ==
    /\ store \in Job \cup {NoJob}
    /\ lock \in 0..MaxFires
    /\ objs \in [Objs -> Object]
    /\ timers \subseteq Objs
    /\ handle \in 0..MaxObjs
    /\ boot \in {"down", "seeded", "list", "up", "stopped"}
    /\ generations \in 0..MaxGenerations
    /\ edits \in 0..MaxEdits
    /\ boots \in 0..MaxBoots

Typed == FiresOK /\ ControllersOK /\ DataOK

\* The entry list after a fire's entry went to its front is a list of entries.
LEMMA FrontEntry ==
    ASSUME NEW h \in Seq(Entry), NEW e \in Entry
    PROVE  LET g == <<e>> \o h
           IN  SubSeq(g, 1, IF Len(g) < HistoryLimit THEN Len(g) ELSE HistoryLimit)
                  \in Seq(Entry)
<1> DEFINE g == <<e>> \o h
<1> DEFINE n == IF Len(g) < HistoryLimit THEN Len(g) ELSE HistoryLimit
<1>1. g \in Seq(Entry)
  OBVIOUS
<1>2. n \in 0..Len(g)
  BY <1>1, SchedulerAssumption
<1>3. \A i \in 1..n : g[i] \in Entry
  BY <1>1, <1>2
<1>4. SubSeq(g, 1, n) \in Seq(Entry)
  BY <1>1, <1>2, <1>3, SubSeqProperties
<1> QED
  BY <1>4

\* Changing the status of entries keeps a history a history.
LEMMA Remarked ==
    ASSUME NEW h \in Seq(Entry), NEW g,
           DOMAIN g = DOMAIN h,
           g = [i \in DOMAIN h |-> g[i]],
           \A i \in DOMAIN h : g[i] \in Entry
    PROVE  g \in Seq(Entry)
<1>1. PICK n \in Nat : DOMAIN h = 1..n
  OBVIOUS
<1>2. g \in [1..n -> Entry]
  BY <1>1
<1> QED
  BY <1>2


\* Replacing one fire by another keeps the fires typed.
LEMMA FireReplaced ==
    ASSUME FiresOK, NEW f \in Fires, NEW r \in Fire,
           r.pc \in {"lock", "invoke", "persist", "retire", "unlock"} => r.obj \in Objs,
           fires' = [fires EXCEPT ![f] = r]
    PROVE  FiresOK'
<1>1. fires' \in [Fires -> Fire]
  BY DEF FiresOK
<1>2. \A g \in Fires : g # f => fires'[g] = fires[g]
  BY DEF FiresOK
<1>3. fires'[f] = r
  BY DEF FiresOK
<1> QED
  BY <1>1, <1>2, <1>3 DEF FiresOK, Waiting

\* The ranges of names contain 0, and those of objects every object.
LEMMA Ranges ==
    /\ 0 \in 0..MaxObjs /\ 0 \in 0..MaxGenerations /\ 0 \in 0..MaxFires
    /\ \A o \in Objs : o \in 0..MaxObjs
  BY SchedulerAssumption DEF Objs

\* A fire that starts on an object is typed.
LEMMA StartedTyped ==
    ASSUME NEW o \in Objs, NEW n \in 0..MaxGenerations
    PROVE  /\ Started(o, n) \in Fire
           /\ Started(o, n).obj = o
<1>1. NewFire \in Fire
  BY Ranges DEF NewFire, Fire
<1>2. o \in 0..MaxObjs
  BY Ranges
<1> QED
  BY <1>1, <1>2 DEF Started, Fire

\* Marking an entry's status keeps it an entry.
LEMMA EntryMarked ==
    ASSUME NEW e \in Entry, NEW st \in {"ok", "err"}
    PROVE  [e EXCEPT !.status = st] \in Entry
  BY DEF Entry

\* Marking an entry keeps the objects typed.
LEMMA MarkedTyped ==
    ASSUME NEW f \in Fires, NEW st \in {"ok", "err"},
           objs \in [Objs -> Object], fires[f].obj \in Objs
    PROVE  Marked(f, st) \in [Objs -> Object]
<1> DEFINE o == fires[f].obj
<1> DEFINE h == objs[o].history
<1> DEFINE g == [i \in DOMAIN h |-> IF h[i].fire = f THEN [h[i] EXCEPT !.status = st] ELSE h[i]]
<1>1. h \in Seq(Entry)
  BY DEF Object
<1>2. \A i \in DOMAIN h : g[i] \in Entry
  <2> TAKE i \in DOMAIN h
  <2>1. h[i] \in Entry
    BY <1>1
  <2> QED
    BY <2>1, EntryMarked
<1>3. Marked(f, st) = [objs EXCEPT ![o].history = g]
  BY DEF Marked
<1>4. DOMAIN g = DOMAIN h /\ g = [i \in DOMAIN h |-> g[i]]
  OBVIOUS
<1>5. o \in Objs
  OBVIOUS
<1> HIDE DEF g, h, o
<1>6. g \in Seq(Entry)
  BY <1>1, <1>2, <1>4, Remarked
<1> QED
  BY <1>3, <1>5, <1>6 DEF Object

\* The end of the process leaves typed fires, requests and volatile state.
LEMMA GoneTyped ==
    ASSUME FiresOK, ControllersOK, DataOK, Gone
    PROVE  /\ FiresOK' /\ ControllersOK'
           /\ store' \in Job \cup {NoJob} => DataOK'
<1> USE SchedulerAssumption
<1>1. \A f \in Fires : fires'[f] \in Fire /\ fires'[f].pc \in {"new", "done"}
  <2> TAKE f \in Fires
  <2>1. fires[f] \in Fire
    BY DEF FiresOK
  <2>2. [fires[f] EXCEPT !.pc = IF @ = "new" THEN "new" ELSE "done", !.obj = 0,
                         !.inv = IF @ = "run" THEN "none" ELSE @] \in Fire
    BY <2>1, Ranges DEF Fire
  <2>3. [fires[f] EXCEPT !.pc = IF @ = "new" THEN "new" ELSE "done", !.obj = 0,
                         !.inv = IF @ = "run" THEN "none" ELSE @].pc \in {"new", "done"}
    BY <2>1 DEF Fire
  <2> QED
    BY <2>1, <2>2, <2>3 DEF Gone
<1>2. fires' \in [Fires -> Fire]
  BY <1>1 DEF Gone
<1>3. FiresOK'
  BY <1>1, <1>2 DEF FiresOK, Waiting
<1>4. ControllersOK'
  <2>1. Idle \in Request /\ Idle.pc = "idle"
    BY DEF Idle, Request
  <2> QED
    BY <2>1 DEF Gone, ControllersOK
<1>5. store' \in Job \cup {NoJob} => DataOK'
  BY Ranges DEF Gone, DataOK
<1> QED
  BY <1>3, <1>4, <1>5

\* The initial state has its types.
LEMMA TypedInit == Init => Typed
<1> SUFFICES ASSUME Init PROVE Typed
  OBVIOUS
<1> USE SchedulerAssumption
<1>1. FiresOK
  BY DEF Init, FiresOK, Fire, NewFire, Waiting
<1>2. ControllersOK
  BY DEF Init, ControllersOK, Request, Idle
<1>3. <<>> \in Seq(Entry)
  OBVIOUS
<1>4. store \in Job \cup {NoJob}
  <2>1. CASE MaxGenerations > 0
    <3>1. 1 \in 1..MaxGenerations
      BY <2>1
    <3>2. NewJob(1) \in Job
      BY <1>3, <3>1 DEF NewJob, Job
    <3> QED
      BY <3>2 DEF Init
  <2>2. CASE ~(MaxGenerations > 0)
    BY <2>2 DEF Init
  <2> QED
    BY <2>1, <2>2
<1>5. objs \in [Objs -> Object]
  BY <1>3 DEF Init, Object
<1>6. DataOK
  BY <1>4, <1>5 DEF Init, DataOK
<1> QED
  BY <1>1, <1>2, <1>6 DEF Typed

\* Every step keeps the types and the references.
LEMMA TypedNext == Typed /\ [Next]_vars => Typed'
<1> SUFFICES ASSUME FiresOK, ControllersOK, DataOK, [Next]_vars
             PROVE  Typed'
  BY DEF Typed
<1> USE SchedulerAssumption
<1>1. ASSUME NEW o \in Objs, TimerFires(o)
      PROVE  Typed'
  <2>1. FiresOK'
    <3>1. PICK f \in Fires : fires' = [fires EXCEPT ![f] = Started(o, objs[o].gen)]
      BY <1>1 DEF TimerFires, NextFires
    <3>2. objs[o].gen \in 0..MaxGenerations
      BY DEF DataOK, Object
    <3> QED
      BY <3>1, <3>2, StartedTyped, FireReplaced
  <2>2. ControllersOK'
    BY <1>1 DEF TimerFires, ControllersOK
  <2>3. DataOK'
    BY <1>1 DEF TimerFires, DataOK
  <2> QED
    BY <2>1, <2>2, <2>3 DEF Typed
<1>2. ASSUME RunNow
      PROVE  Typed'
  <2>1. FiresOK'
    <3>1. PICK f \in Fires, o \in Objs : fires' = [fires EXCEPT ![f] = Started(o, store.gen)]
      BY <1>2 DEF RunNow, Serving, NextFires, FreeObjs
    <3>2. store.gen \in 0..MaxGenerations
      BY <1>2 DEF RunNow, Serving, DataOK, Job
    <3> QED
      BY <3>1, <3>2, StartedTyped, FireReplaced
  <2>2. ControllersOK'
    BY <1>2 DEF RunNow, Serving, ControllersOK
  <2>3. DataOK'
    BY <1>2 DEF RunNow, Serving, DataOK, FreeObjs, Snapshot, NoJob, Job, Object
  <2> QED
    BY <2>1, <2>2, <2>3 DEF Typed
<1>3. ASSUME NEW f \in Fires, TakeLock(f)
      PROVE  Typed'
  <2>1. FiresOK'
    <3> DEFINE r == [fires[f] EXCEPT !.pc = "invoke", !.inv = "run"]
    <3>1. r \in Fire
      BY Ranges DEF FiresOK, Fire
    <3>2. r.pc \in {"lock", "invoke", "persist", "retire", "unlock"} => r.obj \in Objs
      BY <1>3 DEF TakeLock, FiresOK, Fire, Waiting
    <3>3. fires' = [fires EXCEPT ![f] = r]
      BY <1>3 DEF TakeLock, FiresOK, Fire
    <3> QED
      BY <3>1, <3>2, <3>3, FireReplaced
  <2>2. ControllersOK'
    BY <1>3 DEF TakeLock, ControllersOK
  <2>3. DataOK'
    <3> DEFINE o == fires[f].obj
    <3>1. o \in Objs
      BY <1>3 DEF TakeLock, FiresOK, Waiting
    <3>2. [fire |-> f, status |-> "running"] \in Entry
      BY DEF Entry
    <3>3. objs[o].history \in Seq(Entry)
      BY <3>1 DEF DataOK, Object
    <3> DEFINE g == <<[fire |-> f, status |-> "running"]>> \o objs[o].history
    <3> DEFINE n == IF Len(g) < HistoryLimit THEN Len(g) ELSE HistoryLimit
    <3>4. SubSeq(g, 1, n) \in Seq(Entry)
      BY <3>2, <3>3, FrontEntry
    <3>5. objs' = [objs EXCEPT ![o].history = SubSeq(g, 1, n)]
      BY <1>3 DEF TakeLock
    <3> HIDE DEF o, g, n
    <3>6. objs' \in [Objs -> Object]
      BY <3>1, <3>4, <3>5 DEF DataOK, Object
    <3>7. lock' \in 0..MaxFires
      BY <1>3 DEF TakeLock, Fires
    <3> QED
      BY <1>3, <3>6, <3>7 DEF TakeLock, DataOK
  <2> QED
    BY <2>1, <2>2, <2>3 DEF Typed
<1>4. ASSUME NEW f \in Fires, Skip(f)
      PROVE  Typed'
  <2>1. FiresOK'
    <3> DEFINE r == [fires[f] EXCEPT !.pc = "done", !.obj = 0]
    <3>1. r \in Fire
      BY Ranges DEF FiresOK, Fire
    <3>2. r.pc \in {"lock", "invoke", "persist", "retire", "unlock"} => r.obj \in Objs
      BY <1>4 DEF Skip, FiresOK, Fire, Waiting
    <3>3. fires' = [fires EXCEPT ![f] = r]
      BY <1>4 DEF Skip, FiresOK, Fire
    <3> QED
      BY <3>1, <3>2, <3>3, FireReplaced
  <2>2. ControllersOK'
    BY <1>4 DEF Skip, ControllersOK
  <2>3. DataOK'
    BY <1>4 DEF Skip, DataOK
  <2> QED
    BY <2>1, <2>2, <2>3 DEF Typed
<1>5. ASSUME NEW f \in Fires, PinSession(f)
      PROVE  Typed'
  <2>1. FiresOK'
    BY <1>5 DEF PinSession, FiresOK, Waiting
  <2>2. ControllersOK'
    BY <1>5 DEF PinSession, ControllersOK
  <2>3. DataOK'
    BY <1>5 DEF PinSession, DataOK, Job, NoJob
  <2> QED
    BY <2>1, <2>2, <2>3 DEF Typed
<1>6. ASSUME NEW f \in Fires, NEW ok \in BOOLEAN, InvokeSettles(f, ok)
      PROVE  Typed'
  <2>1. FiresOK'
    BY <1>6 DEF InvokeSettles, FiresOK, Waiting, Fire
  <2>2. ControllersOK'
    BY <1>6 DEF InvokeSettles, ControllersOK
  <2>3. DataOK'
    <3>1. objs' \in [Objs -> Object]
      BY <1>6, MarkedTyped DEF InvokeSettles, FiresOK, Waiting, DataOK
    <3> QED
      BY <1>6, <3>1 DEF InvokeSettles, DataOK
  <2> QED
    BY <2>1, <2>2, <2>3 DEF Typed
<1>7. ASSUME NEW f \in Fires, FireTimesOut(f)
      PROVE  Typed'
  <2>1. FiresOK'
    <3> DEFINE r == [fires[f] EXCEPT !.pc = "persist", !.late = TRUE]
    <3>1. r \in Fire
      BY Ranges DEF FiresOK, Fire
    <3>2. r.pc \in {"lock", "invoke", "persist", "retire", "unlock"} => r.obj \in Objs
      BY <1>7 DEF FireTimesOut, FiresOK, Fire, Waiting
    <3>3. fires' = [fires EXCEPT ![f] = r]
      BY <1>7 DEF FireTimesOut, FiresOK, Fire
    <3> QED
      BY <3>1, <3>2, <3>3, FireReplaced
  <2>2. ControllersOK'
    BY <1>7 DEF FireTimesOut, ControllersOK
  <2>3. DataOK'
    <3>1. objs' \in [Objs -> Object]
      BY <1>7, MarkedTyped DEF FireTimesOut, FiresOK, Waiting, DataOK
    <3> QED
      BY <1>7, <3>1 DEF FireTimesOut, DataOK
  <2> QED
    BY <2>1, <2>2, <2>3 DEF Typed
<1>8. ASSUME NEW f \in Fires, LateSettles(f)
      PROVE  Typed'
  <2>1. FiresOK'
    BY <1>8 DEF LateSettles, FiresOK, Waiting, Fire
  <2>2. ControllersOK'
    BY <1>8 DEF LateSettles, ControllersOK
  <2>3. DataOK'
    BY <1>8 DEF LateSettles, DataOK
  <2> QED
    BY <2>1, <2>2, <2>3 DEF Typed
<1>9. ASSUME NEW f \in Fires, Persist(f)
      PROVE  Typed'
  <2>1. FiresOK'
    BY <1>9 DEF Persist, FiresOK, Waiting, Fire
  <2>2. ControllersOK'
    BY <1>9 DEF Persist, ControllersOK
  <2>3. DataOK'
    <3>1. ASSUME SameJob(f)
          PROVE  Recorded(store, f) \in Job
      <4>1. store \in Job
        BY <3>1 DEF SameJob, DataOK
      <4>2. objs[fires[f].obj].history \in Seq(Entry)
        BY <1>9 DEF Persist, FiresOK, Waiting, DataOK, Object
      <4>3. fires[f].ok \in BOOLEAN
        BY DEF FiresOK, Fire
      <4>4. /\ RunOutcome(store, fires[f].ok).runs \in Nat
            /\ RunOutcome(store, fires[f].ok).fails \in Nat
        BY <4>1 DEF RunOutcome, Job
      <4> QED
        BY <4>1, <4>2, <4>4 DEF Recorded, Job
    <3>2. store' \in Job \cup {NoJob}
      BY <1>9, <3>1 DEF Persist, DataOK
    <3> QED
      BY <1>9, <3>2 DEF Persist, DataOK
  <2> QED
    BY <2>1, <2>2, <2>3 DEF Typed
<1>10. ASSUME NEW f \in Fires, PersistFails(f)
      PROVE  Typed'
  <2>1. FiresOK'
    BY <1>10 DEF PersistFails, FiresOK, Waiting, Fire
  <2>2. ControllersOK'
    BY <1>10 DEF PersistFails, ControllersOK
  <2>3. DataOK'
    BY <1>10 DEF PersistFails, DataOK
  <2> QED
    BY <2>1, <2>2, <2>3 DEF Typed
<1>11. ASSUME NEW f \in Fires, Retire(f)
      PROVE  Typed'
  <2>1. FiresOK'
    BY <1>11 DEF Retire, Detached, FiresOK, Waiting, Fire
  <2>2. ControllersOK'
    BY <1>11 DEF Retire, Detached, ControllersOK
  <2>3. DataOK'
    BY <1>11 DEF Retire, Detached, DataOK
  <2> QED
    BY <2>1, <2>2, <2>3 DEF Typed
<1>12. ASSUME NEW f \in Fires, Unlock(f)
      PROVE  Typed'
  <2>1. FiresOK'
    <3> DEFINE r == [fires[f] EXCEPT !.pc = "done", !.obj = 0]
    <3>1. r \in Fire
      BY Ranges DEF FiresOK, Fire
    <3>2. r.pc \in {"lock", "invoke", "persist", "retire", "unlock"} => r.obj \in Objs
      BY <1>12 DEF Unlock, FiresOK, Fire, Waiting
    <3>3. fires' = [fires EXCEPT ![f] = r]
      BY <1>12 DEF Unlock, FiresOK, Fire
    <3> QED
      BY <3>1, <3>2, <3>3, FireReplaced
  <2>2. ControllersOK'
    BY <1>12 DEF Unlock, ControllersOK
  <2>3. DataOK'
    BY <1>12 DEF Unlock, DataOK
  <2> QED
    BY <2>1, <2>2, <2>3 DEF Typed
<1>13. ASSUME NEW c \in Controllers, Create(c)
      PROVE  Typed'
  <2>1. FiresOK'
    BY <1>13 DEF Create, FiresOK, Waiting
  <2>2. ControllersOK'
    BY <1>13 DEF Create, ControllersOK, Request
  <2>3. DataOK'
    BY <1>13 DEF Create, DataOK, NewJob, NoJob, Job
  <2> QED
    BY <2>1, <2>2, <2>3 DEF Typed
<1>14. ASSUME NEW c \in Controllers, UpdateRead(c)
      PROVE  Typed'
  <2>1. FiresOK'
    BY <1>14 DEF UpdateRead, FiresOK, Waiting
  <2>2. ControllersOK'
    BY <1>14 DEF UpdateRead, ControllersOK, Request, DataOK, Job
  <2>3. DataOK'
    BY <1>14 DEF UpdateRead, DataOK
  <2> QED
    BY <2>1, <2>2, <2>3 DEF Typed
<1>15. ASSUME NEW c \in Controllers, NEW e \in BOOLEAN, NEW r \in BOOLEAN, UpdateWrite(c, e, r)
      PROVE  Typed'
  <2>1. FiresOK'
    BY <1>15 DEF UpdateWrite, FiresOK, Waiting
  <2>2. ControllersOK'
    BY <1>15 DEF UpdateWrite, ControllersOK, Request
  <2>3. DataOK'
    BY <1>15 DEF UpdateWrite, DataOK, Job, NoJob
  <2> QED
    BY <2>1, <2>2, <2>3 DEF Typed
<1>16. ASSUME NEW c \in Controllers, UpdateRefused(c)
      PROVE  Typed'
  <2>1. FiresOK'
    BY <1>16 DEF UpdateRefused, Idle, FiresOK, Waiting
  <2>2. ControllersOK'
    BY <1>16 DEF UpdateRefused, Idle, ControllersOK, Request
  <2>3. DataOK'
    BY <1>16 DEF UpdateRefused, Idle, DataOK
  <2> QED
    BY <2>1, <2>2, <2>3 DEF Typed
<1>17. ASSUME NEW c \in Controllers, DeleteRead(c)
      PROVE  Typed'
  <2>1. FiresOK'
    BY <1>17 DEF DeleteRead, FiresOK, Waiting
  <2>2. ControllersOK'
    BY <1>17 DEF DeleteRead, ControllersOK, Request
  <2>3. DataOK'
    BY <1>17 DEF DeleteRead, DataOK
  <2> QED
    BY <2>1, <2>2, <2>3 DEF Typed
<1>18. ASSUME NEW c \in Controllers, DeleteStore(c)
      PROVE  Typed'
  <2>1. FiresOK'
    BY <1>18 DEF DeleteStore, FiresOK, Waiting
  <2>2. ControllersOK'
    BY <1>18 DEF DeleteStore, ControllersOK, Request
  <2>3. DataOK'
    BY <1>18 DEF DeleteStore, DataOK
  <2> QED
    BY <2>1, <2>2, <2>3 DEF Typed
<1>19. ASSUME NEW c \in Controllers, DeleteLock(c)
      PROVE  Typed'
  <2>1. FiresOK'
    BY <1>19 DEF DeleteLock, FiresOK, Waiting
  <2>2. ControllersOK'
    BY <1>19 DEF DeleteLock, ControllersOK, Request
  <2>3. DataOK'
    BY <1>19 DEF DeleteLock, DataOK
  <2> QED
    BY <2>1, <2>2, <2>3 DEF Typed
<1>20. ASSUME NEW c \in Controllers, ReloadDetach(c)
      PROVE  Typed'
  <2>1. FiresOK'
    BY <1>20 DEF ReloadDetach, Detached, FiresOK, Waiting
  <2>2. ControllersOK'
    BY <1>20 DEF ReloadDetach, Detached, ControllersOK, Request
  <2>3. DataOK'
    BY <1>20 DEF ReloadDetach, Detached, DataOK
  <2> QED
    BY <2>1, <2>2, <2>3 DEF Typed
<1>21. ASSUME NEW c \in Controllers, ReloadGet(c)
      PROVE  Typed'
  <2>1. FiresOK'
    BY <1>21 DEF ReloadGet, Idle, FiresOK, Waiting
  <2>2. ControllersOK'
    BY <1>21 DEF ReloadGet, Idle, ControllersOK, Request, Objs, FreeObjs
  <2>3. DataOK'
    <3>1. ASSUME Armed
          PROVE  Snapshot \in Object
      BY <3>1 DEF Armed, Snapshot, Object, DataOK, Job
    <3>2. objs' \in [Objs -> Object]
      BY <1>21, <3>1 DEF ReloadGet, FreeObjs, DataOK
    <3> QED
      BY <1>21, <3>2 DEF ReloadGet, DataOK
  <2> QED
    BY <2>1, <2>2, <2>3 DEF Typed
<1>22. ASSUME NEW c \in Controllers, ReloadAttach(c)
      PROVE  Typed'
  <2>1. FiresOK'
    BY <1>22 DEF ReloadAttach, Attached, Idle, FiresOK, Waiting
  <2>2. ControllersOK'
    BY <1>22 DEF ReloadAttach, Attached, Idle, ControllersOK, Request
  <2>3. DataOK'
    <3>1. ctl[c].obj \in Objs
      BY <1>22 DEF ReloadAttach, ControllersOK
    <3>2. timers' \subseteq Objs
      BY <1>22, <3>1 DEF ReloadAttach, Attached, DataOK
    <3>3. handle' \in 0..MaxObjs
      BY <1>22, <3>1 DEF ReloadAttach, Attached, Objs
    <3> QED
      BY <1>22, <3>2, <3>3 DEF ReloadAttach, DataOK
  <2> QED
    BY <2>1, <2>2, <2>3 DEF Typed
<1>23. ASSUME Seed
      PROVE  Typed'
  <2>1. FiresOK'
    BY <1>23 DEF Seed, FiresOK, Waiting
  <2>2. ControllersOK'
    BY <1>23 DEF Seed, ControllersOK
  <2>3. DataOK'
    <3>1. CASE store = NoJob
      <4>1. generations + 1 \in 1..MaxGenerations
        BY <1>23, <3>1 DEF Seed, DataOK
      <4>2. <<>> \in Seq(Entry)
        OBVIOUS
      <4>3. [NewJob(generations + 1) EXCEPT !.ran = TRUE] \in Job
        BY <4>1, <4>2 DEF NewJob, Job
      <4>4. [gen |-> generations + 1, history |-> <<>>] \in Object
        BY <4>1, <4>2 DEF Object
      <4>5. PICK o \in Objs :
              /\ objs' = [objs EXCEPT ![o] = [gen |-> generations + 1, history |-> <<>>]]
              /\ timers' = (timers \ {handle}) \cup {o}
              /\ handle' = o
        BY <1>23, <3>1 DEF Seed, FreeObjs
      <4>6. objs' \in [Objs -> Object]
        BY <4>4, <4>5 DEF DataOK
      <4>7. handle' \in 0..MaxObjs
        BY <4>5 DEF Objs
      <4>8. timers' \subseteq Objs
        BY <4>5 DEF DataOK
      <4>9. store' \in Job /\ generations' \in 0..MaxGenerations
        <5>1. /\ store' = [NewJob(generations + 1) EXCEPT !.ran = TRUE]
              /\ generations' = generations + 1
          BY <1>23, <3>1 DEF Seed
        <5> QED
          BY <4>1, <4>3, <5>1
      <4>10. lock' = lock /\ edits' = edits /\ boot' = "seeded" /\ boots' \in 0..MaxBoots
        BY <1>23 DEF Seed, DataOK
      <4> QED
        BY <4>6, <4>7, <4>8, <4>9, <4>10 DEF DataOK
    <3>2. CASE store # NoJob
      BY <1>23, <3>2 DEF Seed, DataOK
    <3> QED
      BY <3>1, <3>2
  <2> QED
    BY <2>1, <2>2, <2>3 DEF Typed
<1>24. ASSUME BootUserJob
      PROVE  Typed'
  <2>1. FiresOK'
    BY <1>24 DEF BootUserJob, FiresOK, Waiting
  <2>2. ControllersOK'
    BY <1>24 DEF BootUserJob, ControllersOK
  <2>3. DataOK'
    BY <1>24 DEF BootUserJob, DataOK
  <2> QED
    BY <2>1, <2>2, <2>3 DEF Typed
<1>25. ASSUME NEW k \in BOOLEAN, CleanStaleLocks(k)
      PROVE  Typed'
  <2>1. FiresOK'
    BY <1>25 DEF CleanStaleLocks, FiresOK, Waiting
  <2>2. ControllersOK'
    BY <1>25 DEF CleanStaleLocks, ControllersOK
  <2>3. DataOK'
    BY <1>25 DEF CleanStaleLocks, DataOK
  <2> QED
    BY <2>1, <2>2, <2>3 DEF Typed
<1>26. ASSUME NEW m \in BOOLEAN, StartList(m)
      PROVE  Typed'
  <2>1. FiresOK'
    <3>1. CASE fires' = fires
      BY <3>1 DEF FiresOK, Waiting
    <3>2. CASE fires' # fires
      <4>1. PICK f \in Fires, o \in Objs : fires' = [fires EXCEPT ![f] = Started(o, store.gen)]
        BY <1>26, <3>2 DEF StartList, NextFires, FreeObjs
      <4>2. store.gen \in 0..MaxGenerations
        BY <1>26, <3>2 DEF StartList, Armed, DataOK, Job
      <4> QED
        BY <4>1, <4>2, StartedTyped, FireReplaced
    <3> QED
      BY <3>1, <3>2
  <2>2. ControllersOK'
    BY <1>26 DEF StartList, ControllersOK
  <2>3. DataOK'
    <3>1. CASE Armed
      <4>1. Snapshot \in Object
        BY <3>1 DEF Armed, Snapshot, Object, DataOK, Job
      <4>2. PICK o \in Objs : objs' = [objs EXCEPT ![o] = Snapshot] /\ Attached(o)
        BY <1>26, <3>1 DEF StartList, FreeObjs
      <4>3. objs' \in [Objs -> Object]
        BY <4>1, <4>2 DEF DataOK
      <4>4. timers' \subseteq Objs
        BY <4>2 DEF Attached, DataOK
      <4>5. handle' \in 0..MaxObjs
        BY <4>2 DEF Attached, Objs
      <4> QED
        BY <1>26, <4>3, <4>4, <4>5 DEF StartList, DataOK
    <3>2. CASE ~Armed
      BY <1>26, <3>2 DEF StartList, DataOK
    <3> QED
      BY <3>1, <3>2
  <2> QED
    BY <2>1, <2>2, <2>3 DEF Typed
<1>27. ASSUME Stop
      PROVE  Typed'
  <2>1. FiresOK'
    BY <1>27 DEF Stop, FiresOK, Waiting
  <2>2. ControllersOK'
    BY <1>27 DEF Stop, ControllersOK
  <2>3. DataOK'
    BY <1>27 DEF Stop, DataOK
  <2> QED
    BY <2>1, <2>2, <2>3 DEF Typed
<1>28. ASSUME Exit
      PROVE  Typed'
  <2>1. FiresOK'
    BY <1>28, GoneTyped DEF Exit
  <2>2. ControllersOK'
    BY <1>28, GoneTyped DEF Exit
  <2>3. DataOK'
    BY <1>28, GoneTyped DEF Exit, DataOK
  <2> QED
    BY <2>1, <2>2, <2>3 DEF Typed
<1>29. ASSUME UncaughtException
      PROVE  Typed'
  <2>1. FiresOK'
    BY <1>29, GoneTyped DEF UncaughtException
  <2>2. ControllersOK'
    BY <1>29, GoneTyped DEF UncaughtException
  <2>3. DataOK'
    <3> DEFINE h == store.history
    <3> DEFINE g == [i \in DOMAIN h |-> IF h[i].status = "running"
                                       THEN [h[i] EXCEPT !.status = "err"] ELSE h[i]]
    <3>1. store \in Job
      BY <1>29 DEF UncaughtException, DataOK
    <3>2. h \in Seq(Entry)
      BY <3>1 DEF Job
    <3>3. \A i \in DOMAIN h : g[i] \in Entry
      <4> TAKE i \in DOMAIN h
      <4>1. h[i] \in Entry
        BY <3>2
      <4> QED
        BY <4>1, EntryMarked
    <3>4. store' = [store EXCEPT !.history = g]
      BY <1>29 DEF UncaughtException
    <3>5. DOMAIN g = DOMAIN h /\ g = [i \in DOMAIN h |-> g[i]]
      OBVIOUS
    <3> HIDE DEF g, h
    <3>6. g \in Seq(Entry)
      BY <3>2, <3>3, <3>5, Remarked
    <3>7. store' \in Job
      BY <3>1, <3>4, <3>6 DEF Job
    <3> QED
      BY <1>29, <3>7, GoneTyped DEF UncaughtException
  <2> QED
    BY <2>1, <2>2, <2>3 DEF Typed
<1>30. ASSUME UNCHANGED vars
      PROVE  Typed'
  <2>1. FiresOK'
    BY <1>30 DEF vars, FiresOK, Waiting
  <2>2. ControllersOK'
    BY <1>30 DEF vars, ControllersOK
  <2>3. DataOK'
    BY <1>30 DEF vars, DataOK
  <2> QED
    BY <2>1, <2>2, <2>3 DEF Typed
<1> QED
  BY <1>1, <1>2, <1>3, <1>4, <1>5, <1>6, <1>7, <1>8, <1>9, <1>10, <1>11, <1>12, <1>13, <1>14, <1>15, <1>16, <1>17, <1>18, <1>19, <1>20, <1>21, <1>22, <1>23, <1>24, <1>25, <1>26, <1>27, <1>28, <1>29, <1>30, SchedulerAssumption DEF Next

\* The job file, the lock, the captured objects and every fire and request
\* keep their types through runJob, reload, start and a crash (TypeOK).
THEOREM TypeCorrect == Spec => []TypeOK
<1>1. Typed => TypeOK
  BY DEF Typed, FiresOK, ControllersOK, DataOK, TypeOK
<1> QED
  BY <1>1, TypedInit, TypedNext, PTL DEF Spec

----------------------------------------------------------------------------
\* A fire that will still remove the lock file: its invocation runs, or
\* runJob has not reached the unlink of its finally.
Owns(f) ==
    \/ fires[f].inv = "run"
    \/ ~fires[f].late /\ fires[f].pc \in {"invoke", "persist", "retire", "unlock"}

\* Before the id is created for a second time, and while it is stored.
FirstLife == generations = 0 \/ (store # NoJob /\ store.gen = 1)

\* The lock names its owner; deletion, which removes the lock of a running
\* fire, ends the first life before it does so.
LockOwned == FirstLife => \A f \in Fires : Owns(f) => lock = f

DeletionEndsLife ==
    /\ store # NoJob => store.gen <= generations
    /\ \A c \in Controllers :
        /\ ctl[c].pc \in {"delete", "unlinkLock"} => generations > 0
        /\ ctl[c].pc = "unlinkLock" => ~FirstLife

\* An invocation is waited for by its runJob, or has timed out.
InvocationsAwaited ==
    \A f \in Fires : fires[f].inv = "run" => fires[f].late \/ fires[f].pc = "invoke"

LockInv == Typed /\ LockOwned /\ DeletionEndsLife /\ InvocationsAwaited

\* Nothing runs and nothing is locked before the first boot.
LEMMA LockInvInit == Init => LockInv
<1> SUFFICES ASSUME Init PROVE LockInv
  OBVIOUS
<1>1. Typed
  BY TypedInit
<1>2. LockOwned
  BY DEF Init, LockOwned, Owns, NewFire
<1>3. DeletionEndsLife
  BY DEF Init, DeletionEndsLife, Idle, NewJob, NoJob
<1>4. InvocationsAwaited
  BY DEF Init, InvocationsAwaited, NewFire
<1> QED
  BY <1>1, <1>2, <1>3, <1>4 DEF LockInv

\* A step that changes neither the lock nor what any fire owns.
LEMMA LockUndisturbed ==
    ASSUME LockOwned, lock' = lock, FirstLife' => FirstLife,
           \A f \in Fires : Owns(f)' => Owns(f)
    PROVE  LockOwned'
  BY DEF LockOwned

\* No fire outlives its process.
LEMMA GoneOwnsNothing ==
    ASSUME fires \in [Fires -> Fire], Gone
    PROVE  \A f \in Fires : ~Owns(f)'
  BY DEF Gone, Owns, Fire

\* Every step keeps the lock with its owner.
LEMMA LockInvNext == LockInv /\ [Next]_vars => LockInv'
<1> SUFFICES ASSUME Typed, LockOwned, DeletionEndsLife, InvocationsAwaited, [Next]_vars
             PROVE  LockInv'
  BY DEF LockInv
<1> USE SchedulerAssumption
<1>0. Typed'
  BY TypedNext
<1>t. /\ fires \in [Fires -> Fire] /\ ctl \in [Controllers -> Request]
      /\ store \in Job \cup {NoJob} /\ generations \in Nat
  BY DEF Typed, FiresOK, ControllersOK, DataOK
<1>1. ASSUME NEW o \in Objs, TimerFires(o)
      PROVE  LockInv'
  <2>1. LockOwned'
    <3>1. lock' = lock /\ (FirstLife' => FirstLife)
      BY <1>t, <1>1 DEF TimerFires, FirstLife
    <3>2. \A g \in Fires : Owns(g)' => Owns(g)
      BY <1>t, <1>1 DEF TimerFires, Owns, Fire, NextFires, Started, NewFire
    <3> QED
      BY <3>1, <3>2, LockUndisturbed
  <2>2. DeletionEndsLife'
    BY <1>t, <1>1 DEF TimerFires, DeletionEndsLife, FirstLife
  <2>3. InvocationsAwaited'
    BY <1>t, <1>1 DEF TimerFires, NextFires, Started, NewFire, InvocationsAwaited, Fire
  <2> QED
    BY <1>0, <2>1, <2>2, <2>3 DEF LockInv
<1>2. ASSUME RunNow
      PROVE  LockInv'
  <2>1. LockOwned'
    <3>1. lock' = lock /\ (FirstLife' => FirstLife)
      BY <1>t, <1>2 DEF RunNow, Serving, FirstLife
    <3>2. \A g \in Fires : Owns(g)' => Owns(g)
      BY <1>t, <1>2 DEF RunNow, Serving, Owns, Fire, NextFires, Started, NewFire
    <3> QED
      BY <3>1, <3>2, LockUndisturbed
  <2>2. DeletionEndsLife'
    BY <1>t, <1>2 DEF RunNow, Serving, DeletionEndsLife, FirstLife
  <2>3. InvocationsAwaited'
    BY <1>t, <1>2 DEF RunNow, Serving, NextFires, Started, NewFire, InvocationsAwaited, Fire
  <2> QED
    BY <1>0, <2>1, <2>2, <2>3 DEF LockInv
<1>3. ASSUME NEW f \in Fires, TakeLock(f)
      PROVE  LockInv'
  <2>1. LockOwned'
    BY <1>t, <1>3 DEF TakeLock, LockOwned, Owns, Fire, Fires, FirstLife
  <2>2. DeletionEndsLife'
    BY <1>t, <1>3 DEF TakeLock, DeletionEndsLife, FirstLife
  <2>3. InvocationsAwaited'
    BY <1>t, <1>3 DEF TakeLock, InvocationsAwaited, Fire
  <2> QED
    BY <1>0, <2>1, <2>2, <2>3 DEF LockInv
<1>4. ASSUME NEW f \in Fires, Skip(f)
      PROVE  LockInv'
  <2>1. LockOwned'
    <3>1. lock' = lock /\ (FirstLife' => FirstLife)
      BY <1>t, <1>4 DEF Skip, FirstLife
    <3>2. \A g \in Fires : Owns(g)' => Owns(g)
      BY <1>t, <1>4 DEF Skip, Owns, Fire
    <3> QED
      BY <3>1, <3>2, LockUndisturbed
  <2>2. DeletionEndsLife'
    BY <1>t, <1>4 DEF Skip, DeletionEndsLife, FirstLife
  <2>3. InvocationsAwaited'
    BY <1>t, <1>4 DEF Skip, InvocationsAwaited, Fire
  <2> QED
    BY <1>0, <2>1, <2>2, <2>3 DEF LockInv
<1>5. ASSUME NEW f \in Fires, PinSession(f)
      PROVE  LockInv'
  <2>1. LockOwned'
    <3>1. lock' = lock /\ (FirstLife' => FirstLife)
      BY <1>t, <1>5 DEF PinSession, FirstLife, Job, NoJob
    <3>2. \A g \in Fires : Owns(g)' => Owns(g)
      BY <1>t, <1>5 DEF PinSession, Owns, Fire
    <3> QED
      BY <3>1, <3>2, LockUndisturbed
  <2>2. DeletionEndsLife'
    BY <1>t, <1>5 DEF PinSession, DeletionEndsLife, FirstLife, Job, NoJob
  <2>3. InvocationsAwaited'
    BY <1>t, <1>5 DEF PinSession, InvocationsAwaited, Fire
  <2> QED
    BY <1>0, <2>1, <2>2, <2>3 DEF LockInv
<1>6. ASSUME NEW f \in Fires, NEW ok \in BOOLEAN, InvokeSettles(f, ok)
      PROVE  LockInv'
  <2>1. LockOwned'
    <3>1. lock' = lock /\ (FirstLife' => FirstLife)
      BY <1>t, <1>6 DEF InvokeSettles, FirstLife
    <3>2. \A g \in Fires : Owns(g)' => Owns(g)
      BY <1>t, <1>6 DEF InvokeSettles, Owns, Fire
    <3> QED
      BY <3>1, <3>2, LockUndisturbed
  <2>2. DeletionEndsLife'
    BY <1>t, <1>6 DEF InvokeSettles, DeletionEndsLife, FirstLife
  <2>3. InvocationsAwaited'
    BY <1>t, <1>6 DEF InvokeSettles, InvocationsAwaited, Fire
  <2> QED
    BY <1>0, <2>1, <2>2, <2>3 DEF LockInv
<1>7. ASSUME NEW f \in Fires, FireTimesOut(f)
      PROVE  LockInv'
  <2>1. LockOwned'
    <3>1. lock' = lock /\ (FirstLife' => FirstLife)
      BY <1>t, <1>7 DEF FireTimesOut, FirstLife
    <3>2. \A g \in Fires : Owns(g)' => Owns(g)
      BY <1>t, <1>7 DEF FireTimesOut, Owns, Fire
    <3> QED
      BY <3>1, <3>2, LockUndisturbed
  <2>2. DeletionEndsLife'
    BY <1>t, <1>7 DEF FireTimesOut, DeletionEndsLife, FirstLife
  <2>3. InvocationsAwaited'
    BY <1>t, <1>7 DEF FireTimesOut, InvocationsAwaited, Fire
  <2> QED
    BY <1>0, <2>1, <2>2, <2>3 DEF LockInv
<1>8. ASSUME NEW f \in Fires, LateSettles(f)
      PROVE  LockInv'
  <2>1. LockOwned'
    BY <1>t, <1>8 DEF LateSettles, LockOwned, Owns, Fire, Fires, FirstLife
  <2>2. DeletionEndsLife'
    BY <1>t, <1>8 DEF LateSettles, DeletionEndsLife, FirstLife
  <2>3. InvocationsAwaited'
    BY <1>t, <1>8 DEF LateSettles, InvocationsAwaited, Fire
  <2> QED
    BY <1>0, <2>1, <2>2, <2>3 DEF LockInv
<1>9. ASSUME NEW f \in Fires, Persist(f)
      PROVE  LockInv'
  <2>1. LockOwned'
    <3>1. lock' = lock /\ (FirstLife' => FirstLife)
      BY <1>t, <1>9 DEF Persist, FirstLife, SameJob, Recorded, Job, NoJob
    <3>2. \A g \in Fires : Owns(g)' => Owns(g)
      BY <1>t, <1>9 DEF Persist, Owns, Fire
    <3> QED
      BY <3>1, <3>2, LockUndisturbed
  <2>2. DeletionEndsLife'
    BY <1>t, <1>9 DEF Persist, DeletionEndsLife, FirstLife, SameJob, Recorded, Job, NoJob
  <2>3. InvocationsAwaited'
    BY <1>t, <1>9 DEF Persist, InvocationsAwaited, Fire
  <2> QED
    BY <1>0, <2>1, <2>2, <2>3 DEF LockInv
<1>10. ASSUME NEW f \in Fires, PersistFails(f)
      PROVE  LockInv'
  <2>1. LockOwned'
    <3>1. lock' = lock /\ (FirstLife' => FirstLife)
      BY <1>t, <1>10 DEF PersistFails, FirstLife
    <3>2. \A g \in Fires : Owns(g)' => Owns(g)
      BY <1>t, <1>10 DEF PersistFails, Owns, Fire
    <3> QED
      BY <3>1, <3>2, LockUndisturbed
  <2>2. DeletionEndsLife'
    BY <1>t, <1>10 DEF PersistFails, DeletionEndsLife, FirstLife
  <2>3. InvocationsAwaited'
    BY <1>t, <1>10 DEF PersistFails, InvocationsAwaited, Fire
  <2> QED
    BY <1>0, <2>1, <2>2, <2>3 DEF LockInv
<1>11. ASSUME NEW f \in Fires, Retire(f)
      PROVE  LockInv'
  <2>1. LockOwned'
    <3>1. lock' = lock /\ (FirstLife' => FirstLife)
      BY <1>t, <1>11 DEF Retire, Detached, FirstLife
    <3>2. \A g \in Fires : Owns(g)' => Owns(g)
      BY <1>t, <1>11 DEF Retire, Detached, Owns, Fire
    <3> QED
      BY <3>1, <3>2, LockUndisturbed
  <2>2. DeletionEndsLife'
    BY <1>t, <1>11 DEF Retire, Detached, DeletionEndsLife, FirstLife
  <2>3. InvocationsAwaited'
    BY <1>t, <1>11 DEF Retire, Detached, InvocationsAwaited, Fire
  <2> QED
    BY <1>0, <2>1, <2>2, <2>3 DEF LockInv
<1>12. ASSUME NEW f \in Fires, Unlock(f)
      PROVE  LockInv'
  <2>1. LockOwned'
    <3>1. FirstLife' = FirstLife
      BY <1>12 DEF Unlock, FirstLife
    <3>2. \A g \in Fires : Owns(g)' => Owns(g)
      BY <1>t, <1>12 DEF Unlock, Owns, Fire
    <3>3. CASE fires[f].late
      BY <1>12, <3>1, <3>2, <3>3 DEF Unlock, LockOwned
    <3>4. CASE ~fires[f].late
      <4>1. Owns(f)
        BY <1>12, <3>4 DEF Unlock, Owns
      <4>2. FirstLife => \A g \in Fires : Owns(g) => g = f
        BY <4>1 DEF LockOwned
      <4>3. fires[f].inv # "run"
        BY <1>12, <3>4 DEF Unlock, InvocationsAwaited
      <4> QED
        BY <1>t, <1>12, <3>1, <3>2, <4>2, <4>3 DEF Unlock, LockOwned, Owns, Fire
    <3> QED
      BY <3>3, <3>4
  <2>2. DeletionEndsLife'
    BY <1>t, <1>12 DEF Unlock, DeletionEndsLife, FirstLife
  <2>3. InvocationsAwaited'
    BY <1>t, <1>12 DEF Unlock, InvocationsAwaited, Fire
  <2> QED
    BY <1>0, <2>1, <2>2, <2>3 DEF LockInv
<1>13. ASSUME NEW c \in Controllers, Create(c)
      PROVE  LockInv'
  <2>1. LockOwned'
    <3>1. lock' = lock /\ (FirstLife' => FirstLife)
      BY <1>t, <1>13 DEF Create, FirstLife, NewJob, NoJob
    <3>2. \A g \in Fires : Owns(g)' => Owns(g)
      BY <1>t, <1>13 DEF Create, Owns
    <3> QED
      BY <3>1, <3>2, LockUndisturbed
  <2>2. DeletionEndsLife'
    BY <1>t, <1>13 DEF Create, DeletionEndsLife, FirstLife, NewJob, NoJob, Request
  <2>3. InvocationsAwaited'
    BY <1>t, <1>13 DEF Create, InvocationsAwaited, Fire
  <2> QED
    BY <1>0, <2>1, <2>2, <2>3 DEF LockInv
<1>14. ASSUME NEW c \in Controllers, UpdateRead(c)
      PROVE  LockInv'
  <2>1. LockOwned'
    <3>1. lock' = lock /\ (FirstLife' => FirstLife)
      BY <1>t, <1>14 DEF UpdateRead, FirstLife
    <3>2. \A g \in Fires : Owns(g)' => Owns(g)
      BY <1>t, <1>14 DEF UpdateRead, Owns, Fire
    <3> QED
      BY <3>1, <3>2, LockUndisturbed
  <2>2. DeletionEndsLife'
    BY <1>t, <1>14 DEF UpdateRead, DeletionEndsLife, FirstLife, Request
  <2>3. InvocationsAwaited'
    BY <1>t, <1>14 DEF UpdateRead, InvocationsAwaited, Fire
  <2> QED
    BY <1>0, <2>1, <2>2, <2>3 DEF LockInv
<1>15. ASSUME NEW c \in Controllers, NEW e \in BOOLEAN, NEW r \in BOOLEAN, UpdateWrite(c, e, r)
      PROVE  LockInv'
  <2>1. LockOwned'
    <3>1. lock' = lock /\ (FirstLife' => FirstLife)
      BY <1>t, <1>15 DEF UpdateWrite, FirstLife, Job, NoJob
    <3>2. \A g \in Fires : Owns(g)' => Owns(g)
      BY <1>t, <1>15 DEF UpdateWrite, Owns, Fire
    <3> QED
      BY <3>1, <3>2, LockUndisturbed
  <2>2. DeletionEndsLife'
    BY <1>t, <1>15 DEF UpdateWrite, DeletionEndsLife, FirstLife, Job, NoJob, Request
  <2>3. InvocationsAwaited'
    BY <1>t, <1>15 DEF UpdateWrite, InvocationsAwaited, Fire
  <2> QED
    BY <1>0, <2>1, <2>2, <2>3 DEF LockInv
<1>16. ASSUME NEW c \in Controllers, UpdateRefused(c)
      PROVE  LockInv'
  <2>1. LockOwned'
    <3>1. lock' = lock /\ (FirstLife' => FirstLife)
      BY <1>t, <1>16 DEF UpdateRefused, FirstLife
    <3>2. \A g \in Fires : Owns(g)' => Owns(g)
      BY <1>t, <1>16 DEF UpdateRefused, Owns, Fire
    <3> QED
      BY <3>1, <3>2, LockUndisturbed
  <2>2. DeletionEndsLife'
    BY <1>t, <1>16 DEF UpdateRefused, DeletionEndsLife, FirstLife, Idle, Request
  <2>3. InvocationsAwaited'
    BY <1>t, <1>16 DEF UpdateRefused, InvocationsAwaited, Fire
  <2> QED
    BY <1>0, <2>1, <2>2, <2>3 DEF LockInv
<1>17. ASSUME NEW c \in Controllers, DeleteRead(c)
      PROVE  LockInv'
  <2>1. LockOwned'
    <3>1. lock' = lock /\ (FirstLife' => FirstLife)
      BY <1>t, <1>17 DEF DeleteRead, FirstLife
    <3>2. \A g \in Fires : Owns(g)' => Owns(g)
      BY <1>t, <1>17 DEF DeleteRead, Owns, Fire
    <3> QED
      BY <3>1, <3>2, LockUndisturbed
  <2>2. DeletionEndsLife'
    BY <1>t, <1>17 DEF DeleteRead, DeletionEndsLife, FirstLife, Request, Job, NoJob
  <2>3. InvocationsAwaited'
    BY <1>t, <1>17 DEF DeleteRead, InvocationsAwaited, Fire
  <2> QED
    BY <1>0, <2>1, <2>2, <2>3 DEF LockInv
<1>18. ASSUME NEW c \in Controllers, DeleteStore(c)
      PROVE  LockInv'
  <2>1. LockOwned'
    <3>1. lock' = lock /\ (FirstLife' => FirstLife)
      BY <1>t, <1>18 DEF DeleteStore, FirstLife
    <3>2. \A g \in Fires : Owns(g)' => Owns(g)
      BY <1>t, <1>18 DEF DeleteStore, Owns
    <3> QED
      BY <3>1, <3>2, LockUndisturbed
  <2>2. DeletionEndsLife'
    BY <1>t, <1>18 DEF DeleteStore, DeletionEndsLife, FirstLife, Request, NoJob
  <2>3. InvocationsAwaited'
    BY <1>t, <1>18 DEF DeleteStore, InvocationsAwaited, Fire
  <2> QED
    BY <1>0, <2>1, <2>2, <2>3 DEF LockInv
<1>19. ASSUME NEW c \in Controllers, DeleteLock(c)
      PROVE  LockInv'
  <2>1. LockOwned'
    BY <1>19 DEF DeleteLock, LockOwned, DeletionEndsLife, FirstLife
  <2>2. DeletionEndsLife'
    BY <1>t, <1>19 DEF DeleteLock, DeletionEndsLife, FirstLife, Request
  <2>3. InvocationsAwaited'
    BY <1>t, <1>19 DEF DeleteLock, InvocationsAwaited, Fire
  <2> QED
    BY <1>0, <2>1, <2>2, <2>3 DEF LockInv
<1>20. ASSUME NEW c \in Controllers, ReloadDetach(c)
      PROVE  LockInv'
  <2>1. LockOwned'
    <3>1. lock' = lock /\ (FirstLife' => FirstLife)
      BY <1>t, <1>20 DEF ReloadDetach, Detached, FirstLife
    <3>2. \A g \in Fires : Owns(g)' => Owns(g)
      BY <1>t, <1>20 DEF ReloadDetach, Detached, Owns, Fire
    <3> QED
      BY <3>1, <3>2, LockUndisturbed
  <2>2. DeletionEndsLife'
    BY <1>t, <1>20 DEF ReloadDetach, Detached, DeletionEndsLife, FirstLife, Request
  <2>3. InvocationsAwaited'
    BY <1>t, <1>20 DEF ReloadDetach, Detached, InvocationsAwaited, Fire
  <2> QED
    BY <1>0, <2>1, <2>2, <2>3 DEF LockInv
<1>21. ASSUME NEW c \in Controllers, ReloadGet(c)
      PROVE  LockInv'
  <2>1. LockOwned'
    <3>1. lock' = lock /\ (FirstLife' => FirstLife)
      BY <1>t, <1>21 DEF ReloadGet, FirstLife
    <3>2. \A g \in Fires : Owns(g)' => Owns(g)
      BY <1>t, <1>21 DEF ReloadGet, Owns, Fire
    <3> QED
      BY <3>1, <3>2, LockUndisturbed
  <2>2. DeletionEndsLife'
    BY <1>t, <1>21 DEF ReloadGet, DeletionEndsLife, FirstLife, Idle, Request
  <2>3. InvocationsAwaited'
    BY <1>t, <1>21 DEF ReloadGet, InvocationsAwaited, Fire
  <2> QED
    BY <1>0, <2>1, <2>2, <2>3 DEF LockInv
<1>22. ASSUME NEW c \in Controllers, ReloadAttach(c)
      PROVE  LockInv'
  <2>1. LockOwned'
    <3>1. lock' = lock /\ (FirstLife' => FirstLife)
      BY <1>t, <1>22 DEF ReloadAttach, Attached, FirstLife
    <3>2. \A g \in Fires : Owns(g)' => Owns(g)
      BY <1>t, <1>22 DEF ReloadAttach, Attached, Owns, Fire
    <3> QED
      BY <3>1, <3>2, LockUndisturbed
  <2>2. DeletionEndsLife'
    BY <1>t, <1>22 DEF ReloadAttach, Attached, DeletionEndsLife, FirstLife, Idle, Request
  <2>3. InvocationsAwaited'
    BY <1>t, <1>22 DEF ReloadAttach, Attached, InvocationsAwaited, Fire
  <2> QED
    BY <1>0, <2>1, <2>2, <2>3 DEF LockInv
<1>23. ASSUME Seed
      PROVE  LockInv'
  <2>1. LockOwned'
    <3>1. lock' = lock /\ (FirstLife' => FirstLife)
      BY <1>t, <1>23 DEF Seed, FirstLife, NewJob, NoJob
    <3>2. \A g \in Fires : Owns(g)' => Owns(g)
      BY <1>t, <1>23 DEF Seed, Owns
    <3> QED
      BY <3>1, <3>2, LockUndisturbed
  <2>2. DeletionEndsLife'
    BY <1>t, <1>23 DEF Seed, DeletionEndsLife, FirstLife, NewJob, NoJob
  <2>3. InvocationsAwaited'
    BY <1>t, <1>23 DEF Seed, InvocationsAwaited, Fire
  <2> QED
    BY <1>0, <2>1, <2>2, <2>3 DEF LockInv
<1>24. ASSUME BootUserJob
      PROVE  LockInv'
  <2>1. LockOwned'
    <3>1. lock' = lock /\ (FirstLife' => FirstLife)
      BY <1>t, <1>24 DEF BootUserJob, FirstLife
    <3>2. \A g \in Fires : Owns(g)' => Owns(g)
      BY <1>t, <1>24 DEF BootUserJob, Owns, Fire
    <3> QED
      BY <3>1, <3>2, LockUndisturbed
  <2>2. DeletionEndsLife'
    BY <1>t, <1>24 DEF BootUserJob, DeletionEndsLife, FirstLife
  <2>3. InvocationsAwaited'
    BY <1>t, <1>24 DEF BootUserJob, InvocationsAwaited, Fire
  <2> QED
    BY <1>0, <2>1, <2>2, <2>3 DEF LockInv
<1>25. ASSUME NEW k \in BOOLEAN, CleanStaleLocks(k)
      PROVE  LockInv'
  <2>1. LockOwned'
    <3>1. \A g \in Fires : Owns(g) => Holds(g)
      BY DEF Owns, Holds
    <3>2. FirstLife' = FirstLife /\ \A g \in Fires : Owns(g)' = Owns(g)
      BY <1>25 DEF CleanStaleLocks, FirstLife, Owns
    <3> QED
      BY <1>25, <3>1, <3>2 DEF CleanStaleLocks, LockOwned
  <2>2. DeletionEndsLife'
    BY <1>t, <1>25 DEF CleanStaleLocks, DeletionEndsLife, FirstLife
  <2>3. InvocationsAwaited'
    BY <1>t, <1>25 DEF CleanStaleLocks, InvocationsAwaited, Fire
  <2> QED
    BY <1>0, <2>1, <2>2, <2>3 DEF LockInv
<1>26. ASSUME NEW m \in BOOLEAN, StartList(m)
      PROVE  LockInv'
  <2>1. LockOwned'
    <3>1. lock' = lock /\ (FirstLife' => FirstLife)
      BY <1>t, <1>26 DEF StartList, FirstLife
    <3>2. \A g \in Fires : Owns(g)' => Owns(g)
      <4>1. CASE fires' = fires
        BY <4>1 DEF Owns
      <4>2. CASE fires' # fires
        <5>1. PICK f \in Fires, o \in Objs : fires' = [fires EXCEPT ![f] = Started(o, store.gen)]
          BY <1>26, <4>2 DEF StartList, NextFires, FreeObjs
        <5> QED
          BY <1>t, <5>1 DEF Owns, Fire, Started, NewFire
      <4> QED
        BY <4>1, <4>2
    <3> QED
      BY <3>1, <3>2, LockUndisturbed
  <2>2. DeletionEndsLife'
    BY <1>t, <1>26 DEF StartList, DeletionEndsLife, FirstLife
  <2>3. InvocationsAwaited'
    <3>1. CASE fires' = fires
      BY <3>1 DEF InvocationsAwaited
    <3>2. CASE fires' # fires
      <4>1. PICK f \in Fires, o \in Objs : fires' = [fires EXCEPT ![f] = Started(o, store.gen)]
        BY <1>26, <3>2 DEF StartList, NextFires, FreeObjs
      <4> QED
        BY <1>t, <4>1 DEF InvocationsAwaited, Fire, Started, NewFire
    <3> QED
      BY <3>1, <3>2
  <2> QED
    BY <1>0, <2>1, <2>2, <2>3 DEF LockInv
<1>27. ASSUME Stop
      PROVE  LockInv'
  <2>1. LockOwned'
    <3>1. lock' = lock /\ (FirstLife' => FirstLife)
      BY <1>t, <1>27 DEF Stop, FirstLife
    <3>2. \A g \in Fires : Owns(g)' => Owns(g)
      BY <1>t, <1>27 DEF Stop, Owns, Fire
    <3> QED
      BY <3>1, <3>2, LockUndisturbed
  <2>2. DeletionEndsLife'
    BY <1>t, <1>27 DEF Stop, DeletionEndsLife, FirstLife
  <2>3. InvocationsAwaited'
    BY <1>t, <1>27 DEF Stop, InvocationsAwaited, Fire
  <2> QED
    BY <1>0, <2>1, <2>2, <2>3 DEF LockInv
<1>28. ASSUME Exit
      PROVE  LockInv'
  <2>1. LockOwned'
    BY <1>t, <1>28, GoneOwnsNothing DEF Exit, LockOwned
  <2>2. DeletionEndsLife'
    BY <1>t, <1>28 DEF Exit, DeletionEndsLife, FirstLife, Gone, Idle
  <2>3. InvocationsAwaited'
    BY <1>t, <1>28 DEF Exit, Gone, InvocationsAwaited, Fire
  <2> QED
    BY <1>0, <2>1, <2>2, <2>3 DEF LockInv
<1>29. ASSUME UncaughtException
      PROVE  LockInv'
  <2>1. LockOwned'
    BY <1>t, <1>29, GoneOwnsNothing DEF UncaughtException, LockOwned
  <2>2. DeletionEndsLife'
    BY <1>t, <1>29 DEF UncaughtException, DeletionEndsLife, FirstLife, Gone, Idle, Job, NoJob
  <2>3. InvocationsAwaited'
    BY <1>t, <1>29 DEF UncaughtException, Gone, InvocationsAwaited, Fire
  <2> QED
    BY <1>0, <2>1, <2>2, <2>3 DEF LockInv
<1>30. ASSUME UNCHANGED vars
      PROVE  LockInv'
  <2>1. LockOwned'
    <3>1. lock' = lock /\ (FirstLife' => FirstLife)
      BY <1>t, <1>30 DEF vars, FirstLife
    <3>2. \A g \in Fires : Owns(g)' => Owns(g)
      BY <1>t, <1>30 DEF vars, Owns, Fire
    <3> QED
      BY <3>1, <3>2, LockUndisturbed
  <2>2. DeletionEndsLife'
    BY <1>t, <1>30 DEF vars, DeletionEndsLife, FirstLife
  <2>3. InvocationsAwaited'
    BY <1>t, <1>30 DEF vars, InvocationsAwaited, Fire
  <2> QED
    BY <1>0, <2>1, <2>2, <2>3 DEF LockInv
<1> QED
  BY <1>1, <1>2, <1>3, <1>4, <1>5, <1>6, <1>7, <1>8, <1>9, <1>10, <1>11, <1>12, <1>13, <1>14, <1>15, <1>16, <1>17, <1>18, <1>19, <1>20, <1>21, <1>22, <1>23, <1>24, <1>25, <1>26, <1>27, <1>28, <1>29, <1>30 DEF Next

\* runJob's exclusive lock keeps the invocations of a job apart while its
\* first incarnation is stored, for every number of fires, requests, boots.
THEOREM NoOverlap == Spec => []OneFireWhileStored
<1>1. LockInv => OneFireWhileStored
  <2> SUFFICES ASSUME LockInv, store # NoJob, store.gen = 1
               PROVE  Cardinality(Invoking) <= 1
    BY DEF OneFireWhileStored
  <2>1. Invoking \subseteq {lock}
    BY DEF LockInv, LockOwned, FirstLife, Owns, Invoking
  <2>2. IsFiniteSet({lock}) /\ Cardinality({lock}) = 1
    BY FS_Singleton
  <2>3. Cardinality(Invoking) <= Cardinality({lock})
    BY <2>1, <2>2, FS_Subset
  <2> QED
    BY <2>2, <2>3
<1> QED
  BY <1>1, LockInvInit, LockInvNext, PTL DEF Spec

----------------------------------------------------------------------------
\* What a step may do to the fires and the lock: one runJob moves on, a fire
\* begins, the process ends, or start() sweeps the locks.  Every other step
\* leaves the fires alone and can only remove the lock.
Swept == boot \in {"list", "up", "stopped"}

Begins(f) ==
    /\ fires[f].pc = "new"
    /\ \E o \in Objs, n \in 0..generations : fires' = [fires EXCEPT ![f] = Started(o, n)]
    /\ lock' = lock
    /\ Swept' => Swept

RunJobStep(f) ==
    \/ TakeLock(f) \/ Skip(f)
    \/ \E ok \in BOOLEAN : InvokeSettles(f, ok)
    \/ FireTimesOut(f) \/ LateSettles(f)
    \/ Persist(f) \/ PersistFails(f) \/ Retire(f) \/ Unlock(f)

NoFireStep ==
    /\ fires' = fires
    /\ lock' \in {0, lock}
    /\ Swept' => Swept

\* No number of an incarnation is used before it is handed out.
GenerationsBounded ==
    /\ store.gen <= generations
    /\ \A o \in Objs : objs[o].gen <= generations
    /\ \A f \in Fires : fires[f].gen <= generations

\* Every step is one of these.
LEMMA FireSteps ==
    ASSUME Typed, GenerationsBounded, [Next]_vars
    PROVE  \/ NoFireStep
           \/ \E f \in Fires : Begins(f) \/ RunJobStep(f)
           \/ Gone
           \/ \E kept \in {FALSE, PidReuse} : CleanStaleLocks(kept)
<1> USE SchedulerAssumption
<1>t. /\ store \in Job \cup {NoJob} /\ objs \in [Objs -> Object] /\ generations \in Nat
      /\ timers \subseteq Objs
  BY DEF Typed, DataOK
<1>1. ASSUME NEW o \in Objs, TimerFires(o) PROVE \E f \in Fires : Begins(f)
  <2>1. PICK f \in NextFires : fires' = [fires EXCEPT ![f] = Started(o, objs[o].gen)]
    BY <1>1 DEF TimerFires
  <2>2. objs[o].gen \in 0..generations
    BY <1>t DEF GenerationsBounded, Object
  <2> QED
    BY <1>1, <2>1, <2>2 DEF TimerFires, NextFires, Begins, Swept
<1>s. store # NoJob => store.gen \in 0..generations
  BY <1>t DEF GenerationsBounded, Job
<1>2. ASSUME RunNow PROVE \E f \in Fires : Begins(f)
  <2>1. PICK f \in NextFires, o \in Objs : fires' = [fires EXCEPT ![f] = Started(o, store.gen)]
    BY <1>2 DEF RunNow, FreeObjs
  <2> QED
    BY <1>2, <1>s, <2>1 DEF RunNow, NextFires, Begins, Swept
<1>3. ASSUME NEW m \in BOOLEAN, StartList(m)
      PROVE  NoFireStep \/ \E f \in Fires : Begins(f)
  <2>1. CASE fires' = fires
    BY <1>3, <2>1 DEF StartList, NoFireStep, Swept
  <2>2. CASE fires' # fires
    <3>1. Armed
      BY <1>3, <2>2 DEF StartList
    <3>2. PICK o \in Objs, f \in NextFires : fires' = [fires EXCEPT ![f] = Started(o, store.gen)]
      BY <1>3, <2>2, <3>1 DEF StartList, FreeObjs
    <3> QED
      BY <1>3, <1>s, <3>1, <3>2 DEF StartList, NextFires, Begins, Swept, Armed
  <2> QED
    BY <2>1, <2>2
<1>4. ASSUME NEW f \in Fires, PinSession(f) PROVE NoFireStep
  BY <1>4 DEF PinSession, NoFireStep, Swept
<1>5. ASSUME NEW c \in Controllers,
             \/ Create(c) \/ UpdateRead(c)
             \/ \E enabled, repin \in BOOLEAN : UpdateWrite(c, enabled, repin)
             \/ UpdateRefused(c)
      PROVE  NoFireStep
  BY <1>5 DEF Create, UpdateRead, UpdateWrite, UpdateRefused, NoFireStep, Swept
<1>6. ASSUME NEW c \in Controllers,
             \/ DeleteRead(c) \/ DeleteStore(c) \/ DeleteLock(c)
             \/ ReloadDetach(c) \/ ReloadGet(c) \/ ReloadAttach(c)
      PROVE  NoFireStep
  BY <1>6 DEF DeleteRead, DeleteStore, DeleteLock, ReloadDetach, ReloadGet, ReloadAttach,
              NoFireStep, Swept
<1>7. ASSUME Seed \/ BootUserJob \/ Stop PROVE NoFireStep
  BY <1>7 DEF Seed, BootUserJob, Stop, NoFireStep, Swept
<1>8. ASSUME Exit \/ UncaughtException PROVE Gone
  BY <1>8 DEF Exit, UncaughtException
<1>9. ASSUME UNCHANGED vars PROVE NoFireStep
  BY <1>9 DEF vars, NoFireStep, Swept
<1> QED
  BY <1>1, <1>2, <1>3, <1>4, <1>5, <1>6, <1>7, <1>8, <1>9 DEF Next, RunJobStep

\* What a step may do to the job file: it removes it, creates an incarnation
\* nobody has seen, or keeps its incarnation; only a fire's record counts a
\* run, and only a strategy change drops the pin.
FileCreated ==
    /\ store = NoJob
    /\ store' # NoJob /\ store'.gen = generations' /\ store'.runs = 0
    /\ generations' = generations + 1

FileEdited ==
    /\ store # NoJob /\ store' # NoJob
    /\ store'.gen = store.gen /\ store'.runs = store.runs
    /\ store.pinned =>
          \/ store'.pinned
          \/ \E c \in Controllers, enabled \in BOOLEAN : UpdateWrite(c, enabled, TRUE)
    /\ generations' = generations

FileGone == store' = NoJob /\ generations' = generations

\* Every step that is not a fire's record is one of these.
LEMMA FileSteps ==
    ASSUME Typed, [Next]_vars
    PROVE  FileCreated \/ FileEdited \/ FileGone \/ \E f \in Fires : Persist(f)
<1> USE SchedulerAssumption
<1>t. store \in Job \cup {NoJob} /\ generations \in Nat
  BY DEF Typed, DataOK
<1>0. ASSUME UNCHANGED <<store, generations>> PROVE FileEdited \/ FileGone
  BY <1>0 DEF FileEdited, FileGone
<1>1. ASSUME \/ \E o \in Objs : TimerFires(o)
             \/ RunNow
             \/ \E f \in Fires :
                \/ TakeLock(f) \/ Skip(f)
                \/ \E ok \in BOOLEAN : InvokeSettles(f, ok)
                \/ FireTimesOut(f) \/ LateSettles(f)
                \/ PersistFails(f) \/ Retire(f) \/ Unlock(f)
      PROVE  UNCHANGED <<store, generations>>
  BY <1>1 DEF TimerFires, RunNow, TakeLock, Skip, InvokeSettles, FireTimesOut, LateSettles,
              PersistFails, Retire, Unlock
<1>2. ASSUME NEW f \in Fires, PinSession(f) PROVE FileEdited
  BY <1>t, <1>2 DEF PinSession, FileEdited, Job, NoJob
<1>3. ASSUME NEW c \in Controllers, Create(c) PROVE FileCreated
  BY <1>t, <1>3 DEF Create, FileCreated, NewJob, NoJob
<1>4. ASSUME NEW c \in Controllers, NEW e \in BOOLEAN, NEW r \in BOOLEAN, UpdateWrite(c, e, r)
      PROVE  FileEdited
  <2>1. store \in Job /\ store' # NoJob /\ store'.gen = store.gen /\ store'.runs = store.runs
    BY <1>t, <1>4 DEF UpdateWrite, Job, NoJob
  <2>2. CASE r = TRUE
    BY <1>4, <2>1, <2>2 DEF UpdateWrite, FileEdited
  <2>3. CASE r = FALSE
    <3>1. store'.pinned = store.pinned
      BY <1>4, <2>1, <2>3 DEF UpdateWrite, Job
    <3> QED
      BY <1>4, <2>1, <3>1 DEF UpdateWrite, FileEdited
  <2> QED
    BY <2>2, <2>3
<1>5. ASSUME NEW c \in Controllers, DeleteStore(c) PROVE FileGone
  BY <1>5 DEF DeleteStore, FileGone
<1>6. ASSUME NEW c \in Controllers,
             \/ UpdateRead(c) \/ UpdateRefused(c) \/ DeleteRead(c) \/ DeleteLock(c)
             \/ ReloadDetach(c) \/ ReloadGet(c) \/ ReloadAttach(c)
      PROVE  UNCHANGED <<store, generations>>
  BY <1>6 DEF UpdateRead, UpdateRefused, DeleteRead, DeleteLock, ReloadDetach, ReloadGet,
              ReloadAttach
<1>7. ASSUME Seed PROVE FileCreated \/ UNCHANGED <<store, generations>>
  BY <1>t, <1>7 DEF Seed, FileCreated, NewJob, NoJob
<1>8. ASSUME \/ BootUserJob \/ Stop \/ Exit
             \/ \E kept \in {FALSE, PidReuse} : CleanStaleLocks(kept)
             \/ \E missed \in BOOLEAN : StartList(missed)
      PROVE  UNCHANGED <<store, generations>>
  BY <1>8 DEF BootUserJob, Stop, Exit, Gone, CleanStaleLocks, StartList
<1>9. ASSUME UncaughtException PROVE FileEdited
  BY <1>t, <1>9 DEF UncaughtException, Gone, FileEdited, Job, NoJob
<1>10. ASSUME UNCHANGED vars PROVE UNCHANGED <<store, generations>>
  BY <1>10 DEF vars
<1> QED
  BY <1>0, <1>1, <1>2, <1>3, <1>4, <1>5, <1>6, <1>7, <1>8, <1>9, <1>10 DEF Next

\* A fire's record keeps the incarnation and the pin of the copy it is laid
\* over, and adds the fire to the runs when it was accepted.
LEMMA PersistRecords ==
    ASSUME Typed, NEW f \in Fires, Persist(f), store # NoJob
    PROVE  /\ store' # NoJob /\ store'.gen = store.gen /\ store'.pinned = store.pinned
           /\ ~SameJob(f) => store'.runs = store.runs /\ fires'[f].saved = fires[f].saved
           /\ SameJob(f) => /\ fires'[f].saved
                            /\ store'.runs = store.runs + (IF fires[f].ok THEN 1 ELSE 0)
           /\ fires'[f].ok = fires[f].ok /\ fires'[f].gen = fires[f].gen
           /\ \A g \in Fires : g # f => fires'[g] = fires[g]
<1>t. store \in Job /\ fires \in [Fires -> Fire]
  BY DEF Typed, DataOK, FiresOK
<1>1. CASE SameJob(f)
  <2>1. store' = Recorded(store, f)
    BY <1>1 DEF Persist
  <2>2. /\ store'.gen = store.gen /\ store'.pinned = store.pinned
        /\ store'.runs = store.runs + (IF fires[f].ok THEN 1 ELSE 0)
    BY <1>t, <2>1 DEF Recorded, RunOutcome, Job
  <2>3. store' # NoJob
    BY <1>t, <2>1 DEF Recorded, Job, NoJob
  <2>4. fires'[f].saved /\ fires'[f].ok = fires[f].ok /\ fires'[f].gen = fires[f].gen
    BY <1>t, <1>1 DEF Persist, Fire
  <2>5. \A g \in Fires : g # f => fires'[g] = fires[g]
    BY <1>t, <1>1 DEF Persist
  <2> QED
    BY <1>1, <2>2, <2>3, <2>4, <2>5
<1>2. CASE ~SameJob(f)
  BY <1>t, <1>2 DEF Persist, Fire
<1> QED
  BY <1>1, <1>2

\* A pinned session outlives every write of the job file but the strategy
\* change meant for its incarnation: runJob's record, an edit that raced it
\* and markRunningAsErr all keep it (PinKept).
THEOREM PinOutlivesWrites == Spec => PinKept
<1> DEFINE Dropped ==
      store # NoJob /\ store'.gen = store.gen /\ store.pinned /\ ~store'.pinned =>
         \E c \in Controllers, enabled \in BOOLEAN :
            ctl[c].gen = store.gen /\ UpdateWrite(c, enabled, TRUE)
<1>1. Typed /\ [Next]_vars => [Dropped]_vars
  <2> SUFFICES ASSUME Typed, [Next]_vars, store # NoJob, store'.gen = store.gen,
                      store.pinned, ~store'.pinned
               PROVE  \E c \in Controllers, enabled \in BOOLEAN :
                         ctl[c].gen = store.gen /\ UpdateWrite(c, enabled, TRUE)
    OBVIOUS
  <2>1. store \in Job
    BY DEF Typed, DataOK
  <2>2. ~FileCreated /\ ~FileGone
    BY <2>1 DEF FileCreated, FileGone, Job, NoJob
  <2>3. ~\E f \in Fires : Persist(f)
    BY PersistRecords
  <2>4. FileEdited
    BY <2>2, <2>3, FileSteps
  <2>5. PICK c \in Controllers, enabled \in BOOLEAN : UpdateWrite(c, enabled, TRUE)
    BY <2>4 DEF FileEdited
  <2>6. ctl[c].gen = store.gen
    BY <2>5 DEF UpdateWrite
  <2> QED
    BY <2>5, <2>6
<1> QED
  BY <1>1, TypedInit, TypedNext, PTL DEF Spec, PinKept
----------------------------------------------------------------------------
\* Where a fire is tells what it has done: it invokes once it has the lock,
\* is late only after it waited, and is recorded only by its persist.
FirePhases ==
    \A f \in Fires :
        /\ fires[f].pc \in {"new", "lock"} => fires[f].inv = "none"
        /\ fires[f].pc \in {"new", "lock", "invoke"} => ~fires[f].late
        /\ fires[f].pc \in {"new", "lock", "invoke", "persist"} => ~fires[f].saved

\* A late fire whose lock is still there has an invocation that still runs.
LateOwner ==
    \A f \in Fires :
        lock = f /\ fires[f].late /\ fires[f].pc # "done" => fires[f].inv = "run"

\* No step hands an incarnation's number to an object or a fire early.
LEMMA ObjectSteps ==
    ASSUME Typed, GenerationsBounded, [Next]_vars
    PROVE  /\ generations' \in Nat /\ generations <= generations'
           /\ \A o \in Objs : objs'[o].gen <= generations'
<1> USE SchedulerAssumption
<1>t. /\ store \in Job \cup {NoJob} /\ objs \in [Objs -> Object] /\ generations \in Nat
  BY DEF Typed, DataOK
<1> DEFINE Goal == /\ generations' \in Nat /\ generations <= generations'
                   /\ \A o \in Objs : objs'[o].gen <= generations'
<1>0. ASSUME UNCHANGED <<objs, generations>> PROVE Goal
  BY <1>t, <1>0 DEF GenerationsBounded, Object
<1>s. ASSUME NEW o \in Objs, objs' = [objs EXCEPT ![o] = Snapshot], generations' = generations
      PROVE  Goal
  BY <1>t, <1>s DEF GenerationsBounded, Object, Snapshot
<1>m. ASSUME NEW o \in Objs, NEW h, objs' = [objs EXCEPT ![o].history = h],
             generations' = generations
      PROVE  Goal
  <2>1. \A p \in Objs : objs'[p].gen = objs[p].gen
    BY <1>t, <1>m DEF Object
  <2> QED
    BY <1>t, <1>m, <2>1 DEF GenerationsBounded
<1>1. ASSUME \/ \E o \in Objs : TimerFires(o)
             \/ \E f \in Fires :
                \/ Skip(f) \/ PinSession(f) \/ LateSettles(f)
                \/ Persist(f) \/ PersistFails(f) \/ Retire(f) \/ Unlock(f)
      PROVE  UNCHANGED <<objs, generations>>
  BY <1>1 DEF TimerFires, Skip, PinSession, LateSettles, Persist, PersistFails, Retire, Unlock
<1>2. ASSUME NEW c \in Controllers,
             \/ UpdateRead(c)
             \/ \E enabled, repin \in BOOLEAN : UpdateWrite(c, enabled, repin)
             \/ UpdateRefused(c) \/ DeleteRead(c) \/ DeleteStore(c) \/ DeleteLock(c)
             \/ ReloadDetach(c) \/ ReloadAttach(c)
      PROVE  UNCHANGED <<objs, generations>>
  BY <1>2 DEF UpdateRead, UpdateWrite, UpdateRefused, DeleteRead, DeleteStore, DeleteLock,
              ReloadDetach, ReloadAttach
<1>3. ASSUME \/ BootUserJob \/ Stop \/ Exit \/ UncaughtException
             \/ \E kept \in {FALSE, PidReuse} : CleanStaleLocks(kept)
             \/ UNCHANGED vars
      PROVE  UNCHANGED <<objs, generations>>
  BY <1>3 DEF BootUserJob, Stop, Exit, UncaughtException, Gone, CleanStaleLocks, vars
<1>4. ASSUME RunNow PROVE Goal
  <2>1. PICK o \in Objs : objs' = [objs EXCEPT ![o] = Snapshot]
    BY <1>4 DEF RunNow, FreeObjs
  <2> QED
    BY <1>4, <1>s, <2>1 DEF RunNow
<1>5. ASSUME NEW c \in Controllers, ReloadGet(c) PROVE Goal
  <2>1. CASE objs' = objs
    BY <1>0, <1>5, <2>1 DEF ReloadGet
  <2>2. CASE objs' # objs
    <3>1. PICK o \in Objs : objs' = [objs EXCEPT ![o] = Snapshot]
      BY <1>5, <2>2 DEF ReloadGet, FreeObjs
    <3> QED
      BY <1>5, <1>s, <3>1 DEF ReloadGet
  <2> QED
    BY <2>1, <2>2
<1>6. ASSUME NEW m \in BOOLEAN, StartList(m) PROVE Goal
  <2>1. CASE ~Armed
    BY <1>0, <1>6, <2>1 DEF StartList
  <2>2. CASE Armed
    <3>1. PICK o \in Objs : objs' = [objs EXCEPT ![o] = Snapshot]
      BY <1>6, <2>2 DEF StartList, FreeObjs
    <3> QED
      BY <1>6, <1>s, <3>1 DEF StartList
  <2> QED
    BY <2>1, <2>2
<1>7. ASSUME NEW f \in Fires, TakeLock(f) PROVE Goal
  <2>1. fires[f].obj \in Objs
    BY <1>7 DEF TakeLock, Typed, FiresOK, Waiting
  <2> QED
    BY <1>7, <1>m, <2>1 DEF TakeLock
<1>8. ASSUME NEW f \in Fires, NEW st, fires[f].pc = "invoke", objs' = Marked(f, st),
             generations' = generations
      PROVE  Goal
  <2>1. fires[f].obj \in Objs
    BY <1>8 DEF Typed, FiresOK, Waiting
  <2> QED
    BY <1>8, <1>m, <2>1 DEF Marked
<1>9. ASSUME NEW f \in Fires, NEW ok \in BOOLEAN, InvokeSettles(f, ok) PROVE Goal
  BY <1>8, <1>9 DEF InvokeSettles
<1>10. ASSUME NEW f \in Fires, FireTimesOut(f) PROVE Goal
  BY <1>8, <1>10 DEF FireTimesOut
<1>11. ASSUME NEW c \in Controllers, Create(c) PROVE Goal
  BY <1>t, <1>11 DEF Create, GenerationsBounded, Object
<1>12. ASSUME Seed PROVE Goal
  <2>1. CASE store # NoJob
    BY <1>0, <1>12, <2>1 DEF Seed
  <2>2. CASE store = NoJob
    <3>1. PICK o \in Objs : objs' = [objs EXCEPT ![o] = [gen |-> generations + 1, history |-> <<>>]]
      BY <1>12, <2>2 DEF Seed, FreeObjs
    <3>2. generations' = generations + 1
      BY <1>12, <2>2 DEF Seed
    <3>3. \A p \in Objs : objs'[p].gen \in {objs[p].gen, generations + 1}
      BY <1>t, <3>1 DEF Object
    <3> QED
      BY <1>t, <3>2, <3>3 DEF GenerationsBounded, Object
  <2> QED
    BY <2>1, <2>2
<1> HIDE DEF Goal
<1>13. Goal
  BY <1>0, <1>1, <1>2, <1>3, <1>4, <1>5, <1>6, <1>7, <1>9, <1>10, <1>11, <1>12 DEF Next
<1> QED
  BY <1>13 DEF Goal

\* What the later proofs keep of one fire in one step.  `same` fires keep
\* all but where they are; a fire that changes its outcome is not recorded.
LEMMA PhasesNext ==
    ASSUME Typed, GenerationsBounded, FirePhases, [Next]_vars
    PROVE  /\ FirePhases'
           /\ \A f \in Fires : fires'[f].gen = fires[f].gen \/ fires'[f].gen <= generations
           /\ \A f \in Fires : fires[f].saved => /\ fires'[f].saved
                                                 /\ fires'[f].ok = fires[f].ok
                                                 /\ fires'[f].gen = fires[f].gen
           /\ \A f \in Fires : fires'[f].saved => fires[f].saved \/ (Persist(f) /\ SameJob(f))
<1>t. fires \in [Fires -> Fire] /\ generations \in Nat
  BY SchedulerAssumption DEF Typed, FiresOK, DataOK
<1> DEFINE Goal ==
      /\ FirePhases'
      /\ \A f \in Fires : fires'[f].gen = fires[f].gen \/ fires'[f].gen <= generations
      /\ \A f \in Fires : fires[f].saved => /\ fires'[f].saved
                                            /\ fires'[f].ok = fires[f].ok
                                            /\ fires'[f].gen = fires[f].gen
      /\ \A f \in Fires : fires'[f].saved => fires[f].saved \/ (Persist(f) /\ SameJob(f))
<1>1. ASSUME NoFireStep PROVE Goal
  BY <1>1 DEF NoFireStep, FirePhases
<1>2. ASSUME \E kept \in {FALSE, PidReuse} : CleanStaleLocks(kept) PROVE Goal
  BY <1>2 DEF CleanStaleLocks, FirePhases
<1>3. ASSUME Gone PROVE Goal
  BY <1>t, <1>3 DEF Gone, FirePhases, Fire
<1>4. ASSUME NEW f \in Fires, Begins(f) PROVE Goal
  <2>1. PICK o \in Objs, n \in 0..generations : fires' = [fires EXCEPT ![f] = Started(o, n)]
    BY <1>4 DEF Begins
  <2>2. /\ fires'[f].pc = "lock" /\ fires'[f].inv = "none" /\ ~fires'[f].late
        /\ ~fires'[f].saved /\ fires'[f].gen = n
    BY <1>t, <2>1 DEF Started, NewFire
  <2>3. ~fires[f].saved
    BY <1>4 DEF Begins, FirePhases
  <2>4. \A g \in Fires : g # f => fires'[g] = fires[g]
    BY <1>t, <2>1
  <2> QED
    BY <1>t, <2>2, <2>3, <2>4 DEF FirePhases
<1>5. ASSUME NEW f \in Fires, Persist(f) PROVE Goal
  <2>1. \A g \in Fires : g # f => fires'[g] = fires[g]
    BY <1>t, <1>5 DEF Persist
  <2>2. ~fires[f].saved
    BY <1>5 DEF Persist, FirePhases
  <2>3. fires'[f].pc \in {"retire", "unlock"} /\ fires'[f].gen = fires[f].gen
    BY <1>t, <1>5 DEF Persist, Fire
  <2>4. fires'[f].saved => fires[f].saved \/ SameJob(f)
    BY <1>t, <1>5 DEF Persist, Fire
  <2> QED
    BY <1>5, <2>1, <2>2, <2>3, <2>4 DEF FirePhases
<1>6. ASSUME NEW f \in Fires,
             \/ TakeLock(f) \/ Skip(f)
             \/ \E ok \in BOOLEAN : InvokeSettles(f, ok)
             \/ FireTimesOut(f) \/ LateSettles(f)
             \/ PersistFails(f) \/ Retire(f) \/ Unlock(f)
      PROVE  Goal
  <2>1. \A g \in Fires : g # f => fires'[g] = fires[g]
    BY <1>t, <1>6 DEF TakeLock, Skip, InvokeSettles, FireTimesOut, LateSettles, PersistFails,
                      Retire, Unlock
  <2>2. fires'[f].saved = fires[f].saved /\ fires'[f].gen = fires[f].gen
    BY <1>t, <1>6 DEF TakeLock, Skip, InvokeSettles, FireTimesOut, LateSettles, PersistFails,
                      Retire, Unlock, Fire
  <2>3. fires'[f].ok = fires[f].ok \/ ~fires[f].saved
    BY <1>t, <1>6 DEF TakeLock, Skip, InvokeSettles, FireTimesOut, LateSettles, PersistFails,
                      Retire, Unlock, Fire, FirePhases
  <2>4. /\ fires'[f].pc \in {"new", "lock"} => fires'[f].inv = "none"
        /\ fires'[f].pc \in {"new", "lock", "invoke"} => ~fires'[f].late
        /\ fires'[f].pc \in {"new", "lock", "invoke", "persist"} => ~fires'[f].saved
    BY <1>t, <1>6 DEF TakeLock, Skip, InvokeSettles, FireTimesOut, LateSettles, PersistFails,
                      Retire, Unlock, Fire, FirePhases
  <2> QED
    BY <2>1, <2>2, <2>3, <2>4 DEF FirePhases
<1> HIDE DEF Goal
<1>7. Goal
  BY <1>1, <1>2, <1>3, <1>4, <1>5, <1>6, FireSteps DEF RunJobStep
<1> QED
  BY <1>7 DEF Goal

\* The invariant both remaining results rest on.
FireInv == Typed /\ GenerationsBounded /\ FirePhases

\* It holds at the start ...
LEMMA FireInvInit == Init => FireInv
<1> SUFFICES ASSUME Init PROVE FireInv
  OBVIOUS
<1>1. Typed
  BY TypedInit
<1>2. GenerationsBounded
  BY SchedulerAssumption DEF Init, GenerationsBounded, NewJob, NoJob, NewFire
<1>3. FirePhases
  BY DEF Init, FirePhases, NewFire
<1> QED
  BY <1>1, <1>2, <1>3 DEF FireInv

\* ... and through every step.
LEMMA FireInvNext == FireInv /\ [Next]_vars => FireInv'
<1> SUFFICES ASSUME Typed, GenerationsBounded, FirePhases, [Next]_vars PROVE FireInv'
  BY DEF FireInv
<1>t. /\ store \in Job \cup {NoJob} /\ generations \in Nat /\ fires \in [Fires -> Fire]
      /\ store' \in Job \cup {NoJob} /\ fires' \in [Fires -> Fire]
  BY TypedNext, SchedulerAssumption DEF Typed, DataOK, FiresOK
<1>1. Typed' /\ FirePhases'
  BY TypedNext, PhasesNext
<1>2. generations' \in Nat /\ generations <= generations' /\ \A o \in Objs : objs'[o].gen <= generations'
  BY ObjectSteps
<1>3. store'.gen <= generations'
  <2>1. CASE FileCreated
    BY <1>2, <2>1 DEF FileCreated
  <2>2. CASE FileEdited
    BY <1>t, <1>2, <2>2 DEF FileEdited, GenerationsBounded
  <2>3. CASE FileGone
    BY <1>t, <1>2, <2>3 DEF FileGone, NoJob
  <2>4. ASSUME NEW f \in Fires, Persist(f) PROVE store'.gen <= generations'
    <3>1. CASE store = NoJob
      BY <1>t, <1>2, <2>4, <3>1 DEF Persist, SameJob, NoJob
    <3>2. CASE store # NoJob
      BY <1>t, <1>2, <2>4, <3>2, PersistRecords DEF GenerationsBounded, Job
    <3> QED
      BY <3>1, <3>2
  <2> QED
    BY <2>1, <2>2, <2>3, <2>4, FileSteps
<1>4. \A f \in Fires : fires'[f].gen <= generations'
  <2> TAKE f \in Fires
  <2>1. fires'[f].gen \in Int /\ fires[f].gen \in Int
    BY <1>t DEF Fire
  <2>2. fires'[f].gen = fires[f].gen \/ fires'[f].gen <= generations
    BY PhasesNext
  <2> QED
    BY <1>t, <1>2, <2>1, <2>2 DEF GenerationsBounded
<1> QED
  BY <1>1, <1>2, <1>3, <1>4 DEF FireInv, GenerationsBounded
\* A lock that start() finds is removed unless its fire is alive, and from
\* then on the fire that created the lock removes it: in a daemon whose
\* predecessor's pid was not given away, no lock is left without an owner.
OwnerInv == FireInv /\ LateOwner /\ LockHasLiveOwner

\* Every step keeps the lock with a live owner.
LEMMA OwnerInvNext ==
    ASSUME ~PidReuse, OwnerInv, [Next]_vars
    PROVE  OwnerInv'
<1> USE DEF OwnerInv
<1>t. fires \in [Fires -> Fire] /\ lock \in 0..MaxFires /\ FireInv
  BY SchedulerAssumption DEF FireInv, Typed, FiresOK, DataOK
<1>p. FirePhases
  BY DEF FireInv
<1>f. 0 \notin Fires /\ \A n \in 0..MaxFires : n # 0 => n \in Fires
  BY SchedulerAssumption DEF Fires
<1>0. FireInv'
  BY FireInvNext
<1>1. ASSUME NoFireStep PROVE LateOwner' /\ LockHasLiveOwner'
  BY <1>f, <1>1 DEF NoFireStep, LateOwner, LockHasLiveOwner, Holds, Swept
<1>2. ASSUME \E kept \in {FALSE, PidReuse} : CleanStaleLocks(kept)
      PROVE  LateOwner' /\ LockHasLiveOwner'
  <2>1. CleanStaleLocks(FALSE)
    BY <1>2, SchedulerAssumption
  <2>2. fires' = fires /\ lock' = IF lock # 0 /\ ~Holds(lock) THEN 0 ELSE lock
    BY <2>1 DEF CleanStaleLocks
  <2>3. LateOwner'
    BY <1>f, <2>2 DEF LateOwner
  <2>4. LockHasLiveOwner'
    BY <2>2 DEF LockHasLiveOwner, Holds
  <2> QED
    BY <2>3, <2>4
<1>3. ASSUME Gone PROVE LateOwner' /\ LockHasLiveOwner'
  <2>1. \A f \in Fires : fires'[f].pc \in {"new", "done"}
                         /\ (fires'[f].pc = "new" => fires[f].pc = "new")
                         /\ fires'[f].late = fires[f].late
    BY <1>t, <1>3 DEF Gone, Fire
  <2>2. LateOwner'
    BY <1>p, <2>1 DEF LateOwner, FirePhases
  <2> QED
    BY <1>3, <2>2 DEF Gone, LockHasLiveOwner
<1>4. ASSUME NEW f \in Fires, Begins(f) PROVE LateOwner' /\ LockHasLiveOwner'
  <2>1. PICK o \in Objs, n \in 0..generations : fires' = [fires EXCEPT ![f] = Started(o, n)]
    BY <1>4 DEF Begins
  <2>2. ~fires'[f].late
    BY <1>t, <2>1 DEF Started, NewFire
  <2>3. \A g \in Fires : g # f => fires'[g] = fires[g]
    BY <1>t, <2>1
  <2>4. ~Holds(f)
    BY <1>p, <1>4 DEF Begins, FirePhases, Holds
  <2> QED
    BY <1>t, <1>f, <1>4, <2>2, <2>3, <2>4 DEF Begins, LateOwner, LockHasLiveOwner, Holds, Swept
<1>5. ASSUME NEW f \in Fires, TakeLock(f) PROVE LateOwner' /\ LockHasLiveOwner'
  BY <1>t, <1>p, <1>5 DEF TakeLock, LateOwner, LockHasLiveOwner, Holds, FirePhases, Fire
<1>6. ASSUME NEW f \in Fires, RunJobStep(f), ~TakeLock(f)
      PROVE  LateOwner' /\ LockHasLiveOwner'
  <2>1. \A g \in Fires : g # f => fires'[g] = fires[g]
    BY <1>t, <1>6 DEF RunJobStep, Skip, InvokeSettles, FireTimesOut, LateSettles, Persist,
                      PersistFails, Retire, Unlock
  <2>2. lock' \in {0, lock} /\ boot' = boot
    BY <1>6 DEF RunJobStep, Skip, InvokeSettles, FireTimesOut, LateSettles, Persist,
                PersistFails, Retire, Unlock
  <2>3. ASSUME lock' = f, fires'[f].late, fires'[f].pc # "done" PROVE fires'[f].inv = "run"
    <3>1. lock = f
      BY <1>f, <2>2, <2>3
    <3>2. CASE Skip(f) \/ Unlock(f) \/ LateSettles(f)
      BY <1>t, <1>f, <2>3, <3>2 DEF Skip, Unlock, LateSettles, Fire
    <3>3. CASE Persist(f) \/ PersistFails(f) \/ Retire(f)
      BY <1>t, <2>3, <3>1, <3>3 DEF Persist, PersistFails, Retire, LateOwner, Fire
    <3>4. CASE FireTimesOut(f)
      BY <1>t, <3>4 DEF FireTimesOut, Fire
    <3>5. ASSUME NEW ok \in BOOLEAN, InvokeSettles(f, ok) PROVE FALSE
      BY <1>t, <1>p, <2>3, <3>5 DEF InvokeSettles, FirePhases, Fire
    <3> QED
      BY <1>6, <3>2, <3>3, <3>4, <3>5 DEF RunJobStep
  <2>4. ASSUME lock' = f, Swept PROVE Holds(f)'
    <3>1. lock = f
      BY <1>f, <2>2, <2>4
    <3>2. Holds(f)
      BY <1>f, <2>4, <3>1 DEF LockHasLiveOwner, Swept
    <3>3. CASE Skip(f)
      BY <1>t, <3>2, <3>3 DEF Skip, Holds, Fire
    <3>4. CASE Unlock(f)
      BY <1>t, <1>f, <2>4, <3>1, <3>4 DEF Unlock, Holds, LateOwner, Fire
    <3>5. CASE LateSettles(f)
      BY <1>f, <2>4, <3>5 DEF LateSettles
    <3>6. CASE Persist(f) \/ PersistFails(f) \/ Retire(f)
      BY <1>t, <3>6 DEF Persist, PersistFails, Retire, Holds, Fire
    <3>7. CASE FireTimesOut(f) \/ \E ok \in BOOLEAN : InvokeSettles(f, ok)
      BY <1>t, <3>7 DEF FireTimesOut, InvokeSettles, Holds, Fire
    <3> QED
      BY <1>6, <3>3, <3>4, <3>5, <3>6, <3>7 DEF RunJobStep
  <2>5. LateOwner'
    BY <1>f, <2>1, <2>2, <2>3 DEF LateOwner
  <2>6. LockHasLiveOwner'
    BY <1>t, <1>f, <2>1, <2>2, <2>4 DEF LockHasLiveOwner, Holds, Swept
  <2> QED
    BY <2>5, <2>6
<1>7. LateOwner' /\ LockHasLiveOwner'
  BY <1>t, <1>1, <1>2, <1>3, <1>4, <1>5, <1>6, FireSteps DEF FireInv
<1> QED
  BY <1>0, <1>7

\* runJob's finally, the timed-out invocation's finally and cleanStaleLocks
\* between them leave no lock behind that would drop every later fire
\* (LockHasLiveOwner), when no dead daemon's pid was given away.
THEOREM LockIsReleased ==
    ASSUME ~PidReuse
    PROVE  Spec => []LockHasLiveOwner
<1>1. Init => OwnerInv
  BY FireInvInit, SchedulerAssumption DEF Init, OwnerInv, LateOwner, LockHasLiveOwner, Fires
<1>2. OwnerInv /\ [Next]_vars => OwnerInv'
  BY OwnerInvNext
<1>3. OwnerInv => LockHasLiveOwner
  BY DEF OwnerInv
<1> QED
  BY <1>1, <1>2, <1>3, PTL DEF Spec

----------------------------------------------------------------------------
\* The fires whose accepted outcome was recorded for an incarnation.
Counted(fs, n) == {f \in Fires : fs[f].saved /\ fs[f].ok /\ fs[f].gen = n}

\* They are finitely many, and none belongs to an incarnation to come.
LEMMA CountedFacts ==
    ASSUME FireInv
    PROVE  /\ \A n \in Int : IsFiniteSet(Counted(fires, n))
           /\ \A n \in Int : n > generations => Counted(fires, n) = {}
<1>1. IsFiniteSet(Fires)
  BY FS_Interval, SchedulerAssumption DEF Fires
<1>2. \A n \in Int : Counted(fires, n) \subseteq Fires
  BY DEF Counted
<1>3. \A f \in Fires : fires[f].gen \in Int /\ generations \in Int
  BY SchedulerAssumption DEF FireInv, Typed, FiresOK, DataOK, Fire
<1> QED
  BY <1>1, <1>2, <1>3, FS_Subset DEF Counted, FireInv, GenerationsBounded

\* Only the record of an accepted fire of the incarnation adds to them.
LEMMA CountedNext ==
    ASSUME FireInv, [Next]_vars, NEW n
    PROVE  \/ Counted(fires', n) = Counted(fires, n)
           \/ \E f \in Fires : Persist(f) /\ SameJob(f) /\ fires[f].ok /\ fires[f].gen = n
<1> SUFFICES ASSUME ~\E f \in Fires : Persist(f) /\ SameJob(f) /\ fires[f].ok /\ fires[f].gen = n
             PROVE  Counted(fires', n) = Counted(fires, n)
  OBVIOUS
<1>0. Typed /\ GenerationsBounded /\ FirePhases
  BY DEF FireInv
<1>1. ASSUME NEW f \in Fires, f \in Counted(fires, n) PROVE f \in Counted(fires', n)
  BY <1>0, <1>1, PhasesNext DEF Counted
<1>2. ASSUME NEW f \in Fires, f \in Counted(fires', n) PROVE f \in Counted(fires, n)
  <2>1. fires'[f].saved /\ fires'[f].ok /\ fires'[f].gen = n
    BY <1>2 DEF Counted
  <2>2. CASE fires[f].saved
    BY <1>0, <2>1, <2>2, PhasesNext DEF Counted
  <2>3. CASE Persist(f) /\ SameJob(f)
    <3>1. fires'[f].ok = fires[f].ok /\ fires'[f].gen = fires[f].gen
      BY <1>0, <2>3, PersistRecords DEF SameJob
    <3> QED
      BY <2>1, <2>3, <3>1
  <2> QED
    BY <1>0, <2>1, <2>2, <2>3, PhasesNext
<1>3. Counted(fires, n) \subseteq Fires /\ Counted(fires', n) \subseteq Fires
  BY DEF Counted
<1> QED
  BY <1>1, <1>2, <1>3

\* The count follows the file through every step.
LEMMA RunsCountedNext ==
    ASSUME FireInv, RunsCounted, [Next]_vars
    PROVE  RunsCounted'
<1> SUFFICES ASSUME store' # NoJob
             PROVE  store'.runs = Cardinality(Counted(fires', store'.gen))
  BY DEF RunsCounted, Counted
<1>t. /\ Typed /\ store \in Job \cup {NoJob} /\ store' \in Job \cup {NoJob}
      /\ generations \in Nat /\ fires \in [Fires -> Fire]
  BY TypedNext, SchedulerAssumption DEF FireInv, Typed, DataOK, FiresOK
<1>r. store # NoJob => store.runs = Cardinality(Counted(fires, store.gen))
  BY DEF RunsCounted, Counted
<1>g. store' \in Job /\ store'.gen \in Int
  BY <1>t DEF Job
<1>1. CASE FileCreated
  <2>1. store'.gen > generations /\ store'.runs = 0 /\ store = NoJob
    BY <1>t, <1>1 DEF FileCreated
  <2>2. Counted(fires, store'.gen) = {}
    BY <1>g, <2>1, CountedFacts
  <2>3. Counted(fires', store'.gen) = Counted(fires, store'.gen)
    BY <2>1, CountedNext DEF SameJob
  <2> QED
    BY <2>1, <2>2, <2>3, FS_EmptySet
<1>2. CASE FileEdited
  <2>1. store # NoJob /\ store'.gen = store.gen /\ store'.runs = store.runs
    BY <1>2 DEF FileEdited
  <2>2. ~\E f \in Fires : Persist(f) /\ SameJob(f) /\ fires[f].ok
    <3> SUFFICES ASSUME NEW f \in Fires, Persist(f), SameJob(f), fires[f].ok
                 PROVE  FALSE
      OBVIOUS
    <3>1. store'.runs = store.runs + 1
      BY <1>t, <2>1, PersistRecords
    <3> QED
      BY <1>t, <2>1, <3>1 DEF Job
  <2>3. Counted(fires', store.gen) = Counted(fires, store.gen)
    BY <2>2, CountedNext
  <2> QED
    BY <1>r, <2>1, <2>3
<1>3. ASSUME NEW f \in Fires, Persist(f)
      PROVE  store'.runs = Cardinality(Counted(fires', store'.gen))
  <2>1. store # NoJob
    BY <1>3 DEF Persist, SameJob
  <2>2. store'.gen = store.gen
    BY <1>t, <1>3, <2>1, PersistRecords
  <2>3. CASE SameJob(f) /\ fires[f].ok
    <3>1. store'.runs = store.runs + 1
      BY <1>t, <1>3, <2>1, <2>3, PersistRecords
    <3>2. f \notin Counted(fires, store.gen)
      BY <1>3 DEF Persist, Counted, FireInv, FirePhases
    <3>3. Counted(fires', store.gen) = Counted(fires, store.gen) \cup {f}
      <4>1. fires'[f].saved /\ fires'[f].ok /\ fires'[f].gen = store.gen
        BY <1>t, <1>3, <2>1, <2>3, PersistRecords DEF SameJob
      <4>2. \A g \in Fires : g # f => fires'[g] = fires[g]
        BY <1>t, <1>3, <2>1, PersistRecords
      <4> QED
        BY <4>1, <4>2 DEF Counted
    <3>4. IsFiniteSet(Counted(fires, store.gen))
      BY <1>t, <2>1, CountedFacts DEF Job
    <3>5. Cardinality(Counted(fires, store.gen) \cup {f}) = Cardinality(Counted(fires, store.gen)) + 1
      BY <3>2, <3>4, FS_AddElement
    <3> QED
      BY <1>r, <2>1, <2>2, <3>1, <3>3, <3>5
  <2>4. CASE ~(SameJob(f) /\ fires[f].ok)
    <3>1. store'.runs = store.runs
      BY <1>t, <1>3, <2>1, <2>4, PersistRecords DEF Job
    <3>2. Counted(fires', store.gen) = Counted(fires, store.gen)
      <4>1. \A g \in Fires : g # f => fires'[g] = fires[g]
        BY <1>t, <1>3, <2>1, PersistRecords
      <4>2. f \notin Counted(fires, store.gen)
        BY <1>3 DEF Persist, Counted, FireInv, FirePhases
      <4>3. f \notin Counted(fires', store.gen)
        BY <1>t, <1>3, <2>1, <2>4, <4>2, PersistRecords DEF Counted
      <4> QED
        BY <4>1, <4>2, <4>3 DEF Counted
    <3> QED
      BY <1>r, <2>1, <2>2, <3>1, <3>2
  <2> QED
    BY <2>3, <2>4
<1> QED
  BY <1>t, <1>1, <1>2, <1>3, FileSteps DEF FileGone

\* run_count is exact for every number of fires, edits, deletions, boots and
\* crashes: each accepted fire recorded for an incarnation is counted once,
\* in its own incarnation (RunsCounted).
THEOREM NoRunMiscounted == Spec => []RunsCounted
<1>1. Init => RunsCounted
  <2> SUFFICES ASSUME Init, store # NoJob
               PROVE  store.runs = Cardinality(Counted(fires, store.gen))
    BY DEF RunsCounted, Counted
  <2>1. store.runs = 0
    BY DEF Init, NewJob
  <2>2. Counted(fires, store.gen) = {}
    BY DEF Init, Counted, NewFire
  <2> QED
    BY <2>1, <2>2, FS_EmptySet
<1>2. FireInv /\ RunsCounted /\ [Next]_vars => RunsCounted'
  BY RunsCountedNext
<1> QED
  BY <1>1, <1>2, FireInvInit, FireInvNext, PTL DEF Spec
============================================================================
