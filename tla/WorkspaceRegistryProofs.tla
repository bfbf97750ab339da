---------------------- MODULE WorkspaceRegistryProofs ----------------------
(***************************************************************************)
(* Proofs about WorkspaceRegistry for any workspaces, callers and entries: *)
(* one runtime per workspace, and nothing alive after stop().              *)
(*                                                                         *)
(* The map and the entries point at each other (Mapped): an entry leaves   *)
(* the map only when it is free.  A disposal waits for every entry there   *)
(* is (Awaited): nobody makes one meanwhile, because a caller that waited  *)
(* for a disposal goes on before the next stop() (Resumed).                *)
(***************************************************************************)
EXTENDS WorkspaceRegistry, TLAPS

RegistryTypeOK ==
    /\ entries \in [Cwds -> Entries \cup {None}]
    /\ objs \in [Entries -> Objs \cup {Free}]
    /\ callers \in [Callers -> Calls \cup {Idle}]
    /\ stopped \in BOOLEAN
    /\ closingAll \in [active : BOOLEAN, pending : SUBSET Entries, failed : BOOLEAN]

Mapped ==
    /\ \A e \in Entries : objs[e] # Free => entries[objs[e].cwd] = e
    /\ \A w \in Cwds : entries[w] # None => objs[entries[w]].cwd = w

Awaited ==
    /\ closingAll.active => \A e \in Entries : objs[e] # Free => e \in closingAll.pending
    /\ NothingSurvivesStop

Resumed == \A c \in Callers : callers[c].at = "resume" => ~closingAll.active

RegistryInv == RegistryTypeOK /\ Mapped /\ Awaited /\ Resumed

\* An entry in use has a workspace and a state of its own.
LEMMA UsedEntry ==
    ASSUME RegistryTypeOK, NEW e \in Entries
    PROVE  /\ objs[e] # Free => objs[e] \in Objs /\ objs[e].cwd \in Cwds
           /\ objs[e] = Free => objs[e].state = "free" /\ objs[e].cwd = None
           /\ Free \notin Objs
BY NoneAssumption DEF RegistryTypeOK, Objs, Free, Closing

----------------------------------------------------------------------------
(* One lemma per way in which the state changes.                           *)

\* ensure() that finds, joins, awaits or makes an entry keeps the invariant.
LEMMA LookupKeeps ==
    ASSUME RegistryInv, NEW c \in Callers, NEW w \in Cwds, Lookup(c, w),
           ~stopped, ~closingAll.active, UNCHANGED <<stopped, closingAll>>
    PROVE  RegistryInv'
<1> USE NoneAssumption
<1>1. ASSUME NEW at \in {"has", "build", "close"}, entries[w] # None,
             Goto(c, at, w, entries[w]), UNCHANGED <<entries, objs>>
      PROVE  RegistryInv'
  <2>1. callers' \in [Callers -> Calls \cup {Idle}]
    BY <1>1 DEF RegistryInv, RegistryTypeOK, Goto, Calls, Waiting
  <2>2. Resumed'
    BY <1>1 DEF RegistryInv, RegistryTypeOK, Resumed, Goto
  <2> QED
    BY <1>1, <2>1, <2>2
    DEF RegistryInv, RegistryTypeOK, Mapped, Awaited, NothingSurvivesStop
<1>2. ASSUME NEW e \in Entries, objs[e] = Free, entries[w] = None,
             objs' = [objs EXCEPT ![e] = [cwd |-> w, state |-> "starting"]],
             entries' = [entries EXCEPT ![w] = e], Goto(c, "build", w, e)
      PROVE  RegistryInv'
  <2>1. [cwd |-> w, state |-> "starting"] \in Objs
    BY DEF Objs
  <2>2. RegistryTypeOK'
    BY <1>2, <2>1 DEF RegistryInv, RegistryTypeOK, Goto, Calls, Waiting
  <2>3. Mapped'
    <3>1. \A f \in Entries : objs'[f] # Free => entries'[objs'[f].cwd] = f
      <4> SUFFICES ASSUME NEW f \in Entries, objs'[f] # Free
                   PROVE  entries'[objs'[f].cwd] = f
        OBVIOUS
      <4>1. CASE f = e
        BY <1>2, <4>1 DEF RegistryInv, RegistryTypeOK
      <4>2. CASE f # e
        BY <1>2, <4>2, UsedEntry DEF RegistryInv, RegistryTypeOK, Mapped
      <4> QED
        BY <4>1, <4>2
    <3>2. \A v \in Cwds : entries'[v] # None => objs'[entries'[v]].cwd = v
      <4> SUFFICES ASSUME NEW v \in Cwds, entries'[v] # None
                   PROVE  objs'[entries'[v]].cwd = v
        OBVIOUS
      <4>1. CASE v = w
        BY <1>2, <4>1 DEF RegistryInv, RegistryTypeOK
      <4>2. CASE v # w
        <5>1. entries'[v] = entries[v] /\ entries[v] \in Entries
          BY <1>2, <4>2 DEF RegistryInv, RegistryTypeOK
        <5>2. objs[entries[v]].cwd = v
          BY <5>1 DEF RegistryInv, Mapped
        <5>3. entries[v] # e
          BY <1>2, <5>2, UsedEntry DEF RegistryInv
        <5> QED
          BY <1>2, <5>1, <5>2, <5>3 DEF RegistryInv, RegistryTypeOK
      <4> QED
        BY <4>1, <4>2
    <3> QED
      BY <3>1, <3>2 DEF Mapped
  <2>4. Awaited' /\ Resumed'
    BY <1>2 DEF RegistryInv, RegistryTypeOK, Awaited, NothingSurvivesStop, Resumed, Goto
  <2> QED
    BY <2>2, <2>3, <2>4 DEF RegistryInv
<1> QED
  BY <1>1, <1>2 DEF Lookup

\* A caller that gets an error, or starts to wait for a disposal.
LEMMA CallersKeep ==
    ASSUME RegistryInv, NEW c \in Callers, NEW x \in Calls \cup {Idle}, x.at # "resume",
           callers' = [callers EXCEPT ![c] = x],
           UNCHANGED <<entries, objs, stopped, closingAll>>
    PROVE  RegistryInv'
BY DEF RegistryInv, RegistryTypeOK, Mapped, Awaited, NothingSurvivesStop, Resumed

\* ensure() from its first line keeps the invariant.
LEMMA BeginKeeps ==
    ASSUME RegistryInv, NEW c \in Callers, NEW w \in Cwds, Begin(c, w),
           UNCHANGED <<stopped, closingAll>>
    PROVE  RegistryInv'
<1>1. CASE stopped /\ callers' = [callers EXCEPT ![c] = Idle] /\ UNCHANGED <<entries, objs>>
  <2>1. Idle.at # "resume"
    BY DEF Idle
  <2> QED
    BY <1>1, <2>1, CallersKeep
<1>2. CASE Goto(c, "closingAll", w, None) /\ UNCHANGED <<entries, objs>>
  <2> DEFINE x == [at |-> "closingAll", cwd |-> w, on |-> None]
  <2>1. x \in Calls /\ x.at # "resume"
    BY DEF Calls, Waiting
  <2>2. callers' = [callers EXCEPT ![c] = x]
    BY <1>2 DEF Goto
  <2> HIDE DEF x
  <2> QED
    BY <1>2, <2>1, <2>2, CallersKeep
<1>3. CASE ~stopped /\ ~closingAll.active /\ Lookup(c, w)
  BY <1>3, LookupKeeps
<1> QED
  BY <1>1, <1>2, <1>3 DEF Begin

\* A caller on its way has a workspace.
LEMMA CallerCwd ==
    ASSUME RegistryTypeOK, NEW c \in Callers, callers[c].at \in {"again", "resume"}
    PROVE  callers[c].cwd \in Cwds
BY DEF RegistryTypeOK, Calls, Idle

\* An entry that is free again leaves the map and the disposal that awaits it.
LEMMA CloseSettlesKeeps ==
    ASSUME RegistryInv, NEW e \in Entries, NEW ok \in BOOLEAN, CloseSettles(e, ok)
    PROVE  RegistryInv'
<1> USE NoneAssumption
<1>1. callers' \in [Callers -> Calls \cup {Idle}]
  <2> SUFFICES ASSUME NEW c \in Callers PROVE Settled(e, ok)[c] \in Calls \cup {Idle}
    BY DEF CloseSettles, Settled
  <2>1. callers[c] \in Calls \cup {Idle}
    BY DEF RegistryInv, RegistryTypeOK
  <2>2. callers[c].at = "close" => [at |-> "again", cwd |-> callers[c].cwd, on |-> None] \in Calls
    BY <2>1 DEF Calls, Waiting, Idle
  <2> QED
    BY <2>1, <2>2 DEF Settled
<1>2. closingAll' \in [active : BOOLEAN, pending : SUBSET Entries, failed : BOOLEAN]
  BY DEF RegistryInv, RegistryTypeOK, CloseSettles
<1>3. RegistryTypeOK'
  BY <1>1, <1>2 DEF RegistryInv, RegistryTypeOK, CloseSettles, Forget
<1>4. Mapped'
  BY UsedEntry DEF RegistryInv, RegistryTypeOK, Mapped, CloseSettles, Forget
<1>5. closingAll'.active = closingAll.active /\ closingAll.pending \ {e} \subseteq closingAll'.pending
  BY DEF RegistryInv, RegistryTypeOK, CloseSettles
<1>6. Awaited'
  BY <1>5 DEF RegistryInv, RegistryTypeOK, Awaited, NothingSurvivesStop, CloseSettles
<1>7. Resumed'
  BY <1>5 DEF RegistryInv, RegistryTypeOK, Resumed, CloseSettles, Settled, Idle
<1> QED
  BY <1>3, <1>4, <1>6, <1>7 DEF RegistryInv

\* Closing an entry in use keeps it in use, for the same workspace.
LEMMA ClosedEntry ==
    ASSUME RegistryTypeOK, NEW e \in Entries
    PROVE  /\ objs[e] = Free => Closed(e) = Free
           /\ objs[e] # Free => Closed(e) \in Objs /\ Closed(e).cwd = objs[e].cwd
           /\ objs[e] \in Objs => Closed(e) # Free
BY NoneAssumption DEF RegistryTypeOK, Objs, Free, Closed, Closing

----------------------------------------------------------------------------

\* Every step keeps the invariant.
LEMMA RegistryStep == RegistryInv /\ [Next]_vars => RegistryInv'
<1> SUFFICES ASSUME RegistryInv, [Next]_vars PROVE RegistryInv'
  OBVIOUS
<1> USE NoneAssumption
<1>1. ASSUME NEW c \in Callers, NEW w \in Cwds, Ensure(c, w) PROVE RegistryInv'
  BY <1>1, BeginKeeps DEF Ensure
<1>2. ASSUME NEW c \in Callers, Release(c) PROVE RegistryInv'
  <2>1. Idle.at # "resume"
    BY DEF Idle
  <2> QED
    BY <1>2, <2>1, CallersKeep DEF Release
<1>3. ASSUME NEW w \in Cwds, Remove(w) PROVE RegistryInv'
  <2>1. entries[w] \in Entries /\ objs[entries[w]].cwd = w
    BY <1>3 DEF Remove, RegistryInv, RegistryTypeOK, Mapped
  <2>2. objs[entries[w]] # Free
    BY <2>1, UsedEntry DEF RegistryInv
  <2>3. objs' = [objs EXCEPT ![entries[w]] = Closed(entries[w])]
    BY <1>3 DEF Remove
  <2>4. Closed(entries[w]) \in Objs /\ Closed(entries[w]).cwd = w
    BY <2>1, <2>2, ClosedEntry DEF RegistryInv
  <2>5. \A e \in Entries : objs'[e].cwd = objs[e].cwd /\ (objs'[e] # Free => objs[e] # Free)
    BY <2>1, <2>2, <2>3, <2>4 DEF RegistryInv, RegistryTypeOK
  <2>6. RegistryTypeOK'
    BY <1>3, <2>3, <2>4 DEF Remove, RegistryInv, RegistryTypeOK
  <2>7. Mapped' /\ Resumed'
    BY <1>3, <2>5 DEF Remove, RegistryInv, RegistryTypeOK, Mapped, Resumed
  <2>8. Awaited'
    BY <1>3, <2>1, <2>2, <2>5 DEF Remove, RegistryInv, RegistryTypeOK, Awaited, NothingSurvivesStop
  <2> QED
    BY <2>6, <2>7, <2>8 DEF RegistryInv
<1>4. ASSUME NEW c \in Callers, EnsureAgain(c) PROVE RegistryInv'
  BY <1>4, CallerCwd, BeginKeeps DEF EnsureAgain, RegistryInv
<1>5. ASSUME NEW c \in Callers, EnsureResumes(c) PROVE RegistryInv'
  <2>1. callers[c].cwd \in Cwds /\ ~closingAll.active
    BY <1>5, CallerCwd DEF EnsureResumes, RegistryInv, Resumed
  <2>2. CASE stopped
    <3>1. Idle.at # "resume"
      BY DEF Idle
    <3> QED
      BY <1>5, <2>2, <3>1, CallersKeep DEF EnsureResumes
  <2>3. CASE ~stopped
    BY <1>5, <2>1, <2>3, LookupKeeps DEF EnsureResumes
  <2> QED
    BY <2>2, <2>3
<1>6. ASSUME NEW e \in Entries, BuildSucceeds(e) PROVE RegistryInv'
  <2>1. objs[e] # Free
    BY <1>6 DEF BuildSucceeds, Free
  <2>2. PICK st \in {"ready", "discarding"} : objs' = [objs EXCEPT ![e].state = st]
    BY <1>6 DEF BuildSucceeds
  <2>3. objs'[e] \in Objs /\ objs'[e].cwd = objs[e].cwd
    BY <2>1, <2>2, UsedEntry DEF RegistryInv, RegistryTypeOK, Objs, Closing
  <2>4. /\ \A f \in Entries : objs'[f].cwd = objs[f].cwd /\ (objs'[f] # Free => objs[f] # Free)
        /\ \A f \in Entries : f # e => objs'[f] = objs[f]
    BY <2>1, <2>2, <2>3 DEF RegistryInv, RegistryTypeOK
  <2>5. callers' \in [Callers -> Calls \cup {Idle}]
    <3> SUFFICES ASSUME NEW c \in Callers, callers[c].at = "build"
                 PROVE  [callers[c] EXCEPT !.at = "has"] \in Calls
      BY <1>6 DEF BuildSucceeds, RegistryInv, RegistryTypeOK
    <3> QED
      BY DEF RegistryInv, RegistryTypeOK, Calls, Idle
  <2>6. objs' \in [Entries -> Objs \cup {Free}]
    BY <2>2, <2>3, <2>4 DEF RegistryInv, RegistryTypeOK
  <2>7. UNCHANGED <<entries, stopped, closingAll>>
    BY <1>6 DEF BuildSucceeds
  <2>8. RegistryTypeOK' /\ Mapped'
    BY <2>4, <2>5, <2>6, <2>7 DEF RegistryInv, RegistryTypeOK, Mapped
  <2>9. Awaited'
    BY <2>1, <2>4, <2>7 DEF RegistryInv, Awaited, NothingSurvivesStop
  <2>10. Resumed'
    BY <1>6 DEF BuildSucceeds, RegistryInv, RegistryTypeOK, Resumed, Calls, Idle
  <2> QED
    BY <2>8, <2>9, <2>10 DEF RegistryInv
<1>7. ASSUME NEW e \in Entries, BuildFails(e) PROVE RegistryInv'
  BY <1>7, CloseSettlesKeeps DEF BuildFails
<1>8. ASSUME NEW e \in Entries, NEW ok \in BOOLEAN, Disposed(e, ok) PROVE RegistryInv'
  BY <1>8, CloseSettlesKeeps DEF Disposed
<1>9. CASE ClosingAllSettles
  <2>1. \A e \in Entries : objs[e] = Free
    BY <1>9 DEF ClosingAllSettles, RegistryInv, Awaited
  <2>2. ~closingAll'.active /\ closingAll' \in [active : BOOLEAN, pending : SUBSET Entries, failed : BOOLEAN]
    BY <1>9 DEF ClosingAllSettles, NotClosing
  <2>3. callers' \in [Callers -> Calls \cup {Idle}]
    <3> SUFFICES ASSUME NEW c \in Callers, callers[c].at = "closingAll"
                 PROVE  [callers[c] EXCEPT !.at = "resume"] \in Calls
      BY <1>9 DEF ClosingAllSettles, RegistryInv, RegistryTypeOK
    <3> QED
      BY DEF RegistryInv, RegistryTypeOK, Calls, Idle, Waiting
  <2>4. UNCHANGED <<entries, objs, stopped>>
    BY <1>9 DEF ClosingAllSettles
  <2> QED
    BY <2>1, <2>2, <2>3, <2>4
    DEF RegistryInv, RegistryTypeOK, Mapped, Awaited, NothingSurvivesStop, Resumed
<1>10. CASE Stop
  <2>1. Resumed'
    BY <1>10 DEF Stop, Quiet, Resumed
  <2>2. CASE closingAll.active
    BY <1>10, <2>1, <2>2 DEF Stop, RegistryInv, RegistryTypeOK, Mapped, Awaited, NothingSurvivesStop
  <2>3. CASE ~closingAll.active
    <3>1. /\ closingAll' = [active |-> TRUE, pending |-> Registered, failed |-> FALSE]
          /\ objs' = [e \in Entries |-> IF e \in Registered THEN Closed(e) ELSE objs[e]]
          /\ stopped' = TRUE /\ UNCHANGED <<entries, callers>>
      BY <1>10, <2>3 DEF Stop
    <3>2. Registered \subseteq Entries
      BY DEF Registered, RegistryInv, RegistryTypeOK
    <3>3. \A e \in Entries : objs'[e].cwd = objs[e].cwd /\ (objs'[e] # Free => objs[e] # Free)
                             /\ objs'[e] \in Objs \cup {Free}
      BY <3>1, ClosedEntry DEF RegistryInv, RegistryTypeOK
    <3>4. RegistryTypeOK'
      BY <3>1, <3>2, <3>3 DEF RegistryInv, RegistryTypeOK
    <3>5. Mapped'
      BY <3>1, <3>3 DEF RegistryInv, RegistryTypeOK, Mapped
    <3>6. \A e \in Entries : objs[e] # Free => e \in Registered
      BY UsedEntry DEF RegistryInv, Mapped, Registered
    <3>7. Awaited'
      BY <3>1, <3>3, <3>6 DEF Awaited, NothingSurvivesStop
    <3> QED
      BY <2>1, <3>4, <3>5, <3>7 DEF RegistryInv
  <2> QED
    BY <2>2, <2>3
<1>11. CASE Start
  BY <1>11 DEF Start, RegistryInv, RegistryTypeOK, Mapped, Awaited, NothingSurvivesStop, Resumed
<1>12. CASE UNCHANGED vars
  BY <1>12 DEF vars, RegistryInv, RegistryTypeOK, Mapped, Awaited, NothingSurvivesStop, Resumed
<1> QED
  BY <1>1, <1>2, <1>3, <1>4, <1>5, <1>6, <1>7, <1>8, <1>9, <1>10, <1>11, <1>12
  DEF Next, Progress

\* The initial state satisfies the invariant.
LEMMA RegistryInit == Init => RegistryInv
<1> SUFFICES ASSUME Init PROVE RegistryInv
  OBVIOUS
<1>1. RegistryTypeOK
  BY DEF Init, RegistryTypeOK, NotClosing
<1>2. Mapped
  BY DEF Init, Mapped
<1>3. Awaited
  BY DEF Init, Awaited, NothingSurvivesStop, NotClosing
<1>4. Resumed
  BY DEF Init, Resumed, NotClosing
<1> QED
  BY <1>1, <1>2, <1>3, <1>4 DEF RegistryInv

\* The types, the map, the disposal and the callers fit together throughout.
THEOREM RegistryInvariant == Spec => []RegistryInv
BY RegistryInit, RegistryStep, PTL DEF Spec

\* A workspace never has two runtimes, for any number of workspaces and calls.
THEOREM SingleRuntime == Spec => []OneRuntimePerWorkspace
<1>1. RegistryInv => OneRuntimePerWorkspace
  BY DEF RegistryInv, Mapped, OneRuntimePerWorkspace
<1> QED
  BY <1>1, RegistryInvariant, PTL

\* Nothing is alive between the end of stop() and the next start().
THEOREM StopIsFinal == Spec => []NothingSurvivesStop
<1>1. RegistryInv => NothingSurvivesStop
  BY DEF RegistryInv, Awaited
<1> QED
  BY <1>1, RegistryInvariant, PTL
=============================================================================
