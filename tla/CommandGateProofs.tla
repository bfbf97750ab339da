------------------------- MODULE CommandGateProofs -------------------------
(***************************************************************************)
(* Proofs, for every set of keys, fingerprints and sessions and every      *)
(* bound, that the gate of CommandGate keeps one turn per session and      *)
(* executes a command in flight once per TTL.                              *)
(***************************************************************************)
EXTENDS CommandGate, TLAPS

\* The turn table and the executions agree: an execution of this incarnation
\* that runs a turn is the one the table names, and runs are numbered in order.
TurnsAgree ==
    /\ \A r \in RunIds : r > started => runs[r] = NotStarted
    /\ \A r \in RunIds : runs[r].epoch <= epoch
    /\ \A r \in RunIds :
         (/\ runs[r].state = "running" /\ runs[r].turn # NoTurn
          /\ runs[r].epoch = epoch) => activeTurns[runs[r].turn] = r

\* Each record was made by the execution it names, and it is still there,
\* unsettled, while that execution runs and its TTL has not passed.
RecordsAgree ==
    /\ \A k \in Keys : Held(records, k) =>
         /\ runs[records[k].run].state # "none"
         /\ runs[records[k].run].key = k
         /\ runs[records[k].run].print = records[k].print
    /\ \A r \in RunIds :
         (runs[r].state = "running" /\ runs[r].epoch = epoch) =>
             \/ now >= runs[r].at + Ttl
             \/ /\ records[runs[r].key].run = r
                /\ ~records[runs[r].key].settled
                /\ records[runs[r].key].expiresAt = runs[r].at + Ttl

TurnInv == TypeOK /\ TurnsAgree /\ BusyOnlyWhileRunning

GateInv == TurnInv /\ RecordsAgree /\ NoReexecutionInFlight /\ ReplayMatchesRequest

USE DEF RunIds, NoRun

-----------------------------------------------------------------------------
\* Dropping a stale record, and prune(), only ever remove records: what they
\* leave is what was there.
LEMMA WithoutStaleRemoves ==
    ASSUME TypeOK, NEW k \in Keys, NEW j \in Keys
    PROVE  /\ WithoutStale(k) \in [Keys -> Records \cup {NoRecord}]
           /\ WithoutStale(k)[j] \in {records[j], NoRecord}
           /\ WithoutStale(k)[j] # records[j] => j = k /\ Held(records, k) /\ Expired(records[k])
BY DEF TypeOK, WithoutStale, Held

\* prune() removes only expired or settled records and changes none.
LEMMA PruneRemoves ==
    ASSUME NEW recs \in [Keys -> Records \cup {NoRecord}], NEW k \in Keys
    PROVE  /\ Prune(recs) \in [Keys -> Records \cup {NoRecord}]
           /\ Prune(recs)[k] \in {recs[k], NoRecord}
           /\ Prune(recs)[k] # recs[k] => Expired(recs[k]) \/ recs[k].settled
<1>1. Prune(recs) \in [Keys -> Records \cup {NoRecord}]
  BY DEF Prune
<1>2. Prune(recs)[k] = IF k \in Live(recs) /\ ~Evicted(recs, k) THEN recs[k] ELSE NoRecord
  BY DEF Prune
<1>3. Prune(recs)[k] # recs[k] => k \notin Live(recs) \/ Evicted(recs, k)
  BY <1>2
<1>4. Prune(recs)[k] # recs[k] => Held(recs, k)
  BY <1>2 DEF Held
<1>5. QED
  BY <1>1, <1>2, <1>3, <1>4 DEF Live, Evicted

\* What the records become when execution r settles, before prune().
Marked(r) ==
    [k \in Keys |-> IF records[k].run = r THEN [records[k] EXCEPT !.settled = TRUE]
                                          ELSE records[k]]

\* Marking a record settled changes nothing else about it.
LEMMA MarkedKeeps ==
    ASSUME TypeOK, NEW r \in RunIds
    PROVE  /\ Marked(r) \in [Keys -> Records \cup {NoRecord}]
           /\ \A k \in Keys :
                /\ Marked(r)[k].run = records[k].run
                /\ Marked(r)[k].print = records[k].print
                /\ Marked(r)[k].expiresAt = records[k].expiresAt
                /\ records[k].run # r => Marked(r)[k] = records[k]
                /\ Held(Marked(r), k) <=> Held(records, k)
<1>1. \A k \in Keys : records[k] \in Records \cup {NoRecord}
  BY DEF TypeOK
<1>2. NoRecord.run = 0 /\ NoRecord \notin Records
  BY DEF NoRecord, Records
<1>3. \A k \in Keys : records[k].run = r => records[k] \in Records
  BY <1>1, <1>2
<1>4. \A k \in Keys : records[k].run = r =>
        /\ Marked(r)[k] \in Records
        /\ Marked(r)[k].run = records[k].run
        /\ Marked(r)[k].print = records[k].print
        /\ Marked(r)[k].expiresAt = records[k].expiresAt
  BY <1>3 DEF Marked, Records
<1>5. \A k \in Keys : records[k].run # r => Marked(r)[k] = records[k]
  BY DEF Marked
<1>6. Marked(r) \in [Keys -> Records \cup {NoRecord}]
  <2>1. DOMAIN Marked(r) = Keys
    BY DEF Marked
  <2>2. \A k \in Keys : Marked(r)[k] \in Records \cup {NoRecord}
    BY <1>1, <1>4, <1>5
  <2>3. QED
    BY <2>2 DEF Marked
<1>7. QED
  BY <1>1, <1>2, <1>3, <1>4, <1>5, <1>6 DEF Held

-----------------------------------------------------------------------------
\* The turn table is right initially and every step keeps it right.  Only
\* Execute adds an execution, under a free turn; only Settle and Stop free one.
LEMMA TurnInvInit == Init => TurnInv
<1> SUFFICES ASSUME Init PROVE TurnInv
  OBVIOUS
<1> USE BoundAssumption DEF Init
<1>1. TypeOK
  BY DEF TypeOK
<1>2. \A r \in RunIds : runs[r] = NotStarted
  OBVIOUS
<1>3. TurnsAgree
  BY <1>2 DEF TurnsAgree, NotStarted
<1>4. BusyOnlyWhileRunning
  BY DEF BusyOnlyWhileRunning
<1>5. QED
  BY <1>1, <1>3, <1>4 DEF TurnInv

\* Every step keeps the turn table and the executions in agreement.
LEMMA TurnInvNext == TurnInv /\ [Next]_vars => TurnInv'
<1> SUFFICES ASSUME TurnInv, [Next]_vars PROVE TurnInv'
  OBVIOUS
<1> USE TurnAssumption, BoundAssumption, ClampAssumption
<1>t. TypeOK /\ TurnsAgree /\ BusyOnlyWhileRunning
  BY DEF TurnInv
<1>n. /\ \A r \in RunIds : runs[r] \in Runs \cup {NotStarted}
      /\ NotStarted.state = "none" /\ NotStarted.epoch = 0 /\ NotStarted \notin Runs
      /\ \A r \in RunIds : runs[r].epoch \in Nat
      /\ \A r \in RunIds : runs[r].state # "none" => runs[r] \in Runs
  BY <1>t DEF TypeOK, Runs, NotStarted
<1>1. ASSUME NEW k \in Keys, NEW p \in Prints, Replay(k, p)
      PROVE  TurnInv'
  <2>1. records[k] \in Records
    BY <1>1, <1>t DEF Replay, TypeOK, Held
  <2>2. TypeOK'
    BY <1>1, <1>t, <2>1 DEF Replay, TypeOK, Records
  <2>3. TurnsAgree' /\ BusyOnlyWhileRunning'
    BY <1>1, <1>t DEF Replay, TurnsAgree, BusyOnlyWhileRunning
  <2>4. QED
    BY <2>2, <2>3 DEF TurnInv
<1>2. ASSUME NEW k \in Keys, NEW p \in Prints, Busy(k, p)
      PROVE  TurnInv'
  <2>1. records' \in [Keys -> Records \cup {NoRecord}]
    BY <1>2, <1>t, WithoutStaleRemoves DEF Busy
  <2>2. TypeOK'
    BY <1>2, <1>t, <2>1 DEF Busy, TypeOK
  <2>3. TurnsAgree' /\ BusyOnlyWhileRunning'
    BY <1>2, <1>t DEF Busy, TurnsAgree, BusyOnlyWhileRunning
  <2>4. QED
    BY <2>2, <2>3 DEF TurnInv
<1>3. ASSUME NEW k \in Keys, NEW p \in Prints, Execute(k, p)
      PROVE  TurnInv'
  <2> DEFINE r == started + 1
             t == TurnOf[<<k, p>>]
             new == [state |-> "running", key |-> k, print |-> p, turn |-> t,
                     at |-> now, epoch |-> epoch]
             rec == [run |-> r, print |-> p, settled |-> FALSE, expiresAt |-> now + Ttl]
  <2>1. /\ r \in RunIds /\ t \in Sessions \cup {NoTurn}
        /\ new \in Runs /\ rec \in Records
    BY <1>3, <1>t DEF Execute, NewRecord, TypeOK, Runs, Records
  <2>2. /\ started' = r
        /\ runs' = [runs EXCEPT ![r] = new]
        /\ records' = [records EXCEPT ![k] = rec]
        /\ activeTurns' = IF t = NoTurn THEN activeTurns ELSE [activeTurns EXCEPT ![t] = r]
        /\ waiting' = waiting \cup {<<k, p, r>>}
        /\ t # NoTurn => activeTurns[t] = NoRun
        /\ now' = now /\ epoch' = epoch /\ sweeping' = sweeping
    BY <1>3 DEF Execute, NewRecord
  <2> HIDE DEF new, rec, t
  <2>3. TypeOK'
    BY <1>t, <2>1, <2>2 DEF TypeOK
  <2>4. runs[r] = NotStarted
    BY <1>t, <2>1 DEF TurnsAgree, TypeOK
  <2>5. /\ runs'[r] = new
        /\ \A q \in RunIds \ {r} : runs'[q] = runs[q]
    BY <1>t, <2>1, <2>2 DEF TypeOK
  <2>6. new.state = "running" /\ new.turn = t /\ new.epoch = epoch
    BY DEF new
  <2>7. TurnsAgree'
    <3>1. ASSUME NEW q \in RunIds, q > started' PROVE runs'[q] = NotStarted
      BY <3>1, <1>t, <2>2, <2>5 DEF TurnsAgree, TypeOK
    <3>2. ASSUME NEW q \in RunIds PROVE runs'[q].epoch <= epoch'
      BY <1>t, <2>2, <2>5, <2>6 DEF TurnsAgree, TypeOK
    <3>3. ASSUME NEW q \in RunIds, runs'[q].state = "running", runs'[q].turn # NoTurn,
                 runs'[q].epoch = epoch'
          PROVE  activeTurns'[runs'[q].turn] = q
      <4>1. CASE q = r
        BY <4>1, <3>3, <1>t, <2>1, <2>2, <2>5, <2>6 DEF TypeOK
      <4>2. CASE q # r
        <5>1. activeTurns[runs[q].turn] = q /\ runs[q] \in Runs /\ runs'[q] = runs[q]
          BY <4>2, <3>3, <1>t, <1>n, <2>2, <2>5 DEF TurnsAgree
        <5>2. runs[q].turn # t
          BY <5>1, <3>3, <2>2
        <5>3. QED
          BY <5>1, <5>2, <1>t, <2>1, <2>2, <3>3 DEF TypeOK, Runs
      <4>3. QED
        BY <4>1, <4>2
    <3>4. QED
      BY <3>1, <3>2, <3>3 DEF TurnsAgree
  <2>8. BusyOnlyWhileRunning'
    <3> SUFFICES ASSUME NEW s \in Sessions, activeTurns'[s] # NoRun
                 PROVE  /\ runs'[activeTurns'[s]].state = "running"
                        /\ runs'[activeTurns'[s]].turn = s
                        /\ runs'[activeTurns'[s]].epoch = epoch'
      BY DEF BusyOnlyWhileRunning
    <3>1. CASE s = t
      BY <3>1, <1>t, <2>1, <2>2, <2>5, <2>6, TurnAssumption DEF TypeOK
    <3>2. CASE s # t
      <4>1. activeTurns'[s] = activeTurns[s] /\ activeTurns[s] \in RunIds
        BY <3>2, <1>t, <2>1, <2>2 DEF TypeOK
      <4>2. activeTurns[s] # r
        BY <4>1, <1>t, <1>n, <2>4 DEF BusyOnlyWhileRunning
      <4>3. QED
        BY <4>1, <4>2, <1>t, <2>2, <2>5 DEF BusyOnlyWhileRunning
    <3>3. QED
      BY <3>1, <3>2
  <2>9. QED
    BY <2>3, <2>7, <2>8 DEF TurnInv
<1>4. ASSUME NEW r \in RunIds, Settle(r)
      PROVE  TurnInv'
  <2>1. records' = Prune(Marked(r))
    BY <1>4 DEF Settle, Marked
  <2>2. records' \in [Keys -> Records \cup {NoRecord}]
    <3>1. Marked(r) \in [Keys -> Records \cup {NoRecord}]
      BY <1>t, MarkedKeeps
    <3>2. CASE Keys = {}
      BY <3>2, <2>1 DEF Prune
    <3>3. CASE Keys # {}
      BY <3>1, <3>3, <2>1, PruneRemoves
    <3>4. QED
      BY <3>2, <3>3
  <2>3. /\ runs[r] \in Runs /\ runs[r].state = "running"
        /\ runs' \in [RunIds -> Runs \cup {NotStarted}]
        /\ runs'[r].state = "done" /\ runs'[r].epoch = runs[r].epoch
        /\ \A q \in RunIds \ {r} : runs'[q] = runs[q]
    <3>1. runs[r].state = "running" /\ runs' = [runs EXCEPT ![r].state = "done"]
      BY <1>4 DEF Settle
    <3>2. runs[r] \in Runs
      BY <1>n, <3>1
    <3>3. [runs[r] EXCEPT !.state = "done"] \in Runs
      BY <3>2 DEF Runs
    <3>4. QED
      BY <1>t, <3>1, <3>2, <3>3 DEF TypeOK, Runs
  <2>4. TypeOK'
    BY <1>4, <1>t, <2>2, <2>3 DEF Settle, TypeOK, ReleaseTurn
  <2>5. TurnsAgree'
    <3>1. r <= started
      BY <1>t, <1>n, <2>3 DEF TurnsAgree, TypeOK
    <3>2. started' = started /\ epoch' = epoch /\ activeTurns' = ReleaseTurn(r)
      BY <1>4 DEF Settle
    <3>3. \A q \in RunIds : q > started' => runs'[q] = NotStarted
      BY <3>1, <3>2, <1>t, <2>3 DEF TurnsAgree, TypeOK
    <3>4. \A q \in RunIds : runs'[q].epoch <= epoch'
      BY <3>2, <1>t, <2>3 DEF TurnsAgree
    <3>5. ASSUME NEW q \in RunIds, runs'[q].state = "running", runs'[q].turn # NoTurn,
                 runs'[q].epoch = epoch'
          PROVE  activeTurns'[runs'[q].turn] = q
      <4>1. q # r /\ runs'[q] = runs[q] /\ activeTurns[runs[q].turn] = q
        BY <3>5, <3>2, <1>t, <2>3 DEF TurnsAgree
      <4>2. runs[q].turn \in Sessions
        BY <4>1, <3>5, <1>n DEF Runs
      <4>3. QED
        BY <4>1, <4>2, <3>2 DEF ReleaseTurn
    <3>6. QED
      BY <3>3, <3>4, <3>5 DEF TurnsAgree
  <2>6. BusyOnlyWhileRunning'
    <3>1. epoch' = epoch /\ activeTurns' = ReleaseTurn(r)
      BY <1>4 DEF Settle
    <3>2. ASSUME NEW s \in Sessions, activeTurns'[s] # NoRun
          PROVE  activeTurns'[s] = activeTurns[s] /\ activeTurns[s] \in RunIds \ {r}
      BY <3>1, <3>2, <1>t DEF ReleaseTurn, TypeOK
    <3>3. QED
      BY <3>1, <3>2, <1>t, <2>3 DEF BusyOnlyWhileRunning
  <2>7. QED
    BY <2>4, <2>5, <2>6 DEF TurnInv
<1>5. ASSUME Sweep PROVE TurnInv'
  <2>1. records' \in [Keys -> Records \cup {NoRecord}]
    BY <1>5, <1>t DEF Sweep, Prune, TypeOK
  <2>2. QED
    BY <1>5, <1>t, <2>1 DEF Sweep, TypeOK, TurnsAgree, BusyOnlyWhileRunning, TurnInv
<1>6. ASSUME Stop PROVE TurnInv'
  <2>1. TypeOK'
    <3>1. /\ records' \in [Keys -> Records \cup {NoRecord}]
          /\ activeTurns' \in [Sessions -> RunIds \cup {NoRun}]
          /\ epoch' \in Nat
      BY <1>6, <1>t DEF Stop, TypeOK
    <3>2. sweeping' \in BOOLEAN
      BY <1>6, Zenon DEF Stop
    <3>3. UNCHANGED <<runs, started, waiting, now>>
      BY <1>6 DEF Stop
    <3>4. QED
      BY <1>t, <3>1, <3>2, <3>3 DEF TypeOK
  <2>2. TurnsAgree'
    BY <1>6, <1>t, <1>n DEF Stop, TurnsAgree, TypeOK
  <2>3. BusyOnlyWhileRunning'
    BY <1>6 DEF Stop, BusyOnlyWhileRunning
  <2>4. QED
    BY <2>1, <2>2, <2>3 DEF TurnInv
<1>7. ASSUME Start PROVE TurnInv'
  BY <1>7, <1>t DEF Start, TypeOK, TurnsAgree, BusyOnlyWhileRunning, TurnInv
<1>8. ASSUME Tick PROVE TurnInv'
  BY <1>8, <1>t DEF Tick, TypeOK, TurnsAgree, BusyOnlyWhileRunning, TurnInv
<1>9. ASSUME UNCHANGED vars PROVE TurnInv'
  BY <1>9, <1>t DEF vars, TypeOK, TurnsAgree, BusyOnlyWhileRunning, TurnInv
<1>10. QED
  BY <1>1, <1>2, <1>3, <1>4, <1>5, <1>6, <1>7, <1>8, <1>9 DEF Next, Request

\* Every variable keeps its type, for every value of the constants.
THEOREM TypeCorrect == Spec => []TypeOK
<1>1. TurnInv => TypeOK
  BY DEF TurnInv
<1>2. QED
  BY <1>1, TurnInvInit, TurnInvNext, PTL DEF Spec

\* The turn gate of run(): never two turns of one session in one incarnation.
THEOREM TurnGate == Spec => []OneTurnPerSession
<1>1. TurnInv => OneTurnPerSession
  BY DEF TurnInv, TurnsAgree, OneTurnPerSession
<1>2. QED
  BY <1>1, TurnInvInit, TurnInvNext, PTL DEF Spec

\* A session is busy only while an execution of this incarnation runs its turn.
THEOREM NoStuckTurn == Spec => []BusyOnlyWhileRunning
<1>1. TurnInv => BusyOnlyWhileRunning
  BY DEF TurnInv
<1>2. QED
  BY <1>1, TurnInvInit, TurnInvNext, PTL DEF Spec

-----------------------------------------------------------------------------
\* The records are right initially and every step keeps them right: a record
\* disappears only when it is stale or settled, and Stop starts a new epoch.
LEMMA GateInvInit == Init => GateInv
<1> SUFFICES ASSUME Init PROVE GateInv
  OBVIOUS
<1>1. TurnInv
  BY TurnInvInit
<1>2. \A r \in RunIds : runs[r].state = "none"
  BY DEF Init, NotStarted
<1>3. RecordsAgree
  BY <1>2 DEF Init, RecordsAgree, Held
<1>4. NoReexecutionInFlight
  BY <1>2 DEF NoReexecutionInFlight
<1>5. ReplayMatchesRequest
  BY DEF Init, ReplayMatchesRequest
<1>6. QED
  BY <1>1, <1>3, <1>4, <1>5 DEF GateInv

\* Every step keeps the records and the executions in agreement.
LEMMA GateInvNext == GateInv /\ [Next]_vars => GateInv'
<1> SUFFICES ASSUME GateInv, [Next]_vars PROVE GateInv'
  OBVIOUS
<1> USE TurnAssumption, BoundAssumption, ClampAssumption
<1>t. /\ TypeOK /\ TurnsAgree /\ RecordsAgree /\ NoReexecutionInFlight
      /\ ReplayMatchesRequest /\ TurnInv'
  BY TurnInvNext DEF GateInv, TurnInv
<1>n. /\ \A r \in RunIds : runs[r].state # "none" => runs[r] \in Runs
      /\ \A r \in RunIds : runs[r] \in Runs =>
            runs[r].key \in Keys /\ runs[r].at \in Nat /\ runs[r].epoch \in Nat
      /\ \A r \in RunIds : r > started => runs[r].state = "none"
      /\ \A k \in Keys : Held(records, k) => records[k] \in Records
      /\ NoRecord.run = NoRun /\ NoRecord \notin Records
  BY <1>t DEF TypeOK, TurnsAgree, Runs, NotStarted, Records, NoRecord, Held
<1>m. ASSUME UNCHANGED <<records, runs, epoch, now>>
      PROVE  RecordsAgree' /\ NoReexecutionInFlight'
  BY <1>m, <1>t DEF RecordsAgree, NoReexecutionInFlight, Held
<1>1. ASSUME NEW k \in Keys, NEW p \in Prints, Replay(k, p)
      PROVE  GateInv'
  <2>1. RecordsAgree' /\ NoReexecutionInFlight'
    BY <1>1, <1>m DEF Replay
  <2>2. ReplayMatchesRequest'
    <3>1. runs' = runs /\ \A w \in waiting' :
              \/ w \in waiting
              \/ /\ w = <<k, p, records[k].run>> /\ runs[records[k].run].state = "running"
                 /\ records[k].print = p /\ Held(records, k)
      BY <1>1 DEF Replay
    <3>2. QED
      BY <3>1, <1>t DEF ReplayMatchesRequest, RecordsAgree
  <2>3. QED
    BY <1>t, <2>1, <2>2 DEF GateInv
<1>2. ASSUME NEW k \in Keys, NEW p \in Prints, Busy(k, p)
      PROVE  GateInv'
  <2>1. records' = WithoutStale(k) /\ runs' = runs /\ epoch' = epoch /\ now' = now
        /\ waiting' = waiting
    BY <1>2 DEF Busy
  <2>2. ASSUME NEW j \in Keys
        PROVE  \/ records'[j] = records[j]
               \/ records'[j] = NoRecord /\ Expired(records[j])
    BY <1>t, <2>1, WithoutStaleRemoves
  <2>3. RecordsAgree'
    BY <1>t, <1>n, <2>1, <2>2 DEF RecordsAgree, Held, Expired
  <2>4. NoReexecutionInFlight' /\ ReplayMatchesRequest'
    BY <1>t, <2>1 DEF NoReexecutionInFlight, ReplayMatchesRequest
  <2>5. QED
    BY <1>t, <2>3, <2>4 DEF GateInv
<1>3. ASSUME NEW k \in Keys, NEW p \in Prints, Execute(k, p)
      PROVE  GateInv'
  <2> DEFINE r == started + 1
             new == [state |-> "running", key |-> k, print |-> p, turn |-> TurnOf[<<k, p>>],
                     at |-> now, epoch |-> epoch]
             rec == [run |-> r, print |-> p, settled |-> FALSE, expiresAt |-> now + Ttl]
  <2>1. /\ r \in RunIds
        /\ runs' = [runs EXCEPT ![r] = new]
        /\ records' = [records EXCEPT ![k] = rec]
        /\ waiting' = waiting \cup {<<k, p, r>>}
        /\ now' = now /\ epoch' = epoch
        /\ ~Held(WithoutStale(k), k)
    BY <1>3, <1>t DEF Execute, NewRecord, TypeOK
  <2>2. new.state = "running" /\ new.key = k /\ new.print = p /\ new.at = now
        /\ new.epoch = epoch
    OBVIOUS
  <2>3. rec.run = r /\ rec.print = p /\ rec.settled = FALSE /\ rec.expiresAt = now + Ttl
    OBVIOUS
  <2> HIDE DEF new, rec
  <2>4. /\ runs'[r] = new /\ \A q \in RunIds \ {r} : runs'[q] = runs[q]
        /\ records'[k] = rec /\ \A j \in Keys \ {k} : records'[j] = records[j]
        /\ runs[r].state = "none"
    BY <1>t, <1>n, <2>1 DEF TypeOK
  <2>5. Held(records, k) => Expired(records[k])
    BY <1>t, <2>1 DEF WithoutStale, TypeOK
  <2>6. \A q \in RunIds : runs[q].state = "running" /\ runs[q].epoch = epoch
                           /\ runs[q].key = k => now >= runs[q].at + Ttl
    <3> SUFFICES ASSUME NEW q \in RunIds, runs[q].state = "running",
                        runs[q].epoch = epoch, runs[q].key = k
                 PROVE  now >= runs[q].at + Ttl
      OBVIOUS
    <3>1. CASE records[k].run = q /\ records[k].expiresAt = runs[q].at + Ttl
      <4>1. Held(records, k)
        BY <3>1, <1>n DEF Held
      <4>2. QED
        BY <3>1, <4>1, <2>5 DEF Expired
    <3>2. QED
      BY <3>1, <1>t DEF RecordsAgree
  <2>7. RecordsAgree'
    <3>1. ASSUME NEW j \in Keys, Held(records, j)' PROVE
              /\ runs'[records'[j].run].state # "none"
              /\ runs'[records'[j].run].key = j
              /\ runs'[records'[j].run].print = records'[j].print
      <4>1. CASE j = k
        BY <4>1, <2>1, <2>2, <2>3, <2>4
      <4>2. CASE j # k
        <5>1. Held(records, j) /\ records'[j] = records[j]
          BY <3>1, <4>2, <2>4 DEF Held
        <5>2. records[j].run \in RunIds \ {r}
          BY <5>1, <1>n, <1>t, <2>4 DEF Records, RecordsAgree
        <5>3. QED
          BY <5>1, <5>2, <1>t, <2>4 DEF RecordsAgree
      <4>3. QED
        BY <4>1, <4>2
    <3>2. ASSUME NEW q \in RunIds, runs'[q].state = "running", runs'[q].epoch = epoch'
          PROVE  \/ now' >= runs'[q].at + Ttl
                 \/ /\ records'[runs'[q].key].run = q
                    /\ ~records'[runs'[q].key].settled
                    /\ records'[runs'[q].key].expiresAt = runs'[q].at + Ttl
      <4>1. CASE q = r
        BY <4>1, <2>1, <2>2, <2>3, <2>4
      <4>2. CASE q # r
        <5>1. runs'[q] = runs[q] /\ runs[q].key \in Keys
          BY <3>2, <4>2, <1>n, <2>4
        <5>2. CASE runs[q].key = k
          BY <5>1, <5>2, <3>2, <2>1, <2>6
        <5>3. CASE runs[q].key # k
          BY <5>1, <5>3, <3>2, <1>t, <2>1, <2>4 DEF RecordsAgree
        <5>4. QED
          BY <5>2, <5>3
      <4>3. QED
        BY <4>1, <4>2
    <3>3. QED
      BY <3>1, <3>2 DEF RecordsAgree
  <2>8. NoReexecutionInFlight'
    <3> SUFFICES ASSUME NEW a \in RunIds, NEW b \in RunIds, a < b,
                        runs'[a].state = "running", runs'[b].state # "none",
                        runs'[a].key = runs'[b].key, runs'[a].epoch = runs'[b].epoch
                 PROVE  runs'[b].at >= runs'[a].at + Ttl
      BY DEF NoReexecutionInFlight
    <3>1. CASE b = r
      BY <3>1, <2>2, <2>4, <2>6
    <3>2. CASE b # r
      <4>1. b <= started
        BY <3>2, <1>n, <1>t, <2>4 DEF TypeOK
      <4>2. a # r
        BY <4>1, <1>t DEF TypeOK
      <4>3. QED
        BY <3>2, <4>2, <1>t, <2>4 DEF NoReexecutionInFlight
    <3>3. QED
      BY <3>1, <3>2
  <2>9. ReplayMatchesRequest'
    <3> SUFFICES ASSUME NEW w \in waiting'
                 PROVE  /\ runs'[w[3]].state = "running"
                        /\ runs'[w[3]].key = w[1]
                        /\ runs'[w[3]].print = w[2]
      BY DEF ReplayMatchesRequest
    <3>1. CASE w \in waiting
      <4>1. w[3] \in RunIds /\ runs[w[3]].state = "running"
        BY <3>1, <1>t DEF TypeOK, ReplayMatchesRequest
      <4>2. QED
        BY <3>1, <4>1, <1>t, <2>4 DEF ReplayMatchesRequest
    <3>2. CASE w = <<k, p, r>>
      BY <3>2, <2>2, <2>4
    <3>3. QED
      BY <3>1, <3>2, <2>1
  <2>10. QED
    BY <1>t, <2>7, <2>8, <2>9 DEF GateInv
<1>4. ASSUME NEW r \in RunIds, Settle(r)
      PROVE  GateInv'
  <2>1. /\ runs[r].state = "running"
        /\ records' = Prune(Marked(r))
        /\ now' = now /\ epoch' = epoch
        /\ waiting' = {w \in waiting : w[3] # r}
    BY <1>4 DEF Settle, Marked
  <2>2. /\ runs'[r].state = "done"
        /\ runs'[r].key = runs[r].key /\ runs'[r].print = runs[r].print
        /\ runs'[r].epoch = runs[r].epoch /\ runs'[r].at = runs[r].at
        /\ \A q \in RunIds \ {r} : runs'[q] = runs[q]
    <3>1. runs' = [runs EXCEPT ![r].state = "done"] /\ runs[r] \in Runs
      BY <1>4, <1>n, <2>1 DEF Settle
    <3>2. QED
      BY <3>1, <1>t DEF TypeOK, Runs
  <2>3. ASSUME NEW j \in Keys
        PROVE  /\ records'[j] \in {Marked(r)[j], NoRecord}
               /\ records'[j] # Marked(r)[j] => Expired(Marked(r)[j]) \/ Marked(r)[j].settled
    BY <1>t, <2>1, MarkedKeeps, PruneRemoves
  <2>4. RecordsAgree'
    <3>1. ASSUME NEW j \in Keys, Held(records, j)' PROVE
              /\ runs'[records'[j].run].state # "none"
              /\ runs'[records'[j].run].key = j
              /\ runs'[records'[j].run].print = records'[j].print
      <4>1. records'[j] = Marked(r)[j] /\ Held(Marked(r), j)
        BY <3>1, <2>3 DEF Held
      <4>2. /\ Held(records, j) /\ records'[j].run = records[j].run
            /\ records'[j].print = records[j].print
        BY <4>1, <1>t, MarkedKeeps
      <4>3. records[j].run \in RunIds
        BY <4>2, <1>n DEF Records
      <4>4. QED
        BY <4>2, <4>3, <1>t, <2>2 DEF RecordsAgree
    <3>2. ASSUME NEW q \in RunIds, runs'[q].state = "running", runs'[q].epoch = epoch'
          PROVE  \/ now' >= runs'[q].at + Ttl
                 \/ /\ records'[runs'[q].key].run = q
                    /\ ~records'[runs'[q].key].settled
                    /\ records'[runs'[q].key].expiresAt = runs'[q].at + Ttl
      <4>1. q # r /\ runs'[q] = runs[q] /\ runs[q].key \in Keys
        BY <3>2, <1>n, <2>2
      <4> DEFINE j == runs[q].key
      <4>2. CASE now >= runs[q].at + Ttl
        BY <4>1, <4>2, <2>1
      <4>3. CASE /\ records[j].run = q /\ ~records[j].settled
                 /\ records[j].expiresAt = runs[q].at + Ttl
        <5>1. Marked(r)[j] = records[j]
          BY <4>1, <4>3, <1>t, MarkedKeeps
        <5>2. records'[j] = records[j] \/ now >= runs[q].at + Ttl
          BY <4>1, <4>3, <5>1, <2>3 DEF Expired
        <5>3. QED
          BY <4>1, <4>3, <5>2, <2>1
      <4>4. QED
        BY <4>1, <4>2, <4>3, <3>2, <1>t, <2>1 DEF RecordsAgree
    <3>3. QED
      BY <3>1, <3>2 DEF RecordsAgree
  <2>5. NoReexecutionInFlight'
    BY <1>t, <2>1, <2>2 DEF NoReexecutionInFlight
  <2>6. ReplayMatchesRequest'
    <3>1. \A w \in waiting' : w \in waiting /\ w[3] \in RunIds \ {r}
      BY <1>t, <2>1 DEF TypeOK
    <3>2. QED
      BY <3>1, <1>t, <2>2 DEF ReplayMatchesRequest
  <2>7. QED
    BY <1>t, <2>4, <2>5, <2>6 DEF GateInv
<1>5. ASSUME Sweep PROVE GateInv'
  <2>1. records' = Prune(records) /\ runs' = runs /\ epoch' = epoch /\ now' = now
        /\ waiting' = waiting
    BY <1>5 DEF Sweep
  <2>2. ASSUME NEW j \in Keys
        PROVE  \/ records'[j] = records[j]
               \/ records'[j] = NoRecord /\ (Expired(records[j]) \/ records[j].settled)
    BY <1>t, <2>1, PruneRemoves DEF TypeOK
  <2>3. RecordsAgree'
    BY <1>t, <1>n, <2>1, <2>2 DEF RecordsAgree, Held, Expired
  <2>4. NoReexecutionInFlight' /\ ReplayMatchesRequest'
    BY <1>t, <2>1 DEF NoReexecutionInFlight, ReplayMatchesRequest
  <2>5. QED
    BY <1>t, <2>3, <2>4 DEF GateInv
<1>6. ASSUME Stop PROVE GateInv'
  <2>1. runs' = runs /\ waiting' = waiting /\ epoch' = epoch + 1
        /\ records' = [k \in Keys |-> NoRecord]
    BY <1>6 DEF Stop
  <2>2. RecordsAgree'
    BY <1>t, <2>1 DEF RecordsAgree, Held, TurnsAgree, TypeOK
  <2>3. NoReexecutionInFlight' /\ ReplayMatchesRequest'
    BY <1>t, <2>1 DEF NoReexecutionInFlight, ReplayMatchesRequest
  <2>4. QED
    BY <1>t, <2>2, <2>3 DEF GateInv
<1>7. ASSUME Start PROVE GateInv'
  BY <1>7, <1>t, <1>m DEF Start, ReplayMatchesRequest, GateInv
<1>8. ASSUME Tick PROVE GateInv'
  <2>1. runs' = runs /\ records' = records /\ waiting' = waiting /\ epoch' = epoch
        /\ now' = now + 1
    BY <1>8 DEF Tick
  <2>2. RecordsAgree'
    BY <1>t, <1>n, <2>1 DEF RecordsAgree, Held, TypeOK
  <2>3. NoReexecutionInFlight' /\ ReplayMatchesRequest'
    BY <1>t, <2>1 DEF NoReexecutionInFlight, ReplayMatchesRequest
  <2>4. QED
    BY <1>t, <2>2, <2>3 DEF GateInv
<1>9. ASSUME UNCHANGED vars PROVE GateInv'
  BY <1>9, <1>t, <1>m DEF vars, ReplayMatchesRequest, GateInv
<1>10. QED
  BY <1>1, <1>2, <1>3, <1>4, <1>5, <1>6, <1>7, <1>8, <1>9 DEF Next, Request

\* A command in flight is executed once per TTL, whatever the cache evicts.
THEOREM ExecutedOnce == Spec => []NoReexecutionInFlight
<1>1. GateInv => NoReexecutionInFlight
  BY DEF GateInv
<1>2. QED
  BY <1>1, GateInvInit, GateInvNext, PTL DEF Spec

\* No request is ever answered with the outcome of another request.
THEOREM AnsweredWithOwnOutcome == Spec => []ReplayMatchesRequest
<1>1. GateInv => ReplayMatchesRequest
  BY DEF GateInv
<1>2. QED
  BY <1>1, GateInvInit, GateInvNext, PTL DEF Spec
=============================================================================
