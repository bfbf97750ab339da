---------------------------- MODULE CommandGate ----------------------------
(***************************************************************************)
(* The command-idempotency gate of the sidecar                             *)
(* (packages/sidecar/src/server/commandIdempotency.ts), as driven by       *)
(* SidecarServer.handleRpcRequest, start and stop.                         *)
(*                                                                         *)
(* Every RPC that carries a commandId passes through run(): a retry joins  *)
(* the promise of the execution it repeats, a reused commandId with other  *)
(* parameters is a conflict, and a turn command for a session that already *)
(* has a turn is refused as busy.  An execution is a promise; it is        *)
(* identified here by the number of the run() call that started it, which  *)
(* is also the insertion order of the records Map.                         *)
(***************************************************************************)
EXTENDS Naturals, FiniteSets

CONSTANTS
    Keys,         \* method + commandId
    Prints,       \* fingerprints: the serialised parameters of a request
    Sessions,     \* turn keys: (workspace, sessionId)
    NoTurn,       \* the turn key of a method without turnStart
    TurnOf,       \* the turn key that a request (key, fingerprint) resolves to
    Limit,        \* settled outcomes retained
    Ttl,          \* idempotency window, in clock ticks
    MaxRuns,      \* bound: executions
    MaxTime,      \* bound: last tick at which a command may start
    MaxRestarts   \* bound: stop() calls

ASSUME TurnAssumption ==
    /\ NoTurn \notin Sessions
    /\ TurnOf \in [Keys \X Prints -> Sessions \cup {NoTurn}]

\* The constructor clamps both options to at least one.
ASSUME ClampAssumption == Limit \in Nat \ {0} /\ Ttl \in Nat \ {0}

ASSUME BoundAssumption ==
    MaxRuns \in Nat /\ MaxTime \in Nat /\ MaxRestarts \in Nat

VARIABLES
    records,      \* key -> the CommandRecord held for it, or NoRecord
    activeTurns,  \* session -> the run whose outcome owns the turn, or NoRun
    runs,         \* run -> what was executed and how far it is
    started,      \* number of executions started so far
    waiting,      \* requests awaiting an outcome: <<key, fingerprint, run>>
    now,          \* the monotonic clock
    epoch,        \* number of stop() calls so far
    sweeping      \* the TTL sweeper's interval is armed

vars == <<records, activeTurns, runs, started, waiting, now, epoch, sweeping>>

RunIds == 1..MaxRuns
NoRun == 0
NoRecord == [run |-> NoRun, print |-> NoTurn, settled |-> FALSE, expiresAt |-> 0]
NotStarted == [state |-> "none", key |-> NoTurn, print |-> NoTurn, turn |-> NoTurn,
               at |-> 0, epoch |-> 0]

Records == [run : RunIds, print : Prints, settled : BOOLEAN, expiresAt : Nat]
Runs == [state : {"running", "done"}, key : Keys, print : Prints,
         turn : Sessions \cup {NoTurn}, at : Nat, epoch : Nat]

Held(recs, k) == recs[k] # NoRecord
Expired(rec) == now >= rec.expiresAt

-----------------------------------------------------------------------------
(* prune(): expired records go first and never count towards the limit;    *)
(* then the oldest settled outcomes go until the Map fits, or until every  *)
(* survivor is in flight.                                                  *)

\* Mutant: prune() forgets the TTL.
Live_NoExpiry(recs) == {k \in Keys : Held(recs, k)}

Live(recs) == {k \in Keys : Held(recs, k) /\ ~Expired(recs[k])}

SettledUpTo(recs, k) ==
    {j \in Live(recs) : recs[j].settled /\ recs[j].run <= recs[k].run}

\* Mutant: the oldest record goes, in flight or not.
Evicted_AnyOldest(recs, k) ==
    Cardinality({j \in Live(recs) : recs[j].run <= recs[k].run}) + Limit
        <= Cardinality(Live(recs))

Evicted(recs, k) ==
    /\ recs[k].settled
    /\ Cardinality(SettledUpTo(recs, k)) + Limit <= Cardinality(Live(recs))

Prune(recs) ==
    [k \in Keys |-> IF k \in Live(recs) /\ ~Evicted(recs, k) THEN recs[k] ELSE NoRecord]

-----------------------------------------------------------------------------
Init ==
    /\ records = [k \in Keys |-> NoRecord]
    /\ activeTurns = [s \in Sessions |-> NoRun]
    /\ runs = [r \in RunIds |-> NotStarted]
    /\ started = 0
    /\ waiting = {}
    /\ now = 0
    /\ epoch = 0
    /\ sweeping = TRUE

\* A request whose unexpired record has the same fingerprint awaits the
\* outcome of the execution that record belongs to.
Replay(k, p) ==
    /\ Held(records, k) /\ ~Expired(records[k])
    /\ records[k].print = p
    /\ waiting' = IF runs[records[k].run].state = "running"
                  THEN waiting \cup {<<k, p, records[k].run>>}
                  ELSE waiting
    /\ UNCHANGED <<records, activeTurns, runs, started, now, epoch, sweeping>>

\* The lazy expiry at the top of run(): a stale record is dropped before the
\* turn gate is consulted, so even a request that is then refused drops it.
WithoutStale(k) ==
    IF Held(records, k) /\ Expired(records[k])
    THEN [records EXCEPT ![k] = NoRecord]
    ELSE records

\* run() found no usable record but the session already has a turn: "busy".
Busy(k, p) ==
    /\ ~Held(WithoutStale(k), k)
    /\ TurnOf[<<k, p>>] # NoTurn
    /\ activeTurns[TurnOf[<<k, p>>]] # NoRun
    /\ records' = WithoutStale(k)
    /\ UNCHANGED <<activeTurns, runs, started, waiting, now, epoch, sweeping>>

NewRecord(r, p) == [run |-> r, print |-> p, settled |-> FALSE, expiresAt |-> now + Ttl]

\* run() misses: execute, record the outcome promise and claim the turn.
Execute(k, p) ==
    LET r == started + 1
        t == TurnOf[<<k, p>>]
    IN  /\ started < MaxRuns /\ now <= MaxTime
        /\ ~Held(WithoutStale(k), k)
        /\ t # NoTurn => activeTurns[t] = NoRun
        /\ started' = r
        /\ runs' = [runs EXCEPT ![r] = [state |-> "running", key |-> k, print |-> p,
                                        turn |-> t, at |-> now, epoch |-> epoch]]
        /\ records' = [records EXCEPT ![k] = NewRecord(r, p)]
        /\ activeTurns' = IF t = NoTurn THEN activeTurns ELSE [activeTurns EXCEPT ![t] = r]
        /\ waiting' = waiting \cup {<<k, p, r>>}
        /\ UNCHANGED <<now, epoch, sweeping>>

\* Mutant: the finally reaction deletes the key without the identity test.
ReleaseTurn_Unconditional(r) ==
    [s \in Sessions |-> IF runs[r].turn = s THEN NoRun ELSE activeTurns[s]]

\* The turn is released only if this outcome still owns it: stop() may have
\* handed the session to a later run.
ReleaseTurn(r) ==
    [s \in Sessions |-> IF activeTurns[s] = r THEN NoRun ELSE activeTurns[s]]

\* The execution settles.  Its then/finally reactions and the awaiting
\* requests' continuations run back to back: mark settled, prune, release
\* the turn, answer.  The record object is marked wherever it still is.
Settle(r) ==
    /\ runs[r].state = "running"
    /\ runs' = [runs EXCEPT ![r].state = "done"]
    /\ records' = Prune([k \in Keys |->
                            IF records[k].run = r THEN [records[k] EXCEPT !.settled = TRUE]
                                                  ELSE records[k]])
    /\ activeTurns' = ReleaseTurn(r)
    /\ waiting' = {w \in waiting : w[3] # r}
    /\ UNCHANGED <<started, now, epoch, sweeping>>

\* The sweeper's interval fires.
Sweep ==
    /\ sweeping
    /\ records' = Prune(records)
    /\ UNCHANGED <<activeTurns, runs, started, waiting, now, epoch, sweeping>>

\* Mutant: stop() keeps the active-turn table.
Stop_KeepTurns ==
    /\ epoch < MaxRestarts
    /\ records' = [k \in Keys |-> NoRecord]
    /\ sweeping' = FALSE
    /\ epoch' = epoch + 1
    /\ UNCHANGED <<activeTurns, runs, started, waiting, now>>

\* SidecarServer.stop(): drop every record and every turn claim, and the
\* sweeper.  Executions in flight are not cancelled here.
Stop ==
    /\ epoch < MaxRestarts
    /\ records' = [k \in Keys |-> NoRecord]
    /\ activeTurns' = [s \in Sessions |-> NoRun]
    /\ sweeping' = FALSE
    /\ epoch' = epoch + 1
    /\ UNCHANGED <<runs, started, waiting, now>>

\* SidecarServer.start() re-arms the sweeper.
Start ==
    /\ ~sweeping
    /\ sweeping' = TRUE
    /\ UNCHANGED <<records, activeTurns, runs, started, waiting, now, epoch>>

\* Time passes; the clock runs on past MaxTime until the last record is stale.
Tick ==
    /\ now < MaxTime + Ttl
    /\ now' = now + 1
    /\ UNCHANGED <<records, activeTurns, runs, started, waiting, epoch, sweeping>>

\* handleRpcRequest for a command: one of the answers of run().  A conflict
\* (another fingerprint for a live record) is answered without a change.
Request(k, p) == Replay(k, p) \/ Busy(k, p) \/ Execute(k, p)

Next ==
    \/ \E k \in Keys, p \in Prints : Request(k, p)
    \/ \E r \in RunIds : Settle(r)
    \/ Sweep \/ Stop \/ Start \/ Tick

Spec == Init /\ [][Next]_vars

\* setInterval fires again and again, and the clock does not stop.
FairSpec == Spec /\ WF_vars(Tick) /\ WF_vars(Sweep)

-----------------------------------------------------------------------------
(* Properties *)

\* Every variable holds values of its type.
TypeOK ==
    /\ records \in [Keys -> Records \cup {NoRecord}]
    /\ activeTurns \in [Sessions -> RunIds \cup {NoRun}]
    /\ runs \in [RunIds -> Runs \cup {NotStarted}]
    /\ started \in 0..MaxRuns
    /\ waiting \subseteq Keys \X Prints \X RunIds
    /\ now \in Nat
    /\ epoch \in Nat
    /\ sweeping \in BOOLEAN

\* The turn gate: between two stop() calls no session ever has two turns in
\* flight, whatever expires, is pruned, settles late or is left over from
\* before a stop().
OneTurnPerSession ==
    \A r, q \in RunIds :
        (/\ runs[r].state = "running" /\ runs[q].state = "running"
         /\ runs[r].turn # NoTurn /\ runs[r].turn = runs[q].turn
         /\ runs[r].epoch = epoch /\ runs[q].epoch = epoch) => r = q

\* A session answers "busy" only because of an execution that is running for it
\* in this incarnation of the server: a turn that settled, or that stop()
\* orphaned, never blocks the session.
BusyOnlyWhileRunning ==
    \A s \in Sessions :
        activeTurns[s] # NoRun =>
            /\ runs[activeTurns[s]].state = "running"
            /\ runs[activeTurns[s]].turn = s
            /\ runs[activeTurns[s]].epoch = epoch

\* Idempotency of what is in flight: a command whose execution has not
\* settled is never executed a second time within its TTL, not even when the
\* record cache overflows its limit in between.
NoReexecutionInFlight ==
    \A r, q \in RunIds :
        (/\ runs[r].state = "running" /\ runs[q].state # "none"
         /\ runs[r].key = runs[q].key /\ runs[r].epoch = runs[q].epoch
         /\ r < q) => runs[q].at >= runs[r].at + Ttl

\* A request is only ever answered with the outcome of an execution of the
\* same command with the same parameters, and what it waits for is running.
ReplayMatchesRequest ==
    \A w \in waiting :
        /\ runs[w[3]].state = "running"
        /\ runs[w[3]].key = w[1]
        /\ runs[w[3]].print = w[2]

\* A record does not outlive the sweep after its TTL, even if its execution
\* never settles and no further request arrives.
RecordsDrain ==
    \A k \in Keys : \A r \in RunIds :
        (records[k].run = r) ~> (records[k].run # r \/ ~sweeping)
=============================================================================
