-------------------------- MODULE SubagentProofs --------------------------
(***************************************************************************)
(* Proofs about the two halves of the subagent spawner.  SubagentRuns, for *)
(* any children, any cap and any continuations: the cap of background      *)
(* children (RunsWithinCap) and the answer of stopChildrenOf               *)
(* (StoppedMeansStopped).  SubagentNotices, for any children, flushes,     *)
(* faults and crashes: no notice leaves the record undelivered             *)
(* (NoticeKept) and no flush repeats another (FlushedOnce).                *)
(***************************************************************************)
EXTENDS SubagentRuns, SubagentNotices, FiniteSetTheorems, SequenceTheorems, TLAPS

----------------------------------------------------------------------------
(* SubagentRuns. *)

Phases == {"unborn", "reserved", "setup", "running", "settling", "done"}
Over == {"settling", "done"}

RunsTypeOK ==
    /\ phase \in [Children -> Phases]
    /\ slots \subseteq Children
    /\ ctl \in [Children -> Runs \cup {"none"}]
    /\ fired \subseteq Children \X Runs
    /\ resume \in [Children -> {"no", "opening", "running"}]
    /\ lane \in [Children -> Runs \cup {"none"}]
    /\ aborting \subseteq Children /\ resumed \subseteq Children
    /\ stop \in [st : {"no", "waiting", "returned"}, running : SUBSET Children,
                 wait : SUBSET Children, stuck : SUBSET Children]

\* A background child between its reservation and the end of its settle sequence
\* has a slot, and slots are counted.
SlotInv ==
    /\ \A c \in Background : phase[c] \notin {"unborn", "done"} => c \in slots
    /\ Cardinality(slots) <= Cap

\* A lane is occupied by a run that is on, or by a continuation.
LaneInv ==
    \A c \in Children :
        /\ lane[c] = "own" => phase[c] = "running"
        /\ lane[c] = "resume" \/ ctl[c] = "resume" \/ resume[c] # "no" => c \in resumed

\* A child that was never continued has an entry in the map while it runs, and
\* one whose entry stopChildrenOf saw has none only once its run is over.
StopInv ==
    \A c \in Children \ resumed :
        /\ phase[c] = "running" => ctl[c] # "none"
        /\ ctl[c] # "none" => phase[c] \notin {"unborn", "reserved"}
        /\ ctl[c] # "none" /\ c \in Foreground => phase[c] = "running"
        /\ phase[c] = "setup" /\ c \in Background => ctl[c] # "none"
        /\ stop.st # "no" /\ c \in stop.running =>
            phase[c] \notin {"unborn", "reserved"} /\ (ctl[c] = "none" => phase[c] \in Over)
        /\ stop.st = "returned" /\ c \in stop.running \ stop.stuck => phase[c] \in Over

RunsInv == RunsTypeOK /\ SlotInv /\ LaneInv /\ StopInv
----------------------------------------------------------------------------

\* Every step keeps the types.
LEMMA TypeStep == RunsInv /\ [RunsNext]_runVars => RunsTypeOK'
<1> SUFFICES ASSUME RunsInv, [RunsNext]_runVars PROVE RunsTypeOK'
  OBVIOUS
<1> USE RunsAssumption DEF RunsInv, RunsTypeOK, Phases, Runs, Background, Over, InFlight
<1>1. CASE \E c \in Children : CallStep(c)
  <2> PICK c \in Children : CallStep(c)
    BY <1>1
  <2>1. CASE Spawn(c)
    BY <2>1 DEF Spawn, TakeSlot
  <2>2. CASE PrepareFails(c)
    BY <2>2 DEF PrepareFails
  <2>3. CASE Launch(c)
    BY <2>3 DEF Launch
  <2>4. CASE SetupFails(c)
    BY <2>4 DEF SetupFails, AfterRun
  <2>5. CASE RunStarts(c)
    BY <2>5 DEF RunStarts
  <2>6. CASE RunEnds(c)
    BY <2>6 DEF RunEnds, AfterRun, LeaveLane, Release
  <2>7. CASE Settled(c)
    BY <2>7 DEF Settled, FreeSlot, Release
  <2>8. CASE Timeout(c)
    BY <2>8 DEF Timeout, Fire
  <2>9. CASE AbortRun(c)
    BY <2>9 DEF AbortRun, Fire, AbortRuns
  <2>10. CASE Resume(c)
    BY <2>10 DEF Resume
  <2>11. CASE ResumeFails(c)
    BY <2>11 DEF ResumeFails
  <2>12. CASE ResumeRuns(c)
    BY <2>12 DEF ResumeRuns
  <2>13. CASE ResumeEnds(c)
    BY <2>13 DEF ResumeEnds, LeaveLane, Release
  <2> QED
    BY <2>1, <2>2, <2>3, <2>4, <2>5, <2>6, <2>7, <2>8, <2>9, <2>10, <2>11, <2>12, <2>13 DEF CallStep
<1>2. CASE TurnAborts
  BY <1>2 DEF TurnAborts, Fire
<1>3. CASE StopChildren
  BY <1>3 DEF StopChildren, AbortRuns, Fire
<1>4. CASE StopReturns
  BY <1>4 DEF StopReturns, Stuck
<1>5. CASE UNCHANGED runVars
  BY <1>5 DEF runVars
<1> QED
  BY <1>1, <1>2, <1>3, <1>4, <1>5 DEF RunsNext

\* A slot given back leaves no more than the cap.
LEMMA FewerSlots ==
    ASSUME RunsTypeOK, SlotInv, NEW c PROVE Cardinality(slots \ {c}) <= Cap
<1>1. IsFiniteSet(slots) /\ Cardinality(slots) \in Nat
  BY RunsAssumption, FS_Subset, FS_CardinalityType DEF RunsTypeOK
<1>2. IsFiniteSet(slots \ {c}) /\ Cardinality(slots \ {c}) \in Nat
  BY <1>1, FS_Subset, FS_CardinalityType
<1>3. Cardinality(slots \ {c}) <= Cardinality(slots)
  BY <1>1, FS_Subset
<1> QED
  BY <1>1, <1>2, <1>3, RunsAssumption DEF SlotInv

\* A slot taken below the cap leaves no more than the cap.
LEMMA OneMoreSlot ==
    ASSUME RunsTypeOK, Cardinality(slots) < Cap, NEW c
    PROVE  Cardinality(slots \cup {c}) <= Cap
<1>1. IsFiniteSet(slots)
  BY RunsAssumption, FS_Subset DEF RunsTypeOK
<1>2. Cardinality(slots) \in Nat
  BY <1>1, FS_CardinalityType
<1>3. Cardinality(slots \cup {c}) = IF c \in slots THEN Cardinality(slots) ELSE Cardinality(slots) + 1
  BY <1>1, FS_AddElement
<1> QED
  BY <1>2, <1>3, RunsAssumption

\* Every step keeps the slots counted.
LEMMA SlotStep == RunsInv /\ [RunsNext]_runVars => SlotInv'
<1> SUFFICES ASSUME RunsInv, [RunsNext]_runVars PROVE SlotInv'
  OBVIOUS
<1> USE RunsAssumption DEF RunsInv, RunsTypeOK, SlotInv, Background
<1>1. CASE \E c \in Children : CallStep(c)
  <2> PICK c \in Children : CallStep(c)
    BY <1>1
  <2>1. CASE Spawn(c)
    <3>1. CASE c \in Foreground
      BY <2>1, <3>1 DEF Spawn, Background
    <3>2. CASE c \notin Foreground
      <4>1. slots' = slots \cup {c} /\ Cardinality(slots) < Cap
        BY <2>1, <3>2 DEF Spawn, TakeSlot
      <4>2. Cardinality(slots \cup {c}) <= Cap
        BY <4>1, OneMoreSlot
      <4> QED
        BY <2>1, <4>1, <4>2 DEF Spawn, RunsTypeOK
    <3> QED
      BY <3>1, <3>2
  <2>2. CASE PrepareFails(c)
    <3>1. Cardinality(slots \ {c}) <= Cap
      BY FewerSlots
    <3> QED
      BY <2>2, <3>1 DEF PrepareFails, RunsTypeOK
  <2>3. CASE Launch(c)
    BY <2>3 DEF Launch
  <2>4. CASE SetupFails(c)
    BY <2>4 DEF SetupFails, AfterRun
  <2>5. CASE RunStarts(c)
    BY <2>5 DEF RunStarts
  <2>6. CASE RunEnds(c)
    BY <2>6 DEF RunEnds, AfterRun, LeaveLane, Release
  <2>7. CASE Settled(c)
    <3>1. Cardinality(slots \ {c}) <= Cap
      BY FewerSlots
    <3> QED
      BY <2>7, <3>1 DEF Settled, FreeSlot, RunsTypeOK
  <2>8. CASE Timeout(c)
    BY <2>8 DEF Timeout, Fire
  <2>9. CASE AbortRun(c)
    BY <2>9 DEF AbortRun, Fire, AbortRuns
  <2>10. CASE Resume(c)
    BY <2>10 DEF Resume
  <2>11. CASE ResumeFails(c)
    BY <2>11 DEF ResumeFails
  <2>12. CASE ResumeRuns(c)
    BY <2>12 DEF ResumeRuns
  <2>13. CASE ResumeEnds(c)
    BY <2>13 DEF ResumeEnds, LeaveLane, Release
  <2> QED
    BY <2>1, <2>2, <2>3, <2>4, <2>5, <2>6, <2>7, <2>8, <2>9, <2>10, <2>11, <2>12, <2>13 DEF CallStep
<1>2. CASE TurnAborts
  BY <1>2 DEF TurnAborts, Fire
<1>3. CASE StopChildren
  BY <1>3 DEF StopChildren, AbortRuns, Fire
<1>4. CASE StopReturns
  BY <1>4 DEF StopReturns, Stuck
<1>5. CASE UNCHANGED runVars
  BY <1>5 DEF runVars
<1> QED
  BY <1>1, <1>2, <1>3, <1>4, <1>5 DEF RunsNext

\* Every step keeps the lanes' owners.
LEMMA LaneStep == RunsInv /\ [RunsNext]_runVars => LaneInv'
<1> SUFFICES ASSUME RunsInv, [RunsNext]_runVars PROVE LaneInv'
  OBVIOUS
<1> USE RunsAssumption DEF RunsInv, RunsTypeOK, LaneInv, Runs
<1>1. CASE \E c \in Children : CallStep(c)
  <2> PICK c \in Children : CallStep(c)
    BY <1>1
  <2>1. CASE Spawn(c)
    BY <2>1 DEF Spawn, TakeSlot
  <2>2. CASE PrepareFails(c)
    BY <2>2 DEF PrepareFails
  <2>3. CASE Launch(c)
    BY <2>3 DEF Launch
  <2>4. CASE SetupFails(c)
    BY <2>4 DEF SetupFails, AfterRun
  <2>5. CASE RunStarts(c)
    BY <2>5 DEF RunStarts
  <2>6. CASE RunEnds(c)
    BY <2>6 DEF RunEnds, AfterRun, LeaveLane, Release
  <2>7. CASE Settled(c)
    BY <2>7 DEF Settled, FreeSlot, Release
  <2>8. CASE Timeout(c)
    BY <2>8 DEF Timeout, Fire
  <2>9. CASE AbortRun(c)
    BY <2>9 DEF AbortRun, Fire, AbortRuns
  <2>10. CASE Resume(c)
    BY <2>10 DEF Resume
  <2>11. CASE ResumeFails(c)
    BY <2>11 DEF ResumeFails
  <2>12. CASE ResumeRuns(c)
    BY <2>12 DEF ResumeRuns
  <2>13. CASE ResumeEnds(c)
    BY <2>13 DEF ResumeEnds, LeaveLane, Release
  <2> QED
    BY <2>1, <2>2, <2>3, <2>4, <2>5, <2>6, <2>7, <2>8, <2>9, <2>10, <2>11, <2>12, <2>13 DEF CallStep
<1>2. CASE TurnAborts
  BY <1>2 DEF TurnAborts, Fire
<1>3. CASE StopChildren
  BY <1>3 DEF StopChildren, AbortRuns, Fire
<1>4. CASE StopReturns
  BY <1>4 DEF StopReturns, Stuck
<1>5. CASE UNCHANGED runVars
  BY <1>5 DEF runVars
<1> QED
  BY <1>1, <1>2, <1>3, <1>4, <1>5 DEF RunsNext

\* Every step keeps what stopChildrenOf relies on.
LEMMA StopStep == RunsInv /\ [RunsNext]_runVars => StopInv'
<1> SUFFICES ASSUME RunsInv, [RunsNext]_runVars PROVE StopInv'
  OBVIOUS
<1> USE RunsAssumption DEF RunsInv, RunsTypeOK, LaneInv, StopInv, Background, Over, Runs, Phases
<1>1. CASE \E c \in Children : CallStep(c)
  <2> PICK c \in Children : CallStep(c)
    BY <1>1
  <2>1. CASE Spawn(c)
    BY <2>1 DEF Spawn, TakeSlot
  <2>2. CASE PrepareFails(c)
    BY <2>2 DEF PrepareFails
  <2>3. CASE Launch(c)
    BY <2>3 DEF Launch
  <2>4. CASE SetupFails(c)
    BY <2>4 DEF SetupFails, AfterRun
  <2>5. CASE RunStarts(c)
    BY <2>5 DEF RunStarts
  <2>6. CASE RunEnds(c)
    BY <2>6 DEF RunEnds, AfterRun, LeaveLane, Release
  <2>7. CASE Settled(c)
    BY <2>7 DEF Settled, FreeSlot, Release
  <2>8. CASE Timeout(c)
    BY <2>8 DEF Timeout, Fire
  <2>9. CASE AbortRun(c)
    BY <2>9 DEF AbortRun, Fire, AbortRuns
  <2>10. CASE Resume(c)
    BY <2>10 DEF Resume
  <2>11. CASE ResumeFails(c)
    BY <2>11 DEF ResumeFails
  <2>12. CASE ResumeRuns(c)
    BY <2>12 DEF ResumeRuns
  <2>13. CASE ResumeEnds(c)
    BY <2>13 DEF ResumeEnds, LeaveLane, Release
  <2> QED
    BY <2>1, <2>2, <2>3, <2>4, <2>5, <2>6, <2>7, <2>8, <2>9, <2>10, <2>11, <2>12, <2>13 DEF CallStep
<1>2. CASE TurnAborts
  BY <1>2 DEF TurnAborts, Fire
<1>3. CASE StopChildren
  BY <1>3 DEF StopChildren, AbortRuns, Fire
<1>4. CASE StopReturns
  BY <1>4 DEF StopReturns, Stuck
<1>5. CASE UNCHANGED runVars
  BY <1>5 DEF runVars
<1> QED
  BY <1>1, <1>2, <1>3, <1>4, <1>5 DEF RunsNext

\* The initial state satisfies the invariant.
LEMMA RunsInvInit == RunsInit => RunsInv
<1> SUFFICES ASSUME RunsInit PROVE RunsInv
  OBVIOUS
<1>1. Cardinality({}) = 0
  BY FS_EmptySet
<1>2. RunsTypeOK
  BY DEF RunsInit, RunsTypeOK, Phases, Runs, NoStop
<1>3. SlotInv
  BY <1>1, RunsAssumption DEF RunsInit, SlotInv, Background
<1>4. LaneInv /\ StopInv
  BY DEF RunsInit, LaneInv, StopInv, NoStop
<1> QED
  BY <1>2, <1>3, <1>4 DEF RunsInv

\* The invariant holds throughout.
THEOREM RunsInvariant == RunsSpec => []RunsInv
<1>1. RunsInit => RunsInv
  BY RunsInvInit
<1>2. RunsInv /\ [RunsNext]_runVars => RunsInv'
  BY TypeStep, SlotStep, LaneStep, StopStep DEF RunsInv
<1> QED
  BY <1>1, <1>2, PTL DEF RunsSpec

\* spawnSubagent keeps background children within the cap, for every cap and any
\* number of children.
THEOREM CapHolds == RunsSpec => []RunsWithinCap
<1>1. RunsInv => RunsWithinCap
  <2> SUFFICES ASSUME RunsInv PROVE RunsWithinCap
    OBVIOUS
  <2>1. IsFiniteSet(slots) /\ Cardinality(slots) \in Nat
    BY RunsAssumption, FS_Subset, FS_CardinalityType DEF RunsInv, RunsTypeOK
  <2>2. InFlight \ Foreground \subseteq slots
    BY DEF RunsInv, SlotInv, Background, InFlight
  <2>3. /\ IsFiniteSet(InFlight \ Foreground)
        /\ Cardinality(InFlight \ Foreground) <= Cardinality(slots)
    BY <2>1, <2>2, FS_Subset
  <2>4. Cardinality(InFlight \ Foreground) \in Nat
    BY <2>3, FS_CardinalityType
  <2> QED
    BY <2>1, <2>3, <2>4, RunsAssumption DEF RunsInv, SlotInv, RunsWithinCap
<1> QED
  BY <1>1, RunsInvariant, PTL

\* A child that stopChildrenOf waited for and does not report has left its lane,
\* whenever it looked and whatever ended the run, unless the child was continued.
THEOREM StopTellsTheTruth == RunsSpec => []StoppedMeansStopped
<1>1. RunsInv => StoppedMeansStopped
  BY DEF RunsInv, RunsTypeOK, LaneInv, StopInv, Over, Runs, StoppedMeansStopped
<1> QED
  BY <1>1, RunsInvariant, PTL

----------------------------------------------------------------------------
(* SubagentNotices. *)

FlushState == [st : {"idle", "reading", "loop", "delivering", "dropping"},
               call : Calls \cup {"none"}, todo : SUBSET Calls]

ParentState == [state : {"attached", "detached", "deleted"},
                lane : [op : {"idle", "run", "compaction"},
                        by : Deliverers \cup {"user", "none"}]]

\* Every variable holds a value of its kind.
NoticesTypeOK ==
    /\ stage \in [Calls -> Stages]
    /\ pending \in SUBSET Calls
    /\ queue \in Seq(Job)
    /\ dl \in [Deliverers -> Delivery]
    /\ flush \in [Flushers -> FlushState]
    /\ parent \in ParentState
    /\ late \in [Calls -> Nat]

\* A queued job is awaited by the sequence or the flush that queued it, and
\* is its only one; a clear is queued once its notice was delivered.
Awaited(at, fl, j) ==
    \/ /\ j.by \in Calls /\ j.call = j.by
       /\ \/ j.op \in {"add", "addIfAbsent"} /\ at[j.by] = "recording"
          \/ j.op = "clear" /\ at[j.by] = "dropping"
    \/ /\ j.by \in Flushers
       /\ \/ j.op = "read" /\ fl[j.by].st = "reading"
          \/ j.op = "clear" /\ fl[j.by].st = "dropping" /\ j.call = fl[j.by].call

JobsAwaited ==
    /\ \A i \in DOMAIN queue : Awaited(stage, flush, queue[i])
    /\ \A i, k \in DOMAIN queue : queue[i].by = queue[k].by => i = k

ClearsTold == \A i \in DOMAIN queue : queue[i].op = "clear" => queue[i].call \in told

\* Only the head of the queue has read, and nothing was written since.
ReadIsCurrent ==
    parent.state # "deleted" =>
        \A i \in DOMAIN queue : queue[i].read => i = 1 /\ queue[i].snap = pending

\* A delivery under way belongs to a sequence or a flush that waits for it.
DeliveriesAwaited ==
    /\ \A c \in Calls : dl[c] # "off" => stage[c] = "delivering"
    /\ \A f \in Flushers : dl[f] # "off" => flush[f].st = "delivering"
    /\ parent.lane.by \in Deliverers => dl[parent.lane.by] = "turn"

\* flushingParents: one flush at a time.
Busy(f) == flush[f].st # "idle"

OneFlush ==
    /\ \A f \in Flushers : Busy(f) => flushing
    /\ \A f, g \in Flushers : Busy(f) /\ Busy(g) => f = g
    /\ \A f \in Flushers : ~Busy(f) => flush[f].todo = {}

Speaks(f, c) == flush[f].st \in {"delivering", "dropping"} /\ flush[f].call = c

FlushCalls ==
    \A f \in Flushers :
        flush[f].st \in {"delivering", "dropping"} => flush[f].call \in Calls \ flush[f].todo

Early(c) == stage[c] \in {"running", "settling", "recording"}

\* A notice a flush delivered is still recorded only while that flush waits
\* for its clear; no flush has it before it.
Once ==
    \A c \in Calls : late[c] # 0 =>
        /\ c \in pending => \E f \in Flushers : flush[f].st = "dropping" /\ flush[f].call = c
        /\ \A f \in Flushers : c \notin flush[f].todo
        /\ \A f \in Flushers : flush[f].st = "delivering" => flush[f].call # c

\* A notice is known to nobody before its settle sequence recorded it.
NotYet ==
    \A c \in Calls : Early(c) =>
        /\ late[c] = 0 /\ c \notin pending
        /\ \A f \in Flushers : c \notin flush[f].todo /\ ~Speaks(f, c)

NoticesInv ==
    /\ NoticesTypeOK /\ JobsAwaited /\ ClearsTold /\ ReadIsCurrent
    /\ DeliveriesAwaited /\ OneFlush /\ FlushCalls /\ FlushedOnce /\ Once /\ NotYet

\* What a step of d may leave alone: the other sequences and flushes.
OthersKept(d) ==
    /\ \A c \in Calls : c # d => stage'[c] = stage[c]
    /\ \A f \in Flushers : f # d => flush'[f] = flush[f]

\* The queue with a job at its end, and without its head.
LEMMA Appended ==
    ASSUME NEW q \in Seq(Job), NEW j \in Job
    PROVE  /\ Append(q, j) \in Seq(Job)
           /\ \A i \in DOMAIN Append(q, j) :
                 \/ i \in DOMAIN q /\ Append(q, j)[i] = q[i]
                 \/ i = Len(q) + 1 /\ Append(q, j)[i] = j
  OBVIOUS

\* What is left of the queue are its other jobs, one place further up.
LEMMA HeadRemoved ==
    ASSUME queue \in Seq(Job), queue # <<>>
    PROVE  /\ 1 \in DOMAIN queue
           /\ Without(1) \in Seq(Job)
           /\ \A i \in DOMAIN Without(1) :
                 i + 1 \in DOMAIN queue /\ i + 1 # 1 /\ Without(1)[i] = queue[i + 1]
<1>1. Len(queue) \in Nat /\ Len(queue) # 0 /\ DOMAIN queue = 1..Len(queue)
  OBVIOUS
<1>2. \A k \in 1..(Len(queue) - 1) : k + 1 \in 1..Len(queue) /\ ~(k < 1)
  BY <1>1
<1>3. Without(1) = [k \in 1..(Len(queue) - 1) |-> queue[k + 1]]
  BY <1>2 DEF Without
<1>4. \A k \in 1..(Len(queue) - 1) : queue[k + 1] \in Job
  BY <1>1, <1>2
<1>5. Without(1) \in [1..(Len(queue) - 1) -> Job]
  BY <1>3, <1>4
<1>6. Len(queue) - 1 \in Nat
  BY <1>1
<1> QED
  BY <1>1, <1>2, <1>3, <1>5, <1>6

\* Only a sequence or a flush that waits for a job has one in the queue.
LEMMA NoJobYet ==
    ASSUME NoticesTypeOK, JobsAwaited, NEW d \in Deliverers,
           d \in Calls => stage[d] \notin {"recording", "dropping"},
           d \in Flushers => flush[d].st \notin {"reading", "dropping"}
    PROVE  \A i \in DOMAIN queue : queue[i].by # d
  BY NoticesAssumption DEF JobsAwaited, Awaited, Deliverers

\* A step of d takes nothing from what the others wait for.
LEMMA StillAwaited ==
    ASSUME NEW d, OthersKept(d), NEW j, j.by # d, Awaited(stage, flush, j)
    PROVE  Awaited(stage', flush', j)
  BY DEF OthersKept, Awaited

\* d queues its job.
LEMMA QueueGrows ==
    ASSUME NoticesTypeOK, JobsAwaited, NEW d, NEW j \in Job, j.by = d,
           \A i \in DOMAIN queue : queue[i].by # d,
           OthersKept(d), Awaited(stage', flush', j), queue' = Append(queue, j)
    PROVE  queue' \in Seq(Job) /\ JobsAwaited'
<1>1. queue \in Seq(Job)
  BY DEF NoticesTypeOK
<1>2. queue' \in Seq(Job)
  BY <1>1, Appended
<1>3. \A i \in DOMAIN queue' : \/ i \in DOMAIN queue /\ queue'[i] = queue[i]
                               \/ i = Len(queue) + 1 /\ queue'[i] = j
  BY <1>1, Appended
<1>4. \A i \in DOMAIN queue : Awaited(stage', flush', queue[i])
  BY StillAwaited DEF JobsAwaited
<1>5. \A i \in DOMAIN queue' : Awaited(stage', flush', queue'[i])
  BY <1>3, <1>4
<1>6. ASSUME NEW i \in DOMAIN queue', NEW k \in DOMAIN queue', queue'[i].by = queue'[k].by
      PROVE  i = k
  BY <1>3, <1>6 DEF JobsAwaited
<1> QED
  BY <1>2, <1>5, <1>6 DEF JobsAwaited

\* The job at the head returns to the one that queued it.
LEMMA QueueShrinks ==
    ASSUME NoticesTypeOK, JobsAwaited, queue # <<>>, queue' = Without(1),
           OthersKept(queue[1].by)
    PROVE  queue' \in Seq(Job) /\ JobsAwaited'
<1>1. queue \in Seq(Job)
  BY DEF NoticesTypeOK
<1>2. /\ queue' \in Seq(Job) /\ 1 \in DOMAIN queue
      /\ \A i \in DOMAIN queue' : i + 1 \in DOMAIN queue /\ i + 1 # 1 /\ queue'[i] = queue[i + 1]
  BY <1>1, HeadRemoved
<1>3. \A i \in DOMAIN queue' : queue'[i].by # queue[1].by
  BY <1>2 DEF JobsAwaited
<1>4. \A i \in DOMAIN queue' : Awaited(stage', flush', queue'[i])
  BY <1>2, <1>3, StillAwaited DEF JobsAwaited
<1>5. ASSUME NEW i \in DOMAIN queue', NEW k \in DOMAIN queue', queue'[i].by = queue'[k].by
      PROVE  i = k
  <2>1. i + 1 = k + 1
    BY <1>2, <1>5 DEF JobsAwaited
  <2>2. i \in Nat /\ k \in Nat
    BY <1>2
  <2> QED
    BY <2>1, <2>2
<1> QED
  BY <1>2, <1>4, <1>5 DEF JobsAwaited

\* d moves on, with no job in the queue.
LEMMA QueueKept ==
    ASSUME NoticesTypeOK, JobsAwaited, NEW d,
           \A i \in DOMAIN queue : queue[i].by # d,
           OthersKept(d), queue' = queue
    PROVE  queue' \in Seq(Job) /\ JobsAwaited'
<1>1. \A i \in DOMAIN queue : Awaited(stage', flush', queue[i])
  BY StillAwaited DEF JobsAwaited
<1> QED
  BY <1>1 DEF JobsAwaited, NoticesTypeOK

\* A sequence that has not recorded its notice moves on: ChildEnds, WriteResult.
LEMMA SettleKeeps ==
    ASSUME NoticesInv, NEW c \in Calls,
           (\E throws \in BOOLEAN : ChildEnds(c, throws)) \/ WriteResult(c)
    PROVE  NoticesInv'
<1> USE NoticesAssumption DEF NoticesInv
<1>1. /\ stage[c] \in {"running", "settling"}
      /\ stage' = [stage EXCEPT ![c] = "settling"] \/ stage' = [stage EXCEPT ![c] = "recording"]
      /\ UNCHANGED <<pending, dl, flush, flushing, parent, told, late>>
  BY DEF ChildEnds, WriteResult, bounds
<1>2. /\ stage' \in [Calls -> Stages] /\ OthersKept(c) /\ Early(c) /\ Early(c)'
      /\ \A d \in Calls : d # c => stage'[d] = stage[d]
  BY <1>1 DEF NoticesTypeOK, Stages, OthersKept, Early
<1>3. c \in Deliverers /\ c \notin Flushers
  BY DEF Deliverers
<1>4. \A i \in DOMAIN queue : queue[i].by # c
  BY <1>1, <1>3, NoJobYet
<1>5. PICK op \in {"add", "addIfAbsent", "none"} :
         \/ op = "none" /\ queue' = queue
         \/ op # "none" /\ stage'[c] = "recording" /\ queue' = Append(queue, JobFor(op, c, c))
  BY DEF ChildEnds, WriteResult, NoticesTypeOK
<1>6. /\ queue' \in Seq(Job) /\ JobsAwaited'
      /\ \A i \in DOMAIN queue' : \/ i \in DOMAIN queue /\ queue'[i] = queue[i]
                                  \/ queue'[i].op # "clear" /\ ~queue'[i].read
  <2>1. CASE op = "none"
    BY <1>2, <1>4, <1>5, <2>1, QueueKept
  <2>2. CASE op # "none"
    <3> DEFINE j == JobFor(op, c, c)
    <3>1. j \in Job /\ j.by = c /\ j.op # "clear" /\ ~j.read
      BY <1>3, <2>2 DEF JobFor, Job
    <3>2. Awaited(stage', flush', j)
      BY <1>5, <2>2 DEF Awaited, JobFor
    <3>3. queue' = Append(queue, j)
      BY <1>5, <2>2
    <3> HIDE DEF j
    <3>4. queue' \in Seq(Job) /\ JobsAwaited'
      BY <1>2, <1>4, <3>1, <3>2, <3>3, QueueGrows
    <3>5. \A i \in DOMAIN queue' : \/ i \in DOMAIN queue /\ queue'[i] = queue[i]
                                   \/ i = Len(queue) + 1 /\ queue'[i] = j
      BY <3>1, <3>3, Appended DEF NoticesTypeOK
    <3> QED
      BY <3>1, <3>4, <3>5
  <2> QED
    BY <2>1, <2>2
<1>7. NoticesTypeOK' /\ ClearsTold' /\ ReadIsCurrent'
  BY <1>1, <1>2, <1>6 DEF NoticesTypeOK, ClearsTold, ReadIsCurrent
<1>8. DeliveriesAwaited' /\ OneFlush' /\ FlushCalls' /\ FlushedOnce'
  BY <1>1, <1>2 DEF DeliveriesAwaited, OneFlush, Busy, FlushCalls, FlushedOnce
<1>9. Once' /\ NotYet'
  BY <1>1, <1>2 DEF Once, NotYet, Early, Speaks
<1> QED
  BY <1>6, <1>7, <1>8, <1>9

\* Steps of a delivery and of the lane after which the delivery goes on.
LEMMA DeliveryKeeps ==
    ASSUME NoticesInv,
           UNCHANGED <<stage, pending, queue, flush, flushing, told, late>>,
           parent' \in ParentState, parent'.state = parent.state,
           dl' \in [Deliverers -> Delivery],
           \A d \in Deliverers : dl'[d] # "off" => dl[d] # "off",
           parent'.lane.by \in Deliverers => dl'[parent'.lane.by] = "turn"
    PROVE  NoticesInv'
<1> USE DEF NoticesInv
<1>1. NoticesTypeOK' /\ JobsAwaited' /\ ClearsTold' /\ ReadIsCurrent'
  BY DEF NoticesTypeOK, JobsAwaited, ClearsTold, ReadIsCurrent
<1>2. DeliveriesAwaited'
  BY DEF DeliveriesAwaited, Deliverers
<1>3. OneFlush' /\ FlushCalls' /\ FlushedOnce' /\ Once' /\ NotYet'
  BY DEF OneFlush, Busy, FlushCalls, FlushedOnce, Once, NotYet, Early, Speaks
<1> QED
  BY <1>1, <1>2, <1>3

\* A delivery that is over, landed or not, whatever becomes of the lane.
LEMMA ReturnKeeps ==
    ASSUME NoticesInv, NEW d \in Deliverers, NEW landed \in BOOLEAN,
           dl[d] # "off", Returns(d, landed), pending' = pending,
           parent' \in ParentState, parent'.state = parent.state,
           parent'.lane.by \in Deliverers =>
              parent'.lane.by # d /\ dl[parent'.lane.by] = "turn"
    PROVE  NoticesInv'
<1> USE NoticesAssumption DEF NoticesInv
<1>t. /\ stage \in [Calls -> Stages] /\ flush \in [Flushers -> FlushState]
      /\ queue \in Seq(Job) /\ late \in [Calls -> Nat] /\ dl \in [Deliverers -> Delivery]
  BY DEF NoticesTypeOK
<1>1. /\ d \in Calls => d \notin Flushers /\ stage[d] = "delivering"
      /\ d \in Flushers => d \notin Calls /\ flush[d].st = "delivering"
      /\ d \in Calls \/ d \in Flushers
  BY DEF DeliveriesAwaited, Deliverers
<1>2. \A i \in DOMAIN queue : queue[i].by # d
  BY <1>1, NoJobYet
<1>3. About(d) \in Calls
  BY <1>1 DEF About, FlushCalls
<1>d. dl' \in [Deliverers -> Delivery] /\ dl'[d] = "off" /\ \A e \in Deliverers : e # d => dl'[e] = dl[e]
  BY <1>t DEF Returns, Delivery
<1>4. CASE d \in Calls
  <2>1. stage'[d] \in {"dropping", "done"} /\ (landed => stage'[d] = "dropping")
    BY <1>t, <1>1, <1>4 DEF Returns
  <2>2. stage' \in [Calls -> Stages] /\ \A c \in Calls : c # d => stage'[c] = stage[c]
    BY <1>t, <1>1, <1>4 DEF Returns, Stages
  <2>3. UNCHANGED <<flush, flushing, late>>
    BY <1>1, <1>4 DEF Returns
  <2>4. OthersKept(d)
    BY <2>2, <2>3 DEF OthersKept
  <2>5. /\ queue' \in Seq(Job) /\ JobsAwaited' /\ ClearsTold' /\ ReadIsCurrent'
    <3>1. CASE ~landed
      <4>1. queue' = queue /\ told' = told
        BY <3>1 DEF Returns
      <4>2. queue' \in Seq(Job) /\ JobsAwaited'
        BY <1>2, <2>4, <4>1, QueueKept
      <4> QED
        BY <4>1, <4>2 DEF ClearsTold, ReadIsCurrent
    <3>2. CASE landed
      <4> DEFINE j == JobFor("clear", d, d)
      <4>1. j \in Job /\ j.by = d /\ j.op = "clear" /\ j.call = d /\ ~j.read
        BY <1>4 DEF JobFor, Job, Deliverers
      <4>2. queue' = Append(queue, j) /\ told' = told \cup {d}
        BY <1>4, <3>2 DEF Returns, About
      <4>3. Awaited(stage', flush', j)
        BY <1>4, <2>1, <3>2 DEF Awaited, JobFor
      <4> HIDE DEF j
      <4>4. queue' \in Seq(Job) /\ JobsAwaited'
        BY <1>2, <2>4, <4>1, <4>2, <4>3, QueueGrows
      <4>5. \A i \in DOMAIN queue' : \/ i \in DOMAIN queue /\ queue'[i] = queue[i]
                                     \/ i = Len(queue) + 1 /\ queue'[i] = j
        BY <1>t, <4>1, <4>2, Appended
      <4> QED
        BY <4>1, <4>2, <4>4, <4>5 DEF ClearsTold, ReadIsCurrent
    <3> QED
      BY <3>1, <3>2
  <2>6. NoticesTypeOK'
    BY <1>d, <2>2, <2>3, <2>5 DEF NoticesTypeOK
  <2>7. DeliveriesAwaited'
    BY <1>d, <1>4, <2>2, <2>3 DEF DeliveriesAwaited, Deliverers
  <2>8. OneFlush' /\ FlushCalls' /\ FlushedOnce' /\ Once'
    BY <2>3 DEF OneFlush, Busy, FlushCalls, FlushedOnce, Once
  <2>9. NotYet'
    BY <2>1, <2>2, <2>3 DEF NotYet, Early, Speaks
  <2> QED
    BY <2>5, <2>6, <2>7, <2>8, <2>9
<1>5. CASE d \in Flushers
  <2> DEFINE c == flush[d].call
  <2>0. c \in Calls /\ c \notin flush[d].todo /\ About(d) = c
    BY <1>1, <1>5 DEF FlushCalls, About
  <2>1. stage' = stage
    BY <1>1, <1>5 DEF Returns
  <2>2. CASE ~landed
    <3>1. flush' = [flush EXCEPT ![d] = IdleFlush] /\ flushing' = FALSE
          /\ UNCHANGED <<queue, told, late>>
      BY <1>1, <1>5, <2>2 DEF Returns, FlushOver
    <3>2. IdleFlush \in FlushState /\ IdleFlush.st = "idle" /\ IdleFlush.todo = {}
      BY DEF IdleFlush, FlushState
    <3>3. /\ flush' \in [Flushers -> FlushState] /\ flush'[d] = IdleFlush
          /\ \A f \in Flushers : f # d => flush'[f] = flush[f]
      BY <1>t, <1>5, <3>1, <3>2
    <3>4. OthersKept(d)
      BY <2>1, <3>3 DEF OthersKept
    <3>5. queue' \in Seq(Job) /\ JobsAwaited'
      BY <1>2, <3>1, <3>4, QueueKept
    <3>6. \A f \in Flushers : Busy(f) => f = d
      BY <1>1, <1>5 DEF OneFlush, Busy
    <3>7. \A f \in Flushers : flush'[f].st = "idle" /\ flush'[f].todo = {}
      BY <3>2, <3>3, <3>6 DEF OneFlush, Busy
    <3>8. NoticesTypeOK' /\ ClearsTold' /\ ReadIsCurrent'
      BY <1>d, <2>1, <3>1, <3>3, <3>5 DEF NoticesTypeOK, ClearsTold, ReadIsCurrent
    <3>9. DeliveriesAwaited'
      BY <1>d, <1>1, <1>5, <2>1, <3>3 DEF DeliveriesAwaited, Deliverers
    <3>10. OneFlush' /\ FlushCalls' /\ FlushedOnce'
      BY <3>1, <3>7 DEF OneFlush, Busy, FlushCalls, FlushedOnce
    <3>11. \A e \in Calls : late[e] # 0 /\ e \in pending => FALSE
      BY <1>1, <1>5, <3>6 DEF Once, Busy
    <3>12. Once' /\ NotYet'
      BY <2>1, <3>1, <3>7, <3>11 DEF Once, NotYet, Early, Speaks
    <3> QED
      BY <3>5, <3>8, <3>9, <3>10, <3>12
  <2>3. CASE landed
    <3>1. /\ flush' = [flush EXCEPT ![d].st = "dropping"]
          /\ late' = [late EXCEPT ![c] = @ + 1] /\ told' = told \cup {c}
          /\ flushing' = flushing /\ queue' = Append(queue, JobFor("clear", c, d))
      BY <1>1, <1>5, <2>0, <2>3 DEF Returns
    <3>2. /\ flush' \in [Flushers -> FlushState]
          /\ flush'[d].st = "dropping" /\ flush'[d].call = c /\ flush'[d].todo = flush[d].todo
          /\ \A f \in Flushers : f # d => flush'[f] = flush[f]
      BY <1>t, <1>5, <3>1 DEF FlushState
    <3>3. OthersKept(d)
      BY <2>1, <3>2 DEF OthersKept
    <3> DEFINE j == JobFor("clear", c, d)
    <3>4. j \in Job /\ j.by = d /\ j.op = "clear" /\ j.call = c /\ ~j.read
      BY <1>5, <2>0 DEF JobFor, Job, Deliverers
    <3>5. Awaited(stage', flush', j)
      BY <1>5, <3>2, <3>4 DEF Awaited
    <3>6. queue' = Append(queue, j)
      BY <3>1
    <3> HIDE DEF j
    <3>7. queue' \in Seq(Job) /\ JobsAwaited'
      BY <1>2, <3>3, <3>4, <3>5, <3>6, QueueGrows
    <3>8. \A i \in DOMAIN queue' : \/ i \in DOMAIN queue /\ queue'[i] = queue[i]
                                   \/ i = Len(queue) + 1 /\ queue'[i] = j
      BY <1>t, <3>4, <3>6, Appended
    <3>9. ClearsTold' /\ ReadIsCurrent'
      BY <3>1, <3>4, <3>8 DEF ClearsTold, ReadIsCurrent
    <3> HIDE DEF c
    <3>10. late[c] = 0
      <4>1. flush[d].st = "delivering" /\ flush[d].call = c
        BY <1>1, <1>5 DEF c
      <4> QED
        BY <1>5, <2>0, <4>1 DEF Once
    <3>11. /\ late' \in [Calls -> Nat] /\ late'[c] = 1
           /\ \A e \in Calls : e # c => late'[e] = late[e]
      BY <1>t, <2>0, <3>1, <3>10
    <3>12. NoticesTypeOK'
      BY <1>d, <1>t, <2>1, <3>2, <3>7, <3>11 DEF NoticesTypeOK
    <3>13. DeliveriesAwaited'
      BY <1>d, <1>1, <1>5, <2>1, <3>2 DEF DeliveriesAwaited, Deliverers
    <3>14. OneFlush'
      BY <1>1, <1>5, <3>1, <3>2 DEF OneFlush, Busy
    <3>15. FlushCalls' /\ FlushedOnce'
      BY <1>5, <2>0, <3>2, <3>11 DEF FlushCalls, FlushedOnce, c
    <3>16. \A f \in Flushers : f # d => flush[f].st = "idle" /\ flush[f].todo = {}
      BY <1>1, <1>5 DEF OneFlush, Busy
    <3>17. Once'
      BY <1>1, <1>5, <2>0, <3>2, <3>11, <3>16 DEF Once, c
    <3>18. NotYet'
      <4>1. \A e \in Calls : Early(e) => e # c
        BY <1>1, <1>5 DEF NotYet, Speaks, c
      <4> QED
        BY <1>5, <2>1, <3>2, <3>11, <3>16, <4>1 DEF NotYet, Speaks, Early
    <3> QED
      BY <3>7, <3>9, <3>12, <3>13, <3>14, <3>15, <3>17, <3>18
  <2> QED
    BY <2>2, <2>3
<1> QED
  BY <1>1, <1>4, <1>5

\* A flush takes its next entry, or is over.
LEMMA FlushNextKeeps ==
    ASSUME NoticesInv, NEW f \in Flushers, FlushNext(f)
    PROVE  NoticesInv'
<1> USE NoticesAssumption DEF NoticesInv
<1>t. /\ flush \in [Flushers -> FlushState] /\ dl \in [Deliverers -> Delivery]
      /\ f \in Deliverers /\ f \notin Calls
  BY DEF NoticesTypeOK, Deliverers
<1>1. /\ flush[f].st = "loop" /\ UNCHANGED <<stage, pending, queue, parent, told, late>>
      /\ \A g \in Flushers : g # f => flush[g].st = "idle" /\ flush[g].todo = {}
  BY DEF FlushNext, OneFlush, Busy
<1>2. \A e \in Calls : late[e] # 0 => e \notin pending
  BY <1>1 DEF Once
<1>3. \A i \in DOMAIN queue : queue[i].by # f
  BY <1>t, <1>1, NoJobYet
<1>4. PICK r \in FlushState :
        /\ flush' = [flush EXCEPT ![f] = r]
        /\ \/ r = IdleFlush /\ flushing' = FALSE /\ dl' = dl
           \/ /\ r.st = "delivering" /\ r.call \in flush[f].todo
              /\ r.todo = flush[f].todo \ {r.call}
              /\ dl' = [dl EXCEPT ![f] = "prompt"] /\ flushing' = flushing
  <2>1. CASE FlushOver(f) /\ UNCHANGED dl
    <3>1. IdleFlush \in FlushState
      BY DEF IdleFlush, FlushState
    <3> QED
      BY <2>1, <3>1 DEF FlushOver
  <2>2. CASE ~(FlushOver(f) /\ UNCHANGED dl)
    <3>1. PICK c \in flush[f].todo :
             flush' = [flush EXCEPT ![f] =
                    [st |-> "delivering", call |-> c, todo |-> @.todo \ {c}]]
      BY <2>2 DEF FlushNext
    <3>2. [st |-> "delivering", call |-> c, todo |-> flush[f].todo \ {c}] \in FlushState
      BY <1>t DEF FlushState
    <3>3. dl' = [dl EXCEPT ![f] = "prompt"] /\ flushing' = flushing
      BY <2>2 DEF FlushNext
    <3> QED
      BY <3>1, <3>2, <3>3
  <2> QED
    BY <2>1, <2>2
<1>5. /\ flush' \in [Flushers -> FlushState] /\ flush'[f] = r
      /\ \A g \in Flushers : g # f => flush'[g] = flush[g]
  BY <1>t, <1>4
<1>6. OthersKept(f)
  BY <1>1, <1>5 DEF OthersKept
<1>7. queue' \in Seq(Job) /\ JobsAwaited'
  BY <1>1, <1>3, <1>6, QueueKept
<1>8. dl' \in [Deliverers -> Delivery] /\ \A d \in Deliverers : d # f => dl'[d] = dl[d]
  BY <1>t, <1>4 DEF Delivery
<1>9. NoticesTypeOK' /\ ClearsTold' /\ ReadIsCurrent' /\ FlushedOnce'
  BY <1>1, <1>5, <1>7, <1>8 DEF NoticesTypeOK, ClearsTold, ReadIsCurrent, FlushedOnce
<1>10. dl[f] = "off"
  BY <1>1 DEF DeliveriesAwaited
<1>11. DeliveriesAwaited'
  BY <1>t, <1>1, <1>4, <1>5, <1>8, <1>10 DEF DeliveriesAwaited, Deliverers
<1>12. OneFlush' /\ FlushCalls'
  <2>1. r = IdleFlush => r.st = "idle" /\ r.todo = {}
    BY DEF IdleFlush
  <2>2. flush[f].todo \subseteq Calls
    BY <1>t DEF FlushState
  <2> QED
    BY <1>1, <1>4, <1>5, <2>1, <2>2 DEF OneFlush, Busy, FlushCalls
<1>13. Once' /\ NotYet'
  <2>1. r = IdleFlush => r.st = "idle" /\ r.todo = {}
    BY DEF IdleFlush
  <2> QED
    BY <1>1, <1>2, <1>4, <1>5, <2>1 DEF Once, NotYet, Early, Speaks
<1> QED
  BY <1>7, <1>9, <1>11, <1>12, <1>13

\* A job reads the record.
LEMMA JobReadsKeeps ==
    ASSUME NoticesInv, NEW i, JobReads(i)
    PROVE  NoticesInv'
<1> USE DEF NoticesInv
<1>1. queue \in Seq(Job) /\ queue # <<>> /\ i = 1
  BY DEF NoticesTypeOK, JobReads, Serving
<1>2. 1 \in DOMAIN queue
  BY <1>1
<1> DEFINE r == [queue[1] EXCEPT !.read = TRUE, !.snap = pending, !.slot = ~Attached]
<1> DEFINE sl == ~Attached
<1>3. sl \in BOOLEAN
  OBVIOUS
<1>4. queue' = [queue EXCEPT ![1].read = TRUE, ![1].snap = pending, ![1].slot = sl]
  BY <1>1 DEF JobReads
<1> HIDE DEF sl
<1>5. /\ queue'[1] \in Job
      /\ queue'[1].op = queue[1].op /\ queue'[1].call = queue[1].call
      /\ queue'[1].by = queue[1].by /\ queue'[1].snap = pending
  <2>1. queue[1] \in Job
    BY <1>1, <1>2
  <2> QED
    BY <1>2, <1>3, <1>4, <2>1 DEF Job, NoticesTypeOK
<1>6. /\ Len(queue') = Len(queue) /\ DOMAIN queue' = DOMAIN queue
      /\ \A k \in DOMAIN queue : k # 1 => queue'[k] = queue[k]
  BY <1>1, <1>4
<1>7. queue' \in Seq(Job)
  <2>1. \A k \in DOMAIN queue : queue'[k] \in Job
    BY <1>1, <1>5, <1>6
  <2>2. queue' = [k \in DOMAIN queue |-> queue'[k]]
    BY <1>4
  <2> QED
    BY <1>1, <2>1, <2>2
<1>8. UNCHANGED <<stage, pending, dl, flush, flushing, parent, told, late>>
  BY DEF JobReads
<1>9. NoticesTypeOK' /\ ClearsTold' /\ ReadIsCurrent'
  BY <1>5, <1>6, <1>7, <1>8 DEF NoticesTypeOK, ClearsTold, ReadIsCurrent
<1>10. JobsAwaited'
  <2>1. \A k \in DOMAIN queue : Awaited(stage, flush, queue[k]) => Awaited(stage, flush, queue'[k])
    BY <1>5, <1>6 DEF Awaited
  <2>2. \A k \in DOMAIN queue : queue'[k].by = queue[k].by
    BY <1>5, <1>6
  <2> QED
    BY <1>6, <1>8, <2>1, <2>2 DEF JobsAwaited
<1>11. /\ DeliveriesAwaited' /\ OneFlush' /\ FlushCalls' /\ FlushedOnce' /\ Once' /\ NotYet'
  BY <1>8 DEF DeliveriesAwaited, OneFlush, Busy, FlushCalls, FlushedOnce, Once, NotYet, Early, Speaks
<1> QED
  BY <1>9, <1>10, <1>11

\* A job is over and its caller goes on.  What it did to the record and to
\* the count is: nothing, a clear of its own notice, or the first record of it.
LEMMA JobReturnsKeeps ==
    ASSUME NoticesInv, queue # <<>>, queue' = Without(1),
           NEW got \in SUBSET Calls, JobReturns(queue[1], got),
           got \subseteq pending,
           UNCHANGED <<parent, told>>,
           pending' \in SUBSET Calls, late' \in [Calls -> Nat],
           \A c \in Calls : late'[c] \in {0, late[c]},
           pending' \subseteq pending
              \/ (queue[1].by \in Calls /\ queue[1].op # "clear"
                  /\ pending' \subseteq pending \cup {queue[1].by}),
           queue[1].op = "clear" /\ queue[1].by \in Flushers =>
               queue[1].call \notin pending' \/ late'[queue[1].call] = 0
    PROVE  NoticesInv'
<1> USE NoticesAssumption DEF NoticesInv
<1> DEFINE j == queue[1]
<1>t. /\ queue \in Seq(Job) /\ stage \in [Calls -> Stages] /\ flush \in [Flushers -> FlushState]
      /\ dl \in [Deliverers -> Delivery] /\ late \in [Calls -> Nat]
  BY DEF NoticesTypeOK
<1>1. 1 \in DOMAIN queue /\ j \in Job
  BY <1>t
<1>2. Awaited(stage, flush, j)
  BY <1>1 DEF JobsAwaited
<1>3. /\ \A i \in DOMAIN queue' : i + 1 \in DOMAIN queue /\ i + 1 # 1 /\ queue'[i] = queue[i + 1]
  BY <1>t, HeadRemoved
<1>4. ClearsTold' /\ ReadIsCurrent'
  BY <1>3 DEF ClearsTold, ReadIsCurrent
<1>q. OthersKept(j.by) => queue' \in Seq(Job) /\ JobsAwaited'
  BY QueueShrinks
<1> HIDE DEF j
<1>l. FlushedOnce'
  BY DEF FlushedOnce
<1>5. CASE j.by \in Calls
  <2> DEFINE c == j.by
  <2>1. c \in Calls /\ c \notin Flushers /\ c \in Deliverers /\ j.call = c
    BY <1>2, <1>5 DEF Awaited, Deliverers
  <2>2. UNCHANGED <<flush, flushing>>
    BY <1>5 DEF JobReturns, AfterRecord, j
  <2>3. /\ \A e \in Calls : e # c => stage'[e] = stage[e]
        /\ stage' \in [Calls -> Stages]
        /\ stage'[c] \in {"delivering", "done"}
        /\ dl' \in [Deliverers -> Delivery]
        /\ \A d \in Deliverers : d # c => dl'[d] = dl[d]
        /\ dl'[c] # "off" => dl[c] # "off" \/ stage'[c] = "delivering"
    <3>1. CASE j.op = "clear"
      <4>1. stage' = [stage EXCEPT ![c] = "done"] /\ dl' = dl
        BY <1>5, <2>1, <3>1 DEF JobReturns, j
      <4> QED
        BY <1>t, <2>1, <4>1 DEF Stages
    <3>2. CASE j.op # "clear"
      <4>1. AfterRecord(c)
        BY <1>5, <2>1, <3>2 DEF JobReturns, j
      <4> QED
        BY <1>t, <2>1, <4>1 DEF AfterRecord, Stages, Delivery
    <3> QED
      BY <3>1, <3>2
  <2>4. stage[c] \in {"recording", "dropping"} /\ dl[c] = "off"
    BY <1>2, <2>1 DEF Awaited, DeliveriesAwaited
  <2>5. queue' \in Seq(Job) /\ JobsAwaited'
    BY <1>q, <2>2, <2>3 DEF OthersKept
  <2>6. NoticesTypeOK'
    BY <2>2, <2>3, <2>5 DEF NoticesTypeOK
  <2>7. DeliveriesAwaited'
    BY <2>1, <2>2, <2>3, <2>4 DEF DeliveriesAwaited, Deliverers
  <2>8. OneFlush' /\ FlushCalls'
    BY <2>2 DEF OneFlush, Busy, FlushCalls
  <2>9. j.op # "clear" => stage[c] = "recording"
    BY <1>2, <2>1 DEF Awaited
  <2> HIDE DEF c
  <2>10. \A e \in Calls : e \in pending' => e \in pending \/ (e = c /\ late[e] = 0)
    BY <2>1, <2>9 DEF NotYet, Early, j, c
  <2>11. Once'
    BY <2>2, <2>10 DEF Once
  <2>12. \A e \in Calls : Early(e)' => e # c /\ Early(e)
    BY <2>3 DEF Early
  <2>13. NotYet'
    BY <2>2, <2>10, <2>12 DEF NotYet, Speaks
  <2> QED
    BY <1>4, <1>l, <2>5, <2>6, <2>7, <2>8, <2>11, <2>13
<1>6. CASE j.by \in Flushers
  <2> DEFINE f == j.by
  <2>1. f \in Flushers /\ f \notin Calls /\ pending' \subseteq pending
    BY <1>6 DEF j
  <2>2. \/ j.op = "read" /\ flush[f].st = "reading"
        \/ j.op = "clear" /\ flush[f].st = "dropping" /\ j.call = flush[f].call
    BY <1>2, <2>1 DEF Awaited
  <2>3. UNCHANGED <<stage, dl>>
    BY <2>1 DEF JobReturns, j
  <2>4. PICK r \in FlushState :
           /\ flush' = [flush EXCEPT ![f] = r]
           /\ \/ r.st = "idle" /\ r.todo = {} /\ flushing' = FALSE
              \/ /\ r.st = "loop" /\ flushing' = flushing
                 /\ \/ j.op = "read" /\ r.todo = got
                    \/ j.op = "clear" /\ r.todo = flush[f].todo
    <3>1. CASE j.op = "read" /\ got = {}
      <4>1. flush' = [flush EXCEPT ![f] = IdleFlush] /\ flushing' = FALSE
        BY <2>1, <3>1 DEF JobReturns, FlushOver, j
      <4>2. IdleFlush \in FlushState /\ IdleFlush.st = "idle" /\ IdleFlush.todo = {}
        BY DEF IdleFlush, FlushState
      <4> QED
        BY <4>1, <4>2
    <3>2. CASE j.op = "read" /\ got # {}
      <4> DEFINE r == [st |-> "loop", call |-> "none", todo |-> got]
      <4>1. flush' = [flush EXCEPT ![f] = r] /\ flushing' = flushing
        BY <2>1, <3>2 DEF JobReturns, j
      <4>2. r \in FlushState
        BY DEF FlushState
      <4> QED
        BY <3>2, <4>1, <4>2
    <3>3. CASE j.op = "clear"
      <4> DEFINE r == [flush[f] EXCEPT !.st = "loop", !.call = "none"]
      <4>1. flush' = [flush EXCEPT ![f] = r] /\ flushing' = flushing
        BY <1>t, <2>1, <3>3 DEF JobReturns, j
      <4>2. r \in FlushState /\ r.st = "loop" /\ r.todo = flush[f].todo
        <5>1. flush[f] \in FlushState
          BY <1>t, <2>1
        <5> HIDE DEF f
        <5> QED
          BY <5>1 DEF FlushState
      <4> HIDE DEF r
      <4> QED
        BY <3>3, <4>1, <4>2
    <3> QED
      BY <2>2, <3>1, <3>2, <3>3
  <2>5. /\ flush' \in [Flushers -> FlushState] /\ flush'[f] = r
        /\ \A g \in Flushers : g # f => flush'[g] = flush[g]
    BY <1>t, <2>1, <2>4
  <2>6. \A g \in Flushers : g # f => flush[g].st = "idle" /\ flush[g].todo = {}
    BY <2>1, <2>2 DEF OneFlush, Busy
  <2>7. queue' \in Seq(Job) /\ JobsAwaited'
    BY <1>q, <2>3, <2>5 DEF OthersKept
  <2>8. NoticesTypeOK'
    BY <1>t, <2>3, <2>5, <2>7 DEF NoticesTypeOK
  <2>9. dl[f] = "off"
    BY <2>1, <2>2 DEF DeliveriesAwaited
  <2>10. DeliveriesAwaited'
    BY <2>3, <2>5, <2>9 DEF DeliveriesAwaited
  <2>11. flush[f].st # "idle"
    BY <2>2
  <2>12. OneFlush' /\ FlushCalls'
    BY <2>1, <2>4, <2>5, <2>6, <2>11 DEF OneFlush, Busy, FlushCalls
  <2> HIDE DEF f
  <2>13. \A e \in Calls : late'[e] # 0 => late[e] # 0 /\ e \notin pending'
    <3> SUFFICES ASSUME NEW e \in Calls, late'[e] # 0, e \in pending' PROVE FALSE
      OBVIOUS
    <3>1. late[e] # 0 /\ e \in pending
      BY <2>1
    <3>2. flush[f].st = "dropping" /\ flush[f].call = e
      BY <2>1, <2>6, <3>1 DEF Once
    <3>3. j.op = "clear" /\ j.by \in Flushers /\ j.call = e
      BY <1>6, <2>2, <3>2
    <3> QED
      BY <3>3 DEF j
  <2>14. Once'
    <3>1. \A e \in Calls : late'[e] # 0 => e \notin r.todo
      <4> SUFFICES ASSUME NEW e \in Calls, late'[e] # 0, e \in r.todo PROVE FALSE
        OBVIOUS
      <4>1. late[e] # 0 /\ e \notin pending'
        BY <2>13
      <4>2. e \notin flush[f].todo
        BY <2>1, <4>1 DEF Once
      <4>3. j.op = "read" /\ e \in got
        BY <2>4, <4>2
      <4>4. e \in pending
        BY <4>3
      <4>5. \E g \in Flushers : flush[g].st = "dropping"
        BY <4>1, <4>4 DEF Once
      <4> QED
        BY <2>2, <2>6, <4>3, <4>5
    <3> QED
      BY <2>4, <2>5, <2>6, <2>13, <3>1 DEF Once
  <2>15. NotYet'
    <3>1. \A e \in Calls : Early(e) => e \notin r.todo
      BY <2>1, <2>4 DEF NotYet
    <3> QED
      BY <2>1, <2>3, <2>4, <2>5, <2>6, <3>1 DEF NotYet, Early, Speaks
  <2> QED
    BY <1>4, <1>l, <2>7, <2>8, <2>10, <2>12, <2>14, <2>15
<1> QED
  BY <1>2, <1>5, <1>6 DEF Awaited

\* The parent attaches, and a flush starts unless one is under way.
LEMMA AttachKeeps ==
    ASSUME NoticesInv, Attach
    PROVE  NoticesInv'
<1> USE NoticesAssumption DEF NoticesInv
<1>t. /\ flush \in [Flushers -> FlushState] /\ queue \in Seq(Job) /\ parent \in ParentState
  BY DEF NoticesTypeOK
<1>1. /\ UNCHANGED <<stage, pending, dl, told, late>>
      /\ parent' = [state |-> "attached", lane |-> NoOp] /\ parent.state = "detached"
  BY DEF Attach
<1>2. parent' \in ParentState /\ parent'.lane.by \notin Deliverers /\ parent'.state # "deleted"
  BY <1>1 DEF ParentState, NoOp, Deliverers
<1>3. CASE ~MayFlush
  <2>1. UNCHANGED <<flush, queue, flushing>>
    BY <1>3 DEF Attach
  <2>2. NoticesTypeOK' /\ JobsAwaited' /\ ClearsTold' /\ ReadIsCurrent'
    BY <1>1, <1>2, <2>1 DEF NoticesTypeOK, JobsAwaited, ClearsTold, ReadIsCurrent
  <2>3. DeliveriesAwaited' /\ OneFlush' /\ FlushCalls' /\ FlushedOnce'
    BY <1>1, <1>2, <2>1 DEF DeliveriesAwaited, OneFlush, Busy, FlushCalls, FlushedOnce
  <2>4. Once' /\ NotYet'
    BY <1>1, <2>1 DEF Once, NotYet, Early, Speaks
  <2> QED
    BY <2>2, <2>3, <2>4
<1>4. CASE MayFlush
  <2>1. PICK f \in Flushers :
           /\ flush[f] = IdleFlush
           /\ flush' = [flush EXCEPT ![f] = [IdleFlush EXCEPT !.st = "reading"]]
           /\ queue' = Append(queue, JobFor("read", "all", f))
    BY <1>4 DEF Attach
  <2>2. flushing' = TRUE /\ ~flushing
    BY <1>4 DEF Attach, MayFlush
  <2> DEFINE r == [IdleFlush EXCEPT !.st = "reading"]
  <2>3. r \in FlushState /\ r.st = "reading" /\ r.todo = {}
    BY DEF IdleFlush, FlushState
  <2> HIDE DEF r
  <2>4. /\ flush' \in [Flushers -> FlushState] /\ flush'[f] = r
        /\ \A g \in Flushers : g # f => flush'[g] = flush[g]
    BY <1>t, <2>1, <2>3 DEF r
  <2>5. \A g \in Flushers : flush[g].st = "idle" /\ flush[g].todo = {}
    BY <2>2 DEF OneFlush, Busy
  <2>6. f \in Deliverers /\ f \notin Calls
    BY DEF Deliverers
  <2>7. \A i \in DOMAIN queue : queue[i].by # f
    BY <2>5, <2>6, NoJobYet
  <2> DEFINE j == JobFor("read", "all", f)
  <2>8. j \in Job /\ j.by = f /\ j.op = "read" /\ ~j.read
    BY <2>6 DEF JobFor, Job
  <2>9. queue' = Append(queue, j)
    BY <2>1
  <2> HIDE DEF j
  <2>10. Awaited(stage', flush', j)
    BY <2>3, <2>4, <2>8 DEF Awaited
  <2>11. OthersKept(f)
    BY <1>1, <2>4 DEF OthersKept
  <2>12. queue' \in Seq(Job) /\ JobsAwaited'
    BY <2>7, <2>8, <2>9, <2>10, <2>11, QueueGrows
  <2>13. \A i \in DOMAIN queue' : \/ i \in DOMAIN queue /\ queue'[i] = queue[i]
                                  \/ i = Len(queue) + 1 /\ queue'[i] = j
    BY <1>t, <2>8, <2>9, Appended
  <2>14. NoticesTypeOK' /\ ClearsTold' /\ ReadIsCurrent' /\ FlushedOnce'
    BY <1>1, <1>2, <2>4, <2>8, <2>12, <2>13
       DEF NoticesTypeOK, ClearsTold, ReadIsCurrent, FlushedOnce
  <2>15. DeliveriesAwaited'
    BY <1>1, <1>2, <2>4, <2>5 DEF DeliveriesAwaited
  <2>16. OneFlush' /\ FlushCalls'
    BY <2>2, <2>3, <2>4, <2>5 DEF OneFlush, Busy, FlushCalls
  <2>17. Once' /\ NotYet'
    BY <1>1, <2>3, <2>4, <2>5 DEF Once, NotYet, Early, Speaks
  <2> QED
    BY <2>12, <2>14, <2>15, <2>16, <2>17
<1> QED
  BY <1>3, <1>4

\* dispose() ends what the lane was doing; a deletion takes the record too.
LEMMA DisposeKeeps ==
    ASSUME NoticesInv, Detach \/ DeleteSession
    PROVE  NoticesInv'
<1> USE NoticesAssumption DEF NoticesInv
<1>1. /\ UNCHANGED <<stage, queue, flush, flushing, told, late>>
      /\ dl' = Disposed /\ pending' \in {pending, {}}
      /\ parent'.state # "deleted" => parent.state # "deleted" /\ pending' = pending
  BY DEF Detach, DeleteSession, Attached
<1>2. parent' \in ParentState /\ parent'.lane.by \notin Deliverers
  BY DEF Detach, DeleteSession, ParentState, NoOp, Deliverers
<1>3. dl' \in [Deliverers -> Delivery] /\ \A d \in Deliverers : dl'[d] # "off" => dl[d] # "off"
  BY <1>1 DEF Disposed, Delivery
<1>4. NoticesTypeOK' /\ JobsAwaited' /\ ClearsTold' /\ ReadIsCurrent'
  BY <1>1, <1>2, <1>3 DEF NoticesTypeOK, JobsAwaited, ClearsTold, ReadIsCurrent
<1>5. DeliveriesAwaited' /\ OneFlush' /\ FlushCalls' /\ FlushedOnce'
  BY <1>1, <1>2, <1>3 DEF DeliveriesAwaited, Deliverers, OneFlush, Busy, FlushCalls, FlushedOnce
<1>6. Once' /\ NotYet'
  BY <1>1 DEF Once, NotYet, Early, Speaks
<1> QED
  BY <1>4, <1>5, <1>6

\* A crash leaves the record and nothing that could deliver it twice.
LEMMA CrashKeeps ==
    ASSUME NoticesInv, Crash
    PROVE  NoticesInv'
<1> USE NoticesAssumption DEF NoticesInv
<1>1. /\ \A c \in Calls : stage'[c] \in {"done", "lost"} /\ late'[c] = 0
      /\ \A f \in Flushers : flush'[f] = IdleFlush
      /\ \A d \in Deliverers : dl'[d] = "off"
      /\ queue' = <<>> /\ flushing' = FALSE /\ UNCHANGED <<pending, told>>
  BY DEF Crash
<1>2. parent' \in ParentState /\ parent'.lane.by \notin Deliverers
  BY DEF Crash, ParentState, NoOp, Deliverers, NoticesTypeOK
<1>3. IdleFlush \in FlushState /\ IdleFlush.st = "idle" /\ IdleFlush.todo = {}
  BY DEF IdleFlush, FlushState
<1>4. NoticesTypeOK'
  BY <1>1, <1>2, <1>3 DEF NoticesTypeOK, Crash, Stages, Delivery
<1>5. JobsAwaited' /\ ClearsTold' /\ ReadIsCurrent' /\ DeliveriesAwaited'
  BY <1>1, <1>2 DEF JobsAwaited, ClearsTold, ReadIsCurrent, DeliveriesAwaited, Deliverers
<1>6. OneFlush' /\ FlushCalls' /\ FlushedOnce' /\ Once' /\ NotYet'
  BY <1>1, <1>3 DEF OneFlush, Busy, FlushCalls, FlushedOnce, Once, NotYet, Early
<1> QED
  BY <1>4, <1>5, <1>6

\* A job writes the record, or cannot.
LEMMA JobWritesKeeps ==
    ASSUME NoticesInv, NEW i, JobWrites(i) \/ JobFails(i)
    PROVE  NoticesInv'
<1> USE NoticesAssumption DEF NoticesInv
<1>1. queue \in Seq(Job) /\ queue # <<>> /\ i = 1 /\ 1 \in DOMAIN queue /\ queue[1] \in Job
  BY DEF NoticesTypeOK, JobWrites, JobFails, Serving
<1>t. pending \in SUBSET Calls /\ late \in [Calls -> Nat]
  BY DEF NoticesTypeOK
<1>2. Awaited(stage, flush, queue[1])
  BY <1>1 DEF JobsAwaited
<1>3. queue[1].op = "clear" => queue[1].call \in Calls
  BY <1>2 DEF Awaited, FlushCalls
<1>4. CASE JobWrites(i)
  <2> DEFINE j == queue[1]
  <2>1. j.snap = pending
    BY <1>1, <1>4 DEF JobWrites, ReadIsCurrent
  <2>2. /\ pending' = Stored(j) /\ JobReturns(j, j.snap) /\ queue' = Without(1)
        /\ UNCHANGED <<parent, told, late>>
    BY <1>1, <1>4 DEF JobWrites
  <2>3. \/ j.op \in {"add", "addIfAbsent"} /\ pending' = pending \cup {j.call}
           /\ j.by \in Calls /\ j.call = j.by
        \/ j.op = "clear" /\ pending' = pending \ {j.call}
        \/ j.op = "read" /\ pending' = pending
    BY <1>2, <2>1, <2>2 DEF Stored, Awaited
  <2>4. pending' \in SUBSET Calls
    BY <1>t, <2>3
  <2>5. pending' \subseteq pending
           \/ (j.by \in Calls /\ j.op # "clear" /\ pending' \subseteq pending \cup {j.by})
    BY <2>3
  <2>6. j.op = "clear" => j.call \notin pending'
    BY <2>3
  <2>7. JobReturns(j, pending)
    BY <2>1, <2>2
  <2> QED
    BY <1>1, <1>t, <2>2, <2>4, <2>5, <2>6, <2>7, JobReturnsKeeps
<1>5. CASE JobFails(i)
  <2> DEFINE j == queue[1]
  <2>1. /\ JobReturns(j, {}) /\ queue' = Without(1) /\ UNCHANGED <<pending, parent, told>>
        /\ late' = IF j.op = "clear" /\ j.by \in Flushers
                   THEN [late EXCEPT ![j.call] = 0] ELSE late
    BY <1>1, <1>5 DEF JobFails
  <2>2. /\ late' \in [Calls -> Nat] /\ \A c \in Calls : late'[c] \in {0, late[c]}
        /\ j.op = "clear" /\ j.by \in Flushers => late'[j.call] = 0
    BY <1>t, <1>3, <2>1
  <2> QED
    BY <1>1, <1>t, <2>1, <2>2, JobReturnsKeeps
<1> QED
  BY <1>4, <1>5

\* Nothing is recorded, queued or delivered at first ...
LEMMA NoticesInvInit == NoticesInit => NoticesInv
<1> SUFFICES ASSUME NoticesInit PROVE NoticesInv
  OBVIOUS
<1> USE NoticesAssumption DEF NoticesInit
<1>1. IdleFlush \in FlushState /\ IdleFlush.st = "idle" /\ IdleFlush.todo = {}
  BY DEF IdleFlush, FlushState
<1>2. parent \in ParentState /\ parent.lane.by \notin Deliverers
  BY DEF ParentState, NoOp, Deliverers
<1>3. NoticesTypeOK
  BY <1>1, <1>2 DEF NoticesTypeOK, Stages, Delivery
<1>4. JobsAwaited /\ ClearsTold /\ ReadIsCurrent /\ DeliveriesAwaited
  BY <1>2 DEF JobsAwaited, ClearsTold, ReadIsCurrent, DeliveriesAwaited, Deliverers
<1>5. OneFlush /\ FlushCalls /\ FlushedOnce /\ Once /\ NotYet
  BY <1>1 DEF OneFlush, Busy, FlushCalls, FlushedOnce, Once, NotYet, Early, Speaks
<1> QED
  BY <1>3, <1>4, <1>5 DEF NoticesInv

\* ... and every step keeps the invariant.
LEMMA NoticesInvNext == NoticesInv /\ [NoticesNext]_noticeVars => NoticesInv'
<1> SUFFICES ASSUME NoticesInv, [NoticesNext]_noticeVars PROVE NoticesInv'
  OBVIOUS
<1> USE NoticesAssumption
<1>t. dl \in [Deliverers -> Delivery] /\ parent \in ParentState
  BY DEF NoticesInv, NoticesTypeOK
<1>l. parent.lane.by \in Deliverers => dl[parent.lane.by] = "turn"
  BY DEF NoticesInv, DeliveriesAwaited
<1>1. ASSUME NEW d \in Deliverers, Prompt(d) PROVE NoticesInv'
  <2>1. parent' \in ParentState /\ parent'.state = parent.state /\ parent'.lane.by = d
    BY <1>t, <1>1 DEF Prompt, ParentState
  <2>2. /\ dl' \in [Deliverers -> Delivery] /\ dl'[d] = "turn"
        /\ \A e \in Deliverers : dl'[e] # "off" => dl[e] # "off"
    BY <1>t, <1>1 DEF Prompt, Delivery
  <2> QED
    BY <1>1, <2>1, <2>2, DeliveryKeeps DEF Prompt
<1>2. ASSUME NEW d \in Deliverers, dl[d] \in {"prompt", "enqueue"},
             dl' = [dl EXCEPT ![d] = "enqueue"] \/ dl' = [dl EXCEPT ![d] = "retry"],
             UNCHANGED <<stage, pending, queue, flush, flushing, parent, told, late>>
      PROVE  NoticesInv'
  <2>1. /\ dl' \in [Deliverers -> Delivery]
        /\ \A e \in Deliverers : dl'[e] # "off" => dl[e] # "off"
        /\ \A e \in Deliverers : dl[e] = "turn" => dl'[e] = "turn"
    BY <1>t, <1>2 DEF Delivery
  <2> QED
    BY <1>t, <1>l, <1>2, <2>1, DeliveryKeeps
<1>3. ASSUME NEW d \in Deliverers, PromptBusy(d) PROVE NoticesInv'
  BY <1>2, <1>3 DEF PromptBusy
<1>4. ASSUME NEW d \in Deliverers, Enqueue(d) PROVE NoticesInv'
  <2>1. CASE Returns(d, TRUE)
    BY <1>t, <1>l, <1>4, <2>1, ReturnKeeps DEF Enqueue
  <2>2. CASE ~Returns(d, TRUE)
    BY <1>2, <1>4, <2>2 DEF Enqueue
  <2> QED
    BY <2>1, <2>2
<1>5. ASSUME NEW d \in Deliverers, DeliveryThrows(d) PROVE NoticesInv'
  BY <1>t, <1>l, <1>5, ReturnKeeps DEF DeliveryThrows
<1>6. ASSUME NEW op \in {"run", "compaction"}, LaneBusy(op) PROVE NoticesInv'
  <2>1. parent' \in ParentState /\ parent'.state = parent.state /\ parent'.lane.by \notin Deliverers
    BY <1>t, <1>6 DEF LaneBusy, ParentState, Deliverers
  <2> QED
    BY <1>t, <1>6, <2>1, DeliveryKeeps DEF LaneBusy
<1>7. ASSUME NEW ok \in BOOLEAN, LaneFree(ok) PROVE NoticesInv'
  <2>1. parent' \in ParentState /\ parent'.state = parent.state /\ parent'.lane.by \notin Deliverers
    BY <1>t, <1>7 DEF LaneFree, ParentState, Deliverers, NoOp
  <2>2. CASE parent.lane.by \in Deliverers
    BY <1>l, <1>7, <2>1, <2>2, ReturnKeeps DEF LaneFree
  <2>3. CASE parent.lane.by \notin Deliverers
    BY <1>t, <1>7, <2>1, <2>3, DeliveryKeeps DEF LaneFree
  <2> QED
    BY <2>2, <2>3
<1>8. ASSUME UNCHANGED noticeVars PROVE NoticesInv'
  <2>1. UNCHANGED <<stage, pending, queue, flush, flushing, told, late, parent, dl>>
    BY <1>8 DEF noticeVars
  <2> QED
    BY <1>t, <1>l, <2>1, DeliveryKeeps
<1>9. ASSUME NEW d \in Deliverers, DeliveryStep(d) PROVE NoticesInv'
  BY <1>1, <1>3, <1>4, <1>5, <1>9 DEF DeliveryStep
<1>10. ASSUME QueueStep PROVE NoticesInv'
  BY <1>10, JobReadsKeeps, JobWritesKeeps DEF QueueStep
<1>11. ASSUME ParentStep PROVE NoticesInv'
  BY <1>6, <1>7, <1>11, AttachKeeps, DisposeKeeps DEF ParentStep
<1> QED
  BY <1>8, <1>9, <1>10, <1>11, SettleKeeps, FlushNextKeeps, CrashKeeps DEF NoticesNext

\* However often the parent attaches and detaches during and between flushes,
\* a notice is delivered by one of them only (FlushedOnce), unless its clear
\* failed or was lost in a crash.
THEOREM NoticeFlushedOnce == NoticesSpec => []FlushedOnce
<1>1. NoticesInv => FlushedOnce
  BY DEF NoticesInv
<1> QED
  BY <1>1, NoticesInvInit, NoticesInvNext, PTL DEF NoticesSpec

\* A notice leaves the parent's record only once it was delivered, or with
\* the parent (NoticeKept): queued read-modify-writes lose no other notice.
THEOREM NoticeNotLost == NoticesSpec => NoticeKept
<1> DEFINE Kept == parent'.state # "deleted" => pending \ pending' \subseteq told
<1>1. NoticesInv /\ [NoticesNext]_noticeVars => [Kept]_noticeVars
  <2> SUFFICES ASSUME NoticesInv, NoticesNext PROVE Kept
    OBVIOUS
  <2> USE DEF NoticesInv
  <2>1. ASSUME NEW i \in DOMAIN queue, JobWrites(i) PROVE Kept
    <3>1. i = 1 /\ queue[1] \in Job /\ 1 \in DOMAIN queue
      BY <2>1 DEF NoticesTypeOK, JobWrites, Serving
    <3>2. queue[1].snap = pending /\ pending' = Stored(queue[1])
      BY <2>1, <3>1 DEF JobWrites, ReadIsCurrent
    <3>3. queue[1].op = "clear" => queue[1].call \in told
      BY <3>1 DEF ClearsTold
    <3>4. queue[1].op \in {"add", "addIfAbsent", "clear", "read"}
      BY <3>1 DEF Job
    <3> QED
      BY <3>2, <3>3, <3>4 DEF Stored
  <2>2. ASSUME DeleteSession PROVE Kept
    BY <2>2 DEF DeleteSession
  <2>3. ASSUME NEW i \in DOMAIN queue, JobReads(i) \/ JobFails(i) PROVE pending' = pending
    BY <2>3 DEF JobReads, JobFails
  <2>4. ASSUME NEW c \in Calls, (\E throws \in BOOLEAN : ChildEnds(c, throws)) \/ WriteResult(c)
        PROVE  pending' = pending
    BY <2>4 DEF ChildEnds, WriteResult
  <2>5. ASSUME NEW d \in Deliverers, DeliveryStep(d) PROVE pending' = pending
    BY <2>5 DEF DeliveryStep, Prompt, PromptBusy, Enqueue, DeliveryThrows
  <2>6. ASSUME NEW f \in Flushers, FlushNext(f) PROVE pending' = pending
    BY <2>6 DEF FlushNext
  <2>7. ASSUME Attach \/ Detach \/ (\E op \in {"run", "compaction"} : LaneBusy(op))
               \/ (\E ok \in BOOLEAN : LaneFree(ok)) \/ Crash
        PROVE  pending' = pending
    BY <2>7 DEF Attach, Detach, LaneBusy, LaneFree, Crash
  <2> QED
    BY <2>1, <2>2, <2>3, <2>4, <2>5, <2>6, <2>7 DEF NoticesNext, QueueStep, ParentStep
<1> QED
  BY <1>1, NoticesInvInit, NoticesInvNext, PTL DEF NoticesSpec, NoticeKept
============================================================================
