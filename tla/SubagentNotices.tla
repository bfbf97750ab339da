-------------------------- MODULE SubagentNotices --------------------------
(***************************************************************************)
(* How a background subagent's end reaches its parent's conversation       *)
(* (packages/sidecar/src/runtime/subagent/agentSpawner.ts,                 *)
(* subagentDelivery.ts, subagentPending.ts and harness/laneQueue.ts).      *)
(*                                                                         *)
(* When a child ends, its notice is recorded on the parent session,        *)
(* delivered into the parent's conversation and cleared.  What a crash or  *)
(* an absent parent leaves recorded is flushed when the parent attaches.   *)
(* The children of one parent are named by their parentToolCallId.         *)
(*                                                                         *)
(* The parent's lane is pi's (external): it holds at most one operation, a *)
(* run or a compaction.  A prompt waits for the end of the run it starts.  *)
(* Left out: `subagent.settled` events and the result file, whose failing  *)
(* write only changes the wording of the notice.                           *)
(***************************************************************************)
EXTENDS Naturals, Sequences, FiniteSets

CONSTANTS
    Calls,        \* parentToolCallIds of the children that run
    Flushers,     \* names for concurrent calls of flushPendingSubagentResults
    MaxFaults,    \* bound: failing I/O and listeners that throw
    MaxCrashes    \* bound: crashes of the daemon

ASSUME NoticesAssumption ==
    /\ IsFiniteSet(Calls) /\ IsFiniteSet(Flushers)
    /\ Calls \cap Flushers = {}
    /\ {"user", "none", "all"} \cap (Calls \cup Flushers) = {}
    /\ MaxFaults \in Nat /\ MaxCrashes \in Nat

VARIABLES
    stage,      \* call -> where its settle sequence is
    pending,    \* the parent's durable record of undelivered notices
    queue,      \* pendingWriteQueues: read-modify-writes of that record
    dl,         \* deliverer -> where its deliverSubagentResult is
    flush,      \* flusher -> its flushPendingSubagentResults
    flushing,   \* flushingParents
    parent,     \* the parent's attachment and its lane's operation
    told,       \* calls some delivery of which was reported as landed
    late,       \* call -> flushes that delivered it since one's clear was lost
    faults, crashes

bounds == <<faults, crashes>>
noticeVars == <<stage, pending, queue, dl, flush, flushing, parent, told, late, bounds>>

Deliverers == Calls \cup Flushers
Stages == {"running", "settling", "recording", "delivering", "dropping", "done", "lost"}
Delivery == {"off", "prompt", "enqueue", "retry", "turn", "dying"}
Job == [op : {"add", "addIfAbsent", "clear", "read"}, call : Calls \cup {"all"},
        by : Deliverers, read : BOOLEAN, snap : SUBSET Calls, slot : BOOLEAN]
IdleFlush == [st |-> "idle", call |-> "none", todo |-> {}]
NoOp == [op |-> "idle", by |-> "none"]

NoticesInit ==
    /\ stage = [c \in Calls |-> "running"]
    /\ pending = {} /\ queue = <<>>
    /\ dl = [d \in Deliverers |-> "off"]
    /\ flush = [f \in Flushers |-> IdleFlush]
    /\ flushing = FALSE
    /\ parent = [state |-> "attached", lane |-> NoOp]
    /\ told = {}
    /\ late = [c \in Calls |-> 0]
    /\ faults = 0 /\ crashes = 0

Attached == parent.state = "attached"
Idle == parent.lane = NoOp
Running == parent.lane.op = "run"

Fault == faults < MaxFaults /\ faults' = faults + 1

JobFor(op, c, by) ==
    [op |-> op, call |-> c, by |-> by, read |-> FALSE, snap |-> {}, slot |-> FALSE]

----------------------------------------------------------------------------
(* The settle sequence of a child. *)

\* The child's run ended.  The sequence goes on with the result file; when a
\* listener of `subagent.settled` throws, with the fallback notice.
ChildEnds(c, throws) ==
    /\ stage[c] = "running"
    /\ IF throws
       THEN /\ Fault
            /\ stage' = [stage EXCEPT ![c] = "recording"]
            /\ queue' = Append(queue, JobFor("addIfAbsent", c, c))
       ELSE /\ stage' = [stage EXCEPT ![c] = "settling"]
            /\ UNCHANGED <<queue, faults>>
    /\ UNCHANGED <<pending, dl, flush, flushing, parent, told, late, crashes>>

\* writeBackgroundResult returns and recordPending joins the queue.
WriteResult(c) ==
    /\ stage[c] = "settling"
    /\ stage' = [stage EXCEPT ![c] = "recording"]
    /\ queue' = Append(queue, JobFor("add", c, c))
    /\ UNCHANGED <<pending, dl, flush, flushing, parent, told, late, bounds>>

----------------------------------------------------------------------------
(* The durable record: read-modify-writes of one value, one at a time. *)

\* A bug: the read-modify-writes are not queued behind each other.
Serving_Any == DOMAIN queue
\* withPendingQueue: the head of the queue is the one that runs.
Serving == IF queue = <<>> THEN {} ELSE {1}

Without(i) == [k \in 1..(Len(queue) - 1) |-> queue[IF k < i THEN k ELSE k + 1]]

\* A detached parent is opened for the job, which then holds its slot.
JobReads(i) ==
    /\ i \in Serving /\ ~queue[i].read /\ parent.state # "deleted"
    /\ queue' = [queue EXCEPT ![i].read = TRUE, ![i].snap = pending,
                              ![i].slot = ~Attached]
    /\ UNCHANGED <<stage, pending, dl, flush, flushing, parent, told, late, bounds>>

\* What the value becomes: addPendingSubagentResult, clearPendingSubagentResult.
Stored(j) ==
    CASE j.op \in {"add", "addIfAbsent"} -> j.snap \cup {j.call}
      [] j.op = "clear" -> j.snap \ {j.call}
      [] j.op = "read" -> pending

\* After its record a settle sequence delivers: an absent parent is reported as
\* false, the record stays and the sequence ends.
AfterRecord(c) ==
    /\ stage' = [stage EXCEPT ![c] = IF Attached THEN "delivering" ELSE "done"]
    /\ dl' = [dl EXCEPT ![c] = IF Attached THEN "prompt" ELSE "off"]
    /\ UNCHANGED <<flush, flushing>>

\* A flush ends: flushingParents lets the next one in.
FlushOver(f) ==
    /\ flush' = [flush EXCEPT ![f] = IdleFlush]
    /\ flushing' = FALSE

\* What the caller of a finished job does next; `got` is what it read.
JobReturns(j, got) ==
    \/ /\ j.by \in Calls /\ j.op # "clear"
       /\ AfterRecord(j.by)
    \/ /\ j.by \in Calls /\ j.op = "clear"
       /\ stage' = [stage EXCEPT ![j.by] = "done"]
       /\ UNCHANGED <<dl, flush, flushing>>
    \/ /\ j.by \in Flushers /\ j.op = "read" /\ got = {}
       /\ FlushOver(j.by)
       /\ UNCHANGED <<stage, dl>>
    \/ /\ j.by \in Flushers /\ j.op = "read" /\ got # {}
       /\ flush' = [flush EXCEPT ![j.by] = [st |-> "loop", call |-> "none", todo |-> got]]
       /\ UNCHANGED <<stage, dl, flushing>>
    \/ /\ j.by \in Flushers /\ j.op = "clear"
       /\ flush' = [flush EXCEPT ![j.by].st = "loop", ![j.by].call = "none"]
       /\ UNCHANGED <<stage, dl, flushing>>

JobWrites(i) ==
    /\ i \in Serving /\ queue[i].read /\ parent.state # "deleted"
    /\ pending' = Stored(queue[i])
    /\ JobReturns(queue[i], queue[i].snap)
    /\ queue' = Without(i)
    /\ UNCHANGED <<parent, told, late, bounds>>

\* The value cannot be read or written: a failed record or clear is logged and
\* swallowed, a failed read ends its flush.
JobFails(i) ==
    /\ i \in Serving
    /\ IF parent.state = "deleted" THEN UNCHANGED faults ELSE Fault
    /\ JobReturns(queue[i], {})
    /\ late' = IF queue[i].op = "clear" /\ queue[i].by \in Flushers
               THEN [late EXCEPT ![queue[i].call] = 0] ELSE late
    /\ queue' = Without(i)
    /\ UNCHANGED <<pending, parent, told, crashes>>

----------------------------------------------------------------------------
(* deliverSubagentResult, by a settle sequence or by a flush. *)

\* The call a deliverer speaks of.
About(d) == IF d \in Calls THEN d ELSE flush[d].call

\* The delivery returns.  Only one that landed clears the record; otherwise the
\* settle sequence ends, and a flush keeps the rest for the next attach.
Returns(d, landed) ==
    /\ dl' = [dl EXCEPT ![d] = "off"]
    /\ told' = IF landed THEN told \cup {About(d)} ELSE told
    /\ late' = IF landed /\ d \in Flushers
               THEN [late EXCEPT ![About(d)] = @ + 1] ELSE late
    /\ queue' = IF landed THEN Append(queue, JobFor("clear", About(d), d)) ELSE queue
    /\ \/ /\ d \in Calls
          /\ stage' = [stage EXCEPT ![d] = IF landed THEN "dropping" ELSE "done"]
          /\ UNCHANGED <<flush, flushing>>
       \/ /\ d \in Flushers /\ landed
          /\ flush' = [flush EXCEPT ![d].st = "dropping"]
          /\ UNCHANGED <<stage, flushing>>
       \/ /\ d \in Flushers /\ ~landed
          /\ FlushOver(d)
          /\ UNCHANGED stage

\* prompt(): starts a run of an idle lane and waits for its end.
Prompt(d) ==
    /\ dl[d] \in {"prompt", "retry"} /\ Idle
    /\ parent' = [parent EXCEPT !.lane = [op |-> "run", by |-> d]]
    /\ dl' = [dl EXCEPT ![d] = "turn"]
    /\ UNCHANGED <<stage, pending, queue, flush, flushing, told, late, bounds>>

\* The first prompt meets an occupied lane: try the followUp queue.
PromptBusy(d) ==
    /\ dl[d] = "prompt" /\ ~Idle
    /\ dl' = [dl EXCEPT ![d] = "enqueue"]
    /\ UNCHANGED <<stage, pending, queue, flush, flushing, parent, told, late, bounds>>

\* enqueueLaneMessage takes a followUp only while a run is there to consume it;
\* otherwise the prompt is tried once more.
Enqueue(d) ==
    /\ dl[d] = "enqueue"
    /\ \/ /\ Running
          /\ Returns(d, TRUE)
       \/ /\ ~Running
          /\ dl' = [dl EXCEPT ![d] = "retry"]
          /\ UNCHANGED <<stage, queue, flush, flushing, told, late>>
    /\ UNCHANGED <<pending, parent, bounds>>

\* The second prompt is refused too, or the session was disposed of under the
\* delivery: it throws.
DeliveryThrows(d) ==
    /\ \/ dl[d] = "retry" /\ ~Idle
       \/ dl[d] = "dying"
    /\ Returns(d, FALSE)
    /\ UNCHANGED <<pending, parent, bounds>>

\* flushPendingSubagentResults takes its entries one after the other.
FlushNext(f) ==
    /\ flush[f].st = "loop"
    /\ \/ /\ flush[f].todo = {} \/ ~Attached
          /\ FlushOver(f)
          /\ UNCHANGED dl
       \/ /\ Attached
          /\ \E c \in flush[f].todo :
                flush' = [flush EXCEPT ![f] =
                    [st |-> "delivering", call |-> c, todo |-> @.todo \ {c}]]
          /\ dl' = [dl EXCEPT ![f] = "prompt"]
          /\ UNCHANGED flushing
    /\ UNCHANGED <<stage, pending, queue, parent, told, late, bounds>>

----------------------------------------------------------------------------
(* The parent session and its lane. *)

\* A bug: every attach flushes, whether or not a flush is under way.
MayFlush_Always == TRUE
MayFlush == ~flushing

\* `session.attached` starts a flush unless one is in progress.
Attach ==
    /\ parent.state = "detached"
    /\ ~\E i \in DOMAIN queue : queue[i].slot
    /\ parent' = [state |-> "attached", lane |-> NoOp]
    /\ \/ /\ MayFlush
          /\ \E f \in Flushers :
                /\ flush[f] = IdleFlush
                /\ flush' = [flush EXCEPT ![f] = [IdleFlush EXCEPT !.st = "reading"]]
                /\ queue' = Append(queue, JobFor("read", "all", f))
          /\ flushing' = TRUE
       \/ /\ ~MayFlush
          /\ UNCHANGED <<flush, queue, flushing>>
    /\ UNCHANGED <<stage, pending, dl, told, late, bounds>>

\* A bug: dispose() forgets the calls that wait on the lane.
Disposed_Hang == dl
\* dispose(): the lane's operation is aborted and late calls on it reject.
Disposed == [d \in Deliverers |-> IF dl[d] = "off" THEN "off" ELSE "dying"]

Detach ==
    /\ Attached
    /\ parent' = [state |-> "detached", lane |-> NoOp]
    /\ dl' = Disposed
    /\ UNCHANGED <<stage, pending, queue, flush, flushing, told, late, bounds>>

\* The session is deleted, and the record with it.
DeleteSession ==
    /\ parent.state # "deleted"
    /\ ~\E i \in DOMAIN queue : queue[i].slot
    /\ parent' = [state |-> "deleted", lane |-> NoOp]
    /\ pending' = {}
    /\ dl' = Disposed
    /\ UNCHANGED <<stage, queue, flush, flushing, told, late, bounds>>

\* The user prompts, or pi compacts.
LaneBusy(op) ==
    /\ Attached /\ Idle
    /\ parent' = [parent EXCEPT !.lane = [op |-> op, by |-> "user"]]
    /\ UNCHANGED <<stage, pending, queue, dl, flush, flushing, told, late, bounds>>

\* The lane's operation ends.  A delivery's prompt returns when its run completed
\* and throws when it did not.
LaneFree(ok) ==
    /\ ~Idle
    /\ parent' = [parent EXCEPT !.lane = NoOp]
    /\ IF parent.lane.by \in Deliverers
       THEN Returns(parent.lane.by, ok)
       ELSE UNCHANGED <<stage, queue, dl, flush, flushing, told, late>>
    /\ UNCHANGED <<pending, bounds>>

\* The process dies: memory is gone, the record stays.
Crash ==
    /\ crashes < MaxCrashes /\ crashes' = crashes + 1
    /\ stage' = [c \in Calls |-> IF stage[c] = "done" THEN "done" ELSE "lost"]
    /\ queue' = <<>>
    /\ dl' = [d \in Deliverers |-> "off"]
    /\ flush' = [f \in Flushers |-> IdleFlush]
    /\ flushing' = FALSE
    /\ parent' = [state |-> IF parent.state = "deleted" THEN "deleted" ELSE "detached",
                  lane |-> NoOp]
    /\ late' = [c \in Calls |-> 0]
    /\ UNCHANGED <<pending, told, faults>>

----------------------------------------------------------------------------

DeliveryStep(d) == Prompt(d) \/ PromptBusy(d) \/ Enqueue(d) \/ DeliveryThrows(d)

QueueStep == \E i \in DOMAIN queue : JobReads(i) \/ JobWrites(i) \/ JobFails(i)

ParentStep ==
    \/ Attach \/ Detach \/ DeleteSession
    \/ \E op \in {"run", "compaction"} : LaneBusy(op)
    \/ \E ok \in BOOLEAN : LaneFree(ok)

NoticesNext ==
    \/ \E c \in Calls : (\E throws \in BOOLEAN : ChildEnds(c, throws)) \/ WriteResult(c)
    \/ \E d \in Deliverers : DeliveryStep(d)
    \/ \E f \in Flushers : FlushNext(f)
    \/ QueueStep \/ ParentStep \/ Crash

NoticesSpec == NoticesInit /\ [][NoticesNext]_noticeVars

\* What goes on by itself: awaited I/O, the steps of a delivery, and pi's
\* operations, which end.  No fairness on attaching or on a run ending.
NoticesFair ==
    /\ \A c \in Calls : WF_noticeVars(WriteResult(c))
    /\ \A d \in Deliverers : WF_noticeVars(DeliveryStep(d))
    /\ \A f \in Flushers : WF_noticeVars(FlushNext(f))
    /\ WF_noticeVars(QueueStep)
    /\ WF_noticeVars(\E ok \in BOOLEAN : LaneFree(ok))

----------------------------------------------------------------------------

\* A settled child's notice is not lost: it leaves the record only once a delivery
\* of it was reported as landed, whatever concurrent settles, flushes, detaches,
\* failing writes and crashes do (recordPending, dropPending, withPendingQueue).
NoticeKept ==
    [][parent'.state # "deleted" => pending \ pending' \subseteq told]_noticeVars

\* Flushes do not repeat themselves: attaching again during a flush, or right
\* after one, does not deliver a notice a second time (flushingParents and the
\* queued clear), unless a flush's clearing of it failed or was cut off by a crash.
FlushedOnce == \A c \in Calls : late[c] <= 1

\* A settle sequence that began comes to its end, whether the parent is absent,
\* busy, detached under the delivery or deleted, and whatever fails: the child's
\* background slot is only given back then (agentSpawner.ts:1190).
SettleEnds ==
    \A c \in Calls : stage[c] \in {"settling", "recording"} ~> stage[c] \in {"done", "lost"}
=============================================================================
