---------------------------- MODULE SubagentRuns ----------------------------
(***************************************************************************)
(* Launching, continuing and stopping the subagents of one parent session  *)
(* (packages/sidecar/src/runtime/subagent/agentSpawner.ts and              *)
(* subagentRunner.ts): the background slots, the map of abort controllers, *)
(* and what reaches the child's harness.                                   *)
(*                                                                         *)
(* A child is named by the call that spawned it.  Its own run and a        *)
(* continuation of it (agentContinue) have a controller each but share the *)
(* child's lane (external), which holds one operation; a prompt that meets *)
(* an occupied lane is refused.  The settle sequence of a background run   *)
(* is one step here and the subject of SubagentNotices.                    *)
(***************************************************************************)
EXTENDS Naturals, FiniteSets

CONSTANTS
    Children,     \* the children, each spawned at most once
    Foreground,   \* those whose call waits for them
    Continued,    \* bound: the children that may be continued
    Cap           \* MAX_CONCURRENT_BACKGROUND_SUBAGENTS

ASSUME RunsAssumption ==
    /\ IsFiniteSet(Children) /\ Foreground \subseteq Children
    /\ Continued \subseteq Children /\ Cap \in Nat

VARIABLES
    phase,      \* call -> where its spawn is
    slots,      \* backgroundInFlight
    ctl,        \* subagentControllers: call -> whose controller is the entry
    fired,      \* controllers that were aborted
    resume,     \* resumeInFlight: call -> where its runResume is
    lane,       \* call -> whose prompt the child's lane executes
    aborting,   \* calls whose lane was told to abort that operation
    stop,       \* stopChildrenOf: its snapshot, what it waits for, its answer
    resumed     \* calls that were continued at least once

runVars == <<phase, slots, ctl, fired, resume, lane, aborting, stop, resumed>>

Background == Children \ Foreground
Runs == {"own", "resume"}
NoStop == [st |-> "no", running |-> {}, wait |-> {}, stuck |-> {}]

RunsInit ==
    /\ phase = [c \in Children |-> "unborn"]
    /\ slots = {} /\ fired = {} /\ aborting = {} /\ resumed = {}
    /\ ctl = [c \in Children |-> "none"]
    /\ resume = [c \in Children |-> "no"]
    /\ lane = [c \in Children |-> "none"]
    /\ stop = NoStop

\* trackInFlight: the children the desktop is told are alive.
InFlight == {c \in Children : phase[c] \in {"setup", "running"}}

----------------------------------------------------------------------------
(* Spawning. *)

\* A bug: the slot is only taken when the child is launched, after the awaits.
TakeSlot_AtLaunch(c) == slots \cup (InFlight \ Foreground)
TakeSlot(c) == slots \cup {c}

\* A bug: the .finally of the settle sequence does not give the slot back.
FreeSlot_Never(c) == slots
FreeSlot(c) == slots \ {c}

\* releaseController: the entry goes, whoever registered it, and with it what
\* stopChildrenOf waits for.
Release(c) ==
    /\ ctl' = [ctl EXCEPT ![c] = "none"]
    /\ stop' = [stop EXCEPT !.wait = @ \ {c}]

\* spawnSubagent: a background slot is reserved before the first await; a spawn
\* at the limit is refused and leaves nothing behind.
Spawn(c) ==
    /\ phase[c] = "unborn"
    /\ IF c \in Foreground
       THEN UNCHANGED slots
       ELSE Cardinality(slots) < Cap /\ slots' = TakeSlot(c)
    /\ phase' = [phase EXCEPT ![c] = "reserved"]
    /\ UNCHANGED <<ctl, fired, resume, lane, aborting, stop, resumed>>

\* prepareAndRunSpawn throws: the slot is given back.
PrepareFails(c) ==
    /\ phase[c] = "reserved"
    /\ slots' = slots \ {c}
    /\ phase' = [phase EXCEPT ![c] = "done"]
    /\ UNCHANGED <<ctl, fired, resume, lane, aborting, stop, resumed>>

\* The child's session is being created and attached.  A background child's
\* controller is registered already, a foreground child's is not.
Launch(c) ==
    /\ phase[c] = "reserved"
    /\ phase' = [phase EXCEPT ![c] = "setup"]
    /\ ctl' = IF c \in Foreground THEN ctl ELSE [ctl EXCEPT ![c] = "own"]
    /\ UNCHANGED <<slots, fired, resume, lane, aborting, stop, resumed>>

\* What follows the result: a foreground call returns it, a background one goes
\* through its settle sequence.
AfterRun(c) == [phase EXCEPT ![c] = IF c \in Foreground THEN "done" ELSE "settling"]

\* The child cannot be created or attached: an error result.
SetupFails(c) ==
    /\ phase[c] = "setup"
    /\ phase' = AfterRun(c)
    /\ UNCHANGED <<slots, ctl, fired, resume, lane, aborting, stop, resumed>>

\* runSubagentSession registers the controller and runAttachedSubagent prompts:
\* the listener for the signal is added without a look at whether it fired.
RunStarts(c) ==
    /\ phase[c] = "setup"
    /\ phase' = [phase EXCEPT ![c] = "running"]
    /\ ctl' = [ctl EXCEPT ![c] = "own"]
    /\ lane' = IF lane[c] = "none" THEN [lane EXCEPT ![c] = "own"] ELSE lane
    /\ UNCHANGED <<slots, fired, resume, aborting, stop, resumed>>

\* The lane's operation of `who` on child c is over.
LeaveLane(c, who) ==
    /\ lane' = IF lane[c] = who THEN [lane EXCEPT ![c] = "none"] ELSE lane
    /\ aborting' = IF lane[c] = who THEN aborting \ {c} ELSE aborting

\* The run ends: by itself, aborted, at its turn cap, or refused by a busy lane.
RunEnds(c) ==
    /\ phase[c] = "running"
    /\ phase' = AfterRun(c)
    /\ LeaveLane(c, "own")
    /\ Release(c)
    /\ UNCHANGED <<slots, fired, resume, resumed>>

\* The settle sequence of a background run and its .finally.
Settled(c) ==
    /\ phase[c] = "settling"
    /\ phase' = [phase EXCEPT ![c] = "done"]
    /\ slots' = FreeSlot(c)
    /\ Release(c)
    /\ UNCHANGED <<fired, resume, lane, aborting, resumed>>

----------------------------------------------------------------------------
(* resumeSubagent. *)

\* A continuation of a child whose session can exist; a second call while one is
\* under way shares its result.
Resume(c) ==
    /\ c \in Continued
    /\ phase[c] \notin {"unborn", "reserved"} /\ resume[c] = "no"
    /\ resume' = [resume EXCEPT ![c] = "opening"]
    /\ resumed' = resumed \cup {c}
    /\ fired' = fired \ {<<c, "resume">>}
    /\ UNCHANGED <<phase, slots, ctl, lane, aborting, stop>>

\* No such session, another parent's child, no turns left, or no attachment.
ResumeFails(c) ==
    /\ resume[c] = "opening"
    /\ resume' = [resume EXCEPT ![c] = "no"]
    /\ UNCHANGED <<phase, slots, ctl, fired, lane, aborting, stop, resumed>>

\* The controller replaces the entry that is there, that of a running child too.
ResumeRuns(c) ==
    /\ resume[c] = "opening"
    /\ resume' = [resume EXCEPT ![c] = "running"]
    /\ ctl' = [ctl EXCEPT ![c] = "resume"]
    /\ lane' = IF lane[c] = "none" THEN [lane EXCEPT ![c] = "resume"] ELSE lane
    /\ UNCHANGED <<phase, slots, fired, aborting, stop, resumed>>

ResumeEnds(c) ==
    /\ resume[c] = "running"
    /\ resume' = [resume EXCEPT ![c] = "no"]
    /\ LeaveLane(c, "resume")
    /\ Release(c)
    /\ UNCHANGED <<phase, slots, fired, resumed>>

----------------------------------------------------------------------------
(* Stopping. *)

\* The runner of this controller has its abort listener on the signal.
Listening(c, who) ==
    IF who = "own" THEN phase[c] = "running" ELSE resume[c] = "running"

\* controller.abort() for each of these: a listening runner aborts the lane.
Fire(ctls) ==
    /\ fired' = fired \cup ctls
    /\ aborting' = aborting \cup
          {c \in Children : lane[c] # "none" /\
                \E who \in Runs : <<c, who>> \in ctls \ fired /\ Listening(c, who)}

\* The time limit of a background run.
Timeout(c) ==
    /\ c \in Background \cap InFlight /\ <<c, "own">> \notin fired
    /\ Fire({<<c, "own">>})
    /\ UNCHANGED <<phase, slots, ctl, resume, lane, stop, resumed>>

\* The parent's turn is aborted: its signal is linked to the controllers of the
\* calls that wait, foreground children and continuations.
TurnAborts ==
    /\ LET linked == {<<c, "own">> : c \in Foreground \cap InFlight}
                     \cup {<<c, "resume">> : c \in {x \in Children : resume[x] # "no"}}
       IN linked # {} /\ Fire(linked)
    /\ UNCHANGED <<phase, slots, ctl, resume, lane, stop, resumed>>

\* abortSubagentRun, for the runs in `cs`: nothing without an entry, and nothing
\* a second time.
AbortRuns(cs) == Fire({<<c, ctl[c]>> : c \in {x \in cs : ctl[x] # "none"}})

AbortRun(c) ==
    /\ ctl[c] # "none" /\ <<c, ctl[c]>> \notin fired
    /\ AbortRuns({c})
    /\ UNCHANGED <<phase, slots, ctl, resume, lane, stop, resumed>>

\* stopChildrenOf: abort what is registered, and wait for it.
StopChildren ==
    /\ stop.st = "no"
    /\ LET running == {c \in Children : ctl[c] # "none"} IN
        /\ stop' = [st |-> "waiting", running |-> running, wait |-> running, stuck |-> {}]
        /\ AbortRuns(running)
    /\ UNCHANGED <<phase, slots, ctl, resume, lane, resumed>>

\* A bug: a child that did not stop in time is not reported.
Stuck_None == {}
Stuck == {c \in stop.running : ctl[c] # "none"}

\* Everything waited for was released, or five seconds went by.
StopReturns ==
    /\ stop.st = "waiting"
    /\ stop' = [stop EXCEPT !.st = "returned", !.stuck = Stuck, !.wait = {}]
    /\ UNCHANGED <<phase, slots, ctl, fired, resume, lane, aborting, resumed>>

----------------------------------------------------------------------------

CallStep(c) ==
    \/ Spawn(c) \/ PrepareFails(c) \/ Launch(c) \/ SetupFails(c) \/ RunStarts(c)
    \/ RunEnds(c) \/ Settled(c) \/ Timeout(c) \/ AbortRun(c)
    \/ Resume(c) \/ ResumeFails(c) \/ ResumeRuns(c) \/ ResumeEnds(c)

RunsNext == (\E c \in Children : CallStep(c)) \/ TurnAborts \/ StopChildren \/ StopReturns

RunsSpec == RunsInit /\ [][RunsNext]_runVars

\* What goes on by itself: awaited steps, the time limit, the settle sequence
\* (SubagentNotices!SettleEnds), and a lane that was told to abort or refused the
\* prompt.  No run has to end before its limit.
RunsFair ==
    /\ \A c \in Children :
        /\ WF_runVars(Launch(c) \/ PrepareFails(c))
        /\ WF_runVars(RunStarts(c) \/ SetupFails(c))
        /\ WF_runVars(Timeout(c))
        /\ WF_runVars((c \in aborting \/ lane[c] # "own") /\ RunEnds(c))
        /\ WF_runVars(Settled(c))

----------------------------------------------------------------------------

\* No more than Cap background children are alive at a time, although every launch
\* awaits between the check and the run (agentSpawner.ts:747).
RunsWithinCap == Cardinality(InFlight \ Foreground) <= Cap

\* stopChildrenOf tells the truth: a child it waited for and does not report as
\* still running has left its lane, unless it was continued.  deleteSessionTree
\* deletes the transcripts on its word.
StoppedMeansStopped ==
    stop.st = "returned" =>
        \A c \in stop.running \ (stop.stuck \cup resumed) : lane[c] = "none"

\* A stop request is lost for a run that began after it.
Deaf(c) == lane[c] = "own" /\ <<c, "own">> \in fired /\ c \notin aborting

\* A slot is given back: whatever fails or is stopped, and however long the child
\* would go on, unless the child is one that never hears of its stop.
SlotsDrain == \A c \in Background : c \in slots ~> (c \notin slots \/ Deaf(c))

\* What agentSpawner.ts:1051 says of a controller registered at launch: a stop
\* request that arrives during setup reaches the run.
StopReachesRun ==
    \A c \in Children : lane[c] # "none" /\ <<c, lane[c]>> \in fired => c \in aborting
=============================================================================
