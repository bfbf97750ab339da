---------------------------- MODULE Scheduler ----------------------------
(***************************************************************************)
(* One scheduled job of the sidecar: its JSON file (JobStore), its timers  *)
(* and its <id>.lock file (Scheduler), and the edits that reach it through *)
(* the jobs.* requests (JobsController).  Jobs share no state, so one job  *)
(* is the whole system; the daemon boots, stops and crashes around it.     *)
(*                                                                         *)
(* A callback works on the Job OBJECT its timer captured, not on the file: *)
(* `objs` holds those objects.  A timer is named by the object it captured *)
(* because every attach captures an object of its own.                     *)
(***************************************************************************)
EXTENDS Integers, FiniteSets, Sequences, SequencesExt

CONSTANTS
    Controllers,      \* concurrent jobs.create / update / delete requests
    Builtin,          \* TRUE: the job the daemon seeds itself at boot
    RunOnStartup,     \* the job's run_on_startup flag
    PidReuse,         \* whether the OS may give a dead daemon's pid away
    MaxRuns,          \* the job's max_runs, 0 when it has none
    Budget,           \* max_consecutive_failures, 0 when the breaker is off
    HistoryLimit,     \* HISTORY_LIMIT
    MaxFires,         \* bound: callbacks and runNow calls that start
    MaxObjs,          \* bound: Job objects alive at once
    MaxGenerations,   \* bound: times the job id is created
    MaxEdits,         \* bound: updates
    MaxBoots          \* bound: daemon processes

ASSUME SchedulerAssumption ==
    /\ Builtin \in BOOLEAN /\ RunOnStartup \in BOOLEAN /\ PidReuse \in BOOLEAN
    /\ MaxRuns \in Nat /\ Budget \in Nat
    /\ HistoryLimit \in Nat \ {0} /\ MaxFires \in Nat /\ MaxObjs \in Nat
    /\ MaxGenerations \in Nat /\ MaxEdits \in Nat /\ MaxBoots \in Nat
    /\ IsFiniteSet(Controllers)

VARIABLES
    store,        \* <id>.json, or NoJob
    lock,         \* the fire that created <id>.lock, 0 when there is none
    objs,         \* the Job objects captured in memory
    timers,       \* objects with a live croner / setInterval timer
    handle,       \* Scheduler.handles.get(id): the timer detach() can stop
    fires,        \* the runJob calls
    ctl,          \* where each controller request is
    boot,         \* where the daemon's start-up is
    generations, edits, boots

vars == <<store, lock, objs, timers, handle, fires, ctl, boot,
          generations, edits, boots>>

Fires == 1..MaxFires
Objs == 1..MaxObjs
NoJob == [gen |-> 0]

Entry == [fire: Fires, status: {"running", "ok", "err"}]
Job == [gen: 1..MaxGenerations, enabled: BOOLEAN, runs: Nat, fails: Nat,
        pinned: BOOLEAN, ran: BOOLEAN, history: Seq(Entry)]
Object == [gen: 0..MaxGenerations, history: Seq(Entry)]

\* `pc` is runJob's place; `inv` is the invocation it started, which may
\* outlive runJob's wait for it; `late` marks a fire that timed out.
Fire == [pc: {"new", "lock", "invoke", "persist", "retire", "unlock", "done"},
         obj: 0..MaxObjs, gen: 0..MaxGenerations,
         inv: {"none", "run", "settled"},
         ok: BOOLEAN, late: BOOLEAN, saved: BOOLEAN]

NewFire == [pc |-> "new", obj |-> 0, gen |-> 0, inv |-> "none",
            ok |-> FALSE, late |-> FALSE, saved |-> FALSE]

Request == [pc: {"idle", "mutate", "delete", "unlinkLock", "reload", "get", "attach"},
            gen: 0..MaxGenerations, obj: 0..MaxObjs]

Idle == [pc |-> "idle", gen |-> 0, obj |-> 0]

\* One type invariant: every variable holds a value of its kind, a timer and
\* the handle name objects, and only a used fire names one.
TypeOK ==
    /\ store \in Job \cup {NoJob}
    /\ lock \in 0..MaxFires
    /\ objs \in [Objs -> Object]
    /\ timers \subseteq Objs
    /\ handle \in 0..MaxObjs
    /\ fires \in [Fires -> Fire]
    /\ ctl \in [Controllers -> Request]
    /\ boot \in {"down", "seeded", "list", "up", "stopped"}
    /\ generations \in 0..MaxGenerations
    /\ edits \in 0..MaxEdits
    /\ boots \in 0..MaxBoots

NewJob(gen) == [gen |-> gen, enabled |-> TRUE, runs |-> 0, fails |-> 0,
                pinned |-> FALSE, ran |-> FALSE, history |-> <<>>]

\* The daemon is down; a user's job may be there from an earlier life.
Init ==
    /\ \/ store = NoJob /\ generations = 0
       \/ store = NewJob(1) /\ generations = 1 /\ ~Builtin /\ MaxGenerations > 0
    /\ lock = 0
    /\ objs = [o \in Objs |-> [gen |-> 0, history |-> <<>>]]
    /\ timers = {}
    /\ handle = 0
    /\ fires = [f \in Fires |-> NewFire]
    /\ ctl = [c \in Controllers |-> Idle]
    /\ boot = "down"
    /\ edits = 0
    /\ boots = 0

----------------------------------------------------------------------------
(* Objects and timers.                                                     *)

Waiting(f) == fires[f].pc \in {"lock", "invoke", "persist", "retire", "unlock"}

\* Fires whose runJob or whose timed-out invocation will still unlink.
Holds(f) == fires[f].pc \in {"invoke", "persist", "retire", "unlock"} \/ fires[f].inv = "run"

InUse == timers \cup {fires[f].obj : f \in {g \in Fires : Waiting(g)}}
                \cup {ctl[c].obj : c \in Controllers}

FreeObjs == Objs \ InUse

\* The parsed copy of the file a store.get / store.list hands out.
Snapshot == [gen |-> store.gen, history |-> store.history]

\* `job?.enabled` on the file's copy.
Armed == store # NoJob /\ store.enabled

\* Scheduler.attach: a timer on the object, remembered under the job's id.
Attached(o) ==
    /\ timers' = timers \cup {o}
    /\ handle' = o

\* Scheduler.detach: stops the one timer remembered under the job's id.
Detached ==
    /\ timers' = timers \ {handle}
    /\ handle' = 0

\* Clients' requests reach the controller from the end of start() to the exit.
\* (A turn the daemon itself runs at boot may reach it earlier; that is left out.)
Serving == boot \in {"up", "stopped"}

NextFires == {f \in Fires : fires[f].pc = "new"
                            /\ \A g \in Fires : g < f => fires[g].pc # "new"}

Started(o, gen) == [NewFire EXCEPT !.pc = "lock", !.obj = o, !.gen = gen]

----------------------------------------------------------------------------
(* runJob.                                                                 *)

\* The croner / setInterval callback of a live timer.  It reads neither
\* the file nor the `enabled` flag.
TimerFires(o) ==
    /\ boot # "down"
    /\ o \in timers
    /\ \E f \in NextFires : fires' = [fires EXCEPT ![f] = Started(o, objs[o].gen)]
    /\ UNCHANGED <<store, lock, objs, timers, handle, ctl, boot, generations, edits, boots>>

\* jobs.runNow: fires a fresh copy of the file, enabled or not.
RunNow ==
    /\ Serving
    /\ store # NoJob
    /\ \E f \in NextFires, o \in FreeObjs :
        /\ \A p \in FreeObjs : o <= p
        /\ objs' = [objs EXCEPT ![o] = Snapshot]
        /\ fires' = [fires EXCEPT ![f] = Started(o, store.gen)]
    /\ UNCHANGED <<store, lock, timers, handle, ctl, boot, generations, edits, boots>>

\* writeFile(lockPath, {flag: "wx"}), then the running entry goes to the
\* front of the captured object's history and the invocation starts.
TakeLock(f) ==
    /\ fires[f].pc = "lock"
    /\ lock = 0
    /\ lock' = f
    /\ LET o == fires[f].obj IN
       objs' = [objs EXCEPT ![o].history =
                    LET h == <<[fire |-> f, status |-> "running"]>> \o @
                    IN  SubSeq(h, 1, IF Len(h) < HistoryLimit THEN Len(h) ELSE HistoryLimit)]
    /\ fires' = [fires EXCEPT ![f].pc = "invoke", ![f].inv = "run"]
    /\ UNCHANGED <<store, timers, handle, ctl, boot, generations, edits, boots>>

\* The lock file is not created and the fire ends there: EEXIST drops an
\* overlapping fire, any other failure of the write rejects it.
Skip(f) ==
    /\ fires[f].pc = "lock"
    /\ fires' = [fires EXCEPT ![f].pc = "done", ![f].obj = 0]
    /\ UNCHANGED <<store, lock, objs, timers, handle, ctl, boot, generations, edits, boots>>

\* onPinnedSessionCreated: a pin fire stores its session id on the job's
\* file while it runs, even after its wait timed out.
PinSession(f) ==
    /\ fires[f].inv = "run"
    /\ ~Builtin
    /\ store # NoJob
    /\ ~store.pinned
    /\ store' = [store EXCEPT !.pinned = TRUE]
    /\ UNCHANGED <<lock, objs, timers, handle, fires, ctl, boot, generations, edits, boots>>

\* The history entry is shared with the captured object's history.
Marked(f, status) ==
    [objs EXCEPT ![fires[f].obj].history =
        [i \in DOMAIN @ |-> IF @[i].fire = f THEN [@[i] EXCEPT !.status = status] ELSE @[i]]]

\* invoke settles within the time limit.
InvokeSettles(f, ok) ==
    /\ fires[f].pc = "invoke"
    /\ fires[f].inv = "run"
    /\ fires' = [fires EXCEPT ![f].pc = "persist", ![f].inv = "settled", ![f].ok = ok]
    /\ objs' = Marked(f, IF ok THEN "ok" ELSE "err")
    /\ UNCHANGED <<store, lock, timers, handle, ctl, boot, generations, edits, boots>>

\* A bug: no watchdog bounds the wait.
FireTimesOut_Never(f) == FALSE /\ UNCHANGED vars

\* FireTimeoutError wins the race: the entry is an error, the lock stays
\* with the invocation that is still running.
FireTimesOut(f) ==
    /\ fires[f].pc = "invoke"
    /\ fires[f].inv = "run"
    /\ fires' = [fires EXCEPT ![f].pc = "persist", ![f].late = TRUE]
    /\ objs' = Marked(f, "err")
    /\ UNCHANGED <<store, lock, timers, handle, ctl, boot, generations, edits, boots>>

\* completion.finally(unlink): the timed-out invocation ends at last.
LateSettles(f) ==
    /\ fires[f].late
    /\ fires[f].inv = "run"
    /\ fires' = [fires EXCEPT ![f].inv = "settled"]
    /\ lock' = 0
    /\ UNCHANGED <<store, objs, timers, handle, ctl, boot, generations, edits, boots>>

\* applyRunOutcome: the counters after a fire, and whether it used up
\* max_runs or the failure budget.
RunOutcome(job, ok) ==
    LET runs == job.runs + (IF ok THEN 1 ELSE 0)
        fails == IF ok THEN 0 ELSE job.fails + 1
    IN  [runs |-> runs, fails |-> fails,
         retired |-> \/ MaxRuns > 0 /\ runs >= MaxRuns
                     \/ Budget > 0 /\ fails >= Budget]

\* The closure the runner hands to store.mutate: this fire's fields laid
\* over the latest copy.
Recorded(latest, f) ==
    LET out == RunOutcome(latest, fires[f].ok)
    IN  [latest EXCEPT !.history = objs[fires[f].obj].history,
                       !.ran = TRUE,
                       !.runs = out.runs,
                       !.fails = out.fails,
                       !.enabled = @ /\ ~out.retired]

\* A bug: the generation is not compared.
SameJob_AnyIncarnation(f) == store # NoJob

\* Only the incarnation the fire was started for is written.
SameJob(f) == store # NoJob /\ store.gen = fires[f].gen

\* store.mutate in runJob's finally: one serialized read-modify-write.
Persist(f) ==
    /\ fires[f].pc = "persist"
    /\ IF SameJob(f)
       THEN /\ store' = Recorded(store, f)
            /\ fires' = [fires EXCEPT
                    ![f].saved = TRUE,
                    ![f].pc = IF RunOutcome(store, fires[f].ok).retired
                              THEN "retire" ELSE "unlock"]
       ELSE /\ store' = store
            /\ fires' = [fires EXCEPT ![f].pc = "unlock"]
    /\ UNCHANGED <<lock, objs, timers, handle, ctl, boot, generations, edits, boots>>

\* The write throws: nothing is stored and the job is not retired.
PersistFails(f) ==
    /\ fires[f].pc = "persist"
    /\ fires' = [fires EXCEPT ![f].pc = "unlock"]
    /\ UNCHANGED <<store, lock, objs, timers, handle, ctl, boot, generations, edits, boots>>

\* The disable has landed: the timer is torn down.
Retire(f) ==
    /\ fires[f].pc = "retire"
    /\ Detached
    /\ fires' = [fires EXCEPT ![f].pc = "unlock"]
    /\ UNCHANGED <<store, lock, objs, ctl, boot, generations, edits, boots>>

\* A bug: a timed-out fire also removes the lock its invocation holds.
Unlock_EvenIfLate(f) ==
    /\ fires[f].pc = "unlock"
    /\ lock' = 0
    /\ fires' = [fires EXCEPT ![f].pc = "done", ![f].obj = 0]
    /\ UNCHANGED <<store, objs, timers, handle, ctl, boot, generations, edits, boots>>

\* unlink(lockPath), whoever created it, unless the invocation still owns it.
Unlock(f) ==
    /\ fires[f].pc = "unlock"
    /\ lock' = IF fires[f].late THEN lock ELSE 0
    /\ fires' = [fires EXCEPT ![f].pc = "done", ![f].obj = 0]
    /\ UNCHANGED <<store, objs, timers, handle, ctl, boot, generations, edits, boots>>

----------------------------------------------------------------------------
(* JobsController.                                                         *)

\* jobs.create: an exclusive write, then reload.  A caller-chosen id is for
\* trusted callers; it makes a second incarnation of the id possible.
Create(c) ==
    /\ Serving /\ ~Builtin
    /\ ctl[c].pc = "idle"
    /\ store = NoJob
    /\ generations < MaxGenerations
    /\ generations' = generations + 1
    /\ store' = NewJob(generations + 1)
    /\ ctl' = [ctl EXCEPT ![c].pc = "reload"]
    /\ UNCHANGED <<lock, objs, timers, handle, fires, boot, edits, boots>>

\* jobs.update reads the file first, for the scope checks ...
UpdateRead(c) ==
    /\ Serving
    /\ ctl[c].pc = "idle"
    /\ edits < MaxEdits
    /\ store # NoJob
    /\ edits' = edits + 1
    /\ ctl' = [ctl EXCEPT ![c] = [pc |-> "mutate", gen |-> store.gen, obj |-> 0]]
    /\ UNCHANGED <<store, lock, objs, timers, handle, fires, boot, generations, boots>>

\* A bug: the copy that is current by then may be another incarnation.
UpdateWrite_AnyIncarnation(c, enabled, repin) ==
    /\ ctl[c].pc = "mutate"
    /\ store # NoJob
    /\ store' = [store EXCEPT
            !.enabled = enabled,
            !.fails = IF enabled /\ ~store.enabled THEN 0 ELSE @,
            !.pinned = IF repin /\ ~Builtin THEN FALSE ELSE @]
    /\ ctl' = [ctl EXCEPT ![c].pc = "reload"]
    /\ UNCHANGED <<lock, objs, timers, handle, fires, boot, generations, edits, boots>>

\* ... and writes the caller's fields over the copy that is current by then:
\* re-enabling clears the breaker, a new session strategy drops the pin.
UpdateWrite(c, enabled, repin) ==
    /\ ctl[c].pc = "mutate"
    /\ store # NoJob /\ store.gen = ctl[c].gen
    /\ store' = [store EXCEPT
            !.enabled = enabled,
            !.fails = IF enabled /\ ~store.enabled THEN 0 ELSE @,
            !.pinned = IF repin /\ ~Builtin THEN FALSE ELSE @]
    /\ ctl' = [ctl EXCEPT ![c].pc = "reload"]
    /\ UNCHANGED <<lock, objs, timers, handle, fires, boot, generations, edits, boots>>

\* The job is gone, or is another incarnation: not_found.
UpdateRefused(c) ==
    /\ ctl[c].pc = "mutate"
    /\ store = NoJob \/ store.gen # ctl[c].gen
    /\ ctl' = [ctl EXCEPT ![c] = Idle]
    /\ UNCHANGED <<store, lock, objs, timers, handle, fires, boot, generations, edits, boots>>

\* jobs.delete: built-ins are refused.
DeleteRead(c) ==
    /\ Serving /\ ~Builtin
    /\ ctl[c].pc = "idle"
    /\ store # NoJob
    /\ ctl' = [ctl EXCEPT ![c].pc = "delete"]
    /\ UNCHANGED <<store, lock, objs, timers, handle, fires, boot, generations, edits, boots>>

DeleteStore(c) ==
    /\ ctl[c].pc = "delete"
    /\ store' = NoJob
    /\ ctl' = [ctl EXCEPT ![c].pc = "unlinkLock"]
    /\ UNCHANGED <<lock, objs, timers, handle, fires, boot, generations, edits, boots>>

\* The lock goes too, whether or not a fire still runs under it.
DeleteLock(c) ==
    /\ ctl[c].pc = "unlinkLock"
    /\ lock' = 0
    /\ ctl' = [ctl EXCEPT ![c].pc = "reload"]
    /\ UNCHANGED <<store, objs, timers, handle, fires, boot, generations, edits, boots>>

\* Scheduler.reload: detach, read the file, attach what was read.
ReloadDetach(c) ==
    /\ ctl[c].pc = "reload"
    /\ Detached
    /\ ctl' = [ctl EXCEPT ![c].pc = "get"]
    /\ UNCHANGED <<store, lock, objs, fires, boot, generations, edits, boots>>

ReloadGet(c) ==
    /\ ctl[c].pc = "get"
    /\ \/ /\ Armed
          /\ \E o \in FreeObjs :
                /\ \A p \in FreeObjs : o <= p
                /\ objs' = [objs EXCEPT ![o] = Snapshot]
                /\ ctl' = [ctl EXCEPT ![c] = [pc |-> "attach", gen |-> 0, obj |-> o]]
       \/ /\ ~Armed
          /\ ctl' = [ctl EXCEPT ![c] = Idle]
          /\ objs' = objs
    /\ UNCHANGED <<store, lock, timers, handle, fires, boot, generations, edits, boots>>

ReloadAttach(c) ==
    /\ ctl[c].pc = "attach"
    /\ Attached(ctl[c].obj)
    /\ ctl' = [ctl EXCEPT ![c] = Idle]
    /\ UNCHANGED <<store, lock, objs, fires, boot, generations, edits, boots>>

----------------------------------------------------------------------------
(* The daemon's life.  Requests are served only once start() is over: the  *)
(* client socket is bound after it.                                        *)

\* seedBuiltin, before start(): a missing file is written and reloaded.
Seed ==
    /\ boot = "down"
    /\ boots < MaxBoots
    /\ boots' = boots + 1
    /\ Builtin
    /\ boot' = "seeded"
    /\ \/ /\ store = NoJob
          /\ generations < MaxGenerations
          /\ generations' = generations + 1
          /\ store' = [NewJob(generations + 1) EXCEPT !.ran = TRUE]
          /\ \E o \in FreeObjs :
                /\ \A p \in FreeObjs : o <= p
                /\ objs' = [objs EXCEPT ![o] = [gen |-> generations + 1, history |-> <<>>]]
                /\ timers' = (timers \ {handle}) \cup {o}
                /\ handle' = o
       \/ /\ store # NoJob
          /\ UNCHANGED <<store, generations, objs, timers, handle>>
    /\ UNCHANGED <<lock, fires, ctl, edits>>

\* A user's job is not seeded.
BootUserJob ==
    /\ boot = "down"
    /\ boots < MaxBoots
    /\ boots' = boots + 1
    /\ ~Builtin
    /\ boot' = "seeded"
    /\ UNCHANGED <<store, lock, objs, timers, handle, fires, ctl, generations, edits>>

\* A bug: locks of dead processes are left alone.
CleanStaleLocks_Skip(kept) ==
    /\ boot = "seeded"
    /\ boot' = "list"
    /\ UNCHANGED <<store, lock, objs, timers, handle, fires, ctl, generations, edits, boots>>

\* cleanStaleLocks: the owner of a leftover lock is a dead process, unless
\* the OS gave its pid away: then a lock younger than staleLockMs stays.
CleanStaleLocks(kept) ==
    /\ boot = "seeded"
    /\ boot' = "list"
    /\ lock' = IF lock # 0 /\ ~Holds(lock) /\ ~kept THEN 0 ELSE lock
    /\ UNCHANGED <<store, objs, timers, handle, fires, ctl, generations, edits, boots>>

\* The rest of start(): an enabled job is attached and, when it asks for it
\* and a run was missed (or it never ran), fired on the same object.
StartList(missed) ==
    /\ boot = "list"
    /\ boot' = "up"
    /\ IF Armed
       THEN \E o \in FreeObjs :
              /\ \A p \in FreeObjs : o <= p
              /\ objs' = [objs EXCEPT ![o] = Snapshot]
              /\ Attached(o)
              /\ IF RunOnStartup /\ (missed \/ ~store.ran)
                 THEN \E f \in NextFires :
                        fires' = [fires EXCEPT ![f] = Started(o, store.gen)]
                 ELSE fires' = fires
       ELSE UNCHANGED <<objs, timers, handle, fires>>
    /\ UNCHANGED <<store, lock, ctl, generations, edits, boots>>

\* Scheduler.stop: the timers go, requests and fires run on until the exit.
Stop ==
    /\ boot = "up"
    /\ boot' = "stopped"
    /\ timers' = timers \ {handle}
    /\ handle' = 0
    /\ UNCHANGED <<store, lock, objs, fires, ctl, generations, edits, boots>>

\* What dies with the process: everything but the job file and the lock.
Gone ==
    /\ boot # "down"
    /\ boot' = "down"
    /\ timers' = {}
    /\ handle' = 0
    /\ fires' = [f \in Fires |->
            [fires[f] EXCEPT !.pc = IF @ = "new" THEN "new" ELSE "done", !.obj = 0,
                             !.inv = IF @ = "run" THEN "none" ELSE @]]
    /\ ctl' = [c \in Controllers |-> Idle]
    /\ UNCHANGED <<lock, objs, generations, edits, boots>>

\* The process exits or is killed.
Exit == Gone /\ UNCHANGED store

\* uncaughtException: markRunningAsErr over the file, then exit.
UncaughtException ==
    /\ Serving
    /\ store # NoJob
    /\ store' = [store EXCEPT !.history =
            [i \in DOMAIN @ |-> IF @[i].status = "running"
                                THEN [@[i] EXCEPT !.status = "err"] ELSE @[i]]]
    /\ Gone

Next ==
    \/ \E o \in Objs : TimerFires(o)
    \/ RunNow
    \/ \E f \in Fires :
        \/ TakeLock(f) \/ Skip(f) \/ PinSession(f)
        \/ \E ok \in BOOLEAN : InvokeSettles(f, ok)
        \/ FireTimesOut(f) \/ LateSettles(f)
        \/ Persist(f) \/ PersistFails(f) \/ Retire(f) \/ Unlock(f)
    \/ \E c \in Controllers :
        \/ Create(c) \/ UpdateRead(c)
        \/ \E enabled, repin \in BOOLEAN : UpdateWrite(c, enabled, repin)
        \/ UpdateRefused(c)
        \/ DeleteRead(c) \/ DeleteStore(c) \/ DeleteLock(c)
        \/ ReloadDetach(c) \/ ReloadGet(c) \/ ReloadAttach(c)
    \/ Seed \/ BootUserJob
    \/ \E kept \in {FALSE, PidReuse} : CleanStaleLocks(kept)
    \/ \E missed \in BOOLEAN : StartList(missed)
    \/ Stop \/ Exit \/ UncaughtException

Spec == Init /\ [][Next]_vars

\* The event loop runs continuations, file operations and due timers; it
\* promises nothing about when, or whether, an invocation settles.
Fairness ==
    \A f \in Fires :
        /\ WF_vars(TakeLock(f)) /\ WF_vars(Skip(f))
        /\ WF_vars(FireTimesOut(f))
        /\ WF_vars(Persist(f)) /\ WF_vars(Retire(f)) /\ WF_vars(Unlock(f))

FairSpec == Spec /\ Fairness

----------------------------------------------------------------------------
(* Properties.                                                             *)

Invoking == {f \in Fires : fires[f].inv = "run"}

\* The lock drops a fire that overlaps another (runJob's "wx" create and its
\* finally): while the job's first incarnation exists, at most one
\* invocation runs, also across time-outs, edits, crashes and boot replays.
OneFireWhileStored ==
    store # NoJob /\ store.gen = 1 => Cardinality(Invoking) <= 1

\* A lock file never outlives its fire within a daemon: once start() has
\* swept the directory, the fire that created the lock is still going to
\* remove it, so no job stays "still running" for ever.
LockHasLiveOwner ==
    boot \in {"list", "up", "stopped"} /\ lock # 0 => Holds(lock)

\* No increment of run_count is lost or misdirected: it is the number of
\* accepted fires recorded for this incarnation (applyRunOutcome counts from
\* the latest copy; the generation check stops fires of an earlier one).
RunsCounted ==
    store # NoJob =>
        store.runs = Cardinality({f \in Fires : /\ fires[f].saved
                                               /\ fires[f].ok
                                               /\ fires[f].gen = store.gen})

\* A pinned session id is only dropped with its job or by a strategy change
\* meant for this incarnation of it: a fire's history write (Persist) keeps a
\* pin that landed after it read the job, and so does an update that read a
\* job deleted and created again since.
PinKept ==
    [][store # NoJob /\ store'.gen = store.gen /\ store.pinned /\ ~store'.pinned =>
         \E c \in Controllers, enabled \in BOOLEAN :
            ctl[c].gen = store.gen /\ UpdateWrite(c, enabled, TRUE)]_vars

\* Every fire that starts comes to its end (skipped, or recorded and
\* answered), whether or not its invocation ever settles.
EveryFireEnds == \A f \in Fires : fires[f].pc # "new" ~> fires[f].pc = "done"
============================================================================
