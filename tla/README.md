# Formal verification of taco

taco is a local agent platform: a long-lived daemon (the *sidecar*,
`packages/sidecar`) serves desktop and command-line clients over a socket, runs
agent sessions in workspaces, receives chat messages from IM platforms, and
fires scheduled jobs. This directory holds TLA+ models of the parts of the
daemon, and of the desktop, in which order, failure and concurrency decide
correctness, the TLC configurations that check them on small instances, and
TLAPS proofs of the most important properties for every value of the constants.

Paths below are relative to `packages/sidecar/src/` unless they start at the
repository root. `PROJECT.json` maps every definition that models code to the
lines it models, and lists every component, run, mutant, hazard and theorem.

To repeat a run: `tlc -workers 2 -config MCPushLog.cfg MCPushLog`. To repeat a
proof: `tlapm ConfigStoreProofs.tla`.

## 1. Inventory

### 1.1 Where the concurrency is

The daemon is one Node.js process: code between two `await`s is atomic, and
everything that matters happens at the awaits. Four kinds of actors interleave
there: RPC handlers of connected clients, timers (sweeper, flush timer, croner,
batch windows, watchdogs), promise reactions of work that outlives the handler
that started it, and file-system operations. Around the process there are
crashes and restarts, and other processes (a second daemon that starts, the
CLI, the desktop) that share files with it: `config.json`, `<id>.lock` files,
pid files and sockets.

### 1.2 Components

| Component | State | Operations | What is hard |
|---|---|---|---|
| Command gate `server/commandIdempotency.ts` | records by method and commandId; active turn per session; sweeper | `run`, `prune`, sweep, `stop`, `startSweeper`, settlement | retries while executing, eviction at the limit, reactions of executions that `stop()` orphaned |
| Push log `server/sessionEventLog.ts`, `server/durablePushLog.ts` | ring and counter per session; buffered frames, timer and operation chain per file; the file | `append`, `hydrate`, `replay`, `clearSession`, `clearWorkspace`, flush, compaction, repair | frames between memory and disk at a crash, deletion against a write in flight, an await inside `hydrate` |
| Workspace registry `server/workspaceRegistry.ts` | entry per workspace (starting, ready, closing) with its promises; `closingAll`; `stopped` | `ensure`, `remove`, `stop`, `disposeAll`, `start` | constructors that finish after their removal, callers parked on other calls' promises |
| Scheduler `scheduler/runner.ts`, `scheduler/store.ts`, `scheduler/jobsController.ts` | job file, lock file, timers and handles, captured `Job` objects, fires | timers, `runNow`, `runJob`, `reload`, `start`, `stop`; create, update, delete, seed | overlapping fires, time-outs whose invocation runs on, edits between a read and a write, stale captured objects, leftover locks |
| Config store `config/configStore.ts` | `config.json`, lock directory with an owner token, `liveLockTokens`, `pendingReleases` | `update` with `lock`, reclaim, release | several processes, death between any two system calls, reuse of pids, releases that fail half-way |
| Inbound batcher `channels/inboundBatcher.ts` | open batch per chat (items in flight, times, timer), closed batches in hand-over | `push`, `arm`, `close`, `dispose` | downloads that settle in any order against quiet and maximum windows |
| Permission broker `permissions/permissionBroker.ts`, `server/handlers/commandPermission.ts` | pending asks with their timers and signals; rules per session; allow and deny lists | ask, evaluate, approve, refuse, time-out, abort, session and workspace cleanup | the await of the display context between reading the lists and registering the ask; answers to a prompt whose guard changed; children that answer to their root |
| Channel bind broker `channels/channelBindBroker.ts` | status, connect watchdog, pairing-code requests | set state, request code, submit, time-outs, cancel, reset | watchdog against late connection, a second login, a request that was replaced |
| Session registry `runtime/session/sessionRegistry.ts` | slot queue, attached map and library handle per session; title records and caches | create, read, attach, detach, delete; rename, summarise, list | one handle per session file; what the map said before a wait; caches filled by a scan that is older than a write |
| Subagent spawner `runtime/subagent/` | background slots, abort controllers, durable notices of the parent, deliveries | spawn, continue, stop, settle, deliver, flush | stops during setup, slots kept by chains that wait for others, a parent that is busy, detached, deleted or lost in a crash |
| Desktop push processor `clients/taco-desktop/src/lib/`, `hooks/useSidecarStream.ts` | cursor, chain of pushes, recovery under way | process, gap pull, snapshot, reset after a new daemon; open and leave the session | frames during a recovery, snapshots of a moving session, a daemon replaced under a queue of its pushes, a history that is shown beside a cursor it does not move |
| Memory consolidation `memory/dream/`, `memory/local/store.ts` | topic files and archive, preview, reports, lock | plan, check, preview, apply, discard, undo | plans applied long after their snapshot, partial failure of a merge, death in the middle, undo after later edits |
| Daemon start, CLI start lock, desktop reaping | socket, pid file, start lock | probe, bind, retire, reap | two starters, stale sockets and pids |

`PROJECT.json` lists the rest (command policy, models, checkpoints,
MCP, extensions, tools, upgrader, user interface) with the reason each is left
out: pure text or data transformation, third-party protocol, or plain I/O.

### 1.3 How the modelled components interact

`SidecarServer` (`server/server.ts`) ties them together. A request passes
the command gate, obtains its workspace from the registry, and acts on a
session whose frames go through the push log to the clients. `stop()` stops the
gate, disposes every workspace and drains the push log, in that order.
`JobsController` and the scheduler share job files through `JobStore`, whose
per-id queue makes one read-modify-write (`mutate`) atomic, and the built-in
jobs are seeded before the scheduler starts (`index.ts`). 
A session's subagents end in the background of their parent: their notices go
through the parent's lane, which the parent's own turns and compactions use too.
Attaching, detaching and deleting a session pass its slot in the registry, stop
its children, abort its turn and clean its permission rules up. Tool calls of a
session and its subagents ask the permission broker, and what it shows on the
desktop is displayed by the root of the tree. What the desktop shows of a session
has three sources: the frames of the push log, delivered or replayed from its
window; the history it asks for when the session is opened; and the snapshot it
asks for when the window has moved on. Only the last of these sets the cursor too.
Messages of an IM chat are batched into prompts of a session by the batcher of a channel that the
bind broker has brought up.

The components share no state besides these calls, so each is modelled with the
calls the others make as its environment. `PushLog` and `PushClient` are two
halves of one promise: the first implements `PushStream`'s window, the second
assumes a log of which the last `Capacity` frames can be replayed and of which a
daemon may lose any part of the end when it goes down.

## 2. Modules

| Module | Models | Constants of the program | Bounds |
|---|---|---|---|
| `CommandGate` | the gate with `handleRpcRequest`, `start`, `stop` | keys, fingerprints, sessions, `TurnOf`, `Limit`, `Ttl` | `MaxRuns`, `MaxTime`, `MaxRestarts` |
| `PushStream` | what the push log promises: a bounded window of consecutive frames, until it breaks | `Capacity` | `MaxFrames` |
| `PushLog` | ring, buffer, operation chain and file of one stream | `Capacity`, `Keep` | `MaxFrames`, `MaxRestarts`, `MaxCrashes`, `MaxFaults`, `MaxDisposals`, `MaxDeletes` |
| `WorkspaceRegistry` | the registry with its promises | workspaces, callers | `Entries`, `MaxRemovals`, `MaxStops` |
| `Scheduler` | one job: runner, store, controller and the daemon's lives | `MaxRuns`, `Budget`, `HistoryLimit`, `RunOnStartup` | `MaxFires`, `MaxObjs`, `MaxGenerations`, `MaxEdits`, `MaxBoots` |
| `ConfigStore` | `update()` of several processes, one step per system call | processes | `MaxUpdates`, `MaxCrashes` |
| `InboundBatcher` | one chat, with discrete time | `QuietMs`, `MaxWaitMs`, `MaxDownload` | `MaxMessages`, `MaxTime` |
| `PermissionBroker` | the broker and the handler of its answers | sessions, commands, `Config`, asks, `Root` | `MaxEdits` |
| `ChannelBind` | the bind broker of one channel, driven by its users | | `MaxRequests` |
| `SessionSlots` | who holds the handle of one session | `SlotCallers`, `NoOwner`, `TheMap` | |
| `SessionTitles` | the title of one session, its source and caches | `Writers` | |
| `SubagentRuns` | spawning, continuing and stopping the children of one parent | children, `Foreground`, `Cap` | `Continued` |
| `SubagentNotices` | how the end of a child reaches its parent | `Calls` | `Flushers`, `MaxFaults`, `MaxCrashes` |
| `PushClient` | the desktop's copy of one stream, and the snapshot handler | `Capacity`, `SnapshotTries`, `SnapshotRetries` | `MaxFrames`, `MaxMissed`, `MaxFailures`, `MaxRestarts`, `MaxOpens` |
| `MemoryDream` | consolidation of one workspace's topics | topics, `StaleTopics`, `Replies`, `MinTopics`, `RetirementFloor` | `MaxPlans`, `MaxEdits`, `MaxDreamCrashes` |
| `*Proofs` | theorems about the module they extend | | |
| `MC*` | the instances TLC checks | | |

`MCSessions` and `MCClients` check several components that share no state in one
run: a variable `part` picks the one a behaviour explores, and the others stay in
their initial states, so the number of states is the sum, not the product.

An operator named `X_Something` placed before `X` is a plausible bug of the code
`X` models. It is used by no specification: it documents, and lets one repeat,
that a property notices the bug when it takes the place of `X`.

### 2.1 CommandGate

An execution is a promise, named by the number of the `run()` call that started
it; that number is also the insertion order of the `records` Map, which is what
`prune()` evicts by. A request is one of `Replay` (same fingerprint: join the
outcome), `Busy` (the session has a turn) or `Execute`. A request with another
fingerprint for a live record is refused by `run()` without any change of state
and so is no action. `Settle` is the execution's `then` and `finally` reactions,
which run back to back: mark settled, prune, release the turn. `Stop` clears
records, turns and sweeper while executions go on, so a later `Settle` meets
the state of a later incarnation: `epoch` tells the two apart.

The clock (`performance.now`) is `Tick`. It runs on to `MaxTime + Ttl`, while
executions start only up to `MaxTime`, so that every record has time to expire.

### 2.2 PushLog and PushStream

`ring` is the `SessionStream`; `pending`, `timer`, `missing` and `chain` are the
`FileState`; `disk` is the file with its complete lines and whether the last one
is torn. File operations are queued in `chain` and run one at a time, in the
phases `flushSync()` and `loadTail()` have between awaits: take the buffer,
write, read, return. `FlushWrite` compacts or appends; a compaction is forced by
a torn line or by `2 * Keep` lines, and may also be asked for by the byte
budget, which the model leaves open. `PartialWrites` is what a failed or
interrupted write may leave behind: nothing, all, or some lines with or without
a torn one. `Crash` interrupts a write, or a repair, which truncates the file
before it writes it again.

A frame is its sequence number and an identity (its place in `emitted`), so that
a number given twice is visible. `ReplayReset` and `ReplayEvents` are
`SessionEventLog.replay()` for every cursor.

The module takes the steps the code allows, in any order, and that includes some
after which the code does not keep its window (section 5). Four steps put frames
in the wrong place or lose them, and the history variable `intact` says that none
of them has happened:

* `FlushFails`: a write fails and the batch it took from the buffer is gone;
* `AppendFrame` by a session whose tail was never loaded (`AttachUnhydrated`:
  `session.create`, or a handler that uses `ensureAttached`,
  `server/handlers/attachGuard.ts`), when there are frames in the log;
* `HydrateReturn` with a tail that was read before frames which are still
  buffered were emitted: a frame during `hydrate()`, or a disposal inside the flush
  window;
* `TombstoneExpires`: the session is deleted, and the stream is over.

The events are exact: an attach without a tail breaks nothing while there is
nothing in the log, nor does a `hydrate()` that found no file or that no frame
overtook. `intact` guards no step; it is only in what the properties say. Crashes,
torn lines, restarts, disposals, compactions and failing unlinks end nothing.
`crashed` is how many frames there were at the last crash: a number is given twice
only if the frame that had it was one of them and the log has it no more.

`PushStream` states the promise in two variables: the window grows at the end by
the next number, drops its oldest frames, and only shrinks at the end, by a
crash; `promised` is taken back by the steps above, after which nothing is said.
`PushLog` implements it under the mapping of the window to the last `Capacity`
frames of file, write in flight and buffer, and of `promised` to `intact`. That
this one expression covers the ring, the restart and the disposal is the point of
the refinement; `TailHoldsRing` relates it to the live ring.

### 2.3 WorkspaceRegistry

An entry is an object with an identity, because promises hold on to entries that
the map has forgotten. The code's `closing` state is three here: the constructor
still runs (`aborting`), its late runtime is being disposed (`discarding`), or a
ready one is (`disposing`). A call of `ensure()` is at one of its awaits:
`closingAll`, a `build` it joined, a `close` it waits for; `again` and `resume`
are the continuations, which run before the next socket event (`Quiet`).
Constructors and disposals may fail. `publish()`, used to inject a runtime, is
left out.

### 2.4 Scheduler

One job is the whole system, since jobs share nothing. A timer's callback works
on the `Job` object it captured, not on the file, so `objs` holds the captured
objects and a timer is named by its object. `handle` is what `detach()` can
reach: a timer that is live but not the handle can no longer be stopped.
`runJob` is a fire that passes `lock`, `invoke`, `persist`, `retire`, `unlock`;
its invocation (`inv`) may outlive it, in which case the lock stays until
`LateSettles`. `Persist` is one `store.mutate`, which lays the fire's fields
over the latest file of the same incarnation. Requests of the controller read,
mutate, and reload in separate steps; a reload detaches, reads and attaches in
three. A daemon's life is `Seed` or `BootUserJob`, `CleanStaleLocks`,
`StartList`, serving, `Stop`, `Exit` or `UncaughtException`.

`generations` counts incarnations of the id (`job.generation`), `kept` is a lock
whose dead owner's pid belongs to somebody else and that is younger than
`staleLockMs`. Left out: actor scope checks, the migration of old files, the
arithmetic of croner (a live timer may fire at any moment), and clients' requests
that arrive before `start()` has run, while the daemon boots. `Skip` is a fire that
finds the lock taken or cannot create it; a lock file that is created and then cannot
be written is left out (section 5).

### 2.5 ConfigStore

`update()` is synchronous, so a process is one thread, and each system call is a
step: rename of a prepared directory onto the lock, readdir, unlink of an owner
token, rmdir, read, rename of the new file. The lock directory is its set of
tokens, or `Absent`. A transaction's effect is its token: `file` is the set of
transactions whose effect it holds. A process is its pid; `Restart` is a new
taco process that was given a dead one's pid. A pid taken by an unrelated
program is left out: the lock is then never reclaimed and every wait ends by its
deadline, which `TimeOut` covers. Every call may fail (`LockFails`, `Abort`,
`ReleaseFails`).

### 2.6 InboundBatcher

Messages are numbered in arrival order. Text is ready at once, media when its
download settles, at the latest `MaxDownload` after its arrival, a time-out the
platform adapters impose. Timers are punctual: time does not pass while a timer,
a promise or a download is due (`Idle`). A batch closes with all its items
settled, so hand-over follows the order of closing. `delivered` is the calls of
`flush()`: each with the items of its batch that were fulfilled, at their places
(`Fulfilled`).

### 2.7 PermissionBroker

A tool call is an ask: `resolving` while the session that displays it is looked
up, `pending` while it is parked, then `answered`. `Ask` reads the configuration,
as `evaluateAndRequest` does, before that await; `Resolved` evaluates after it.
The text of a command is abstracted to what the evaluation tells apart: it is
refused whatever the rules, is on a deny list, may be allowed once only (`opaque`:
opaque shell syntax, outside the workspace), or may be allowed for good. Approvals, refusals, time-outs, aborts
(`AbortTurn`), `CleanupSession` and `CleanupAll` finish an ask. The ghost
`granted` holds what the user meant to allow for a session since it was attached.
A signal that fired during the await is never heard of again (`aborted`), so such
an ask is answered only by its timer, its session's cleanup or the user. Left out:
the explorer subagents' read-only broker, which never parks and drops every rule;
commands that run by themselves, as read-only ones or in auto mode
(`commandPolicy.ts:788-804`), which touch no state of the broker; and edits of the
configuration that take a command off the allow list. A broker of an IM
conversation is one without an approver.

### 2.8 ChannelBind

`bind` is the status the desktop shows and, while a code is asked for, the request
it names; `verify` the requests that wait. Every change of status arms or disarms
the watchdog. The SDKs are external and report any state at any time; users log
in, cancel (`Reset` after the await of `logout`) and submit codes; `CloseChannel`
ends it all.

### 2.9 SessionSlots

Calls queue in `slot`, and the first of them runs (`withSlot`). A call looks at
the attached map before it queues or when its turn comes (`Turn`, with the code's
own re-checks), opens the library's handle, uses it and closes it, or leaves it
to the map. `clash` records that the library refused because the session was
open. Data of the session, and the two ways of creating one, are abstracted to
`Uses(c, ok)`. The library's `close()` is taken to release the handle also when it
reports an error, which `dispose()` only logs (`runtime/harness/attachedSession.ts:982-991`).
A deletion disposes of an attached session in its own turn and then
removes the file.

### 2.10 SessionTitles

A call scans the file (`Scan`), fills the caches with what it read (`Hydrate`) and
writes if the source it then finds allows (`Write`, `MayReplace`). The run that
uses it shows the disagreement of section 5.

### 2.11 SubagentRuns

A child is named by the call that spawned it and goes through `reserved`, `setup`,
`running`, `settling`, `done`. Its own run and a continuation have a controller
each, share one entry of `subagentControllers` and one lane. `Fire` is `abort()` of
a set of controllers, heard by those whose run has added its listener. `stop` is
`stopChildrenOf`: the snapshot it takes, and what it reports as stuck when its
five seconds are over. Left out: prompts, profiles, depth limits, forked context,
the summary at the turn cap, the external runner.

### 2.12 SubagentNotices

When a child ends, its notice is put on the parent's durable record, delivered
into its conversation and cleared. `queue` is the per-parent queue of
read-modify-writes (`withPendingQueue`), `dl` each delivery (`prompt`, else
`enqueue`, one retry after the lane became busy in between), `flush` a
`flushPendingSubagentResults` after an attach, which `flushingParents` keeps from
running twice. The parent is attached, detached or deleted and its lane holds at
most one operation. `told` and `late` are ghosts: deliveries that were reported as
landed, and repeated flushes of one notice. A write may fail, a listener throw,
the daemon die between any two steps.

### 2.13 PushClient

`log` is the daemon's stream; a frame is known by the order of its emission, so that
one which took a lost one's number is another frame. A push is taken from `chain`,
delivered if it is the next one, dropped if it is old, and otherwise starts a
recovery: `events` (replay from the window), then `ask`, `read` and `compare` (the
snapshot handler, which compares the counter before and after its read and tries
`SnapshotTries` times), `delay` between failed attempts. Frames may be missed and
requests fail.

`Down` replaces the daemon and may lose the end of its log. Pushes already received
stay queued; the cursor is reset by the handshake, not behind them, and
`SIDECAR_RESTARTED` keeps the messages (`Reconnect`). `shown` says that the session
is the workspace's active one: only then do delivered frames and snapshots change
`view`, while the cursor goes on in any case (`Delivered`, `SnapshotEnd`). `Leave`
takes the session off the screen; `OpenSession`, `HistoryRead` and `ShowSession` are
`attachSession()`, whose `ATTACH` shows the history and leaves the cursor where it
is; `OpenFails` shows nothing, or an empty session when only the history failed.
`History` is every frame emitted, since the transcript is another file than the
push log.

A message is the frames it reflects, in the order in which they were delivered, and
a frame delivered twice is there twice: what the reducer makes of it is left out.
So is `resync()` of unsequenced pushes. The dispatch and the `resetTo()` at the end
of a snapshot are one turn of the event loop and one step here.

Ghosts: `mark` is the cursor and the view when one of them was last set from
elsewhere than the stream (a new daemon, a snapshot, the session opened); `era`
counts the daemons that lost frames, and `foreign` says that since then a queued
push of lost frames was accepted as the new daemon's. `ViewIsStream` says that from
the mark on the view follows the daemon's frames exactly. It does not say that what
was shown at the mark fits the frames that follow; after a new daemon, and after
opening the session, it does not (section 5), and only for a snapshot does
`ViewIsStream` claim it.

### 2.14 MemoryDream

A content is a number given to it when it is written, so "the topic is as it was"
is equality. A run takes a snapshot, asks the model (any of `Replies`, of which
`Valid` and `Capped` leave what the code accepts), and applies at once
or keeps a preview for the user. An apply is a task of one file operation per
step (`ApplyRewrite`, `ApplyArchive`, `MergeSource`, `MergeTarget`,
`MergeRollback`; `Foremost` is the action the loop is at, in the order merges,
rewrites, archives) with a `Checkpoint` of the report between actions; `ApplyEnds`
(final report, preview, lock) is one step. `UndoStep` goes through the report.
Others write, delete and restore topics between any two steps. `DreamCrash` may
come anywhere and leaves the lock behind, which is then free to the next run:
that it has to be old first is left out. Ghosts: `base`, the topics before a plan
was applied, `touched`, what others changed since, `fresh`, contents others wrote
after the snapshot. The store's read, compare and rename of one topic are one step.
Left out: their I/O errors, time and churn gates, the backoff, the
prompt and its parsing, the extractor, `MEMORY.md`.

## 3. Runs

The numbers are distinct states of a complete search with two workers.

| Run | Configuration | What it shows | States |
|---|---|---|---|
| `gate` | two commands, one of them a turn, two parameter sets, cache limit 1, three executions, TTL 2, one restart | at most one turn per session and incarnation; a session is busy only while a turn runs; a command in flight is not executed twice within its TTL even when the cache overflows; every record drains | 120 623 |
| `push_window` | capacity 2, keep 2, five frames, one stop, two crashes, one fault, one disposal, one deletion, one caller | while the stream is unbroken the tail holds the ring, replay leaves no hole and only numbers lost in a crash come again; `PushLog` implements `PushStream` | 433 695 |
| `push_delete` | three frames, one deletion, fault, crash and restart; fairness | a deleted session's frames are gone from the file once its unlink ran; callers of `hydrate()` are answered behind any failure | 101 698 |
| `registry` | two workspaces, two callers, three entries, two removals, three stops | one runtime per workspace, nothing survives `stop()`, every `ensure()` is answered | 75 569 |
| `sched_user_job` | two requests at once, one fire, two incarnations, one edit, two daemon lives | locks are not orphaned; counters and pins of an incarnation are only changed by what was meant for it, whatever one request does between another's read and write | 2 088 214 |
| `sched_builtin` | the seeded job, two fires, two lives, failure budget 1, reused pids, fairness | fires of a doubly attached job do not overlap, and every fire ends | 397 593 |
| `config` | two processes, two transactions each, two crashes, fairness | one holder, no lost change, no stolen lock, every transaction ends | 99 144 |
| `sessions` | notices of two children with two flushers, one fault, one crash; three children, one of them in the foreground and one continued, cap 1; three callers of one session; fairness | a notice leaves the record only after it was delivered, flushes do not repeat it, settle sequences end; the cap holds, a stop tells the truth, slots drain; nobody meets an open handle, every call ends | 172 693 |
| `clients` | capacity 2, five frames, one missed, one failure, one restart, one opening; two asks of a session and its subagent, one command and a configuration patch, one edit of the guards; three messages, quiet 2, longest wait 4, download 3; three pairing codes; fairness | the desktop's view follows the stream and its queue drains; nothing runs unasked without a grant, every ask is answered; messages are delivered once and in order, none is lost; a prompt for a code is live, `connecting` ends | 371 709 |
| `dream` | three topics and a fourth id, three answers of the model, two plans, two edits by others, one crash | nobody's later edit is replaced, and an undo gives back what its plan took | 2 067 732 |
| `subagent_stop` | one background child | *violated*: a stop during setup is lost | |
| `title_race` | two concurrent calls | *violated*: a user's title is replaced by a summary | |

### 3.1 Why the bounds are enough

* `gate`: with cache limit 1 and two keys the cache overflows while a record is
  in flight; three executions let a key be executed, expire and be executed
  again around an execution of the other key; one restart makes one orphan,
  whose reactions meet a new owner of the same session.
* `push_window`: capacity 2 and five frames make the ring shift three times;
  `2 * Keep` = 4 lines make an append, a forced and an optional compaction
  possible; two crashes let the second meet the repair of what the first tore. The
  constraint `Unbroken` stops at a state that is not `intact`, of which the run's
  properties say nothing; the steps that break the stream are taken. Proved for all
  instances.
* `push_delete`: three frames put one in the file, one in a write and one in the
  buffer when the session goes.
* `registry`: three entries for two workspaces let a closing entry, its
  successor and another workspace's entry exist together; three stops let a
  caller parked on one `closingAll` meet the next.
* `sched_*`: two incarnations are needed for a late write and two lives for a
  leftover lock; one fire suffices for both, and two requests for an edit between
  another's read and write. Two fires, in `sched_builtin`, are needed for an
  overlap. `NoOverlap` (section 4) covers all larger instances of that property.
* `config`: two transactions per process let a token of an old transaction meet
  the lock of a new one; proved for all instances.
* `sessions`: two calls and two flushers are the least for two writers of the
  record and for an attach during a flush; a second child of a cap of one is the
  one refused or let in too early, and a third, in the foreground, shares the
  parent's abort; of three callers one runs, one waits with a stale view of the
  map, and one changes the map.
* `clients`: five frames with capacity 2 let the window move on during a recovery;
  a missed frame makes a gap, frames emitted while the desktop is disconnected or
  the cursor at 0 one beyond the window; a restart comes into a recovery, a snapshot
  or the opening of the session, and may lose frames whose pushes are queued. The
  property of the view is proved for all instances. Two asks make a rule and a call
  that may use it. Three messages let a middle download settle last, a batch close
  before an earlier one is handed over, and a text message meet a download. Three
  requests let a replaced one meet its successor's end.
* `dream`: two plans let a preview outlive an applied plan and an undo come after
  another apply; two edits put one before and one after an apply. `RetirementFloor`
  is 3, not the code's 2, and `MinTopics` 2, not 3, so that a merge and an archive
  fit a plan over so few topics.

`MCScheduler` uses a VIEW that leaves out captured objects nothing refers to:
they are overwritten before they are read again. The run with fairness uses no
view. `CHECK_DEADLOCK FALSE` is set where the bounded system really comes to
rest: all frames emitted, all transactions done.

### 3.2 Fairness

* `gate`: the clock and the sweeper's interval. No fairness on `Settle`: a
  handler may hang.
* `push_delete`: the flush timer fires and file operations complete or fail.
* `registry`: constructors, disposals and reactions end. Constructors and
  disposals are awaited without a time limit in the code, so this is an
  assumption about them; the property is that nobody waits in a circle.
* `sched_builtin`: continuations, file operations and the watchdog timer. None
  on an invocation's end or on persistence failing.
* `config`: a live process runs on, and its deadline, read from
  `performance.now()` on every pass, is noticed (strong fairness, because a
  process passes through the state again and again). None on failures, crashes
  or restarts.
* `sessions`: awaited file operations, deliveries and the operation of a lane end,
  a child's time limit fires, a run that was told to abort ends, and tasks in a
  slot end. A run that was not told to stop need not end, and nobody has to
  attach, stop or call anything.
* `clients`: promise reactions, answers and timers. The desktop's requests are
  answered or fail, the display context is found or not, the ten-minute and
  pairing timers and the watchdog fire, time passes for a batch and downloads end
  by their time-out. None on frames, daemons, users or platforms.

## 4. Theorems

All are proved by TLAPS for every value of the constants that satisfies the
named assumptions of the module (types of the constants, `Limit` and `Ttl` at
least one as the constructor clamps them, `Absent` not a set of tokens,
`NoTurn` not a session, a finite set of controllers or processes). The bounds of
section 2 are constants too, so "for every value" includes every number of
fires, frames, edits or crashes. Together the theorems state every safety property
the passing runs check, and the refinement of `PushStream`.

One of them has a hypothesis about the environment. It is the one under which
the run checks the property:

| Hypothesis | Theorems | What it excludes |
|---|---|---|
| `~PidReuse` | `LockIsReleased` | a stale lock whose dead owner's pid belongs to another process, which the code keeps until `staleLockMs` have passed |

### 4.1 CommandGateProofs

`TypeCorrect`, `TurnGate`, `NoStuckTurn`, `ExecutedOnce`,
`AnsweredWithOwnOutcome`. `OneTurnPerSession` is not inductive: `run()` looks
at the turn table, not at the executions. `TurnsAgree` adds that a running turn
of this incarnation is the one the table names. `NoReexecutionInFlight` needs
`RecordsAgree`: the record of a running execution stays in the map, unsettled
and with its own expiry, until its TTL has passed, because `prune()` only takes
expired or settled records (`PruneRemoves`).

### 4.2 PushLogProofs

`DeletedStaysDeleted`, `RingSurvivesRestart`, `NumbersAreUnique`,
`ReplaysAreComplete`, `LogImplementsStream`, none with a hypothesis. `LogInv` adds to
the types that only the head of the operation chain is under way (`HeadRuns`) and
that what was emitted before the last `clearSession()` is neither buffered nor, once
the unlink ran, in the file or in the write under way (`Forgotten`).

The last four rest on `StreamInv`, which is `LogInv` and, for a stream that is
intact, `Whole`. The numbers of what is durable, or on its way there, are
consecutive (`Consecutive`); a ring is its end and counts on from there
(`RingIsEnd`); a frame with the number of an earlier one comes after a crash that
lost the earlier one (`SinceCrash`, `LaterIsHigher`, and `IdsArePlaces`, which holds
always). None of it is inductive without `FileInv`, which says what the awaits of
`flushSync()` and `loadTail()` rely on: a tail that was read is still the end of
what is durable but for the frames buffered since (`TailIsFresh`), so that
`hydrate()` puts back the right one unless a frame overtook it, the event `intact`
records; and what is buffered when the daemon stops is taken by a flush at the end of
the chain (`LastIsFlush`). `IntactSteps` sorts the steps that keep a stream intact.
`DurableSteps` is the lemma the rest is built on: such a step appends one frame to
what is durable, keeps its last frames (a compaction, at least `Capacity` of them),
keeps its first ones (a crash), or leaves it. `LogImplementsStream` is that lemma
under the refinement mapping.

### 4.3 ConfigStoreProofs

`TypeCorrect`, `ExclusiveUpdate`, `StaleReleaserHarmless`, `ChangesKept`.
A process that removes an owner decided so some steps earlier, so mutual
exclusion alone is not inductive. The key is that the token somebody is about
to remove is *retired*: its transaction is over or its process is dead, and
every transaction has a fresh token, so a retired one is never published
again. `LockInv` is that, plus: tokens in circulation were begun, a waiting
process has registered its own token as live (else it would reclaim itself),
and the holder's token is alone in the directory. `UpdateInv` adds that what a
holder read is still what the file holds.

### 4.4 SchedulerProofs

`TypeCorrect`, `NoOverlap`, `PinOutlivesWrites`, `LockIsReleased`,
`NoRunMiscounted`. The type invariant needs that a fire under way and a reload
about to attach name an object (`Typed`). `NoOverlap` rests on `LockOwned`: while
the first incarnation exists, a fire that has the lock, or whose timed-out
invocation has it, is the one the lock file names; `DeletionEndsLife`, that a
request past the deletion of the file means this life is over; and
`InvocationsAwaited`, that a running invocation belongs to a fire that waits for
it or timed out. It is limited to the first incarnation because `delete` unlinks
the lock under a running fire and `runJob` unlinks whatever lock is there.

`PinKept` and `RunsCounted` speak of the job file, so `FileSteps` sorts every step
by what it does to it: creates it, edits it, removes it, or records a fire. The
count is exact because a fire knows the incarnation it belongs to, generations
only grow (`GenerationsBounded`), and a fire is marked as recorded in the step
that counts it (`FirePhases`). `LockHasLiveOwner` needs `LateOwner`: a timed-out
fire keeps the lock until its invocation settles.

### 4.5 SubagentProofs

`CapHolds`, `StopTellsTheTruth` for `SubagentRuns`. The cap is checked against
`slots`, the property speaks of children that are alive: `SlotInv` says every
background child between reservation and end has its slot. `StopInv` relates the
entry of the controller map, which is all `stopChildrenOf` looks at, to the phase
of a child that was never continued; `LaneInv` relates phases and lanes. Children
that were continued are excepted because a continuation overwrites the entry.

`NoticeNotLost`, `NoticeFlushedOnce` for `SubagentNotices`. A notice is cleared by
a job queued after its delivery, so `NoticeKept` needs that a clear in the queue
is for a notice that was told (`ClearsTold`) and that the job at work read the
record as it is (`ReadIsCurrent`): without it a write could put back or drop what
another job changed. `FlushedOnce` needs that one flush is at work (`OneFlush`),
that each of its notices is delivered once (`FlushCalls`), and `Once`: a notice a
flush delivered is recorded only while that same flush waits for its clear.

### 4.6 WorkspaceRegistryProofs

`SingleRuntime`, `StopIsFinal`. Both rest on `RegistryInv`: `Mapped`, that every
entry that is alive is the map's entry of its workspace (a forgotten one has been
disposed), `Awaited`, that `closingAll` waits for every entry that is alive, and
`Resumed`, that no caller resumes from an await while `closingAll` is active.
`OneRuntimePerWorkspace` alone is not inductive because `ensure()` only looks at
the map.

### 4.7 ClientsProofs

`PromptLive` (`ChannelBind`): the requests that wait are at most the latest, and a
status that asks names it.

`NothingUnasked` (`PermissionBroker`), an action property. `RulesGranted` says a
session's rules are among what the user meant to allow, `StillListed` that what a
call cached of the allow list before its await is still on it, `Placed` that a
parked ask knows the session whose rules an approval extends.
`OnlyEvaluationAllows` shows that no other step lets a command run unasked.

`DesktopShowsTheStream` (`PushClient`), with no assumption on what a daemon keeps.
`ViewFollows` says what the property does without its demand on snapshots,
`MarkIsWhole` that a snapshot had the frames up to its number and still has those of
the log, `SnapFits` that a history read between two looks at the counter fits the
number it will be given if they agree. `PushesTrusted` is why no frame gets in that
the daemon does not have: a queued push that was sent since frames were last lost
carries the frame that has its number (`Genuine`). `LogSorted` makes a frame that
was lost never one of the log again.

`PromptsInOrder` (`InboundBatcher`): the open batch, the batches that wait for
their downloads and what was handed over are one line in arrival order
(`BatchLined`, `TailsLined`, `DeliveredLined`), in which items may be missing.

### 4.8 WorkspaceFilesProofs

`HandleFree` (`SessionSlots`). `HeadInv` says only the first in line is inside its
task, `HandleInv` that the handle belongs to the map exactly while the session is
in it and to a caller exactly while that one uses it, `FileInv` that a session
which is created was never there.

`LaterEditsStay` (`MemoryDream`). Every operation compares a topic with a content
the plan, its report or the call knows. `DreamInv` says that none of those is a
later edit: they were written before the topics were last shown to the model, or by
the plan itself. Operations without a compare (`RestoreTopic`, a merge's target)
look for an absent topic instead.

`UndoGivesBack` (`MemoryDream`), an action property about the end of an undo whose
proof follows a plan from its first step. `Undoable` says what a record must say of
each topic nobody else changed since: it is among the created and still has the
content the plan wrote, or among the archived with its old content in the archive,
or it was rewritten and the old content is kept, or it is as it was. `UndoInv`
carries this through the apply (where sources already moved count as archived,
`BusyInv`), into the report (`ReportInv`) and through the undo. Three facts make it
inductive: a topic the plan has already worked on no longer has the content the
model was shown, so no second action takes it (`Advanced`); a merge does not write
where the model saw a topic (`NewTargets`); and sources are away without a record
only while a merge is the action at work (`CallOK`, `OneKind`).

### 4.9 What is only model-checked

Liveness under fairness, which is out of the prover's reach: `RecordsDrain`,
`HydrateAnswers`, `EnsureAnswered`, `EveryFireEnds`, `EveryUpdateEnds`,
`SettleEnds`, `SlotsDrain`, `CallsEnd`, `ChainDrains`, `AskAnswered`, `NoneLost`,
`ConnectingEnds`. `SessionTitles` and `StopReachesRun` are disagreements, not
promises.

What a plan looks like after `Capped` and `Retirements`, which fold over a
sequence, is not reasoned about: the theorems about `MemoryDream` hold for whatever
they return, given that `Valid` accepted it.

`TypeCorrect` of three modules and `AnsweredWithOwnOutcome` are proved and not
checked by a run.

## 5. Where code and documentation disagree

Two disagreements are runs of their own:

* `subagent_stop`: a controller is "Registered at launch (not when the run starts)
  so a stop request that arrives during setup still reaches the run: the runner's
  pre-aborted check turns it into an immediate interruption."
  (`runtime/subagent/agentSpawner.ts:1051-1053`). The runner adds its listener and
  prompts without looking at a signal that has fired (`subagentRunner.ts:140-146`):
  the stop is answered with success and the run goes on. `SlotsDrain` excepts such
  a run (`Deaf`).
* `title_race`: "an explicit rename is permanent"
  (`runtime/session/sessionRegistry.ts:694-696`), but `hydrateSessionMetadata()`
  fills the caches with what it read before its await (line 808), also when a
  rename came in between, and the summarizer then trusts the stale source.

The following were met while modelling. Each can be seen by adding the formula
to the named module and the change to its configuration.

| Statement | Code | To see it |
|---|---|---|
| "The counter never reuses a value, even across session delete/recreate cycles" (`docs/sidecar-protocol.md:312`) | `clearSession` drops stream and file (`sessionEventLog.ts:106`), the next stream starts at 1 | `PushLog`, `\A i, j \in 1..Len(emitted) : i <= cleared /\ j > cleared => emitted[i].seq # emitted[j].seq`, `MCPushLog.cfg` without its constraint |
| a crash leads "never to silent seq reuse" (`durablePushLog.ts:28-30`) | the counter resumes after the last line that reached the file (`sessionEventLog.ts:63-65`), and the numbers of the lost frames are given to others | `PushLog`, `intact => \A i, j \in 1..Len(emitted) : i # j => emitted[i].seq # emitted[j].seq` in `MCPushLog.cfg` |
| "Flush the buffer first" (`durablePushLog.ts:148-149`) | `loadTail` returns before that when `missing` is set (line 146), although frames are buffered | `PushLog`, `ring.events = <<>> /\ missing => Durable = <<>>` in `MCPushLog.cfg` |
| replay is contiguous or asks for a reset (`docs/sidecar-protocol.md:343`, `:355`) | a failed write drops the batch it took from the buffer (`durablePushLog.ts:315`, `302-307`), later ones follow the hole | `PushLog`, `ReplayHasNoHoles` without `intact =>`, `MCPushLog.cfg` without its constraint, `MaxDisposals = 0`, `MaxDeletes = 0`, and `AttachUnhydrated` taken out of `Next` |
| "Idempotent: re-calling drops existing timers first" (`runner.ts:160-163`) | `start()` attaches without detaching (182-184), and the built-in job was already attached when it was seeded (`index.ts:405`) | `Scheduler`, `timers \subseteq {handle}` as an invariant with `Builtin = TRUE` |
| reloads follow the file (`jobsController.ts:9-11`) | two reloads of one id that overlap attach two timers (`runner.ts:198-202`) | `Scheduler`, at rest `Cardinality(timers) <= 1`, with two controllers |
| a crash "leaves a breadcrumb" (`jobsController.ts:273-276`) | the running entry of a fire is only in its captured object (`runner.ts:262`); the file has none to mark, unless a timed-out fire on the same object happens to write it | `Scheduler`, `[][UncaughtException => \A f \in Invoking : \E e \in ToSet(store'.history) : e.fire = f]_vars` |
| a hung fire "can't trap the history + lock forever" (`runner.ts:391-393`) | the lock stays until the invocation settles (275-282) | `lock # 0 ~> lock = 0` in `sched_builtin` |
| `hydrate()` is a "No-op while the stream is live" (`sessionEventLog.ts:49`) | it tests this before its await and replaces the stream after it (line 65): a frame emitted in between leaves the ring and its number is used again | `PushLog`, `[][HydrateReturn /\ ring.events # <<>> => ring' = ring]_vars`, `MCPushLog.cfg` without its constraint |
| hydration makes a client "whose cursor predates the restart" see contiguous frames (`sessionEventLog.ts:50-53`), so that reconnecting clients "replay instead of rebuilding from a full snapshot" (`durablePushLog.ts:8-12`) | the desktop sets its cursor to 0 and keeps the messages (`useSidecarStream.ts:380-384`, `workspaceReducer.ts:509-525`): the next push is a gap, and a window that reaches back to the first frame is replayed onto messages that have those frames already. `text_delta` appends (`lib/chat/applyEventToMessages.ts:455`), so text is shown twice until the session is left and opened again or a snapshot comes | `PushClient`, `shown => \A i, j \in 1..Len(view) : view[i] = view[j] => i = j` with `MaxOpens = 0` in `MCClients.cfg` |
| the frames of a session in the background are "rebuilt from sessionEventLog / snapshot on switch-back" (`workspaceReducer.ts:822-824`) | opening a session shows `session.history` and leaves the cursor where it was (`useWorkspaceLifecycle.ts:216-261`); a frame that was missed, and so is in the history and behind the cursor, is replayed onto it | the same with `MaxRestarts = 0` |
| the limits of the tail "degrade to the `resetRequired` snapshot path rather than to wrong data" (`docs/sidecar-protocol.md:355-356`) | pushes of frames that a crash lost may still be queued when the handshake resets the cursor, and one that has the next number is taken for the new daemon's frame | `ViewIsStream` without `~foreign` in `MCClients.cfg` |
| "a max_runs:1 job disables itself and stops firing after one success" (`packages/sidecar/tests/scheduler/runner.test.ts:292`) | a reload that read the job before it retired attaches it afterwards (`runner.ts:201`) | `Scheduler`, at rest a live timer belongs to an enabled job, `MaxRuns = 1` |
| "History is a 20-entry ring stored inside the same JSON" (`scheduler/types.ts:9-11`) | a fire writes the history of its captured object over the stored one (`runner.ts:315`), so runs recorded through another object are lost | `Scheduler`, a step that does not reach `HistoryLimit` only adds to `store.history`, `MaxFires = 2` |
| "a crash mid-apply still leaves an undo record for everything that landed" (`memory/dream/consolidator.ts:483-484`) | the checkpoint is written after the action, so a crash between a rewrite and its checkpoint, or applying the same preview again after a crash, leaves a change no report has | `MemoryDream`, `\A p \in Plans : reports[p].st \in {"applying", "applied"} /\ ~InTask => \A t \in Topics \ touched[p] : live[t] # base[p][t] => t \in reports[p].created \cup reports[p].archived \cup reports[p].stranded \cup Present(reports[p].before)` |
| the longest wait bounds a batch (`inboundBatcher.ts:50-51`) | nothing is armed while a download is in flight (line 138), so a batch may stay open longer | `InboundBatcher`, `Open => now <= batch.openedAt + MaxWaitMs` |

Read in the code while modelling, and not stated as properties:

* Push log: an unlink that fails is logged and the deleted session's file stays
  (`durablePushLog.ts:201-205`).
* Desktop: a push numbered beyond the end of a log that lost frames finds the same
  gap after every replay (`sessionPushProcessor.ts:119-124`), which is asked for
  again and again until the log has grown: `ChainDrains` excepts it
  (`target.seq > Len(log) + 1`).
* Scheduler: `readOne` saves a migrated copy of an old job file that it read outside
  the per-id queue (`scheduler/store.ts:202`, `:238`); a lock file that is created and
  then cannot be written (a full disk) stays, and every fire is skipped as an
  overlap until the next daemon sweeps it (`runner.ts:241-252`); `onPinnedSessionCreated`
  writes without comparing generations (`index.ts:383`).
* Sessions: `attach()` during the dispose of a detach returns the dying session; the
  registry's own dispose takes a snapshot that misses attaches in flight
  (`sessionRegistry.ts:955`); a flush is skipped when the attach arrives while an
  older flush waits for the prompt of a dying session, until the next attach.
* Subagents: a continuation replaces the entry of the controller map
  (`agentSpawner.ts:1777`), so a stop reaches only one of the two; the controller is
  released before the result is written, so a deletion
  (`server/handlers/sessionLifecycle.ts:341`) need not wait for the write.
* Permission broker: an ask registered after its signal fired, or after its session
  was cleaned up, stays parked until its ten minutes are over; the deny list is read
  before the await, so an entry added during it does not count for that call.
* Bind broker: the timer of an abandoned code request can put `expired` over
  `connected`.
* Dream: "of two racing processes exactly one wins" (`dreamState.ts:163-180`), but
  reclaiming an old lock is a stat and an unlink, and the second of two processes
  can unlink the lock the first has just taken; `packages/cli/lib/startLock.ts:59-66`
  has the same shape. Undoing a plan whose merge target has the id of a topic
  archived earlier can restore the other copy.
* `packages/cli/lib/start.ts` retires a daemon that does not answer before it takes
  the start lock, and so may meet the one another `start` has just spawned.

## 6. Not modelled, and plan

Not modelled, with the reason in `PROJECT.json` for each component:

* the daemon's start, the CLI and the desktop's reaping: sockets, pids and signals
  are the operating system's, and every property would rest on what one assumes of
  them;
* command policy, shell parsing, prompts, compaction, models, skills, transcripts:
  text and data transformation without state of their own;
* MCP, extensions, IM adapters, tools, upgrader: third-party protocols and plain I/O;
* the dispatcher, routing tables, associations, tasks and plan mode: small
  sequential state whose effects on modelled components are actions there;
* the user interface: rendering and reducers.

Next in modelling: the pinned session of the job dispatcher, which gives a pin an
identity; the migration of old job files; the composition of `SubagentRuns` with
`SubagentNotices` and the deletion of a tree; the dream lock between two processes.

Next in proving: the type invariants of the modules that have none as a theorem;
what the window of the push log keeps after a failed write or a deletion, with a
weaker promise than `PushStream`'s; the sizes `RetirementCap` promises, which need an
induction over the fold of `Capped`.
