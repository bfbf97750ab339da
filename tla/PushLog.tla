------------------------------ MODULE PushLog ------------------------------
(***************************************************************************)
(* The sidecar's push log for one (workspace, session) stream: the         *)
(* in-memory ring (server/sessionEventLog.ts), the disk tail behind it     *)
(* (server/durablePushLog.ts), and the callers of SidecarServer that emit, *)
(* hydrate, dispose, delete, stop and crash.                               *)
(*                                                                         *)
(* The one daemon owns one ring and one tail, so every append claim is     *)
(* granted to the same owner and the claim is not represented.             *)
(***************************************************************************)
EXTENDS Naturals, Sequences, FiniteSets

CONSTANTS
    Callers,       \* RPCs that can be inside hydrate() at the same time
    Capacity,      \* ring capacity
    Keep,          \* lines a compaction keeps
    MaxFrames,     \* bound: frames ever emitted
    MaxRestarts,   \* bound: graceful stops
    MaxCrashes,    \* bound: crashes
    MaxFaults,     \* bound: writes and unlinks that fail
    MaxDisposals,  \* bound: disposeWorkspace calls
    MaxDeletes     \* bound: session deletions

ASSUME SizeAssumption == Capacity \in Nat \ {0} /\ Keep \in Nat /\ Keep >= Capacity
ASSUME BoundAssumption ==
    /\ MaxFrames \in Nat /\ MaxRestarts \in Nat /\ MaxCrashes \in Nat
    /\ MaxFaults \in Nat /\ MaxDisposals \in Nat /\ MaxDeletes \in Nat

VARIABLES
    ring,       \* SessionStream of the session; an absent one is NoStream
    attached,   \* an AttachedSession is alive and may emit frames
    tombstone,  \* the timer that clears a deleted session's stream is armed
    stopping,   \* SidecarServer.stop() has begun
    pending,    \* FileState.pending: frames not yet handed to a write
    timer,      \* FileState.timer is armed
    missing,    \* FileState.missing
    chain,      \* FileState.chain: file operations queued, the head running
    phase,      \* how far the head operation is
    writing,    \* the batch the head operation took from pending
    disk,       \* the file: exists, its complete lines, a torn last line
    tails,      \* caller -> the frames its loadTail() read
    emitted,    \* every frame ever emitted, in order (history)
    cleared,    \* how many of them the last clearSession() forgot (history)
    crashed,    \* how many of them there were at the last crash (history)
    intact,     \* nothing has put frames in the wrong place so far (history)
    budget      \* how many of each bounded event are left

serverVars == <<ring, attached, tombstone, stopping>>
fileVars == <<pending, timer, missing, chain, phase, writing, disk, tails>>
history == <<emitted, cleared, crashed, intact>>
vars == <<serverVars, fileVars, history, budget>>

NoStream == [nextSeq |-> 1, events |-> <<>>]
NoFile == [exists |-> FALSE, lines |-> <<>>, torn |-> FALSE]
Frames == [seq : 1..MaxFrames, id : 1..MaxFrames]
FlushOp == [kind |-> "flush"]
UnlinkOp == [kind |-> "unlink"]
LoadOp(c) == [kind |-> "load", by |-> c]

LastN(n, s) == SubSeq(s, IF Len(s) > n THEN Len(s) - n + 1 ELSE 1, Len(s))

Spend(what) == /\ budget[what] > 0
               /\ budget' = [budget EXCEPT ![what] = @ - 1]

\* The frames that are on disk or on their way there.
Durable == disk.lines \o writing \o pending

Loading(c) == \E i \in 1..Len(chain) : chain[i] = LoadOp(c)

\* SessionEventLog.replay(): the frames after a cursor, or a demand to reset.
ReplayReset(afterSeq) ==
    IF ring.events = <<>> THEN afterSeq > 0 ELSE afterSeq < ring.events[1].seq - 1

\* The frames it returns, each at its place in the ring.
ReplayEvents(afterSeq) ==
    IF ReplayReset(afterSeq) THEN <<>>
    ELSE [i \in {k \in DOMAIN ring.events : ring.events[k].seq > afterSeq} |-> ring.events[i]]

-----------------------------------------------------------------------------
Init ==
    /\ ring = NoStream /\ attached = FALSE /\ tombstone = FALSE /\ stopping = FALSE
    /\ pending = <<>> /\ timer = FALSE /\ missing = FALSE
    /\ chain = <<>> /\ phase = "start" /\ writing = <<>>
    /\ disk = NoFile
    /\ tails = [c \in Callers |-> <<>>]
    /\ emitted = <<>> /\ cleared = 0 /\ crashed = 0 /\ intact = TRUE
    /\ budget = [restarts |-> MaxRestarts, crashes |-> MaxCrashes, faults |-> MaxFaults,
                 disposals |-> MaxDisposals, deletes |-> MaxDeletes]

NextFrame == [seq |-> ring.nextSeq, id |-> Len(emitted) + 1]

\* emitPush -> SessionEventLog.append -> DurablePushLog.scheduleAppend.  A session
\* whose tail was not loaded numbers from 1 over frames that are in the log.
AppendFrame ==
    /\ attached /\ ~stopping /\ Len(emitted) < MaxFrames
    /\ ring' = [nextSeq |-> ring.nextSeq + 1,
                events |-> LastN(Capacity, Append(ring.events, NextFrame))]
    /\ emitted' = Append(emitted, NextFrame)
    /\ pending' = Append(pending, NextFrame)
    /\ timer' = TRUE
    /\ intact' = (intact /\ (ring.events # <<>> \/ Durable = <<>>))
    /\ UNCHANGED <<stopping, missing, chain, phase, writing, disk, tails, cleared, crashed>>

Emit == AppendFrame /\ UNCHANGED <<attached, tombstone, budget>>

\* session.deleted: the tombstone is the stream's last frame, and the stream
\* is cleared when its timer expires.  A later attach stands for a
\* session.create that is given the deleted session's id again.
Delete ==
    /\ Spend("deletes")
    /\ AppendFrame
    /\ attached' = FALSE /\ tombstone' = TRUE

\* Mutant: the buffered frames outlive the session.
TombstoneExpires_KeepPending ==
    /\ tombstone /\ tombstone' = FALSE
    /\ ring' = NoStream
    /\ timer' = FALSE /\ missing' = FALSE
    /\ chain' = Append(chain, UnlinkOp)
    /\ cleared' = Len(emitted) /\ intact' = FALSE
    /\ UNCHANGED <<attached, stopping, pending, phase, writing, disk, tails, emitted, crashed, budget>>

\* clearSession -> DurablePushLog.remove: buffered frames go at once, the file
\* after whatever is queued before the unlink.  The stream is over.
TombstoneExpires ==
    /\ tombstone /\ tombstone' = FALSE
    /\ ring' = NoStream
    /\ pending' = <<>> /\ timer' = FALSE /\ missing' = FALSE
    /\ chain' = Append(chain, UnlinkOp)
    /\ cleared' = Len(emitted) /\ intact' = FALSE
    /\ UNCHANGED <<attached, stopping, phase, writing, disk, tails, emitted, crashed, budget>>

\* disposeWorkspace -> clearWorkspace drops the ring and keeps the tail.
Dispose ==
    /\ Spend("disposals")
    /\ attached' = FALSE /\ ring' = NoStream
    /\ UNCHANGED <<tombstone, stopping, fileVars, history>>

\* A session is attached without loading its tail: session.create with an
\* initial prompt, or any handler that uses ensureAttached.
AttachUnhydrated ==
    /\ ~attached /\ ~stopping
    /\ attached' = TRUE
    /\ UNCHANGED <<ring, tombstone, stopping, fileVars, history, budget>>

\* hydrate() returns to session.attach, which attaches, or to a query.
Answered == attached' \in {attached, TRUE}

\* hydrate() needs no file read: the stream is live, or its tail is known to
\* be absent.
HydrateNothing(c) ==
    /\ ~stopping /\ ~Loading(c)
    /\ ring.events # <<>> \/ missing
    /\ Answered
    /\ UNCHANGED <<ring, tombstone, stopping, fileVars, history, budget>>

\* hydrate() finds no live stream and queues loadTail().
HydrateBegin(c) ==
    /\ ~stopping /\ ~Loading(c)
    /\ ring.events = <<>> /\ ~missing
    /\ chain' = Append(chain, LoadOp(c))
    /\ UNCHANGED <<serverVars, pending, timer, missing, phase, writing, disk, tails,
                   history, budget>>

-----------------------------------------------------------------------------
(* The file operations, one at a time per stream. *)

OpDone == chain' = Tail(chain) /\ phase' = "start"

\* The flush timer fires.
FlushTimer ==
    /\ timer /\ timer' = FALSE
    /\ chain' = Append(chain, FlushOp)
    /\ UNCHANGED <<serverVars, pending, missing, phase, writing, disk, tails, history, budget>>

\* flushSync() with nothing buffered; a load goes on to read the file.
FlushNothing ==
    /\ chain # <<>> /\ Head(chain).kind # "unlink" /\ phase = "start"
    /\ pending = <<>>
    /\ IF Head(chain) = FlushOp THEN OpDone ELSE phase' = "read" /\ chain' = chain
    /\ UNCHANGED <<serverVars, pending, timer, missing, writing, disk, tails, history, budget>>

\* flushSync() takes the buffer before its first await.
FlushTake ==
    /\ chain # <<>> /\ Head(chain).kind # "unlink" /\ phase = "start"
    /\ pending # <<>>
    /\ writing' = pending /\ pending' = <<>> /\ phase' = "write"
    /\ UNCHANGED <<serverVars, timer, missing, chain, disk, tails, history, budget>>

MustCompact == disk.torn \/ Len(disk.lines) + Len(writing) > 2 * Keep

\* Mutant: a compaction keeps one line too few.
Compacted_OffByOne ==
    [exists |-> TRUE, lines |-> LastN(Keep - 1, disk.lines \o writing), torn |-> FALSE]

\* The file after the batch is compacted into it or appended to it.
Compacted == [exists |-> TRUE, lines |-> LastN(Keep, disk.lines \o writing), torn |-> FALSE]
Appended == [exists |-> TRUE, lines |-> disk.lines \o writing, torn |-> FALSE]

\* The batch reaches the file; the byte budget may ask for a compaction too.
FlushWrite ==
    /\ phase = "write"
    /\ missing' = FALSE
    /\ disk' = Compacted \/ (~MustCompact /\ disk' = Appended)
    /\ writing' = <<>>
    /\ IF Head(chain) = FlushOp THEN OpDone ELSE phase' = "read" /\ chain' = chain
    /\ UNCHANGED <<serverVars, pending, timer, tails, history, budget>>

\* What an interrupted write leaves of an appended batch: some of its lines,
\* and perhaps a torn one.  A compaction is a rename and leaves all or nothing.
PartialWrites ==
    {disk, Compacted} \cup
    IF MustCompact THEN {}
    ELSE {[exists |-> TRUE, lines |-> disk.lines \o SubSeq(writing, 1, n), torn |-> t] :
              n \in 0..Len(writing), t \in BOOLEAN}

\* Mutant: a rejected operation is never taken off the chain.
FlushFails_ChainStuck ==
    /\ phase = "write"
    /\ Spend("faults")
    /\ missing' = FALSE
    /\ disk' \in PartialWrites
    /\ writing' = <<>> /\ phase' = "rejected" /\ intact' = FALSE
    /\ UNCHANGED <<serverVars, pending, timer, chain, tails, emitted, cleared, crashed>>

\* The write fails: the batch is gone, the chain goes on.
FlushFails ==
    /\ phase = "write"
    /\ Spend("faults")
    /\ \/ missing' = FALSE /\ disk' \in PartialWrites
       \/ UNCHANGED <<missing, disk>>      \* mkdir threw
    /\ writing' = <<>> /\ intact' = FALSE
    /\ OpDone
    /\ UNCHANGED <<serverVars, pending, timer, tails, emitted, cleared, crashed>>

\* loadTail() reads the file, repairs a torn last line and keeps what it read.
ReadTail ==
    /\ phase = "read"
    /\ missing' = (missing \/ ~disk.exists)
    /\ disk' = [disk EXCEPT !.torn = FALSE]
    /\ tails' = [tails EXCEPT ![Head(chain).by] = LastN(Capacity, disk.lines)]
    /\ phase' = "return"
    /\ UNCHANGED <<serverVars, pending, timer, chain, writing, history, budget>>

\* Mutant: the counter resumes at the last sequence number.
Seeded_Last(tail) == [nextSeq |-> tail[Len(tail)].seq, events |-> tail]

\* Mutant: the counter is not seeded.
Seeded_Unnumbered(tail) == [nextSeq |-> 1, events |-> tail]

\* The stream hydrate() builds from a non-empty tail.
Seeded(tail) == [nextSeq |-> tail[Len(tail)].seq + 1, events |-> tail]

\* hydrate() resumes with the tail and replaces the stream by it, also when frames
\* came after the tail was read.
HydrateReturn ==
    LET c == Head(chain).by
    IN  /\ phase = "return"
        /\ ring' = IF tails[c] = <<>> THEN ring ELSE Seeded(tails[c])
        /\ Answered
        /\ tails' = [tails EXCEPT ![c] = <<>>]
        /\ intact' = (intact /\ (tails[c] = <<>> \/ pending = <<>>))
        /\ OpDone
        /\ UNCHANGED <<tombstone, stopping, pending, timer, missing, writing, disk,
                       emitted, cleared, crashed, budget>>

Unlink ==
    /\ chain # <<>> /\ Head(chain) = UnlinkOp /\ phase = "start"
    /\ disk' = NoFile
    /\ OpDone
    /\ UNCHANGED <<serverVars, pending, timer, missing, writing, tails, history, budget>>

\* The unlink fails, which is logged: the file outlives its session.
UnlinkFails ==
    /\ chain # <<>> /\ Head(chain) = UnlinkOp /\ phase = "start"
    /\ Spend("faults")
    /\ cleared' = 0
    /\ OpDone
    /\ UNCHANGED <<serverVars, pending, timer, missing, writing, disk, tails,
                   emitted, crashed, intact>>

-----------------------------------------------------------------------------
(* The process ends, and the next one starts from the file. *)

FreshProcess ==
    /\ ring' = NoStream /\ attached' = FALSE /\ tombstone' = FALSE /\ stopping' = FALSE
    /\ pending' = <<>> /\ timer' = FALSE /\ missing' = FALSE
    /\ chain' = <<>> /\ phase' = "start" /\ writing' = <<>>
    /\ tails' = [c \in Callers |-> <<>>]

\* Mutant: stop() does not drain the buffer.
Stop_NoFlush ==
    /\ ~stopping
    /\ Spend("restarts")
    /\ stopping' = TRUE /\ attached' = FALSE
    /\ UNCHANGED <<ring, tombstone, fileVars, history>>

\* SidecarServer.stop(): the workspaces are stopped, then flushDurable()
\* queues a flush behind whatever the chain holds.
Stop ==
    /\ ~stopping
    /\ Spend("restarts")
    /\ stopping' = TRUE /\ attached' = FALSE
    /\ chain' = Append(chain, FlushOp)
    /\ UNCHANGED <<ring, tombstone, pending, timer, missing, phase, writing, disk, tails, history>>

\* The flush was the last operation: the process exits.
Exit ==
    /\ stopping /\ chain = <<>>
    /\ FreshProcess
    /\ UNCHANGED <<disk, history, budget>>

\* What a crash leaves of the file: it interrupts the write in progress, or the
\* repair of a torn line, which truncates the file before it writes it again.
CutFile(n, t) == [disk EXCEPT !.lines = SubSeq(disk.lines, 1, n), !.torn = t]
CrashFiles ==
    IF phase = "write" THEN PartialWrites
    ELSE IF phase = "read" /\ disk.torn
    THEN {CutFile(n, t) : n \in 0..Len(disk.lines), t \in BOOLEAN}
    ELSE {disk}

\* A queued unlink is lost with the process.
Crash ==
    /\ Spend("crashes")
    /\ FreshProcess
    /\ disk' \in CrashFiles
    /\ cleared' = 0 /\ crashed' = Len(emitted)
    /\ UNCHANGED <<emitted, intact>>

FileStep == FlushNothing \/ FlushTake \/ FlushWrite \/ ReadTail \/ HydrateReturn \/ Unlink

Next ==
    \/ Emit \/ Delete \/ TombstoneExpires \/ Dispose \/ AttachUnhydrated
    \/ \E c \in Callers : HydrateNothing(c) \/ HydrateBegin(c)
    \/ FlushTimer \/ FileStep \/ FlushFails \/ UnlinkFails
    \/ Stop \/ Exit \/ Crash

Spec == Init /\ [][Next]_vars

\* Timers fire and file operations complete.
FairSpec == Spec /\ WF_vars(FlushTimer) /\ WF_vars(FileStep)

-----------------------------------------------------------------------------
(* Properties *)

(***************************************************************************)
(* The stream's own properties hold while it is intact.  Four things end   *)
(* that, each a step the code takes: a write fails and its batch is gone   *)
(* (FlushFails); a session whose tail was not loaded emits over frames of  *)
(* the log (AppendFrame); hydrate() puts back a tail that is older than    *)
(* the ring (HydrateReturn); the session is deleted (TombstoneExpires).    *)
(***************************************************************************)

\* A live ring is exactly what hydrate() would restore once the buffer is
\* flushed: while the stream is intact a graceful restart or a disposal loses
\* nothing and renumbers nothing.
TailHoldsRing == intact /\ ring.events # <<>> => ring.events = LastN(Capacity, Durable)

\* A replay() of an intact stream that does not ask for a reset returns every
\* frame after the cursor that was numbered, once and in order, whatever a
\* restart, a crash, a compaction or a torn line left of the tail.
ReplayHasNoHoles ==
    intact => \A afterSeq \in 0..MaxFrames :
        ~ReplayReset(afterSeq) =>
            LET events == ReplayEvents(afterSeq) IN
            /\ \A s \in afterSeq + 1..ring.nextSeq - 1 : \E i \in DOMAIN events : events[i].seq = s
            /\ \A i, j \in DOMAIN events : i < j => events[j].seq = events[i].seq + (j - i)

\* clearSession() leaves no frame of the deleted session in the file once the
\* unlink it queued has run, whatever was buffered or being written.
NoResurrection ==
    UnlinkOp \notin {chain[i] : i \in 1..Len(chain)} =>
        \A i \in 1..Len(disk.lines) : disk.lines[i].id > cleared

\* A number of an intact stream is given twice only when the frame that had it
\* was lost in a crash: it was emitted before one and the log has it no more.
\* Restarts, disposals and compactions (append, flushDurable and hydrate's
\* seeding of nextSeq) repeat none.
SeqNeverReused ==
    intact => \A i, j \in 1..Len(emitted) :
        i < j /\ emitted[i].seq = emitted[j].seq =>
            i <= crashed /\ \A k \in 1..Len(Durable) : Durable[k] # emitted[i]

\* The window a client can replay, live or to be hydrated.
Stream == INSTANCE PushStream WITH window <- LastN(Capacity, Durable), promised <- intact

\* While it is intact the log is a bounded window of consecutive frames that
\* only a crash shortens.
ImplementsStream == Stream!Spec

\* A caller inside hydrate() is answered: a failed write or an unlink ahead of
\* it in the per-file chain (enqueue) never leaves it waiting.
HydrateAnswers == \A c \in Callers : Loading(c) ~> ~Loading(c)
=============================================================================
