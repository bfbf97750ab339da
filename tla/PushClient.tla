----------------------------- MODULE PushClient -----------------------------
(***************************************************************************)
(* The desktop's copy of one session's push stream                         *)
(* (clients/taco-desktop/src/lib/sessionPushProcessor.ts, sessionCursor.ts,*)
(* hooks/useSidecarStream.ts), the session's messages on the screen        *)
(* (lib/chat/workspaceReducer.ts, hooks/useWorkspaceLifecycle.ts) and the  *)
(* sidecar's answer to a snapshot request                                  *)
(* (packages/sidecar/src/server/handlers/sessionRead.ts).                  *)
(*                                                                         *)
(* Pushes are processed one after the other.  A gap is filled by a replay  *)
(* from the daemon's window or, when the window moved on, by a snapshot.   *)
(* A replaced daemon resets the cursor, at once and not behind the pushes  *)
(* that are still queued, and leaves the messages as they are.  A session  *)
(* that is opened shows its history, and its cursor stays.  The daemon's   *)
(* side of the stream is PushLog's; here it is a log whose last Capacity   *)
(* frames can be replayed, and of which a daemon may lose the end when it  *)
(* goes down.  Answers of a daemon are handled in the turn in which they   *)
(* arrive.  The stream is sequenced: resync() for an unsequenced push is   *)
(* left out.  A frame counts as part of the history once it is emitted,    *)
(* and the history, another file, keeps it when the log loses it.          *)
(***************************************************************************)
EXTENDS Naturals, Sequences

CONSTANTS
    Capacity,          \* frames the daemon can replay
    SnapshotTries,     \* passes of sessionSnapshotGet before snapshot_unstable
    SnapshotRetries,   \* snapshotRetryDelaysMs.length
    MaxFrames,         \* bound: frames ever emitted
    MaxMissed,         \* bound: frames that do not reach the desktop
    MaxFailures,       \* bound: requests that fail
    MaxRestarts,       \* bound: daemons replaced
    MaxOpens           \* bound: times the session is opened again

ASSUME ClientAssumption ==
    /\ Capacity \in Nat \ {0} /\ SnapshotTries \in Nat \ {0}
    /\ SnapshotRetries \in Nat
    /\ {MaxFrames, MaxMissed, MaxFailures, MaxRestarts, MaxOpens} \subseteq Nat

VARIABLES
    log,       \* the daemon's stream: the frame at position s has seq s
    up,        \* the desktop is connected and its handshake done
    chain,     \* received pushes behind the one being processed
    target,    \* the push being processed
    at,        \* where its recovery is
    after,     \* afterSeq of its request, the cursor when it was made
    retry,     \* snapshot attempts of this recovery that failed
    snap,      \* the sidecar's snapshot being built
    cursor,    \* last contiguous seq accepted (SessionCursor)
    shown,     \* it is the workspace's activeSession
    view,      \* the frames its messages reflect, when it is shown
    opening,   \* how far attachSession() is
    got,       \* the history its answer will carry
    mark,      \* cursor and view when one of them was last set (history)
    era,       \* daemons that lost frames when they went down (history)
    foreign,   \* a push of frames that were lost was accepted since (history)
    emitted, missed, failures, restarts, opens

limits == <<emitted, missed, failures, restarts, opens>>
screenVars == <<shown, view, opening, got>>
ghosts == <<mark, era, foreign>>
recoveryVars == <<target, at, after, retry, snap>>
clientVars == <<log, up, chain, recoveryVars, cursor, screenVars, ghosts, limits>>

NoPush == [seq |-> 0, id |-> 0, era |-> 0]
NoSnap == [pass |-> 0, before |-> 0, content |-> <<>>]

ClientInit ==
    /\ log = <<>> /\ up = TRUE
    /\ chain = <<>> /\ target = NoPush
    /\ at = "idle" /\ after = 0 /\ retry = 0 /\ snap = NoSnap
    /\ cursor = 0
    /\ shown = TRUE /\ view = <<>> /\ opening = "no" /\ got = <<>>
    /\ mark = [seq |-> 0, view |-> <<>>, whole |-> TRUE] /\ era = 0 /\ foreign = FALSE
    /\ emitted = 0 /\ missed = 0 /\ failures = 0 /\ restarts = 0 /\ opens = 0

Failure == failures < MaxFailures /\ failures' = failures + 1

\* Workspace.getHistory (frames are known by the order of their emission).
History == [n \in 1..emitted |-> n]

\* The reactions of the promise chain run before the next event is taken.
Drained == at # "idle" \/ chain = <<>>

----------------------------------------------------------------------------
(* The daemon. *)

\* A frame is emitted; one that is sent to nobody, or is dropped on the way,
\* shows as a gap later.
Emit(reaches) ==
    /\ Drained /\ emitted < MaxFrames /\ emitted' = emitted + 1
    /\ log' = Append(log, emitted + 1)
    /\ IF up /\ reaches
       THEN chain' = Append(chain, [seq |-> Len(log) + 1, id |-> emitted + 1, era |-> era])
            /\ UNCHANGED missed
       ELSE /\ UNCHANGED chain
            /\ IF up THEN missed < MaxMissed /\ missed' = missed + 1 ELSE UNCHANGED missed
    /\ UNCHANGED <<up, recoveryVars, cursor, screenVars, ghosts, failures, restarts, opens>>

\* A bug: a snapshot is tried again and again.
AttemptOver_NoLimit == at' = "delay" /\ snap' = NoSnap /\ UNCHANGED <<retry, target>>

\* What a snapshot attempt that failed leads to: another one after a delay, or
\* the end of this recovery.
AttemptOver ==
    /\ at' = IF retry < SnapshotRetries THEN "delay" ELSE "idle"
    /\ retry' = IF retry < SnapshotRetries THEN retry + 1 ELSE 0
    /\ target' = IF retry < SnapshotRetries THEN target ELSE NoPush
    /\ snap' = NoSnap

InSnapshot == at \in {"ask", "read", "compare"}

\* The daemon goes down.  Its successor numbers on from what was flushed; the
\* requests under way are rejected.
Down(kept) ==
    /\ Drained /\ up /\ restarts < MaxRestarts /\ restarts' = restarts + 1
    /\ kept <= Len(log)
    /\ log' = SubSeq(log, 1, kept)
    /\ era' = IF kept < Len(log) THEN era + 1 ELSE era
    /\ up' = FALSE
    /\ opening' = IF opening = "no" THEN "no" ELSE "failed"
    /\ \/ at = "events" /\ at' = "idle" /\ target' = NoPush /\ UNCHANGED <<retry, snap>>
       \/ InSnapshot /\ AttemptOver
       \/ at \in {"idle", "delay"} /\ UNCHANGED <<at, target, retry, snap>>
    /\ UNCHANGED <<chain, after, cursor, shown, view, got, mark, foreign,
                   emitted, missed, failures, opens>>

\* The handshake with the successor: onWorkspaceEpochChanged resets the cursor,
\* and SIDECAR_RESTARTED keeps the messages.  What was queued is still queued.
Reconnect ==
    /\ Drained /\ ~up /\ up' = TRUE
    /\ cursor' = 0
    /\ mark' = [seq |-> 0, view |-> view, whole |-> FALSE] /\ foreign' = FALSE
    /\ UNCHANGED <<log, chain, recoveryVars, screenVars, era, limits>>

----------------------------------------------------------------------------
(* SessionPushProcessor. *)

\* SessionCursor.observe
Observe(c, seq) ==
    CASE seq <= c -> "duplicate"
      [] seq = c + 1 -> "accepted"
      [] seq > c + 1 -> "gap"

\* deliver() of frames to view v: only the active session's messages change.
Delivered(v, frames) == IF shown THEN v \o frames ELSE v

\* process(): push p meets cursor c and view v.
Process(p, c, v) ==
    LET d == Observe(c, p.seq) IN
        /\ cursor' = IF d = "accepted" THEN p.seq ELSE c
        /\ view' = IF d = "accepted" THEN Delivered(v, <<p.id>>) ELSE v
        /\ foreign' = (foreign \/ (d = "accepted" /\ p.era # era))
        /\ at' = IF d = "gap" THEN "events" ELSE "idle"
        /\ target' = IF d = "gap" THEN p ELSE NoPush
        /\ after' = IF d = "gap" THEN c ELSE 0

Take ==
    /\ at = "idle" /\ chain # <<>>
    /\ chain' = Tail(chain)
    /\ Process(Head(chain), cursor, view)
    /\ UNCHANGED <<log, up, retry, snap, shown, opening, got, mark, era, limits>>

\* sessionEvents.replay: the window does not reach back to the cursor.
FirstSeq == IF Len(log) > Capacity THEN Len(log) - Capacity + 1 ELSE 1
ResetRequired == IF log = <<>> THEN after > 0 ELSE after < FirstSeq - 1

\* applyReplay for every replayed frame, then process() of the push again.  The
\* frames do not fit when the cursor was reset since they were asked for.
Replayed ==
    IF after = cursor /\ Len(log) > cursor
    THEN Process(target, Len(log), Delivered(view, SubSeq(log, cursor + 1, Len(log))))
    ELSE Process(target, cursor, view)

\* recoverGap: the answer to getEvents.
Events ==
    /\ at = "events" /\ up
    /\ \/ /\ ResetRequired
          /\ at' = "ask"
          /\ UNCHANGED <<target, after, cursor, view, foreign>>
       \/ /\ ~ResetRequired
          /\ Replayed
    /\ UNCHANGED <<log, up, chain, retry, snap, shown, opening, got, mark, era, limits>>

\* getEvents rejects: the push is dropped and the cursor stays.  A request made
\* while the daemon is away waits for the handshake (ensureInitialized) and is
\* answered by the successor, or fails with the handshake.
EventsFail ==
    /\ at = "events"
    /\ IF up THEN Failure ELSE UNCHANGED failures
    /\ at' = "idle" /\ target' = NoPush
    /\ UNCHANGED <<log, up, chain, after, retry, snap, cursor, screenVars, ghosts,
                   emitted, missed, restarts, opens>>

\* sessionSnapshotGet: lastSeq, then the history, then lastSeq again.
SnapshotBegin ==
    /\ at = "ask" /\ up
    /\ at' = "read"
    /\ snap' = [snap EXCEPT !.pass = @ + 1, !.before = Len(log)]
    /\ UNCHANGED <<log, up, chain, target, after, retry, cursor, screenVars, ghosts, limits>>

SnapshotRead ==
    /\ at = "read" /\ up
    /\ at' = "compare"
    /\ snap' = [snap EXCEPT !.content = History]
    /\ UNCHANGED <<log, up, chain, target, after, retry, cursor, screenVars, ghosts, limits>>

\* A bug: the snapshot is numbered by the first look at lastSeq, unchecked.
Stable_Unchecked == TRUE
\* Nothing was emitted since the first look.
Stable == snap.before = Len(log)

\* The snapshot is returned when nothing was emitted meanwhile: the view of the
\* active session is rebuilt from it, the cursor set to its number, and the gap
\* recovered from there.
SnapshotEnd ==
    /\ at = "compare" /\ up
    /\ \/ /\ Stable
          /\ cursor' = snap.before /\ view' = IF shown THEN snap.content ELSE view
          /\ mark' = [seq |-> snap.before, view |-> view', whole |-> TRUE] /\ foreign' = FALSE
          /\ at' = "events" /\ after' = snap.before /\ retry' = 0 /\ snap' = NoSnap
          /\ UNCHANGED target
       \/ /\ ~Stable /\ snap.pass < SnapshotTries
          /\ at' = "ask"
          /\ UNCHANGED <<target, after, retry, snap, cursor, view, mark, foreign>>
       \/ /\ ~Stable /\ snap.pass >= SnapshotTries
          /\ AttemptOver
          /\ UNCHANGED <<after, cursor, view, mark, foreign>>
    /\ UNCHANGED <<log, up, chain, shown, opening, got, era, limits>>

SnapshotFails ==
    /\ InSnapshot
    /\ IF up THEN Failure ELSE UNCHANGED failures
    /\ AttemptOver
    /\ UNCHANGED <<log, up, chain, after, cursor, screenVars, ghosts,
                   emitted, missed, restarts, opens>>

\* The backoff of recoverSnapshot.
DelayOver ==
    /\ at = "delay"
    /\ at' = "ask"
    /\ UNCHANGED <<log, up, chain, target, after, retry, snap, cursor, screenVars, ghosts, limits>>

----------------------------------------------------------------------------
(* What the user looks at. *)

\* Another session or a new chat takes the screen; an answer to attachSession()
\* that is still to come is dropped.
Leave ==
    /\ Drained /\ (shown \/ opening # "no")
    /\ shown' = FALSE /\ view' = <<>> /\ opening' = "no" /\ got' = <<>>
    /\ UNCHANGED <<log, up, chain, recoveryVars, cursor, ghosts, limits>>

\* attachSession: ATTACH_START, session.attach and the request for the history.
OpenSession ==
    /\ Drained /\ ~shown /\ opening = "no"
    /\ opens < MaxOpens /\ opens' = opens + 1
    /\ opening' = "asked"
    /\ UNCHANGED <<log, up, chain, recoveryVars, cursor, shown, view, got, ghosts,
                   emitted, missed, failures, restarts>>

\* sessionHistory: the daemon reads the history.
HistoryRead ==
    /\ Drained /\ opening = "asked" /\ up
    /\ opening' = "read" /\ got' = History
    /\ UNCHANGED <<log, up, chain, recoveryVars, cursor, shown, view, ghosts, limits>>

\* ATTACH: the session is shown with messages v, and its cursor stays.
Show(v) ==
    /\ shown' = TRUE /\ view' = v /\ opening' = "no" /\ got' = <<>>
    /\ mark' = [seq |-> cursor, view |-> v, whole |-> FALSE]
    /\ UNCHANGED <<log, up, chain, recoveryVars, cursor, era, foreign>>

ShowSession ==
    /\ Drained /\ opening = "read" /\ up
    /\ Show(got)
    /\ UNCHANGED limits

\* session.attach fails and nothing is shown, or the history's request fails and
\* the session is shown empty.
OpenFails ==
    /\ Drained /\ opening # "no"
    /\ IF up /\ opening # "failed" THEN Failure ELSE UNCHANGED failures
    /\ \/ /\ opening' = "no" /\ got' = <<>>
          /\ UNCHANGED <<log, up, chain, recoveryVars, cursor, shown, view, ghosts>>
       \/ Show(<<>>)
    /\ UNCHANGED <<emitted, missed, restarts, opens>>

----------------------------------------------------------------------------

RecoveryStep ==
    \/ Events \/ SnapshotBegin \/ SnapshotRead \/ SnapshotEnd \/ DelayOver
    \/ ~up /\ (EventsFail \/ SnapshotFails)

ClientNext ==
    \/ \E reaches \in BOOLEAN : Emit(reaches)
    \/ \E kept \in 0..MaxFrames : Down(kept)
    \/ Reconnect \/ Take \/ RecoveryStep
    \/ EventsFail \/ SnapshotFails
    \/ Leave \/ OpenSession \/ HistoryRead \/ ShowSession \/ OpenFails

ClientSpec == ClientInit /\ [][ClientNext]_clientVars

\* Promise reactions, answers and timers.  None on frames, failures or daemons.
ClientFair == WF_clientVars(Take) /\ WF_clientVars(RecoveryStep)

----------------------------------------------------------------------------

\* What is shown is what was there when the daemon was replaced, the session was
\* opened or a snapshot was applied, followed by the daemon's frames from the
\* cursor of that moment up to the cursor now: in order, without a hole, without
\* one twice and without one of another stream.  A snapshot itself has exactly
\* the frames up to its number.  It holds through missed frames, replays, snapshots taken
\* while frames are emitted, failing requests and daemons that lost frames,
\* except from the moment a queued push of lost frames is taken for a frame of
\* the new daemon (foreign) until the next of those events.
ViewIsStream ==
    up /\ shown /\ ~foreign =>
        /\ cursor <= Len(log)
        /\ view = mark.view \o SubSeq(log, mark.seq + 1, cursor)
        /\ mark.whole => \A s \in 1..Len(log) :
             (\E i \in 1..Len(mark.view) : mark.view[i] = log[s]) <=> s <= mark.seq

\* A gap does not block the pushes behind it: what was received is processed, or
\* its recovery given up, whatever fails.  Only a push numbered beyond the end of
\* a log that lost frames is asked for again until the log has grown.
ChainDrains ==
    chain # <<>> ~> (chain = <<>> /\ at = "idle") \/ target.seq > Len(log) + 1
=============================================================================
