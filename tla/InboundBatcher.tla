--------------------------- MODULE InboundBatcher ---------------------------
(***************************************************************************)
(* The batcher that groups one IM chat's messages into prompts             *)
(* (packages/sidecar/src/channels/inboundBatcher.ts).  Chats share nothing *)
(* but the `closed` flag, so one chat is the whole component.              *)
(*                                                                         *)
(* Messages are numbered in arrival order.  The item of a text message is  *)
(* ready at once, that of a media message when its download ends; the      *)
(* platform gives up a download after MaxDownload.  Time is discrete and   *)
(* timers are punctual.                                                    *)
(***************************************************************************)
EXTENDS Naturals, Sequences, FiniteSets

CONSTANTS
    QuietMs,       \* options.quietMs
    MaxWaitMs,     \* options.maxWaitMs
    MaxDownload,   \* the platform's download time-out
    MaxMessages,   \* bound: messages
    MaxTime        \* bound: last tick at which a message may arrive

ASSUME BatcherAssumption ==
    /\ QuietMs \in Nat /\ MaxWaitMs \in Nat /\ MaxDownload \in Nat
    /\ MaxDownload < MaxWaitMs
    /\ MaxMessages \in Nat /\ MaxTime \in Nat

VARIABLES
    now,
    items,      \* message -> what its promise is about, in arrival order
    batch,      \* the open PendingBatch, or NoBatch
    tails,      \* closed batches that are not handed over yet, oldest first
    delivered,  \* what each call of flush() was given, in that order
    closed      \* dispose() was called

batcherVars == <<now, items, batch, tails, delivered, closed>>

\* A time no timer is set to; the clock stops before it.
Never == MaxTime + MaxWaitMs + MaxDownload + QuietMs + 1
NoBatch == [ids |-> <<>>, pending |-> 0, lastArrivalAt |-> 0, openedAt |-> 0, timer |-> Never]

BatcherInit ==
    /\ now = 0
    /\ items = <<>>
    /\ batch = NoBatch
    /\ tails = <<>>
    /\ delivered = <<>>
    /\ closed = FALSE

Open == batch # NoBatch
Min(a, b) == IF a <= b THEN a ELSE b
Max(a, b) == IF a >= b THEN a ELSE b

\* A bug: the message goes to the front of its batch.
Joined_Front(id) ==
    [(IF Open THEN batch ELSE [NoBatch EXCEPT !.openedAt = now])
        EXCEPT !.ids = <<id>> \o @, !.pending = @ + 1, !.lastArrivalAt = now,
               !.timer = Never]

\* The batch with one more message: it is in flight and the timer is off.
Joined(id) ==
    [(IF Open THEN batch ELSE [NoBatch EXCEPT !.openedAt = now])
        EXCEPT !.ids = Append(@, id), !.pending = @ + 1, !.lastArrivalAt = now,
               !.timer = Never]

\* push(): a disposed batcher ignores the message.
Push(kind) ==
    /\ Len(items) < MaxMessages /\ now <= MaxTime
    /\ items' = Append(items, [kind |-> kind, at |-> now, state |-> "flight"])
    /\ batch' = IF closed THEN batch ELSE Joined(Len(items) + 1)
    /\ UNCHANGED <<now, tails, delivered, closed>>

\* arm(): nothing while an item is in flight, else the end of the quiet
\* window or of the longest wait, whichever is first.
Armed(b) ==
    [b EXCEPT !.timer = IF b.pending > 0 THEN Never
                        ELSE Max(now, Min(b.lastArrivalAt + QuietMs, b.openedAt + MaxWaitMs))]

\* A bug: a failed download is not counted as settled.
Settled_OnlyFulfilled(b, ok) == IF ok THEN Armed([b EXCEPT !.pending = @ - 1]) ELSE b

\* onSettled, for a fulfilled and for a rejected item.
Settled(b, ok) == Armed([b EXCEPT !.pending = @ - 1])

\* An item settles; its batch is the open one (a batch closes settled).
ItemSettles(id, ok) ==
    /\ items[id].state = "flight"
    /\ items[id].kind = "text" => ok
    /\ items' = [items EXCEPT ![id].state = IF ok THEN "ok" ELSE "failed"]
    /\ batch' = IF closed \/ id \notin {batch.ids[i] : i \in DOMAIN batch.ids}
                THEN batch ELSE Settled(batch, ok)
    /\ UNCHANGED <<now, tails, delivered, closed>>

\* close(), from the timer: the batch leaves the map and queues for hand-over.
Close ==
    /\ Open /\ batch.timer <= now
    /\ tails' = Append(tails, batch.ids)
    /\ batch' = NoBatch
    /\ UNCHANGED <<now, items, delivered, closed>>

\* The oldest closed batch may be handed over: all its items have settled.
Ready == tails # <<>> /\ \A i \in DOMAIN Head(tails) : items[Head(tails)[i]].state # "flight"

\* allSettled and flatMap: the fulfilled items of a batch, each at its place in it.
Fulfilled(ids) == [i \in {k \in DOMAIN ids : items[ids[k]].state = "ok"} |-> ids[i]]

\* flush() gets them, unless there are none or the batcher was disposed.
HandOver ==
    /\ Ready
    /\ tails' = Tail(tails)
    /\ LET given == Fulfilled(Head(tails))
       IN  delivered' = IF closed \/ DOMAIN given = {} THEN delivered
                        ELSE Append(delivered, given)
    /\ UNCHANGED <<now, items, batch, closed>>

\* dispose(): the open batch is dropped.
Dispose ==
    /\ ~closed
    /\ closed' = TRUE
    /\ batch' = NoBatch
    /\ UNCHANGED <<now, items, tails, delivered>>

\* Nothing is due now: no timer, no ready promise, no text item, no download
\* at its time-out.
Idle ==
    /\ batch.timer > now
    /\ ~Ready
    /\ \A id \in DOMAIN items : items[id].state = "flight" =>
            items[id].kind = "media" /\ now < items[id].at + MaxDownload

\* Time counts from the first message.
Tick ==
    /\ Idle /\ items # <<>> /\ now < Never - 1
    /\ now' = now + 1
    /\ UNCHANGED <<items, batch, tails, delivered, closed>>

BatcherNext ==
    \/ \E kind \in {"text", "media"} : Push(kind)
    \/ \E id \in DOMAIN items, ok \in BOOLEAN : ItemSettles(id, ok)
    \/ Close \/ HandOver \/ Dispose \/ Tick

BatcherSpec == BatcherInit /\ [][BatcherNext]_batcherVars

\* Time passes, timers and promise reactions run, and the platform settles
\* every download within its time-out.
BatcherFair ==
    /\ WF_batcherVars(Tick) /\ WF_batcherVars(Close) /\ WF_batcherVars(HandOver)
    /\ \A id \in 1..MaxMessages :
         WF_batcherVars(id \in DOMAIN items /\ \E ok \in BOOLEAN : ItemSettles(id, ok))

-----------------------------------------------------------------------------
(* Properties. *)

\* Messages reach the session at most once and in arrival order, within a prompt
\* and from one prompt to the next, whatever order their downloads settle in
\* (batch.items, allSettled, tails).
DeliveredInOrder ==
    \A a, b \in DOMAIN delivered : \A i \in DOMAIN delivered[a], j \in DOMAIN delivered[b] :
        a < b \/ (a = b /\ i < j) => delivered[a][i] < delivered[b][j]

\* Every message whose item is fulfilled reaches the session, unless the
\* batcher is disposed.
NoneLost ==
    \A id \in 1..MaxMessages :
        (id \in DOMAIN items /\ items[id].state = "ok")
            ~> (closed \/ \E a \in DOMAIN delivered :
                              \E i \in DOMAIN delivered[a] : delivered[a][i] = id)
=============================================================================
