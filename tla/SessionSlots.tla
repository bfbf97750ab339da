---------------------------- MODULE SessionSlots ----------------------------
(***************************************************************************)
(* Who may hold the handle of one session's file                           *)
(* (packages/sidecar/src/runtime/session/sessionRegistry.ts: withSlot and  *)
(* the operations that use it).                                            *)
(*                                                                         *)
(* pi's repository (external) knows one handle per session: a second       *)
(* open() of the id throws, and so does delete() of a session that is      *)
(* open.  An attached session keeps its handle; everybody else opens,      *)
(* uses and closes one, queued per session.  A caller makes one call after *)
(* the other.  The session is created at most once: ids are not reused.    *)
(***************************************************************************)
EXTENDS Naturals, Sequences

CONSTANTS SlotCallers, NoOwner, TheMap

ASSUME SlotsAssumption == NoOwner \notin SlotCallers \cup {TheMap} /\ TheMap \notin SlotCallers

VARIABLES
    file,       \* the session's .jsonl: absent, there or deleted
    handle,     \* who holds pi's handle: a caller, the attached map, nobody
    attached,   \* the entry of the attached map: no, yes, or dying (disposing)
    slot,       \* sessionSlots: the callers in line, the first of which runs
    call,       \* caller -> its operation and where that is
    clash       \* pi refused an operation because the session was open

slotVars == <<file, handle, attached, slot, call, clash>>

Ops == {"create", "read", "attach", "detach", "delete"}
NoCall == [op |-> "none", at |-> "idle"]

SlotsInit ==
    /\ file = "absent" /\ handle = NoOwner /\ attached = "no"
    /\ slot = <<>> /\ clash = FALSE
    /\ call = [c \in SlotCallers |-> NoCall]

InMap == attached # "no"

----------------------------------------------------------------------------

Go(c, at) == call' = [call EXCEPT ![c].at = at]
Join(c, op) ==
    /\ call' = [call EXCEPT ![c] = [op |-> op, at |-> "queued"]]
    /\ slot' = Append(slot, c)

\* A bug: a rejected task rejects the tail of its queue, which never runs.
Released_OnlyFulfilled(ok) == IF ok THEN Tail(slot) ELSE slot
\* withSlot: whether a task is fulfilled or not, the next in line runs.
Released(ok) == Tail(slot)

Leave(c, ok) ==
    /\ call' = [call EXCEPT ![c] = NoCall]
    /\ slot' = Released(ok)

\* withSession uses the handle of an attached session at once, in no line.
\* attach() builds the task state first (and returns an attached session).
Call(c, op) ==
    /\ call[c] = NoCall
    /\ \/ /\ op = "read" /\ InMap
          /\ call' = [call EXCEPT ![c] = [op |-> op, at |-> "borrowing"]]
          /\ UNCHANGED slot
       \/ /\ op = "attach" /\ ~InMap
          /\ call' = [call EXCEPT ![c] = [op |-> op, at |-> "building"]]
          /\ UNCHANGED slot
       \/ /\ op = "create" /\ file = "absent"
          /\ ~\E d \in SlotCallers : call[d].op = "create"
          /\ Join(c, op)
       \/ /\ op \in {"detach", "delete"} \/ (op = "read" /\ ~InMap)
          /\ Join(c, op)
    /\ UNCHANGED <<file, handle, attached, clash>>

\* The task state is built; attachChild looks again before it queues.
Built(c) ==
    /\ call[c].at = "building"
    /\ IF InMap
       THEN call' = [call EXCEPT ![c] = NoCall] /\ UNCHANGED slot
       ELSE Join(c, "attach")
    /\ UNCHANGED <<file, handle, attached, clash>>

\* A bug: what the call saw before it queued is taken to hold still.
NowAttached_AsBefore == FALSE
\* attachChild and withSession look at the map again when it is their turn.
NowAttached == InMap

\* The caller at the head of the line begins its task.
Turn(c) ==
    /\ slot # <<>> /\ Head(slot) = c /\ call[c].at = "queued"
    /\ \/ /\ call[c].op = "read"
          /\ Go(c, IF NowAttached THEN "borrowing" ELSE "opening")
          /\ UNCHANGED <<slot, attached>>
       \/ /\ call[c].op = "attach"
          /\ IF NowAttached THEN Leave(c, TRUE) ELSE Go(c, "opening") /\ UNCHANGED slot
          /\ UNCHANGED attached
       \/ /\ call[c].op = "create"
          /\ Go(c, "opening")
          /\ UNCHANGED <<slot, attached>>
       \/ /\ call[c].op \in {"detach", "delete"} /\ InMap      \* detachLocked
          /\ attached' = "dying"
          /\ Go(c, "disposing")
          /\ UNCHANGED slot
       \/ /\ call[c].op = "detach" /\ ~InMap
          /\ Leave(c, TRUE)
          /\ UNCHANGED attached
       \/ /\ call[c].op = "delete" /\ ~InMap
          /\ Go(c, "removing")
          /\ UNCHANGED <<slot, attached>>
    /\ UNCHANGED <<file, handle, clash>>

\* pi opens, creates or deletes a session nobody has open.
Refused == handle # NoOwner

\* openPersistedSession or repo.create: no such session, the session is open, or
\* the caller has the handle.
Opens(c) ==
    LET known == call[c].op = "create" \/ file = "there" IN
        /\ call[c].at = "opening"
        /\ clash' = (clash \/ (known /\ Refused))
        /\ IF known /\ ~Refused
           THEN /\ handle' = c
                /\ file' = "there"
                /\ Go(c, "using") /\ UNCHANGED slot
           ELSE /\ Leave(c, FALSE)
                /\ UNCHANGED <<file, handle>>
        /\ UNCHANGED attached

\* What the caller opened the session for succeeds or fails; unless that was an
\* attach that succeeds, the handle is closed.
Uses(c, ok) ==
    /\ call[c].at = "using"
    /\ IF call[c].op = "attach" /\ ok
       THEN attached' = "yes" /\ handle' = TheMap
       ELSE handle' = NoOwner /\ UNCHANGED attached
    /\ Leave(c, ok)
    /\ UNCHANGED <<file, clash>>

\* A read through the attached session's handle ends, in or out of line; it fails
\* when the session was disposed of under it.
Borrowed(c) ==
    /\ call[c].at = "borrowing"
    /\ IF slot # <<>> /\ Head(slot) = c
       THEN Leave(c, attached = "yes")
       ELSE call' = [call EXCEPT ![c] = NoCall] /\ UNCHANGED slot
    /\ UNCHANGED <<file, handle, attached, clash>>

\* dispose() has closed the harness, and the handle with it.
DisposeEnds(c) ==
    /\ call[c].at = "disposing"
    /\ attached' = "no" /\ handle' = NoOwner
    /\ IF call[c].op = "delete" THEN Go(c, "removing") /\ UNCHANGED slot
                                ELSE Leave(c, TRUE)
    /\ UNCHANGED <<file, clash>>

\* repo.delete: no such session, the session is open, or it is gone.
Removes(c) ==
    /\ call[c].at = "removing"
    /\ clash' = (clash \/ (file = "there" /\ Refused))
    /\ file' = IF file = "there" /\ ~Refused THEN "deleted" ELSE file
    /\ Leave(c, file = "there" /\ ~Refused)
    /\ UNCHANGED <<handle, attached>>

----------------------------------------------------------------------------

SlotStep(c) ==
    \/ Built(c) \/ Turn(c) \/ Opens(c) \/ Borrowed(c) \/ DisposeEnds(c) \/ Removes(c)
    \/ \E ok \in BOOLEAN : Uses(c, ok)

SlotsNext == \E c \in SlotCallers : SlotStep(c) \/ \E op \in Ops : Call(c, op)

SlotsSpec == SlotsInit /\ [][SlotsNext]_slotVars

\* Every await of these operations ends; nobody has to call.
SlotsFair == \A c \in SlotCallers : WF_slotVars(SlotStep(c))

----------------------------------------------------------------------------

\* Reads, attaches, detaches and a deletion of one session never meet pi's open
\* handle: no call fails with "Session is already open" or "Session is open",
\* whatever is queued behind whom, what the map said before the wait and which of
\* them fail (withSlot, nowAttached, close() on every error path).
NoOpenClash == ~clash

\* No call of the session's operations waits for ever: not behind one that failed,
\* and not behind one that waits for it.
CallsEnd == \A c \in SlotCallers : call[c].at # "idle" ~> call[c].at = "idle"
=============================================================================
