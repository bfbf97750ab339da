------------------------ MODULE WorkspaceFilesProofs ------------------------
(***************************************************************************)
(* Proofs about the files of a workspace that several callers share.       *)
(*                                                                         *)
(* SessionSlots: no operation on a session meets pi's open handle          *)
(* (NoOpenClash), for any number of callers.  A caller inside its task is  *)
(* the head of the line (HeadInv), so there is one at a time; the handle   *)
(* belongs to the map exactly while the session is in it and else to the   *)
(* caller that uses it (HandleInv).  A caller about to open or to delete   *)
(* has looked at the map in its turn, and one that creates the session     *)
(* comes before all others (FileInv).                                      *)
(*                                                                         *)
(* MemoryDream: no plan, undo or rollback replaces or retires what others  *)
(* wrote after the model saw the topics (LaterEditWins), for any topics,   *)
(* answers, edits and crashes.  Every content a plan, a report or a call   *)
(* expects a topic to have is older than those edits (DreamInv), so the    *)
(* compare before each file operation fails on an edited topic.  Undoing a *)
(* plan gives back every topic nobody else changed since (UndoRestores):   *)
(* what a record says of such a topic determines how to bring it back      *)
(* (Undoable), all through the apply, in the report and all through the    *)
(* undo (UndoInv).                                                         *)
(***************************************************************************)
EXTENDS SessionSlots, MemoryDream, SequenceTheorems, TLAPS

----------------------------------------------------------------------------
(* SessionSlots *)

Places == {"idle", "building", "queued", "borrowing", "opening", "using", "disposing", "removing"}
Tasks == {"opening", "using", "disposing", "removing"}

SlotsTypeOK ==
    /\ file \in {"absent", "there", "deleted"}
    /\ handle \in SlotCallers \cup {NoOwner, TheMap}
    /\ attached \in {"no", "yes", "dying"}
    /\ slot \in Seq(SlotCallers)
    /\ call \in [SlotCallers -> [op : Ops \cup {"none"}, at : Places]]

HeadInv == \A c \in SlotCallers : call[c].at \in Tasks => slot # <<>> /\ Head(slot) = c

HandleInv ==
    /\ InMap <=> handle = TheMap
    /\ \A c \in SlotCallers :
        /\ handle = c <=> call[c].at = "using"
        /\ call[c].at \in {"opening", "removing"} => ~InMap
        /\ call[c].at = "disposing" => InMap

\* The one creation of the session comes before everything else.
FileInv ==
    /\ \A c \in SlotCallers : call[c].op = "create" /\ call[c].at \in {"queued", "opening"}
                                => file = "absent"
    /\ \A c, d \in SlotCallers : call[c].op = "create" /\ call[d].op = "create" => c = d
    /\ (InMap \/ \E c \in SlotCallers : call[c].at = "using") => file # "absent"

\* What the steps of the line's head rely on.
LineInv == SlotsTypeOK /\ HeadInv /\ HandleInv /\ NoOpenClash

SlotsInv == LineInv /\ FileInv

\* The line grows at its end and shrinks at its head.
LEMMA Lines ==
    ASSUME slot \in Seq(SlotCallers), NEW c \in SlotCallers
    PROVE  /\ Append(slot, c) \in Seq(SlotCallers)
           /\ slot # <<>> => /\ Head(Append(slot, c)) = Head(slot)
                             /\ Append(slot, c) # <<>>
                             /\ Tail(slot) \in Seq(SlotCallers)
OBVIOUS

\* Who opens or deletes in its turn finds no open handle.
LEMMA TurnFindsNoHandle ==
    ASSUME LineInv, NEW c \in SlotCallers, call[c].at \in {"opening", "removing"}
    PROVE  ~Refused
BY SlotsAssumption DEF LineInv, SlotsTypeOK, HeadInv, HandleInv, InMap, Tasks, Refused

\* Whoever is at the head of the line is the only one inside a task.
LEMMA Alone ==
    ASSUME LineInv, NEW c \in SlotCallers, slot # <<>>, Head(slot) = c
    PROVE  \A d \in SlotCallers \ {c} : call[d].at \notin Tasks
BY DEF LineInv, HeadInv

\* The head of the line leaves: nobody is inside a task.
LEMMA LeaveKeeps ==
    ASSUME LineInv, NEW c \in SlotCallers, NEW ok, slot # <<>>, Head(slot) = c, Leave(c, ok)
    PROVE  /\ slot' \in Seq(SlotCallers)
           /\ call' \in [SlotCallers -> [op : Ops \cup {"none"}, at : Places]]
           /\ \A d \in SlotCallers : call'[d].at \notin Tasks
<1>1. slot' \in Seq(SlotCallers)
  BY Lines DEF LineInv, SlotsTypeOK, Leave, Released
<1>2. call' \in [SlotCallers -> [op : Ops \cup {"none"}, at : Places]]
  BY DEF LineInv, SlotsTypeOK, Leave, NoCall, Places
<1>3. \A d \in SlotCallers : call'[d].at \notin Tasks
  BY Alone DEF LineInv, SlotsTypeOK, Leave, NoCall, Tasks
<1> QED
  BY <1>1, <1>2, <1>3

\* The head of the line goes on: it alone may be inside a task.
LEMMA GoKeeps ==
    ASSUME LineInv, NEW c \in SlotCallers, NEW at \in Places,
           slot # <<>>, Head(slot) = c, Go(c, at), UNCHANGED slot
    PROVE  /\ call' \in [SlotCallers -> [op : Ops \cup {"none"}, at : Places]]
           /\ HeadInv'
           /\ call'[c].at = at
           /\ \A d \in SlotCallers \ {c} : call'[d].at \notin Tasks
<1>1. /\ call' \in [SlotCallers -> [op : Ops \cup {"none"}, at : Places]]
      /\ call'[c].at = at
      /\ \A d \in SlotCallers \ {c} : call'[d] = call[d]
  BY DEF LineInv, SlotsTypeOK, Go
<1>2. \A d \in SlotCallers \ {c} : call'[d].at \notin Tasks
  BY <1>1, Alone
<1> QED
  BY <1>1, <1>2 DEF HeadInv

\* A caller joins the line, or one out of line changes its call.
LEMMA OutsideKeeps ==
    ASSUME LineInv, NEW c \in SlotCallers, call[c].at \notin Tasks,
           NEW x \in [op : Ops \cup {"none"}, at : Places \ Tasks],
           call' = [call EXCEPT ![c] = x], slot' \in {slot, Append(slot, c)},
           UNCHANGED <<file, handle, attached, clash>>
    PROVE  LineInv'
<1>1. SlotsTypeOK'
  BY Lines DEF LineInv, SlotsTypeOK, Places
<1>2. \A d \in SlotCallers : /\ call'[d].at \in Tasks => call[d].at \in Tasks
                             /\ call'[d].at \in Tasks \/ call[d].at \in Tasks => call'[d] = call[d]
  BY DEF LineInv, SlotsTypeOK
<1>3. slot # <<>> => slot' # <<>> /\ Head(slot') = Head(slot)
  BY Lines DEF LineInv, SlotsTypeOK
<1>4. HeadInv'
  BY <1>2, <1>3 DEF LineInv, HeadInv
<1>5. HandleInv' /\ NoOpenClash'
  BY <1>2 DEF LineInv, HandleInv, InMap, Tasks, NoOpenClash
<1> QED
  BY <1>1, <1>4, <1>5 DEF LineInv

\* The invariant again, once nobody is inside a task.
LEMMA NobodyInside ==
    ASSUME SlotsTypeOK', \A d \in SlotCallers : call'[d].at \notin Tasks,
           handle' \notin SlotCallers, (attached' # "no") <=> (handle' = TheMap), ~clash'
    PROVE  LineInv'
BY DEF LineInv, HeadInv, HandleInv, InMap, NoOpenClash, Tasks

----------------------------------------------------------------------------
(* One lemma per operation of the line's head.                             *)

\* The head of the line begins its task.
LEMMA TurnKeeps ==
    ASSUME SlotsInv, NEW c \in SlotCallers, Turn(c) PROVE LineInv'
<1> LineInv
  BY DEF SlotsInv
<1> USE SlotsAssumption
<1>1. slot # <<>> /\ Head(slot) = c /\ call[c].at = "queued" /\ UNCHANGED <<file, handle, clash>>
  BY DEF Turn
<1>2. handle \notin SlotCallers /\ ~clash /\ (InMap <=> handle = TheMap)
  BY <1>1, Alone DEF LineInv, SlotsTypeOK, HandleInv, NoOpenClash, Tasks
<1>3. CASE Leave(c, TRUE) /\ UNCHANGED attached
  BY <1>1, <1>2, <1>3, LeaveKeeps, NobodyInside DEF LineInv, SlotsTypeOK, InMap
<1>4. CASE Go(c, "borrowing") /\ UNCHANGED <<slot, attached>>
  <2>1. "borrowing" \in Places /\ "borrowing" \notin Tasks
    BY DEF Places, Tasks
  <2>2. \A d \in SlotCallers : call'[d].at \notin Tasks
    BY <1>1, <1>4, <2>1, GoKeeps
  <2>3. SlotsTypeOK'
    BY <1>1, <1>4, <2>1, GoKeeps DEF LineInv, SlotsTypeOK
  <2> QED
    BY <1>1, <1>2, <1>4, <2>2, <2>3, NobodyInside DEF InMap
<1>5. ASSUME NEW at \in {"opening", "removing"}, Go(c, at), ~InMap, UNCHANGED <<slot, attached>>
      PROVE  LineInv'
  <2>1. at \in Places /\ at # "using" /\ at # "disposing"
    BY <1>5 DEF Places
  <2>2. SlotsTypeOK' /\ HeadInv' /\ call'[c].at = at
        /\ \A d \in SlotCallers \ {c} : call'[d].at \notin Tasks
    BY <1>1, <1>5, <2>1, GoKeeps DEF LineInv, SlotsTypeOK
  <2> QED
    BY <1>1, <1>2, <1>5, <2>1, <2>2 DEF LineInv, HandleInv, InMap, Tasks, NoOpenClash
<1>6. CASE InMap /\ attached' = "dying" /\ Go(c, "disposing") /\ UNCHANGED slot
  <2>1. "disposing" \in Places
    BY DEF Places
  <2>2. SlotsTypeOK' /\ HeadInv' /\ call'[c].at = "disposing"
        /\ \A d \in SlotCallers \ {c} : call'[d].at \notin Tasks
    BY <1>1, <1>6, <2>1, GoKeeps DEF LineInv, SlotsTypeOK
  <2> QED
    BY <1>1, <1>2, <1>6, <2>2 DEF LineInv, HandleInv, InMap, Tasks, NoOpenClash
<1>7. CASE call[c].op = "create" /\ Go(c, "opening") /\ UNCHANGED <<slot, attached>>
  BY <1>1, <1>5, <1>7 DEF SlotsInv, FileInv
<1> QED
  BY <1>3, <1>4, <1>5, <1>6, <1>7 DEF Turn, NowAttached

\* The head of the line opens the session, or leaves without it.
LEMMA OpensKeeps ==
    ASSUME LineInv, NEW c \in SlotCallers, Opens(c) PROVE LineInv'
<1> USE SlotsAssumption
<1>1. /\ call[c].at = "opening" /\ slot # <<>> /\ Head(slot) = c /\ ~Refused
      /\ ~InMap /\ UNCHANGED attached
  BY TurnFindsNoHandle DEF Opens, LineInv, HeadInv, HandleInv, Tasks
<1>2. ~clash' /\ handle = NoOwner
  BY <1>1 DEF Opens, LineInv, NoOpenClash, Refused
<1>3. CASE handle' = c /\ file' = "there" /\ Go(c, "using") /\ UNCHANGED slot
  <2>1. "using" \in Places
    BY DEF Places
  <2>2. SlotsTypeOK' /\ HeadInv' /\ call'[c].at = "using"
        /\ \A d \in SlotCallers \ {c} : call'[d].at \notin Tasks
    BY <1>1, <1>3, <2>1, GoKeeps DEF LineInv, SlotsTypeOK
  <2> QED
    BY <1>1, <1>2, <1>3, <2>2 DEF LineInv, HandleInv, InMap, Tasks, NoOpenClash
<1>4. CASE Leave(c, FALSE) /\ UNCHANGED <<file, handle>>
  BY <1>1, <1>2, <1>4, LeaveKeeps, NobodyInside DEF LineInv, SlotsTypeOK, InMap
<1> QED
  BY <1>1, <1>3, <1>4 DEF Opens

\* The head of the line is done: it closes the handle or gives it to the map.
LEMMA UsesKeeps ==
    ASSUME LineInv, NEW c \in SlotCallers, NEW ok \in BOOLEAN, Uses(c, ok) PROVE LineInv'
<1> USE SlotsAssumption
<1>1. /\ slot # <<>> /\ Head(slot) = c /\ handle = c /\ ~InMap
      /\ Leave(c, ok) /\ UNCHANGED <<file, clash>> /\ ~clash
  BY DEF Uses, LineInv, HeadInv, HandleInv, Tasks, NoOpenClash
<1>2. \/ attached' = "yes" /\ handle' = TheMap
      \/ handle' = NoOwner /\ attached' = "no"
  BY <1>1 DEF Uses, InMap
<1> QED
  BY <1>1, <1>2, LeaveKeeps, NobodyInside DEF LineInv, SlotsTypeOK

\* A read through the map's handle ends.
LEMMA BorrowedKeeps ==
    ASSUME LineInv, NEW c \in SlotCallers, Borrowed(c) PROVE LineInv'
<1> USE SlotsAssumption
<1>1. call[c].at = "borrowing" /\ UNCHANGED <<file, handle, attached, clash>>
  BY DEF Borrowed
<1>2. CASE slot # <<>> /\ Head(slot) = c /\ Leave(c, attached = "yes")
  <2>1. handle \notin SlotCallers
    BY <1>1, <1>2, Alone DEF LineInv, HandleInv, Tasks
  <2> QED
    BY <1>1, <1>2, <2>1, LeaveKeeps, NobodyInside
    DEF LineInv, SlotsTypeOK, HandleInv, InMap, NoOpenClash
<1>3. CASE call' = [call EXCEPT ![c] = NoCall] /\ UNCHANGED slot
  <2>1. NoCall \in [op : Ops \cup {"none"}, at : Places \ Tasks] /\ call[c].at \notin Tasks
    BY <1>1 DEF NoCall, Places, Tasks
  <2> QED
    BY <1>1, <1>3, <2>1, OutsideKeeps
<1> QED
  BY <1>2, <1>3 DEF Borrowed

\* The attached session is gone, and its handle.
LEMMA DisposeEndsKeeps ==
    ASSUME LineInv, NEW c \in SlotCallers, DisposeEnds(c) PROVE LineInv'
<1> USE SlotsAssumption
<1>1. /\ slot # <<>> /\ Head(slot) = c /\ attached' = "no" /\ handle' = NoOwner
      /\ UNCHANGED <<file, clash>> /\ ~clash
  BY DEF DisposeEnds, LineInv, HeadInv, Tasks, NoOpenClash
<1>2. CASE Go(c, "removing") /\ UNCHANGED slot
  <2>1. "removing" \in Places
    BY DEF Places
  <2>2. SlotsTypeOK' /\ HeadInv' /\ call'[c].at = "removing"
        /\ \A d \in SlotCallers \ {c} : call'[d].at \notin Tasks
    BY <1>1, <1>2, <2>1, GoKeeps DEF LineInv, SlotsTypeOK
  <2> QED
    BY <1>1, <2>2 DEF LineInv, HandleInv, InMap, Tasks, NoOpenClash
<1>3. CASE Leave(c, TRUE)
  BY <1>1, <1>3, LeaveKeeps, NobodyInside DEF LineInv, SlotsTypeOK
<1> QED
  BY <1>2, <1>3 DEF DisposeEnds

\* The session is deleted.
LEMMA RemovesKeeps ==
    ASSUME LineInv, NEW c \in SlotCallers, Removes(c) PROVE LineInv'
<1> USE SlotsAssumption
<1>1. /\ slot # <<>> /\ Head(slot) = c /\ ~Refused /\ ~InMap
      /\ \E ok \in BOOLEAN : Leave(c, ok)
      /\ UNCHANGED <<handle, attached>>
  BY TurnFindsNoHandle DEF Removes, LineInv, HeadInv, HandleInv, Tasks
<1>2. ~clash' /\ handle = NoOwner
  BY <1>1 DEF Removes, LineInv, NoOpenClash, Refused
<1>3. file' \in {"absent", "there", "deleted"}
  BY DEF Removes, LineInv, SlotsTypeOK
<1> QED
  BY <1>1, <1>2, <1>3, LeaveKeeps, NobodyInside DEF LineInv, SlotsTypeOK, InMap

\* A call begins: it joins the line or waits outside of it.
LEMMA CallKeeps ==
    ASSUME LineInv, NEW c \in SlotCallers, NEW op \in Ops, Call(c, op) \/ Built(c)
    PROVE  LineInv'
<1>1. call[c].at \notin Tasks /\ UNCHANGED <<file, handle, attached, clash>>
  BY DEF Call, Built, NoCall, Tasks
<1>2. PICK x \in [op : Ops \cup {"none"}, at : Places \ Tasks] :
        call' = [call EXCEPT ![c] = x] /\ slot' \in {slot, Append(slot, c)}
  BY DEF Call, Built, Join, NoCall, Ops, Places, Tasks
<1> QED
  BY <1>1, <1>2, OutsideKeeps

\* A step that begins no creation, changes no file and lets nobody in.
LEMMA FileKeeps ==
    ASSUME FileInv, UNCHANGED file, InMap' => InMap,
           \A d \in SlotCallers :
               /\ call'[d].op = "create" => call[d].op = "create"
               /\ call'[d].op = "create" /\ call'[d].at \in {"queued", "opening"}
                    => call[d].at \in {"queued", "opening"}
               /\ call'[d].at = "using" => call[d].at = "using"
    PROVE  FileInv'
BY DEF FileInv

\* What the primitives of a step do to the calls.
LEMMA Primitives ==
    ASSUME SlotsTypeOK, NEW c \in SlotCallers
    PROVE  /\ \A at : Go(c, at) => /\ call'[c].op = call[c].op /\ call'[c].at = at
                                   /\ \A d \in SlotCallers \ {c} : call'[d] = call[d]
           /\ \A x : call' = [call EXCEPT ![c] = x] =>
                        /\ call'[c] = x
                        /\ \A d \in SlotCallers \ {c} : call'[d] = call[d]
BY DEF SlotsTypeOK, Go

\* Every step keeps the creation first.
LEMMA FileStep ==
    ASSUME SlotsInv, NEW c \in SlotCallers, SlotStep(c) \/ \E op \in Ops : Call(c, op)
    PROVE  FileInv'
<1> SlotsTypeOK /\ FileInv
  BY DEF SlotsInv, LineInv
<1>1. ASSUME NEW op \in Ops, Call(c, op) PROVE FileInv'
  BY <1>1 DEF Call, Join, NoCall, SlotsTypeOK, FileInv, InMap
<1>2. CASE Built(c)
  <2>1. UNCHANGED <<file, attached>>
        /\ (call' = [call EXCEPT ![c] = NoCall]
            \/ call' = [call EXCEPT ![c] = [op |-> "attach", at |-> "queued"]])
    BY <1>2 DEF Built, Join
  <2> QED
    BY <2>1, Primitives, FileKeeps DEF NoCall, InMap
<1>3. CASE Turn(c)
  <2>1. UNCHANGED file /\ (InMap' => InMap) /\ call[c].at = "queued"
    BY <1>3 DEF Turn, InMap
  <2>2. \/ call' = [call EXCEPT ![c] = NoCall]
        \/ \E at \in {"borrowing", "opening", "disposing", "removing"} : Go(c, at)
    BY <1>3 DEF Turn, Leave
  <2> QED
    BY <2>1, <2>2, Primitives, FileKeeps DEF NoCall
<1>4. CASE Opens(c)
  <2>1. call[c].at = "opening" /\ UNCHANGED attached
    BY <1>4 DEF Opens
  <2>2. CASE UNCHANGED file /\ call' = [call EXCEPT ![c] = NoCall]
    BY <2>1, <2>2, Primitives, FileKeeps DEF NoCall, InMap
  <2>3. CASE Go(c, "using") /\ file' = "there" /\ (call[c].op = "create" \/ file = "there")
    <3>1. /\ call'[c].op = call[c].op /\ call'[c].at = "using"
          /\ \A d \in SlotCallers \ {c} : call'[d] = call[d]
      BY <2>3, Primitives
    <3> QED
      BY <2>3, <3>1 DEF FileInv
  <2> QED
    BY <1>4, <2>2, <2>3 DEF Opens, Leave
<1>5. CASE Borrowed(c)
  <2>1. UNCHANGED <<file, attached>> /\ call' = [call EXCEPT ![c] = NoCall]
    BY <1>5 DEF Borrowed, Leave
  <2> QED
    BY <2>1, Primitives, FileKeeps DEF NoCall, InMap
<1>6. CASE DisposeEnds(c)
  <2>1. UNCHANGED file /\ ~InMap'
        /\ (call' = [call EXCEPT ![c] = NoCall] \/ Go(c, "removing"))
    BY <1>6 DEF DisposeEnds, Leave, InMap
  <2> QED
    BY <2>1, Primitives, FileKeeps DEF NoCall
<1>7. CASE Removes(c)
  BY <1>7 DEF Removes, Leave, NoCall, SlotsTypeOK, FileInv, InMap
<1>8. ASSUME NEW ok \in BOOLEAN, Uses(c, ok) PROVE FileInv'
  BY <1>8 DEF Uses, Leave, NoCall, SlotsTypeOK, FileInv, InMap
<1> QED
  BY <1>1, <1>2, <1>3, <1>4, <1>5, <1>6, <1>7, <1>8 DEF SlotStep

\* Every step keeps the invariant.
LEMMA SlotsStep == SlotsInv /\ [SlotsNext]_slotVars => SlotsInv'
<1> SUFFICES ASSUME SlotsInv, [SlotsNext]_slotVars PROVE SlotsInv'
  OBVIOUS
<1>1. CASE UNCHANGED slotVars
  BY <1>1
  DEF slotVars, SlotsInv, LineInv, SlotsTypeOK, HeadInv, HandleInv, FileInv, NoOpenClash, InMap
<1>2. ASSUME NEW c \in SlotCallers, SlotStep(c) \/ \E op \in Ops : Call(c, op)
      PROVE  SlotsInv'
  <2>1. LineInv
    BY DEF SlotsInv
  <2>2. CASE \E op \in Ops : Call(c, op)
    BY <2>1, <2>2, CallKeeps, FileStep DEF SlotsInv
  <2>3. CASE Built(c)
    <3>1. "read" \in Ops
      BY DEF Ops
    <3> QED
      BY <1>2, <2>1, <2>3, <3>1, CallKeeps, FileStep DEF SlotsInv
  <2>4. CASE SlotStep(c) /\ ~Built(c)
    <3>1. LineInv'
      BY <2>1, <2>4, TurnKeeps, OpensKeeps, BorrowedKeeps, DisposeEndsKeeps, RemovesKeeps,
         UsesKeeps DEF SlotStep
    <3> QED
      BY <1>2, <3>1, FileStep DEF SlotsInv
  <2> QED
    BY <1>2, <2>2, <2>3, <2>4
<1> QED
  BY <1>1, <1>2 DEF SlotsNext

\* No call of the session's operations is refused because the session is open, for
\* any number of callers (withSlot, the second look at the map, and the close()
\* of every error path).
THEOREM HandleFree == SlotsSpec => []NoOpenClash
<1>1. SlotsInit => SlotsInv
  BY SlotsAssumption
  DEF SlotsInit, SlotsInv, LineInv, SlotsTypeOK, HeadInv, HandleInv, FileInv, NoOpenClash,
      InMap, NoCall, Places, Tasks
<1>2. SlotsInv => NoOpenClash
  BY DEF SlotsInv, LineInv
<1> QED
  BY <1>1, <1>2, SlotsStep, PTL DEF SlotsSpec
----------------------------------------------------------------------------
(* MemoryDream *)

\* Contents that are known to a plan or a report: they were written before every
\* later edit, and are none.
Stale(f, new, top) == f \in [Topics -> Nat] /\ \A t \in Topics : f[t] <= top /\ f[t] \notin new

\* The fields of a plan, a report and a call.
PlanFields == {"id", "actions", "snapshot"}
RecFields == {"st", "created", "archived", "stranded", "before", "written"}
WorkFields == {"st", "plan", "reviewed", "todo", "moved", "failed", "rec"}

PlanStale(plan, new, top) == PlanFields \subseteq DOMAIN plan /\ Stale(plan.snapshot, new, top)

RecStale(rec, new, top) ==
    /\ RecFields \subseteq DOMAIN rec
    /\ Stale(rec.before, new, top) /\ Stale(rec.written, new, top)

WorkStale(w, new, top) ==
    /\ WorkFields \subseteq DOMAIN w
    /\ PlanStale(w.plan, new, top) /\ RecStale(w.rec, new, top)

\* The files, and that later edits are among them.
FilesInv ==
    /\ contents \in Nat /\ fresh \subseteq 1..contents
    /\ live \in [Topics -> 0..contents] /\ archive \in [Topics -> 0..contents]
    /\ LaterEditWins

\* Whatever a call, the preview or a report expects of a topic is no later edit.
CallsStale == DOMAIN work = DreamCallers /\ \A c \in DreamCallers : WorkStale(work[c], fresh, contents)
ReportsStale == DOMAIN reports = Plans /\ \A p \in Plans : RecStale(reports[p], fresh, contents)

DreamInv ==
    FilesInv /\ PlanStale(preview, fresh, contents) /\ CallsStale /\ ReportsStale

USE DEF PlanFields, RecFields, WorkFields

\* What was known before stays known when contents are added that no one edited.
LEMMA StaleStays ==
    ASSUME NEW f, NEW new, NEW top \in Nat, NEW more \in Nat, top <= more, Stale(f, new, top)
    PROVE  Stale(f, new, more)
BY DEF Stale

\* A content that is written now is no earlier one.
LEMMA StaleWithEdit ==
    ASSUME NEW f, NEW new, NEW old, NEW top \in Nat, Stale(f, new, top)
    PROVE  Stale(f, (new \ old) \cup {top + 1}, top + 1) /\ Stale(f, new \ old, top)
BY DEF Stale

\* The records of no plan, no report and no call.
LEMMA NothingStale ==
    ASSUME NEW new, NEW top \in Nat, new \subseteq 1..top
    PROVE  /\ Stale(Nothing, new, top) /\ PlanStale(NoPlan, new, top)
           /\ RecStale(NoReport, new, top) /\ WorkStale(NoWork, new, top)
<1>1. Stale(Nothing, new, top)
  <2>1. 0 \notin new
    OBVIOUS
  <2> QED
    BY <2>1 DEF Stale, Nothing
<1> HIDE DEF Nothing
<1>2. PlanStale(NoPlan, new, top)
  BY <1>1 DEF PlanStale, NoPlan
<1>3. RecStale(NoReport, new, top)
  BY <1>1 DEF RecStale, NoReport
<1>4. WorkStale(NoWork, new, top)
  <2> HIDE DEF NoPlan, NoReport
  <2> QED
    BY <1>2, <1>3 DEF WorkStale, NoWork
<1> QED
  BY <1>1, <1>2, <1>3, <1>4

\* A step that leaves the edits alone and adds contents keeps what the others know.
LEMMA StaysStale ==
    ASSUME DreamInv, fresh' = fresh, contents' \in Nat, contents <= contents'
    PROVE  /\ PlanStale(preview, fresh', contents')
           /\ \A c \in DreamCallers : WorkStale(work[c], fresh', contents')
           /\ \A p \in Plans : RecStale(reports[p], fresh', contents')
BY StaleStays DEF DreamInv, FilesInv, PlanStale, RecStale, WorkStale, CallsStale, ReportsStale

\* A function with one value replaced, if it has that argument.
LEMMA Replaced ==
    ASSUME NEW T, NEW S, NEW f \in [T -> S], NEW t, NEW e, t \in T => e \in S
    PROVE  /\ [f EXCEPT ![t] = e] \in [T -> S]
           /\ \A u \in T : [f EXCEPT ![t] = e][u] = IF u = t THEN e ELSE f[u]
OBVIOUS

\* What a plan, its rollback or its undo does to one topic that holds no later edit.
LEMMA FilesKept ==
    ASSUME DreamInv, fresh' = fresh, NEW t, NEW p,
           t \in Topics => live[t] \notin fresh,
           \/ ArchiveTopic(t, p)
           \/ RestoreTopic(t, p)
           \/ WriteTopic(t, p)
           \/ \E e \in Nat : PutBack(t, e, p) /\ (t \in Topics => e <= contents)
           \/ NoTopic
    PROVE  FilesInv' /\ contents' \in {contents, contents + 1} /\ contents \in Nat
<1> USE DEF DreamInv, FilesInv
<1>0. /\ contents \in Nat /\ live \in [Topics -> 0..contents] /\ archive \in [Topics -> 0..contents]
      /\ fresh \subseteq 1..contents
  OBVIOUS
<1>1. ASSUME NEW g, DOMAIN g = Topics, \A u \in Topics : u # t => g[u] = live[u]
      PROVE  fresh \subseteq {g[u] : u \in Topics}
  <2> SUFFICES ASSUME NEW e \in fresh PROVE \E u \in Topics : g[u] = e
    OBVIOUS
  <2>1. PICK u \in Topics : live[u] = e
    BY DEF LaterEditWins
  <2> QED
    BY <2>1, <1>1
<1>2. ASSUME live' \in [Topics -> 0..contents'], archive' \in [Topics -> 0..contents'],
             \A u \in Topics : u # t => live'[u] = live[u], contents' \in {contents, contents + 1}
      PROVE  FilesInv'
  <2>1. fresh \subseteq {live'[u] : u \in Topics}
    BY <1>1, <1>2
  <2>2. contents' \in Nat /\ fresh' \subseteq 1..contents'
    BY <1>0, <1>2
  <2> QED
    BY <2>1, <2>2, <1>2 DEF LaterEditWins
<1>v. /\ live \in [Topics -> 0..contents] /\ archive \in [Topics -> 0..contents]
      /\ 0 \in 0..contents /\ (t \in Topics => live[t] \in 0..contents /\ archive[t] \in 0..contents)
      /\ \A e \in Nat : e <= contents => e \in 0..contents
  BY <1>0
<1>3. CASE ArchiveTopic(t, p)
  <2>1. /\ live' = [live EXCEPT ![t] = 0] /\ archive' = [archive EXCEPT ![t] = live[t]]
        /\ contents' = contents
    BY <1>3 DEF ArchiveTopic
  <2>2. live' \in [Topics -> 0..contents] /\ \A u \in Topics : u # t => live'[u] = live[u]
    BY <1>v, <2>1, Replaced
  <2>3. archive' \in [Topics -> 0..contents]
    BY <1>v, <2>1, Replaced
  <2> QED
    BY <1>0, <1>2, <2>1, <2>2, <2>3
<1>4. CASE RestoreTopic(t, p)
  <2>1. /\ live' = [live EXCEPT ![t] = archive[t]] /\ archive' = [archive EXCEPT ![t] = 0]
        /\ contents' = contents
    BY <1>4 DEF RestoreTopic
  <2>2. live' \in [Topics -> 0..contents] /\ \A u \in Topics : u # t => live'[u] = live[u]
    BY <1>v, <2>1, Replaced
  <2>3. archive' \in [Topics -> 0..contents]
    BY <1>v, <2>1, Replaced
  <2> QED
    BY <1>0, <1>2, <2>1, <2>2, <2>3
<1>5. CASE WriteTopic(t, p)
  <2>1. live' = [live EXCEPT ![t] = contents + 1] /\ archive' = archive /\ contents' = contents + 1
    BY <1>5 DEF WriteTopic
  <2>2. /\ live \in [Topics -> 0..contents + 1] /\ archive \in [Topics -> 0..contents + 1]
        /\ contents + 1 \in 0..contents + 1
    BY <1>0
  <2>3. live' \in [Topics -> 0..contents + 1] /\ \A u \in Topics : u # t => live'[u] = live[u]
    BY <2>1, <2>2, Replaced
  <2> QED
    BY <1>0, <1>2, <2>1, <2>2, <2>3
<1>6. CASE \E e \in Nat : PutBack(t, e, p) /\ (t \in Topics => e <= contents)
  <2>0. PICK e \in Nat : PutBack(t, e, p) /\ (t \in Topics => e <= contents)
    BY <1>6
  <2>1. live' = [live EXCEPT ![t] = e] /\ archive' = archive /\ contents' = contents
    BY <2>0 DEF PutBack
  <2>2. live' \in [Topics -> 0..contents] /\ \A u \in Topics : u # t => live'[u] = live[u]
    BY <1>v, <2>0, <2>1, Replaced
  <2> QED
    BY <1>0, <1>2, <2>1, <2>2
<1>7. CASE NoTopic
  <2>1. live' = live /\ archive' = archive /\ contents' = contents
    BY <1>7 DEF NoTopic
  <2> QED
    BY <1>0, <1>2, <2>1
<1> QED
  BY <1>3, <1>4, <1>5, <1>6, <1>7

\* Fields that say nothing about contents.
LEMMA RecEdits ==
    ASSUME NEW rec, NEW new, NEW top, RecStale(rec, new, top), NEW x, NEW y
    PROVE  /\ RecStale([rec EXCEPT !.st = x], new, top)
           /\ RecStale([rec EXCEPT !.created = x], new, top)
           /\ RecStale([rec EXCEPT !.archived = x], new, top)
           /\ RecStale([rec EXCEPT !.stranded = x], new, top)
           /\ RecStale([rec EXCEPT !.archived = x, !.stranded = y], new, top)
<1>1. ASSUME NEW r, DOMAIN r = DOMAIN rec, r.before = rec.before, r.written = rec.written
      PROVE  RecStale(r, new, top)
  BY <1>1 DEF RecStale
<1>2. RecFields \subseteq DOMAIN rec
  BY DEF RecStale
<1> QED
  BY <1>1, <1>2

\* Steps of a call that replace fields without contents, or its record.
LEMMA WorkEdits ==
    ASSUME NEW w, NEW new, NEW top, WorkStale(w, new, top), NEW x, NEW y, NEW rec, RecStale(rec, new, top)
    PROVE  /\ WorkStale([w EXCEPT !.moved = x], new, top)
           /\ WorkStale([w EXCEPT !.failed = x], new, top)
           /\ WorkStale([w EXCEPT !.st = x, !.todo = y], new, top)
           /\ WorkStale([w EXCEPT !.moved = x, !.rec = rec], new, top)
           /\ WorkStale([w EXCEPT !.rec = rec], new, top)
           /\ WorkStale([w EXCEPT !.st = "recording", !.rec = rec, !.moved = {}, !.failed = FALSE],
                        new, top)
<1>1. ASSUME NEW v, DOMAIN v = DOMAIN w, v.plan = w.plan, v.rec \in {w.rec, rec}
      PROVE  WorkStale(v, new, top)
  BY <1>1 DEF WorkStale
<1>2. WorkFields \subseteq DOMAIN w
  BY DEF WorkStale
<1> QED
  BY <1>1, <1>2

\* One value of a known map is replaced by another that is known.
LEMMA StaleReplaced ==
    ASSUME NEW f, NEW new, NEW top \in Nat, Stale(f, new, top), NEW t, NEW e,
           t \in Topics => e \in Nat /\ e <= top /\ e \notin new
    PROVE  Stale([f EXCEPT ![t] = e], new, top)
<1>1. f \in [Topics -> Nat] /\ (t \in Topics => e \in Nat)
  BY DEF Stale
<1>2. [f EXCEPT ![t] = e] \in [Topics -> Nat]
      /\ \A u \in Topics : [f EXCEPT ![t] = e][u] = IF u = t THEN e ELSE f[u]
  BY <1>1, Replaced
<1> HIDE DEF Stale
<1> QED
  BY <1>2 DEF Stale

\* A step of the call c: its files, and its own new record.
LEMMA StepKeeps ==
    ASSUME DreamInv, NEW c \in DreamCallers, NEW w, Do(c, w), FilesInv', fresh' = fresh,
           contents \in Nat, contents' \in {contents, contents + 1},
           WorkStale(w, fresh', contents'), UNCHANGED <<preview, reports>>
    PROVE  DreamInv'
<1>1. contents' \in Nat /\ contents <= contents'
  OBVIOUS
<1>2. work' = [work EXCEPT ![c] = w] /\ DOMAIN work = DreamCallers
  BY DEF Do, DreamInv, CallsStale
<1>3. /\ PlanStale(preview, fresh', contents')
      /\ \A d \in DreamCallers : WorkStale(work[d], fresh', contents')
      /\ \A p \in Plans : RecStale(reports[p], fresh', contents')
  BY <1>1, StaysStale
<1>4. DOMAIN work' = DreamCallers /\ \A d \in DreamCallers : WorkStale(work'[d], fresh', contents')
  BY <1>2, <1>3
<1> QED
  BY <1>3, <1>4 DEF DreamInv, CallsStale, ReportsStale

\* What is known of the call c.
LEMMA CallKnows ==
    ASSUME DreamInv, NEW c \in DreamCallers
    PROVE  /\ contents \in Nat /\ fresh \subseteq 1..contents
           /\ WorkStale(work[c], fresh, contents)
           /\ \A t \in Topics : /\ work[c].plan.snapshot[t] \in Nat
                                /\ work[c].plan.snapshot[t] <= contents
                                /\ work[c].plan.snapshot[t] \notin fresh
                                /\ work[c].rec.written[t] \notin fresh
                                /\ work[c].rec.before[t] \in Nat /\ work[c].rec.before[t] <= contents
                                /\ 0 \notin fresh
BY DEF DreamInv, FilesInv, CallsStale, WorkStale, PlanStale, RecStale, Stale

\* applyPlan's steps on files: a topic that was edited since the snapshot is skipped.
LEMMA RewriteKeeps ==
    ASSUME DreamInv, NEW c \in DreamCallers, NEW a, ApplyRewrite(c, a)
    PROVE  DreamInv'
<1> DEFINE w == work[c]  t == a.id  e == w.plan.snapshot[t]
           r == [w.rec EXCEPT !.before[t] = e, !.written[t] = contents + 1]
<1>r. fresh' = fresh /\ UNCHANGED <<preview, reports>>
  BY DEF ApplyRewrite, Rest
<1>k. /\ contents \in Nat /\ fresh \subseteq 1..contents /\ WorkStale(w, fresh, contents)
      /\ t \in Topics => e \in Nat /\ e <= contents /\ e \notin fresh
  BY CallKnows
<1>1. CASE Unchanged(t, e)
  <2>1. WriteTopic(t, w.plan.id) /\ Over(c, r)
    BY <1>1 DEF ApplyRewrite
  <2>2. t \in Topics => live[t] \notin fresh
    BY <1>1, <1>k DEF Unchanged
  <2>3. FilesInv' /\ contents' = contents + 1
    <3>1. FilesInv'
      BY <1>r, <2>1, <2>2, FilesKept
    <3>2. contents' = contents + 1
      BY <2>1 DEF WriteTopic
    <3> QED
      BY <3>1, <3>2
  <2>4. /\ RecStale(w.rec, fresh, contents + 1) /\ WorkStale(w, fresh, contents + 1)
        /\ contents + 1 \in Nat /\ contents + 1 \notin fresh
    <3>1. contents + 1 \in Nat /\ contents <= contents + 1 /\ contents + 1 \notin fresh
      BY <1>k
    <3>2. RecStale(w.rec, fresh, contents + 1)
      BY <1>k, <3>1, StaleStays DEF WorkStale, RecStale
    <3>3. PlanStale(w.plan, fresh, contents + 1)
      BY <1>k, <3>1, StaleStays DEF WorkStale, PlanStale
    <3>4. WorkFields \subseteq DOMAIN w
      BY <1>k DEF WorkStale
    <3> QED
      BY <3>1, <3>2, <3>3, <3>4 DEF WorkStale
  <2>5. RecStale(r, fresh, contents + 1)
    <3> DEFINE b == [w.rec.before EXCEPT ![t] = e]  n == [w.rec.written EXCEPT ![t] = contents + 1]
    <3>1. Stale(b, fresh, contents + 1)
      <4>1. Stale(w.rec.before, fresh, contents + 1)
        BY <2>4 DEF RecStale
      <4>2. t \in Topics => e \in Nat /\ e <= contents + 1 /\ e \notin fresh
        BY <1>k
      <4> HIDE DEF e, t
      <4> QED
        BY <4>1, <4>2, <2>4, StaleReplaced
    <3>2. Stale(n, fresh, contents + 1)
      <4>1. Stale(w.rec.written, fresh, contents + 1)
        BY <2>4 DEF RecStale
      <4>2. contents + 1 <= contents + 1
        BY <1>k
      <4> HIDE DEF e, t
      <4> QED
        BY <4>1, <4>2, <2>4, StaleReplaced
    <3>3. RecFields \subseteq DOMAIN w.rec
      BY <2>4 DEF RecStale
    <3>4. r = [w.rec EXCEPT !.before = b, !.written = n]
      BY <3>3
    <3> HIDE DEF b, n, r
    <3>5. DOMAIN r = DOMAIN w.rec /\ r.before = b /\ r.written = n
      BY <3>3, <3>4
    <3> QED
      BY <3>1, <3>2, <3>3, <3>5 DEF RecStale
  <2> HIDE DEF r
  <2>6. WorkStale([w EXCEPT !.st = "recording", !.rec = r, !.moved = {}, !.failed = FALSE],
                  fresh, contents + 1)
    BY <2>4, <2>5, WorkEdits
  <2> QED
    BY <1>k, <1>r, <2>1, <2>3, <2>6, StepKeeps DEF Over
<1>2. CASE ~Unchanged(t, e)
  <2>1. NoTopic /\ Over(c, w.rec)
    BY <1>2 DEF ApplyRewrite
  <2>2. contents' = contents /\ live' = live /\ archive' = archive
    BY <2>1 DEF NoTopic
  <2>3. FilesInv'
    BY <1>r, <2>2 DEF DreamInv, FilesInv, LaterEditWins
  <2>4. RecStale(w.rec, fresh, contents)
    BY <1>k DEF WorkStale
  <2>5. WorkStale([w EXCEPT !.st = "recording", !.rec = w.rec, !.moved = {}, !.failed = FALSE],
                  fresh, contents)
    BY <1>k, <2>4, WorkEdits
  <2> QED
    BY <1>k, <1>r, <2>1, <2>2, <2>3, <2>5, StepKeeps DEF Over
<1> QED
  BY <1>1, <1>2

\* A step that does nothing to the files, or moves a topic that holds no later edit.
LEMMA FileStepKeeps ==
    ASSUME DreamInv, NEW c \in DreamCallers, NEW w, Do(c, w), WorkStale(w, fresh, contents),
           NEW t, NEW p, t \in Topics => live[t] \notin fresh,
           \/ ArchiveTopic(t, p) \/ RestoreTopic(t, p) \/ NoTopic
           \/ \E e \in Nat : PutBack(t, e, p) /\ (t \in Topics => e <= contents),
           Rest
    PROVE  DreamInv'
<1>1. fresh' = fresh /\ UNCHANGED <<preview, reports>>
  BY DEF Rest
<1>2. FilesInv' /\ contents \in Nat
  BY <1>1, FilesKept
<1>3. contents' = contents
  BY DEF ArchiveTopic, RestoreTopic, NoTopic, PutBack
<1> QED
  BY <1>1, <1>2, <1>3, StepKeeps

\* A step that leaves the files alone.
LEMMA NoFileStepKeeps ==
    ASSUME DreamInv, NEW c \in DreamCallers, NEW w, Do(c, w), WorkStale(w, fresh, contents),
           NoTopic, Rest
    PROVE  DreamInv'
<1>1. fresh' = fresh /\ UNCHANGED <<preview, reports>> /\ contents' = contents
      /\ live' = live /\ archive' = archive
  BY DEF Rest, NoTopic
<1>2. FilesInv' /\ contents \in Nat
  BY <1>1 DEF DreamInv, FilesInv, LaterEditWins
<1> QED
  BY <1>1, <1>2, StepKeeps

\* An archive takes away what the model was shown, or nothing.
LEMMA ArchiveKeeps ==
    ASSUME DreamInv, NEW c \in DreamCallers, NEW a, ApplyArchive(c, a)
    PROVE  DreamInv'
<1> DEFINE w == work[c]  t == a.id
           r == [w.rec EXCEPT !.archived = @ \cup {t}]
           over(rec) == [w EXCEPT !.st = "recording", !.rec = rec, !.moved = {}, !.failed = FALSE]
<1>k. /\ WorkStale(w, fresh, contents) /\ RecStale(w.rec, fresh, contents)
      /\ t \in Topics => w.plan.snapshot[t] \notin fresh
  BY CallKnows DEF WorkStale
<1>1. RecStale(r, fresh, contents)
  BY <1>k, RecEdits
<1> HIDE DEF r
<1>2. WorkStale(over(r), fresh, contents) /\ WorkStale(over(w.rec), fresh, contents)
  BY <1>k, <1>1, WorkEdits
<1>3. \/ Unchanged(t, w.plan.snapshot[t]) /\ ArchiveTopic(t, w.plan.id) /\ Do(c, over(r)) /\ Rest
      \/ NoTopic /\ Do(c, over(w.rec)) /\ Rest
  BY DEF ApplyArchive, Over, r
<1>4. Unchanged(t, w.plan.snapshot[t]) => (t \in Topics => live[t] \notin fresh)
  BY <1>k DEF Unchanged
<1> HIDE DEF over, w, t
<1> QED
  BY <1>2, <1>3, <1>4, FileStepKeeps, NoFileStepKeeps

\* So does a merge, source by source.
LEMMA SourceKeeps ==
    ASSUME DreamInv, NEW c \in DreamCallers, NEW a, NEW t \in Topics, MergeSource(c, a, t)
    PROVE  DreamInv'
<1> DEFINE w == work[c]  m == [w EXCEPT !.moved = @ \cup {t}]  f == [w EXCEPT !.failed = TRUE]
<1>k. WorkStale(w, fresh, contents) /\ RecStale(w.rec, fresh, contents) /\ w.plan.snapshot[t] \notin fresh
  BY CallKnows DEF WorkStale
<1>1. WorkStale(m, fresh, contents) /\ WorkStale(f, fresh, contents)
  BY <1>k, WorkEdits
<1>2. \/ Unchanged(t, w.plan.snapshot[t]) /\ ArchiveTopic(t, w.plan.id) /\ Do(c, m) /\ Rest
      \/ NoTopic /\ Do(c, f) /\ Rest
  BY DEF MergeSource
<1>3. Unchanged(t, w.plan.snapshot[t]) => live[t] \notin fresh
  BY <1>k DEF Unchanged
<1> HIDE DEF m, f, w
<1> QED
  BY <1>1, <1>2, <1>3, FileStepKeeps, NoFileStepKeeps

\* A merge that failed puts a source back where no topic is.
LEMMA RollbackKeeps ==
    ASSUME DreamInv, NEW c \in DreamCallers, MergeRollback(c)
    PROVE  DreamInv'
<1> DEFINE w == work[c]
           over == [w EXCEPT !.st = "recording", !.rec = w.rec, !.moved = {}, !.failed = FALSE]
<1>k. /\ WorkStale(w, fresh, contents) /\ RecStale(w.rec, fresh, contents)
      /\ fresh \subseteq 1..contents /\ contents \in Nat
  BY CallKnows DEF WorkStale
<1>1. ASSUME NEW t \in w.moved, Restorable(t), RestoreTopic(t, w.plan.id),
             Do(c, [w EXCEPT !.moved = @ \ {t}]), Rest
      PROVE  DreamInv'
  <2>1. WorkStale([w EXCEPT !.moved = @ \ {t}], fresh, contents)
    BY <1>k, WorkEdits
  <2>2. live[t] \notin fresh
    BY <1>1, <1>k DEF Restorable
  <2> QED
    BY <1>1, <2>1, <2>2, FileStepKeeps
<1>2. ASSUME NEW t \in w.moved, NoTopic,
             Do(c, [w EXCEPT !.moved = @ \ {t}, !.rec.stranded = @ \cup {t}]), Rest
      PROVE  DreamInv'
  <2> DEFINE r == [w.rec EXCEPT !.stranded = @ \cup {t}]
             v == [w EXCEPT !.moved = @ \ {t}, !.rec.stranded = @ \cup {t}]
  <2>1. RecStale(r, fresh, contents)
    BY <1>k, RecEdits
  <2>2. v = [w EXCEPT !.moved = @ \ {t}, !.rec = r]
    OBVIOUS
  <2> HIDE DEF r
  <2>3. WorkStale(v, fresh, contents)
    BY <1>k, <2>1, <2>2, WorkEdits
  <2> HIDE DEF v
  <2>4. Do(c, v)
    BY <1>2 DEF v
  <2> QED
    BY <1>2, <2>3, <2>4, NoFileStepKeeps
<1>3. ASSUME NoTopic, Over(c, w.rec), Rest
      PROVE  DreamInv'
  <2>1. WorkStale(over, fresh, contents) /\ Do(c, over)
    BY <1>k, <1>3, WorkEdits DEF Over
  <2> HIDE DEF over
  <2> QED
    BY <1>3, <2>1, NoFileStepKeeps
<1> QED
  BY <1>1, <1>2, <1>3 DEF MergeRollback

\* A merge writes where no topic is.
LEMMA TargetKeeps ==
    ASSUME DreamInv, NEW c \in DreamCallers, NEW a, MergeTarget(c, a)
    PROVE  DreamInv'
<1> DEFINE w == work[c]  t == a.id  r == Merged(w.rec, w.moved, t)
<1>k. /\ contents \in Nat /\ fresh \subseteq 1..contents /\ WorkStale(w, fresh, contents)
      /\ RecStale(w.rec, fresh, contents)
  BY CallKnows DEF WorkStale
<1>1. ASSUME live[t] = 0, WriteTopic(t, w.plan.id), Over(c, r), Rest
      PROVE  DreamInv'
  <2>1. fresh' = fresh /\ UNCHANGED <<preview, reports>> /\ contents' = contents + 1
    BY <1>1 DEF Rest, WriteTopic
  <2>2. live[t] \notin fresh
    BY <1>1, <1>k
  <2>3. FilesInv'
    BY <1>1, <2>1, <2>2, FilesKept
  <2>4. contents + 1 \in Nat /\ contents <= contents + 1 /\ contents + 1 \notin fresh
        /\ contents + 1 <= contents + 1
    BY <1>k
  <2>5. RecStale(w.rec, fresh, contents + 1) /\ WorkStale(w, fresh, contents + 1)
    BY <1>k, <2>4, StaleStays DEF WorkStale, RecStale, PlanStale
  <2>6. RecStale(r, fresh, contents + 1)
    <3> DEFINE n == [w.rec.written EXCEPT ![t] = contents + 1]
    <3>1. Stale(w.rec.written, fresh, contents + 1) /\ Stale(w.rec.before, fresh, contents + 1)
      BY <2>5 DEF RecStale
    <3>2. Stale(n, fresh, contents + 1)
      <4> HIDE DEF t
      <4> QED
        BY <3>1, <2>4, StaleReplaced
    <3>3. RecFields \subseteq DOMAIN w.rec
      BY <2>5 DEF RecStale
    <3>4. r = [w.rec EXCEPT !.created = @ \cup {t}, !.written = n, !.archived = @ \cup w.moved]
      BY <3>3 DEF Merged
    <3> HIDE DEF n, r
    <3>5. DOMAIN r = DOMAIN w.rec /\ r.before = w.rec.before /\ r.written = n
      BY <3>3, <3>4
    <3> QED
      BY <3>1, <3>2, <3>3, <3>5 DEF RecStale
  <2> HIDE DEF r
  <2>7. WorkStale([w EXCEPT !.st = "recording", !.rec = r, !.moved = {}, !.failed = FALSE],
                  fresh, contents + 1)
    BY <2>5, <2>6, WorkEdits
  <2> QED
    BY <1>k, <1>1, <2>1, <2>3, <2>7, StepKeeps DEF Over
<1>2. ASSUME NoTopic, Do(c, [w EXCEPT !.failed = TRUE]), Rest
      PROVE  DreamInv'
  <2>1. WorkStale([w EXCEPT !.failed = TRUE], fresh, contents)
    BY <1>k, WorkEdits
  <2> QED
    BY <1>2, <2>1, NoFileStepKeeps
<1> QED
  BY <1>1, <1>2 DEF MergeTarget

\* Steps on the preview, the reports and the calls only.
LEMMA PaperKeeps ==
    ASSUME DreamInv, UNCHANGED <<live, archive, contents, fresh>>,
           PlanStale(preview', fresh, contents),
           DOMAIN work' = DreamCallers, \A c \in DreamCallers : WorkStale(work'[c], fresh, contents),
           DOMAIN reports' = Plans, \A p \in Plans : RecStale(reports'[p], fresh, contents)
    PROVE  DreamInv'
<1>1. FilesInv'
  BY DEF DreamInv, FilesInv, LaterEditWins
<1> QED
  BY <1>1 DEF DreamInv, CallsStale, ReportsStale

\* What the parts of the invariant say, with one call or report replaced.
LEMMA PaperKnows ==
    ASSUME DreamInv
    PROVE  /\ contents \in Nat /\ fresh \subseteq 1..contents /\ PlanStale(preview, fresh, contents)
           /\ DOMAIN work = DreamCallers /\ \A c \in DreamCallers : WorkStale(work[c], fresh, contents)
           /\ DOMAIN reports = Plans /\ \A p \in Plans : RecStale(reports[p], fresh, contents)
           /\ PlanStale(NoPlan, fresh, contents) /\ RecStale(NoReport, fresh, contents)
           /\ WorkStale(NoWork, fresh, contents)
           /\ \A w : WorkStale(w, fresh, contents) => \A c \in DreamCallers : Do(c, w) =>
                 DOMAIN work' = DreamCallers /\ \A d \in DreamCallers : WorkStale(work'[d], fresh, contents)
           /\ \A r : RecStale(r, fresh, contents) => \A p : reports' = [reports EXCEPT ![p] = r] =>
                 DOMAIN reports' = Plans /\ \A q \in Plans : RecStale(reports'[q], fresh, contents)
<1>1. /\ contents \in Nat /\ fresh \subseteq 1..contents /\ PlanStale(preview, fresh, contents)
      /\ DOMAIN work = DreamCallers /\ \A c \in DreamCallers : WorkStale(work[c], fresh, contents)
      /\ DOMAIN reports = Plans /\ \A p \in Plans : RecStale(reports[p], fresh, contents)
  BY DEF DreamInv, FilesInv, CallsStale, ReportsStale
<1>2. /\ PlanStale(NoPlan, fresh, contents) /\ RecStale(NoReport, fresh, contents)
      /\ WorkStale(NoWork, fresh, contents)
  BY <1>1, NothingStale
<1>3. ASSUME NEW w, WorkStale(w, fresh, contents), NEW c \in DreamCallers, Do(c, w)
      PROVE  DOMAIN work' = DreamCallers /\ \A d \in DreamCallers : WorkStale(work'[d], fresh, contents)
  BY <1>1, <1>3 DEF Do
<1>4. ASSUME NEW r, RecStale(r, fresh, contents), NEW p, reports' = [reports EXCEPT ![p] = r]
      PROVE  DOMAIN reports' = Plans /\ \A q \in Plans : RecStale(reports'[q], fresh, contents)
  BY <1>1, <1>4
<1> QED
  BY <1>1, <1>2, <1>3, <1>4

\* The record of an action is saved as the report, and at last the report is closed.
LEMMA CheckpointKeeps ==
    ASSUME DreamInv, NEW c \in DreamCallers, Checkpoint(c) \/ ApplyEnds(c)
    PROVE  DreamInv'
<1> DEFINE w == work[c]
<1>k. WorkStale(w, fresh, contents) /\ RecStale(w.rec, fresh, contents)
  BY CallKnows DEF WorkStale
<1>1. CASE Checkpoint(c)
  <2> DEFINE v == [w EXCEPT !.st = "applying", !.todo = @ \ Foremost(w.plan.actions, @)]
  <2>1. /\ UNCHANGED <<live, archive, contents, fresh, preview>>
        /\ reports' = [reports EXCEPT ![w.plan.id] = w.rec] /\ Do(c, v)
    BY <1>1 DEF Checkpoint, counters, ghosts
  <2>2. WorkStale(v, fresh, contents)
    BY <1>k, WorkEdits
  <2> HIDE DEF v, w
  <2> QED
    BY <1>k, <2>1, <2>2, PaperKnows, PaperKeeps
<1>2. CASE ApplyEnds(c)
  <2> DEFINE r == [w.rec EXCEPT !.st = "applied"]
  <2>1. /\ UNCHANGED <<live, archive, contents, fresh>> /\ preview' \in {NoPlan, preview}
        /\ reports' = [reports EXCEPT ![w.plan.id] = r] /\ Do(c, NoWork)
    BY <1>2 DEF ApplyEnds, counters, ghosts
  <2>2. RecStale(r, fresh, contents)
    BY <1>k, RecEdits
  <2> HIDE DEF r, w
  <2> QED
    BY <2>1, <2>2, PaperKnows, PaperKeeps
<1> QED
  BY <1>1, <1>2

\* A report is undone from what it says.
LEMMA UndoKeeps ==
    ASSUME DreamInv, (\E p \in Plans : Undo(p)) \/ UndoStep \/ UndoEnds
    PROVE  DreamInv'
<1> DEFINE w == work["user"]
<1>u. "user" \in DreamCallers
  BY DEF DreamCallers
<1>k. /\ WorkStale(w, fresh, contents) /\ RecStale(w.rec, fresh, contents) /\ contents \in Nat
      /\ fresh \subseteq 1..contents /\ WorkFields \subseteq DOMAIN w
      /\ RecFields \subseteq DOMAIN w.rec
  BY <1>u, CallKnows DEF WorkStale, RecStale
<1>1. ASSUME NEW p \in Plans, Undo(p) PROVE DreamInv'
  <2> DEFINE v == [NoWork EXCEPT !.st = "undoing", !.plan.id = p, !.rec = reports[p]]
             r == [reports[p] EXCEPT !.st = "undone"]
  <2>1. /\ UNCHANGED <<live, archive, contents, fresh, preview>> /\ Do("user", v)
        /\ reports' = [reports EXCEPT ![p] = r]
    BY <1>1 DEF Undo, counters, ghosts
  <2>2. RecStale(reports[p], fresh, contents) /\ WorkStale(NoWork, fresh, contents)
    BY PaperKnows
  <2>3. RecStale(r, fresh, contents)
    BY <2>2, RecEdits
  <2>4. WorkStale(v, fresh, contents)
    <3> HIDE DEF NoWork
    <3>1. WorkFields \subseteq DOMAIN NoWork /\ PlanFields \subseteq DOMAIN NoWork.plan
      BY <2>2 DEF WorkStale, PlanStale
    <3>2. DOMAIN v = DOMAIN NoWork /\ v.rec = reports[p] /\ v.plan = [NoWork.plan EXCEPT !.id = p]
      BY <3>1
    <3> HIDE DEF v
    <3>3. DOMAIN v.plan = DOMAIN NoWork.plan /\ v.plan.snapshot = NoWork.plan.snapshot
      BY <3>1, <3>2
    <3> QED
      BY <2>2, <3>1, <3>2, <3>3 DEF WorkStale, PlanStale
  <2> HIDE DEF r, v
  <2> QED
    BY <1>u, <2>1, <2>3, <2>4, PaperKnows, PaperKeeps
<1>2. CASE UndoStep
  <2>1. ASSUME NEW t \in w.rec.created, Rest,
               IF Unchanged(t, w.rec.written[t]) THEN ArchiveTopic(t, w.plan.id) ELSE NoTopic,
               Do("user", [w EXCEPT !.rec.created = @ \ {t}])
        PROVE  DreamInv'
    <3> DEFINE r == [w.rec EXCEPT !.created = @ \ {t}]  v == [w EXCEPT !.rec.created = @ \ {t}]
    <3>1. RecStale(r, fresh, contents)
      BY <1>k, RecEdits
    <3>2. v = [w EXCEPT !.rec = r]
      BY <1>k
    <3> HIDE DEF r
    <3>3. WorkStale(v, fresh, contents)
      BY <1>k, <3>1, <3>2, WorkEdits
    <3> HIDE DEF v
    <3>4. Do("user", v)
      BY <2>1 DEF v
    <3>5. Unchanged(t, w.rec.written[t]) => (t \in Topics => live[t] \notin fresh)
      BY <1>u, CallKnows DEF Unchanged
    <3> QED
      BY <1>u, <2>1, <3>3, <3>4, <3>5, FileStepKeeps, NoFileStepKeeps
  <2>2. ASSUME NEW t \in w.rec.archived \cup w.rec.stranded, Rest,
               IF Restorable(t) THEN RestoreTopic(t, w.plan.id) ELSE NoTopic,
               Do("user", [w EXCEPT !.rec.archived = @ \ {t}, !.rec.stranded = @ \ {t}])
        PROVE  DreamInv'
    <3> DEFINE a == w.rec.archived \ {t}  s == w.rec.stranded \ {t}
               r == [w.rec EXCEPT !.archived = a, !.stranded = s]
               v == [w EXCEPT !.rec.archived = @ \ {t}, !.rec.stranded = @ \ {t}]
    <3>1. RecStale(r, fresh, contents)
      BY <1>k, RecEdits
    <3>2. DOMAIN v = DOMAIN w /\ v.plan = w.plan /\ DOMAIN v.rec = DOMAIN w.rec
          /\ v.rec.before = w.rec.before /\ v.rec.written = w.rec.written
      BY <1>k
    <3>3. WorkStale(v, fresh, contents)
      <4> HIDE DEF v
      <4> QED
        BY <1>k, <3>2 DEF WorkStale, RecStale
    <3> HIDE DEF v
    <3>4. Do("user", v)
      BY <2>2 DEF v
    <3>5. Restorable(t) => live[t] \notin fresh
      BY <1>k DEF Restorable
    <3> QED
      BY <1>u, <2>2, <3>3, <3>4, <3>5, FileStepKeeps, NoFileStepKeeps
  <2>3. ASSUME NEW t \in Present(w.rec.before), Rest,
               IF Unchanged(t, w.rec.written[t]) THEN PutBack(t, w.rec.before[t], w.plan.id) ELSE NoTopic,
               Do("user", [w EXCEPT !.rec.before[t] = 0])
        PROVE  DreamInv'
    <3> DEFINE v == [w EXCEPT !.rec.before[t] = 0]  b == [w.rec.before EXCEPT ![t] = 0]
    <3>0. t \in Topics
      BY DEF Present
    <3>1. Stale(b, fresh, contents)
      <4>1. Stale(w.rec.before, fresh, contents) /\ 0 \notin fresh /\ 0 <= contents
        BY <1>k DEF RecStale
      <4> QED
        BY <4>1, <1>k, StaleReplaced
    <3>2. DOMAIN v = DOMAIN w /\ v.plan = w.plan /\ DOMAIN v.rec = DOMAIN w.rec
          /\ v.rec.before = b /\ v.rec.written = w.rec.written
      BY <1>k
    <3> HIDE DEF v, b
    <3>3. WorkStale(v, fresh, contents)
      BY <1>k, <3>1, <3>2 DEF WorkStale, RecStale
    <3>4. Do("user", v)
      BY <2>3 DEF v
    <3>5. /\ Unchanged(t, w.rec.written[t]) => live[t] \notin fresh
          /\ w.rec.before[t] \in Nat /\ w.rec.before[t] <= contents
      BY <1>u, <3>0, CallKnows DEF Unchanged
    <3> QED
      BY <1>u, <2>3, <3>3, <3>4, <3>5, FileStepKeeps, NoFileStepKeeps
  <2> QED
    BY <1>2, <2>1, <2>2, <2>3 DEF UndoStep
<1>3. CASE UndoEnds
  <2>1. UNCHANGED <<live, archive, contents, fresh, preview, reports>> /\ Do("user", NoWork)
    BY <1>3 DEF UndoEnds, counters
  <2> QED
    BY <1>u, <2>1, PaperKnows, PaperKeeps
<1> QED
  BY <1>1, <1>2, <1>3

\* Others edit topics: what they replace is theirs to replace.
LEMMA OthersKeep ==
    ASSUME DreamInv, NEW t \in Topics, OtherWrites(t) \/ OtherDeletes(t) \/ OtherRestores(t)
    PROVE  DreamInv'
<1>k. /\ contents \in Nat /\ fresh \subseteq 1..contents
      /\ live \in [Topics -> 0..contents] /\ archive \in [Topics -> 0..contents]
  BY DEF DreamInv, FilesInv
<1>e. \A e \in fresh : e # live[t] => \E u \in Topics : u # t /\ live[u] = e
  BY DEF DreamInv, FilesInv, LaterEditWins
<1>1. CASE OtherWrites(t)
  <2>1. /\ live' = [live EXCEPT ![t] = contents + 1] /\ archive' = archive /\ contents' = contents + 1
        /\ fresh' = (fresh \ {live[t]}) \cup {contents + 1} /\ UNCHANGED <<preview, reports, work>>
    BY <1>1 DEF OtherWrites, WriteTopic
  <2>2. /\ live \in [Topics -> 0..contents + 1] /\ archive' \in [Topics -> 0..contents + 1]
        /\ contents + 1 \in 0..contents + 1 /\ contents + 1 \in Nat
    BY <1>k, <2>1
  <2>3. live' \in [Topics -> 0..contents + 1]
        /\ \A u \in Topics : live'[u] = IF u = t THEN contents + 1 ELSE live[u]
    BY <2>1, <2>2, Replaced
  <2>4. fresh' \subseteq 1..contents + 1
    <3>1. \A e \in fresh : e \in 1..contents + 1
      BY <1>k
    <3>2. contents + 1 \in 1..contents + 1
      BY <1>k
    <3> QED
      BY <2>1, <3>1, <3>2
  <2>5. fresh' \subseteq {live'[u] : u \in Topics}
    BY <1>e, <2>1, <2>3
  <2>6. FilesInv'
    BY <2>1, <2>2, <2>3, <2>4, <2>5 DEF FilesInv, LaterEditWins
  <2>7. \A f : Stale(f, fresh, contents) => Stale(f, fresh', contents')
    BY <1>k, <2>1, StaleWithEdit
  <2> QED
    BY <2>1, <2>6, <2>7 DEF DreamInv, CallsStale, ReportsStale, WorkStale, PlanStale, RecStale
<1>2. CASE OtherDeletes(t)
  <2>1. /\ live' = [live EXCEPT ![t] = 0] /\ archive' = archive /\ contents' = contents
        /\ fresh' = fresh \ {live[t]} /\ UNCHANGED <<preview, reports, work>>
    BY <1>2 DEF OtherDeletes
  <2>2. 0 \in 0..contents
    BY <1>k
  <2>3. live' \in [Topics -> 0..contents] /\ \A u \in Topics : live'[u] = IF u = t THEN 0 ELSE live[u]
    BY <1>k, <2>1, <2>2, Replaced
  <2>5. fresh' \subseteq {live'[u] : u \in Topics}
    BY <1>e, <2>1, <2>3
  <2>6. FilesInv'
    BY <1>k, <2>1, <2>3, <2>5 DEF FilesInv, LaterEditWins
  <2>7. \A f : Stale(f, fresh, contents) => Stale(f, fresh', contents')
    BY <1>k, <2>1, StaleWithEdit
  <2> QED
    BY <2>1, <2>6, <2>7 DEF DreamInv, CallsStale, ReportsStale, WorkStale, PlanStale, RecStale
<1>3. CASE OtherRestores(t)
  <2>1. RestoreTopic(t, 0) /\ Restorable(t) /\ fresh' = fresh /\ UNCHANGED <<preview, reports, work>>
    BY <1>3 DEF OtherRestores
  <2>2. live[t] \notin fresh
    BY <1>k, <2>1 DEF Restorable
  <2>3. FilesInv'
    BY <2>1, <2>2, FilesKept
  <2>4. contents' = contents
    BY <2>1 DEF RestoreTopic
  <2> QED
    BY <2>1, <2>3, <2>4 DEF DreamInv, CallsStale, ReportsStale
<1> QED
  BY <1>1, <1>2, <1>3

\* The topics are shown to the model: from now on edits are later ones.
LEMMA StartKeeps ==
    ASSUME DreamInv, NEW c \in DreamCallers, StartDream(c)
    PROVE  DreamInv'
<1> DEFINE pl == [id |-> plans + 1, actions |-> <<>>, snapshot |-> live]
           w == [NoWork EXCEPT !.st = "planning", !.plan = pl]
<1>1. /\ UNCHANGED <<live, archive, contents, preview, reports>> /\ fresh' = {} /\ Do(c, w)
  BY DEF StartDream
<1>2. FilesInv' /\ contents \in Nat /\ live \in [Topics -> 0..contents]
  BY <1>1 DEF DreamInv, FilesInv, LaterEditWins
<1>3. \A f : Stale(f, fresh, contents) => Stale(f, {}, contents)
  BY DEF Stale
<1>4. /\ PlanStale(preview, {}, contents)
      /\ \A d \in DreamCallers : WorkStale(work[d], {}, contents)
      /\ \A p \in Plans : RecStale(reports[p], {}, contents)
  BY <1>3 DEF DreamInv, CallsStale, ReportsStale, WorkStale, PlanStale, RecStale
<1>5. WorkStale(w, {}, contents)
  <2>1. Stale(live, {}, contents)
    BY <1>2 DEF Stale
  <2>2. PlanStale(pl, {}, contents)
    BY <2>1 DEF PlanStale
  <2>3. WorkStale(NoWork, {}, contents)
    BY <1>2, NothingStale
  <2> HIDE DEF pl, NoWork
  <2>4. WorkFields \subseteq DOMAIN NoWork
    BY <2>3 DEF WorkStale
  <2>5. DOMAIN w = DOMAIN NoWork /\ w.plan = pl /\ w.rec = NoWork.rec
    BY <2>4
  <2> QED
    BY <2>2, <2>3, <2>5 DEF WorkStale
<1> HIDE DEF w
<1>6. DOMAIN work = DreamCallers /\ DOMAIN reports = Plans
  BY DEF DreamInv, CallsStale, ReportsStale
<1>7. DOMAIN work' = DreamCallers /\ \A d \in DreamCallers : WorkStale(work'[d], {}, contents)
  BY <1>1, <1>4, <1>5, <1>6 DEF Do
<1> QED
  BY <1>1, <1>2, <1>4, <1>6, <1>7 DEF DreamInv, CallsStale, ReportsStale

\* applyPlan begins with an empty report.
LEMMA BeginKeeps ==
    ASSUME DreamInv, NEW c \in DreamCallers, NEW plan, NEW b, PlanStale(plan, fresh, contents),
           BeginApply(c, plan, b), UNCHANGED <<live, archive, contents, fresh, preview>>
    PROVE  DreamInv'
<1> DEFINE w == [NoWork EXCEPT !.st = "applying", !.plan = plan, !.reviewed = b,
                               !.todo = DOMAIN plan.actions, !.rec.st = "applying"]
           r == [NoReport EXCEPT !.st = "applying"]
<1>1. Do(c, w) /\ reports' = [reports EXCEPT ![plan.id] = r]
  BY DEF BeginApply
<1>2. RecStale(NoReport, fresh, contents) /\ WorkStale(NoWork, fresh, contents)
  BY PaperKnows
<1>3. RecStale(r, fresh, contents)
  BY <1>2, RecEdits
<1>4. WorkStale(w, fresh, contents)
  <2> HIDE DEF NoWork, NoReport, r
  <2>1. WorkFields \subseteq DOMAIN NoWork /\ RecFields \subseteq DOMAIN NoWork.rec
    BY <1>2 DEF WorkStale, RecStale
  <2>2. DOMAIN w = DOMAIN NoWork /\ w.plan = plan /\ w.rec = [NoWork.rec EXCEPT !.st = "applying"]
    BY <2>1
  <2>3. RecStale([NoWork.rec EXCEPT !.st = "applying"], fresh, contents)
    BY <1>2, RecEdits DEF WorkStale
  <2> HIDE DEF w
  <2> QED
    BY <2>1, <2>2, <2>3 DEF WorkStale
<1> HIDE DEF w, r
<1> QED
  BY <1>1, <1>3, <1>4, PaperKnows, PaperKeeps

\* The model's answer is checked and kept or applied.
LEMMA AnswerKeeps ==
    ASSUME DreamInv, NEW c \in DreamCallers, NEW reply, Answered(c, reply)
    PROVE  DreamInv'
<1> DEFINE known == Present(work[c].plan.snapshot)
           actions == Capped(reply, Cardinality(known))
           plan == [work[c].plan EXCEPT !.actions = actions]
<1>1. UNCHANGED <<live, archive, contents, fresh>>
  BY DEF Answered, counters
<1>2. \/ Do(c, NoWork) /\ UNCHANGED <<preview, reports>>
      \/ Do(c, NoWork) /\ preview' = plan /\ UNCHANGED reports
      \/ BeginApply(c, plan, FALSE) /\ UNCHANGED preview
  BY DEF Answered
<1> HIDE DEF actions
<1>3. PlanStale(plan, fresh, contents)
  <2>1. PlanStale(work[c].plan, fresh, contents)
    BY PaperKnows DEF WorkStale
  <2>2. PlanFields \subseteq DOMAIN work[c].plan
    BY <2>1 DEF PlanStale
  <2>3. DOMAIN plan = DOMAIN work[c].plan /\ plan.snapshot = work[c].plan.snapshot
    BY <2>2
  <2> HIDE DEF plan
  <2> QED
    BY <2>1, <2>3 DEF PlanStale
<1> HIDE DEF plan
<1>4. CASE Do(c, NoWork) /\ UNCHANGED <<preview, reports>>
  BY <1>1, <1>4, PaperKnows, PaperKeeps
<1>5. CASE Do(c, NoWork) /\ preview' = plan /\ UNCHANGED reports
  BY <1>1, <1>3, <1>5, PaperKnows, PaperKeeps
<1>6. CASE BeginApply(c, plan, FALSE) /\ UNCHANGED preview
  BY <1>1, <1>3, <1>6, BeginKeeps
<1> QED
  BY <1>2, <1>4, <1>5, <1>6

\* The user applies or discards the preview, the daemon dies, or nothing happens.
LEMMA OtherDreamStepsKeep ==
    ASSUME DreamInv, ApplyPreview \/ DiscardPreview \/ DreamCrash \/ UNCHANGED dreamVars
    PROVE  DreamInv'
<1>1. CASE ApplyPreview
  <2>1. /\ BeginApply("user", preview, TRUE) /\ "user" \in DreamCallers
        /\ UNCHANGED <<live, archive, contents, fresh, preview>>
    BY <1>1 DEF ApplyPreview, counters, DreamCallers
  <2>2. PlanStale(preview, fresh, contents)
    BY DEF DreamInv
  <2> QED
    BY <2>1, <2>2, BeginKeeps
<1>2. CASE DiscardPreview
  <2>1. UNCHANGED <<live, archive, contents, fresh, work, reports>> /\ preview' = NoPlan
    BY <1>2 DEF DiscardPreview, counters, ghosts
  <2> QED
    BY <2>1, PaperKnows, PaperKeeps
<1>3. CASE DreamCrash
  <2>1. /\ UNCHANGED <<live, archive, contents, fresh, preview, reports>>
        /\ work' = [c \in DreamCallers |-> NoWork]
    BY <1>3 DEF DreamCrash
  <2>2. DOMAIN work' = DreamCallers /\ \A c \in DreamCallers : work'[c] = NoWork
    BY <2>1
  <2> QED
    BY <2>1, <2>2, PaperKnows, PaperKeeps
<1>4. CASE UNCHANGED dreamVars
  <2>1. UNCHANGED <<live, archive, contents, fresh, preview, reports, work>>
    BY <1>4 DEF dreamVars, counters, ghosts
  <2> QED
    BY <2>1, PaperKnows, PaperKeeps
<1> QED
  BY <1>1, <1>2, <1>3, <1>4

----------------------------------------------------------------------------
(* Undo.  What a plan's record says of a topic nobody else changed since:    *)
(* it was created and can be archived, it was archived and can be restored,  *)
(* it was rewritten and can be put back, or it is as it was.                 *)

Made(rec, t) == t \in rec.created
Gone(rec, moved, t) == t \in rec.archived \cup moved
Changed(rec, t) == rec.before[t] # 0

Restores(rec, moved, t, was, is, kept) ==
    /\ t \notin rec.stranded /\ t \notin rec.archived \cap moved
    /\ Made(rec, t) => /\ ~Gone(rec, moved, t) /\ ~Changed(rec, t)
                       /\ was = 0 /\ is # 0 /\ is = rec.written[t]
    /\ Gone(rec, moved, t) => ~Changed(rec, t) /\ was # 0 /\ is = 0 /\ kept = was
    /\ Changed(rec, t) => is # 0 /\ is = rec.written[t] /\ rec.before[t] = was
    /\ ~Made(rec, t) /\ ~Gone(rec, moved, t) /\ ~Changed(rec, t) => is = was

Undoable(rec, moved, out, was, is, kept) ==
    \A t \in Topics \ out : Restores(rec, moved, t, was[t], is[t], kept[t])

Applies(w) == w.st \in {"applying", "recording"}
Undoes(w) == w.st = "undoing"
Busy(w) == Applies(w) \/ Undoes(w)

\* A merge does not write where the model saw a topic.
NewTargets(plan) ==
    \A i \in DOMAIN plan.actions :
        plan.actions[i].kind = "merge" => plan.actions[i].id \notin Present(plan.snapshot)

\* What a call has done to a topic is not what the model was shown.
Advanced(w) ==
    \A t \in Topics : /\ Gone(w.rec, w.moved, t) => w.plan.snapshot[t] # 0
                      /\ Made(w.rec, t) \/ Changed(w.rec, t) => w.rec.written[t] # w.plan.snapshot[t]

\* A call that applies a plan, and one that undoes one.  Sources are away without a
\* record only while the merge that moved them is at work.
CallOK(w) ==
    /\ Applies(w) =>
        /\ NewTargets(w.plan) /\ Advanced(w) /\ w.rec.st = "applying"
        /\ w.todo \subseteq DOMAIN w.plan.actions
        /\ w.moved # {} => w.st = "applying" /\ \E a \in Current(w) : a.kind = "merge"
    /\ Undoes(w) => w.moved = {} /\ w.plan.id \in Plans

BusyInv ==
    \A c \in DreamCallers : Busy(work[c]) =>
        /\ CallOK(work[c]) /\ (Undoes(work[c]) => c = "user")
        /\ work[c].plan.id \in Plans =>
              reports[work[c].plan.id].st = IF Undoes(work[c]) THEN "undone" ELSE "applying"
        /\ work[c].plan.id \in Plans \ cut =>
              Undoable(work[c].rec, work[c].moved, touched[work[c].plan.id], base[work[c].plan.id],
                       live, archive)

\* The reports of plans that no crash interrupted.
ReportInv ==
    \A p \in Plans \ cut :
        /\ reports[p].st = "applied" => Undoable(reports[p], {}, touched[p], base[p], live, archive)
        /\ reports[p].st = "applying" =>
              \E c \in DreamCallers : Applies(work[c]) /\ work[c].plan.id = p

OneTask == \A c, d \in DreamCallers : Busy(work[c]) /\ Busy(work[d]) => c = d

UndoInv ==
    /\ DOMAIN base = Plans /\ DOMAIN touched = Plans
    /\ OneTask /\ NewTargets(preview) /\ BusyInv /\ ReportInv

\* What two records say of a topic is the same.
Alike(r, m, s, n, u) ==
    /\ u \in s.created <=> u \in r.created
    /\ Gone(s, n, u) <=> Gone(r, m, u)
    /\ u \in s.archived \cap n => u \in r.archived \cap m
    /\ u \in s.stranded <=> u \in r.stranded
    /\ s.before[u] = r.before[u] /\ s.written[u] = r.written[u]

\* A topic that is as the model was shown is as it was before the plan.
LEMMA AsShown ==
    ASSUME NEW w, NEW t \in Topics, NEW out, NEW was, NEW is, NEW kept, t \notin out,
           Undoable(w.rec, w.moved, out, was, is, kept), Advanced(w),
           is[t] # 0, is[t] = w.plan.snapshot[t]
    PROVE  /\ ~Made(w.rec, t) /\ ~Gone(w.rec, w.moved, t) /\ ~Changed(w.rec, t)
           /\ is[t] = was[t] /\ t \notin w.rec.stranded
BY DEF Undoable, Restores, Advanced

\* The action a loop is at is a merge, or it is not.
LEMMA OneKind ==
    ASSUME NEW w, NEW a \in Current(w), NEW b \in Current(w), a.kind = "merge",
           b.kind \in {"rewrite", "archive"}
    PROVE  FALSE
<1>1. PICK i \in Foremost(w.plan.actions, w.todo) : a = w.plan.actions[i]
  BY DEF Current
<1>2. PICK j \in Foremost(w.plan.actions, w.todo) : b = w.plan.actions[j]
  BY DEF Current
<1>3. i # j
  BY <1>1, <1>2
<1>4. Order(a) = 0 /\ Order(b) \in {1, 2}
  BY DEF Order
<1>5. Order(b) < Order(a) \/ Order(b) = Order(a)
  BY <1>1, <1>2, <1>3 DEF Foremost
<1> QED
  BY <1>4, <1>5

\* A step of plan p changes one topic, and the topic counts as touched for the others.
Changes(t, p) ==
    /\ \A u \in Topics : u # t => live'[u] = live[u] /\ archive'[u] = archive[u]
    /\ Touch(t, p)

\* The operations of the store are such steps.
LEMMA FileOps ==
    ASSUME DreamInv, NEW t, NEW p, NEW e,
           ArchiveTopic(t, p) \/ RestoreTopic(t, p) \/ WriteTopic(t, p) \/ PutBack(t, e, p)
    PROVE  Changes(t, p)
<1>1. DOMAIN live = Topics /\ DOMAIN archive = Topics
  BY DEF DreamInv, FilesInv
<1>2. Touch(t, p) /\ (\E x : live' = [live EXCEPT ![t] = x])
      /\ (archive' = archive \/ \E x : archive' = [archive EXCEPT ![t] = x])
  BY DEF ArchiveTopic, RestoreTopic, WriteTopic, PutBack
<1> QED
  BY <1>1, <1>2 DEF Changes

\* A step on one topic t and its record.
LEMMA OnOneTopic ==
    ASSUME NEW r, NEW m, NEW s, NEW n, NEW t, NEW p, Changes(t, p),
           Undoable(r, m, touched[p], base[p], live, archive),
           \A u \in Topics : u # t => Alike(r, m, s, n, u),
           t \in Topics \ touched[p] => Restores(s, n, t, base[p][t], live'[t], archive'[t])
    PROVE  Undoable(s, n, touched[p], base[p], live', archive')
BY DEF Changes, Undoable, Restores, Alike, Made, Gone, Changed

\* What is said of a plan in force that is not the one at work.
LEMMA OthersUndoable ==
    ASSUME NEW t, NEW p, Changes(t, p) \/ UNCHANGED <<live, archive, touched>>, UNCHANGED base,
           NEW q \in Plans, q # p, InForce(q), NEW rec, NEW moved,
           Undoable(rec, moved, touched[q], base[q], live, archive)
    PROVE  Undoable(rec, moved, touched'[q], base'[q], live', archive')
<1>1. CASE Changes(t, p)
  <2>1. touched'[q] = touched[q] \cup {t}
    BY <1>1 DEF Changes, Touch
  <2> QED
    BY <1>1, <2>1 DEF Changes, Undoable
<1>2. CASE UNCHANGED <<live, archive, touched>>
  BY <1>2
<1> QED
  BY <1>1, <1>2

\* A file operation of the call c, which applies or undoes the plan p.
LEMMA CallStep ==
    ASSUME DreamInv, UndoInv, NEW c \in DreamCallers, NEW v, NEW t, NEW p, Do(c, v), Rest,
           p = work[c].plan.id, v.plan = work[c].plan,
           Changes(t, p) \/ UNCHANGED <<live, archive, touched>>,
           Busy(work[c]), Applies(v) <=> Applies(work[c]), Undoes(v) <=> Undoes(work[c]), CallOK(v),
           p \in Plans \ cut => Undoable(v.rec, v.moved, touched[p], base[p], live', archive')
    PROVE  UndoInv'
<1>1. /\ UNCHANGED <<preview, reports, base, cut>> /\ work' = [work EXCEPT ![c] = v]
      /\ DOMAIN work = DreamCallers
  BY DEF Rest, Do, DreamInv, CallsStale
<1>2. work'[c] = v /\ \A d \in DreamCallers : d # c => work'[d] = work[d] /\ ~Busy(work[d])
  BY <1>1 DEF UndoInv, OneTask
<1>3. OneTask'
  BY <1>2 DEF OneTask
<1>4. DOMAIN base' = Plans /\ DOMAIN touched' = Plans /\ NewTargets(preview)'
  BY <1>1 DEF UndoInv, Changes, Touch
<1>t. p \in Plans => touched'[p] = touched[p]
  BY DEF Changes, Touch
<1>s. p \in Plans => reports[p].st = IF Undoes(v) THEN "undone" ELSE "applying"
  BY DEF UndoInv, BusyInv
<1>5. BusyInv'
  <2> SUFFICES ASSUME NEW d \in DreamCallers, Busy(work'[d])
               PROVE  /\ CallOK(work'[d]) /\ (Undoes(work'[d]) => d = "user")
                      /\ work'[d].plan.id \in Plans => reports'[work'[d].plan.id].st =
                            IF Undoes(work'[d]) THEN "undone" ELSE "applying"
                      /\ work'[d].plan.id \in Plans \ cut' =>
                            Undoable(work'[d].rec, work'[d].moved, touched'[work'[d].plan.id],
                                     base'[work'[d].plan.id], live', archive')
    BY DEF BusyInv
  <2>1. d = c
    BY <1>2
  <2>2. work'[d] = v /\ v.plan.id = p
    BY <1>2, <2>1
  <2>3. Undoes(v) => d = "user"
    BY <2>1 DEF UndoInv, BusyInv
  <2> QED
    BY <1>1, <1>t, <1>s, <2>2, <2>3
<1>6. ReportInv'
  <2> SUFFICES ASSUME NEW q \in Plans \ cut
               PROVE  /\ reports[q].st = "applied" =>
                            Undoable(reports[q], {}, touched'[q], base'[q], live', archive')
                      /\ reports[q].st = "applying" =>
                            \E d \in DreamCallers : Applies(work'[d]) /\ work'[d].plan.id = q
    BY <1>1 DEF ReportInv
  <2>1. ASSUME reports[q].st = "applied"
        PROVE  Undoable(reports[q], {}, touched'[q], base'[q], live', archive')
    <3>1. q # p /\ InForce(q)
      BY <1>s, <2>1 DEF InForce
    <3>2. Undoable(reports[q], {}, touched[q], base[q], live, archive)
      BY <2>1 DEF UndoInv, ReportInv
    <3> QED
      BY <1>1, <3>1, <3>2, OthersUndoable
  <2>2. ASSUME reports[q].st = "applying"
        PROVE  \E d \in DreamCallers : Applies(work'[d]) /\ work'[d].plan.id = q
    <3>1. PICK d \in DreamCallers : Applies(work[d]) /\ work[d].plan.id = q
      BY <2>2 DEF UndoInv, ReportInv
    <3>2. d = c
      BY <1>2, <3>1 DEF Busy
    <3> QED
      BY <1>2, <3>1, <3>2
  <2> QED
    BY <2>1, <2>2
<1> QED
  BY <1>3, <1>4, <1>5, <1>6 DEF UndoInv

\* What is known of a call that applies a plan.
LEMMA ApplyKnows ==
    ASSUME DreamInv, UndoInv, NEW c \in DreamCallers, Applies(work[c])
    PROVE  LET w == work[c]  p == w.plan.id IN
           /\ CallOK(w) /\ Busy(w) /\ ~Undoes(w) /\ NewTargets(w.plan) /\ Advanced(w)
           /\ WorkFields \subseteq DOMAIN w /\ RecFields \subseteq DOMAIN w.rec
           /\ DOMAIN w.rec.before = Topics /\ DOMAIN w.rec.written = Topics
           /\ p \in Plans \ cut => Undoable(w.rec, w.moved, touched[p], base[p], live, archive)
           /\ contents \in Nat /\ live \in [Topics -> 0..contents] /\ archive \in [Topics -> 0..contents]
           /\ \A t \in Topics : w.plan.snapshot[t] \in Nat /\ w.plan.snapshot[t] <= contents
<1>1. CallOK(work[c]) /\ Busy(work[c]) /\ ~Undoes(work[c])
  BY DEF UndoInv, BusyInv, Busy, Applies, Undoes
<1>2. WorkStale(work[c], fresh, contents) /\ contents \in Nat
  BY CallKnows
<1>3. /\ WorkFields \subseteq DOMAIN work[c] /\ RecFields \subseteq DOMAIN work[c].rec
      /\ DOMAIN work[c].rec.before = Topics /\ DOMAIN work[c].rec.written = Topics
  BY <1>2 DEF WorkStale, RecStale, Stale
<1>4. NewTargets(work[c].plan) /\ Advanced(work[c])
  BY <1>1 DEF CallOK
<1>5. live \in [Topics -> 0..contents] /\ archive \in [Topics -> 0..contents]
  BY DEF DreamInv, FilesInv
<1>6. work[c].plan.id \in Plans \ cut =>
        Undoable(work[c].rec, work[c].moved, touched[work[c].plan.id], base[work[c].plan.id],
                 live, archive)
  BY <1>1 DEF UndoInv, BusyInv
<1>7. \A t \in Topics : work[c].plan.snapshot[t] \in Nat /\ work[c].plan.snapshot[t] <= contents
  BY CallKnows
<1> QED
  BY <1>1, <1>2, <1>3, <1>4, <1>5, <1>6, <1>7

\* A call after an action: the fields of its record.
LEMMA OverFields ==
    ASSUME NEW w, NEW r, WorkFields \subseteq DOMAIN w
    PROVE  LET v == [w EXCEPT !.st = "recording", !.rec = r, !.moved = {}, !.failed = FALSE] IN
           /\ v.plan = w.plan /\ v.rec = r /\ v.moved = {} /\ v.st = "recording" /\ v.todo = w.todo
OBVIOUS

\* An action that leaves the topics alone and is over.
LEMMA SkipUndoable ==
    ASSUME DreamInv, UndoInv, NEW c \in DreamCallers, Applies(work[c]), work[c].moved = {},
           NoTopic, Over(c, work[c].rec), Rest
    PROVE  UndoInv'
<1> DEFINE w == work[c]  p == w.plan.id
           v == [w EXCEPT !.st = "recording", !.rec = w.rec, !.moved = {}, !.failed = FALSE]
<1>k. /\ CallOK(w) /\ Busy(w) /\ ~Undoes(w) /\ WorkFields \subseteq DOMAIN w
      /\ p \in Plans \ cut => Undoable(w.rec, w.moved, touched[p], base[p], live, archive)
  BY ApplyKnows
<1>1. v.plan = w.plan /\ v.rec = w.rec /\ v.moved = {} /\ v.st = "recording" /\ v.todo = w.todo
  BY <1>k, OverFields
<1>2. Do(c, v) /\ UNCHANGED <<live, archive, touched>>
  BY DEF Over, NoTopic
<1> HIDE DEF v
<1>3. Applies(v) /\ ~Undoes(v)
  BY <1>1 DEF Applies, Undoes
<1>4. CallOK(v)
  BY <1>k, <1>1, <1>3 DEF CallOK, Advanced, NewTargets, Gone
<1> HIDE DEF w
<1>5. p \in Plans \ cut => Undoable(v.rec, v.moved, touched[p], base[p], live', archive')
  BY <1>k, <1>1, <1>2 DEF w
<1> QED
  BY <1>k, <1>1, <1>2, <1>3, <1>4, <1>5, CallStep DEF w

\* A rewrite keeps the content it replaces.
LEMMA RewriteUndoable ==
    ASSUME DreamInv, UndoInv, NEW c \in DreamCallers, NEW a \in Current(work[c]), ApplyRewrite(c, a)
    PROVE  UndoInv'
<1> DEFINE w == work[c]  p == w.plan.id  t == a.id  e == w.plan.snapshot[t]
           r == [w.rec EXCEPT !.before[t] = e, !.written[t] = contents + 1]
           v == [w EXCEPT !.st = "recording", !.rec = r, !.moved = {}, !.failed = FALSE]
<1>0. w.st = "applying" /\ a.kind = "rewrite" /\ Rest /\ Applies(w)
  BY DEF ApplyRewrite, Applies
<1>k. /\ CallOK(w) /\ Busy(w) /\ ~Undoes(w) /\ NewTargets(w.plan) /\ Advanced(w)
      /\ WorkFields \subseteq DOMAIN w /\ RecFields \subseteq DOMAIN w.rec
      /\ DOMAIN w.rec.before = Topics /\ DOMAIN w.rec.written = Topics
      /\ p \in Plans \ cut => Undoable(w.rec, w.moved, touched[p], base[p], live, archive)
      /\ contents \in Nat /\ live \in [Topics -> 0..contents]
      /\ \A u \in Topics : w.plan.snapshot[u] \in Nat /\ w.plan.snapshot[u] <= contents
  BY <1>0, ApplyKnows
<1>m. w.moved = {}
  BY <1>0, <1>k, OneKind DEF CallOK
<1>1. ASSUME Unchanged(t, e), WriteTopic(t, p), Over(c, r)
      PROVE  UndoInv'
  <2>1. /\ DOMAIN r = DOMAIN w.rec /\ r.st = w.rec.st /\ r.created = w.rec.created
        /\ r.archived = w.rec.archived /\ r.stranded = w.rec.stranded
        /\ r.before = [w.rec.before EXCEPT ![t] = e]
        /\ r.written = [w.rec.written EXCEPT ![t] = contents + 1]
    BY <1>k
  <2>2. /\ \A u \in Topics : u # t => r.before[u] = w.rec.before[u] /\ r.written[u] = w.rec.written[u]
        /\ t \in Topics => r.before[t] = e /\ r.written[t] = contents + 1
    BY <1>k, <2>1
  <2> HIDE DEF r
  <2>3. v.plan = w.plan /\ v.rec = r /\ v.moved = {} /\ v.st = "recording" /\ v.todo = w.todo
    BY <1>k, OverFields
  <2>4. Do(c, v)
    BY <1>1 DEF Over
  <2> HIDE DEF v
  <2>5. Applies(v) /\ ~Undoes(v)
    BY <2>3 DEF Applies, Undoes
  <2>6. \A u \in Topics : u # t => Alike(w.rec, w.moved, r, {}, u)
    BY <1>m, <2>1, <2>2 DEF Alike, Gone
  <2>7. t \in Topics => contents + 1 # w.plan.snapshot[t] /\ contents + 1 # 0
    BY <1>k
  <2>8. Advanced(v)
    <3> SUFFICES ASSUME NEW u \in Topics
                 PROVE  /\ Gone(r, {}, u) => w.plan.snapshot[u] # 0
                        /\ Made(r, u) \/ Changed(r, u) => r.written[u] # w.plan.snapshot[u]
      BY <2>3 DEF Advanced
    <3>1. Gone(r, {}, u) => w.plan.snapshot[u] # 0
      BY <1>k, <2>1 DEF Advanced, Gone
    <3>2. CASE u = t
      BY <2>2, <2>7, <3>1, <3>2
    <3>3. CASE u # t
      BY <1>k, <2>1, <2>2, <3>1, <3>3 DEF Advanced, Made, Changed
    <3> QED
      BY <3>2, <3>3
  <2>9. CallOK(v)
    BY <1>k, <1>0, <2>1, <2>3, <2>5, <2>8 DEF CallOK, NewTargets
  <2>10. Changes(t, p) /\ live' = [live EXCEPT ![t] = contents + 1] /\ archive' = archive
    BY <1>1, FileOps DEF WriteTopic
  <2>11. ASSUME p \in Plans \ cut
         PROVE  Undoable(r, {}, touched[p], base[p], live', archive')
    <3>1. ASSUME t \in Topics \ touched[p]
          PROVE  Restores(r, {}, t, base[p][t], live'[t], archive'[t])
      <4>1. /\ ~Made(w.rec, t) /\ ~Gone(w.rec, w.moved, t) /\ ~Changed(w.rec, t)
            /\ live[t] = base[p][t] /\ t \notin w.rec.stranded
        <5> HIDE DEF w, p, t
        <5> QED
          BY <1>1, <1>k, <2>11, <3>1, AsShown DEF Unchanged
      <4>2. live'[t] = contents + 1 /\ live[t] = e /\ e # 0
        BY <1>1, <1>k, <2>10, <3>1 DEF Unchanged
      <4> QED
        BY <2>1, <2>2, <2>7, <3>1, <4>1, <4>2 DEF Restores, Made, Gone, Changed
    <3>2. Undoable(w.rec, w.moved, touched[p], base[p], live, archive)
      BY <1>k, <2>11
    <3> HIDE DEF w, p, t
    <3> QED
      BY <2>6, <2>10, <3>1, <3>2, OnOneTopic
  <2> HIDE DEF w, t
  <2> QED
    BY <1>k, <1>0, <2>3, <2>4, <2>5, <2>9, <2>10, <2>11, CallStep DEF w
<1>2. CASE NoTopic /\ Over(c, w.rec)
  BY <1>0, <1>2, <1>m, SkipUndoable
<1> QED
  BY <1>1, <1>2 DEF ApplyRewrite

\* An archived topic can be restored.
LEMMA ArchiveUndoable ==
    ASSUME DreamInv, UndoInv, NEW c \in DreamCallers, NEW a \in Current(work[c]), ApplyArchive(c, a)
    PROVE  UndoInv'
<1> DEFINE w == work[c]  p == w.plan.id  t == a.id
           r == [w.rec EXCEPT !.archived = @ \cup {t}]
           v == [w EXCEPT !.st = "recording", !.rec = r, !.moved = {}, !.failed = FALSE]
<1>0. w.st = "applying" /\ a.kind = "archive" /\ Rest /\ Applies(w)
  BY DEF ApplyArchive, Applies
<1>k. /\ CallOK(w) /\ Busy(w) /\ ~Undoes(w) /\ NewTargets(w.plan) /\ Advanced(w)
      /\ WorkFields \subseteq DOMAIN w /\ RecFields \subseteq DOMAIN w.rec
      /\ p \in Plans \ cut => Undoable(w.rec, w.moved, touched[p], base[p], live, archive)
      /\ live \in [Topics -> 0..contents] /\ archive \in [Topics -> 0..contents]
  BY <1>0, ApplyKnows
<1>m. w.moved = {}
  BY <1>0, <1>k, OneKind DEF CallOK
<1>1. ASSUME Unchanged(t, w.plan.snapshot[t]), ArchiveTopic(t, p), Over(c, r)
      PROVE  UndoInv'
  <2>1. /\ r.st = w.rec.st /\ r.created = w.rec.created /\ r.archived = w.rec.archived \cup {t}
        /\ r.stranded = w.rec.stranded /\ r.before = w.rec.before /\ r.written = w.rec.written
    BY <1>k
  <2> HIDE DEF r
  <2>3. v.plan = w.plan /\ v.rec = r /\ v.moved = {} /\ v.st = "recording" /\ v.todo = w.todo
    BY <1>k, OverFields
  <2>4. Do(c, v)
    BY <1>1 DEF Over
  <2> HIDE DEF v
  <2>5. Applies(v) /\ ~Undoes(v)
    BY <2>3 DEF Applies, Undoes
  <2>6. \A u \in Topics : u # t => Alike(w.rec, w.moved, r, {}, u)
    BY <1>m, <2>1 DEF Alike, Gone
  <2>7. live[t] # 0 /\ live[t] = w.plan.snapshot[t]
    BY <1>1 DEF Unchanged
  <2>8. Advanced(v)
    BY <1>k, <1>m, <2>1, <2>3, <2>7 DEF Advanced, Gone, Made, Changed
  <2>9. CallOK(v)
    BY <1>k, <1>0, <2>1, <2>3, <2>5, <2>8 DEF CallOK, NewTargets
  <2>10. /\ Changes(t, p) /\ live' = [live EXCEPT ![t] = 0]
         /\ archive' = [archive EXCEPT ![t] = live[t]]
    BY <1>1, FileOps DEF ArchiveTopic
  <2>11. ASSUME p \in Plans \ cut
         PROVE  Undoable(r, {}, touched[p], base[p], live', archive')
    <3>1. ASSUME t \in Topics \ touched[p]
          PROVE  Restores(r, {}, t, base[p][t], live'[t], archive'[t])
      <4>1. /\ ~Made(w.rec, t) /\ ~Gone(w.rec, w.moved, t) /\ ~Changed(w.rec, t)
            /\ live[t] = base[p][t] /\ t \notin w.rec.stranded
        <5> HIDE DEF w, p, t
        <5> QED
          BY <1>k, <2>7, <2>11, <3>1, AsShown
      <4>2. live'[t] = 0 /\ archive'[t] = live[t]
        BY <1>k, <2>10, <3>1
      <4> QED
        BY <2>1, <2>7, <3>1, <4>1, <4>2 DEF Restores, Made, Gone, Changed
    <3>2. Undoable(w.rec, w.moved, touched[p], base[p], live, archive)
      BY <1>k, <2>11
    <3> HIDE DEF w, p, t
    <3> QED
      BY <2>6, <2>10, <3>1, <3>2, OnOneTopic
  <2> HIDE DEF w, t
  <2> QED
    BY <1>k, <1>0, <2>3, <2>4, <2>5, <2>9, <2>10, <2>11, CallStep DEF w
<1>2. CASE NoTopic /\ Over(c, w.rec)
  BY <1>0, <1>2, <1>m, SkipUndoable
<1> QED
  BY <1>1, <1>2 DEF ApplyArchive

\* A merge that has failed: nothing else of the call changes.
LEMMA FailUndoable ==
    ASSUME DreamInv, UndoInv, NEW c \in DreamCallers, Applies(work[c]),
           NoTopic, Do(c, [work[c] EXCEPT !.failed = TRUE]), Rest
    PROVE  UndoInv'
<1> DEFINE w == work[c]  p == w.plan.id  v == [w EXCEPT !.failed = TRUE]
<1>k. /\ CallOK(w) /\ Busy(w) /\ ~Undoes(w) /\ WorkFields \subseteq DOMAIN w
      /\ p \in Plans \ cut => Undoable(w.rec, w.moved, touched[p], base[p], live, archive)
  BY ApplyKnows
<1>1. /\ v.plan = w.plan /\ v.rec = w.rec /\ v.moved = w.moved /\ v.st = w.st /\ v.todo = w.todo
  BY <1>k
<1>2. Do(c, v) /\ UNCHANGED <<live, archive, touched>>
  BY DEF NoTopic
<1> HIDE DEF v
<1>3. Applies(v) /\ ~Undoes(v)
  BY <1>k, <1>1 DEF Applies, Undoes
<1>c. Current(v) = Current(w)
  BY <1>1 DEF Current
<1>4. CallOK(v)
  BY <1>k, <1>1, <1>c, <1>3 DEF CallOK, Advanced, NewTargets
<1> HIDE DEF w
<1>5. p \in Plans \ cut => Undoable(v.rec, v.moved, touched[p], base[p], live', archive')
  BY <1>k, <1>1, <1>2 DEF w
<1> QED
  BY <1>k, <1>1, <1>2, <1>3, <1>4, <1>5, CallStep DEF w

\* A source that is moved away can be restored.
LEMMA SourceUndoable ==
    ASSUME DreamInv, UndoInv, NEW c \in DreamCallers, NEW a \in Current(work[c]), NEW t \in Topics,
           MergeSource(c, a, t)
    PROVE  UndoInv'
<1> DEFINE w == work[c]  p == w.plan.id  v == [w EXCEPT !.moved = @ \cup {t}]
<1>0. w.st = "applying" /\ a.kind = "merge" /\ Rest /\ Applies(w)
  BY DEF MergeSource, Applies
<1>k. /\ CallOK(w) /\ Busy(w) /\ ~Undoes(w) /\ NewTargets(w.plan) /\ Advanced(w)
      /\ WorkFields \subseteq DOMAIN w
      /\ p \in Plans \ cut => Undoable(w.rec, w.moved, touched[p], base[p], live, archive)
      /\ live \in [Topics -> 0..contents] /\ archive \in [Topics -> 0..contents]
  BY <1>0, ApplyKnows
<1>1. ASSUME Unchanged(t, w.plan.snapshot[t]), ArchiveTopic(t, p), Do(c, v)
      PROVE  UndoInv'
  <2>3. v.plan = w.plan /\ v.rec = w.rec /\ v.moved = w.moved \cup {t} /\ v.st = w.st /\ v.todo = w.todo
    BY <1>k
  <2> HIDE DEF v
  <2>5. Applies(v) /\ ~Undoes(v) /\ Current(v) = Current(w)
    BY <1>0, <2>3 DEF Applies, Undoes, Current
  <2>6. \A u \in Topics : u # t => Alike(w.rec, w.moved, v.rec, v.moved, u)
    BY <2>3 DEF Alike, Gone
  <2>7. live[t] # 0 /\ live[t] = w.plan.snapshot[t]
    BY <1>1 DEF Unchanged
  <2>8. Advanced(v)
    BY <1>k, <2>3, <2>7 DEF Advanced, Gone, Made, Changed
  <2>9. CallOK(v)
    BY <1>k, <1>0, <2>3, <2>5, <2>8 DEF CallOK, NewTargets
  <2>10. /\ Changes(t, p) /\ live' = [live EXCEPT ![t] = 0]
         /\ archive' = [archive EXCEPT ![t] = live[t]]
    BY <1>1, FileOps DEF ArchiveTopic
  <2>11. ASSUME p \in Plans \ cut
         PROVE  Undoable(v.rec, v.moved, touched[p], base[p], live', archive')
    <3>1. ASSUME t \notin touched[p]
          PROVE  Restores(v.rec, v.moved, t, base[p][t], live'[t], archive'[t])
      <4>1. /\ ~Made(w.rec, t) /\ ~Gone(w.rec, w.moved, t) /\ ~Changed(w.rec, t)
            /\ live[t] = base[p][t] /\ t \notin w.rec.stranded
        <5> HIDE DEF w, p
        <5> QED
          BY <1>k, <2>7, <2>11, <3>1, AsShown
      <4>2. live'[t] = 0 /\ archive'[t] = live[t]
        BY <1>k, <2>10
      <4> QED
        BY <2>3, <2>7, <4>1, <4>2 DEF Restores, Made, Gone, Changed
    <3>2. Undoable(w.rec, w.moved, touched[p], base[p], live, archive)
      BY <1>k, <2>11
    <3> HIDE DEF w, p
    <3> QED
      BY <2>6, <2>10, <3>1, <3>2, OnOneTopic
  <2> HIDE DEF w
  <2> QED
    BY <1>k, <1>0, <1>1, <2>3, <2>5, <2>9, <2>10, <2>11, CallStep DEF w
<1>2. CASE NoTopic /\ Do(c, [w EXCEPT !.failed = TRUE])
  BY <1>0, <1>2, FailUndoable
<1> QED
  BY <1>1, <1>2 DEF MergeSource

\* A merged topic is new, and its sources can be restored from now on by the record.
LEMMA TargetUndoable ==
    ASSUME DreamInv, UndoInv, NEW c \in DreamCallers, NEW a \in Current(work[c]), MergeTarget(c, a)
    PROVE  UndoInv'
<1> DEFINE w == work[c]  p == w.plan.id  t == a.id  r == Merged(w.rec, w.moved, t)
           v == [w EXCEPT !.st = "recording", !.rec = r, !.moved = {}, !.failed = FALSE]
<1>0. w.st = "applying" /\ a.kind = "merge" /\ Rest /\ Applies(w)
  BY DEF MergeTarget, Applies
<1>k. /\ CallOK(w) /\ Busy(w) /\ ~Undoes(w) /\ NewTargets(w.plan) /\ Advanced(w)
      /\ WorkFields \subseteq DOMAIN w /\ RecFields \subseteq DOMAIN w.rec
      /\ DOMAIN w.rec.written = Topics
      /\ p \in Plans \ cut => Undoable(w.rec, w.moved, touched[p], base[p], live, archive)
      /\ contents \in Nat /\ live \in [Topics -> 0..contents]
      /\ \A u \in Topics : w.plan.snapshot[u] \in Nat /\ w.plan.snapshot[u] <= contents
  BY <1>0, ApplyKnows
<1>n. t \in Topics => w.plan.snapshot[t] = 0
  <2>1. PICK i \in w.todo : a = w.plan.actions[i]
    BY DEF Current, Foremost
  <2>2. i \in DOMAIN w.plan.actions
    BY <1>0, <1>k, <2>1 DEF CallOK
  <2> QED
    BY <1>0, <1>k, <2>1, <2>2 DEF NewTargets, Present
<1>1. ASSUME live[t] = 0, WriteTopic(t, p), Over(c, r)
      PROVE  UndoInv'
  <2>1. /\ r.st = w.rec.st /\ r.created = w.rec.created \cup {t}
        /\ r.archived = w.rec.archived \cup w.moved
        /\ r.stranded = w.rec.stranded /\ r.before = w.rec.before
        /\ r.written = [w.rec.written EXCEPT ![t] = contents + 1]
    BY <1>k DEF Merged
  <2>2. /\ \A u \in Topics : u # t => r.written[u] = w.rec.written[u]
        /\ t \in Topics => r.written[t] = contents + 1
    BY <1>k, <2>1
  <2> HIDE DEF r
  <2>3. v.plan = w.plan /\ v.rec = r /\ v.moved = {} /\ v.st = "recording" /\ v.todo = w.todo
    BY <1>k, OverFields
  <2>4. Do(c, v)
    BY <1>1 DEF Over
  <2> HIDE DEF v
  <2>5. Applies(v) /\ ~Undoes(v)
    BY <2>3 DEF Applies, Undoes
  <2>6. \A u \in Topics : u # t => Alike(w.rec, w.moved, r, {}, u)
    BY <2>1, <2>2 DEF Alike, Gone
  <2>7. t \in Topics => contents + 1 # w.plan.snapshot[t] /\ contents + 1 # 0
    BY <1>k
  <2>8. Advanced(v)
    <3> SUFFICES ASSUME NEW u \in Topics
                 PROVE  /\ Gone(r, {}, u) => w.plan.snapshot[u] # 0
                        /\ Made(r, u) \/ Changed(r, u) => r.written[u] # w.plan.snapshot[u]
      BY <2>3 DEF Advanced
    <3>1. Gone(r, {}, u) => w.plan.snapshot[u] # 0
      BY <1>k, <2>1 DEF Advanced, Gone
    <3>2. CASE u = t
      BY <2>2, <2>7, <3>1, <3>2
    <3>3. CASE u # t
      BY <1>k, <2>1, <2>2, <3>1, <3>3 DEF Advanced, Made, Changed
    <3> QED
      BY <3>2, <3>3
  <2>9. CallOK(v)
    BY <1>k, <1>0, <2>1, <2>3, <2>5, <2>8 DEF CallOK, NewTargets
  <2>10. Changes(t, p) /\ live' = [live EXCEPT ![t] = contents + 1]
    BY <1>1, FileOps DEF WriteTopic
  <2>11. ASSUME p \in Plans \ cut
         PROVE  Undoable(r, {}, touched[p], base[p], live', archive')
    <3>2. Undoable(w.rec, w.moved, touched[p], base[p], live, archive)
      BY <1>k, <2>11
    <3>1. ASSUME t \in Topics \ touched[p]
          PROVE  Restores(r, {}, t, base[p][t], live'[t], archive'[t])
      <4>1. ~Gone(w.rec, w.moved, t)
        BY <1>k, <1>n, <3>1 DEF Advanced
      <4>2. /\ ~Made(w.rec, t) /\ ~Changed(w.rec, t) /\ base[p][t] = 0 /\ t \notin w.rec.stranded
        BY <1>1, <3>1, <3>2, <4>1 DEF Undoable, Restores
      <4>3. live'[t] = contents + 1
        BY <1>k, <2>10, <3>1
      <4> QED
        BY <2>1, <2>2, <2>7, <3>1, <4>1, <4>2, <4>3 DEF Restores, Made, Gone, Changed
    <3> HIDE DEF w, p, t
    <3> QED
      BY <2>6, <2>10, <3>1, <3>2, OnOneTopic
  <2> HIDE DEF w, t
  <2> QED
    BY <1>k, <1>0, <2>3, <2>4, <2>5, <2>9, <2>10, <2>11, CallStep DEF w
<1>2. CASE NoTopic /\ Do(c, [w EXCEPT !.failed = TRUE])
  BY <1>0, <1>2, FailUndoable
<1> QED
  BY <1>1, <1>2 DEF MergeTarget

\* The sources of a failed merge come back; one that others touched may stay away.
LEMMA RollbackUndoable ==
    ASSUME DreamInv, UndoInv, NEW c \in DreamCallers, MergeRollback(c)
    PROVE  UndoInv'
<1> DEFINE w == work[c]  p == w.plan.id
<1>0. w.st = "applying" /\ Rest /\ Applies(w)
  BY DEF MergeRollback, Applies
<1>k. /\ CallOK(w) /\ Busy(w) /\ ~Undoes(w) /\ NewTargets(w.plan) /\ Advanced(w)
      /\ WorkFields \subseteq DOMAIN w /\ RecFields \subseteq DOMAIN w.rec
      /\ p \in Plans \ cut => Undoable(w.rec, w.moved, touched[p], base[p], live, archive)
      /\ live \in [Topics -> 0..contents] /\ archive \in [Topics -> 0..contents]
  BY <1>0, ApplyKnows
<1>1. ASSUME NEW t \in w.moved, Restorable(t), RestoreTopic(t, p), Do(c, [w EXCEPT !.moved = @ \ {t}])
      PROVE  UndoInv'
  <2> DEFINE v == [w EXCEPT !.moved = @ \ {t}]
  <2>3. v.plan = w.plan /\ v.rec = w.rec /\ v.moved = w.moved \ {t} /\ v.st = w.st /\ v.todo = w.todo
    BY <1>k
  <2>4. Do(c, v)
    BY <1>1
  <2> HIDE DEF v
  <2>5. Applies(v) /\ ~Undoes(v) /\ Current(v) = Current(w)
    BY <1>0, <2>3 DEF Applies, Undoes, Current
  <2>6. \A u \in Topics : u # t => Alike(w.rec, w.moved, v.rec, v.moved, u)
    BY <2>3 DEF Alike, Gone
  <2>8. Advanced(v)
    BY <1>k, <2>3 DEF Advanced, Gone, Made, Changed
  <2>9. CallOK(v)
    BY <1>k, <1>0, <2>3, <2>5, <2>8 DEF CallOK, NewTargets
  <2>10. /\ Changes(t, p) /\ live' = [live EXCEPT ![t] = archive[t]]
    BY <1>1, FileOps DEF RestoreTopic
  <2>11. ASSUME p \in Plans \ cut
         PROVE  Undoable(v.rec, v.moved, touched[p], base[p], live', archive')
    <3>2. Undoable(w.rec, w.moved, touched[p], base[p], live, archive)
      BY <1>k, <2>11
    <3>1. ASSUME t \in Topics \ touched[p]
          PROVE  Restores(v.rec, v.moved, t, base[p][t], live'[t], archive'[t])
      <4>1. Restores(w.rec, w.moved, t, base[p][t], live[t], archive[t]) /\ Gone(w.rec, w.moved, t)
        BY <3>1, <3>2, <1>1 DEF Undoable, Gone
      <4>2. live'[t] = archive[t]
        BY <1>k, <2>10, <3>1
      <4> QED
        BY <1>1, <2>3, <4>1, <4>2 DEF Restores, Made, Gone, Changed
    <3> HIDE DEF w, p
    <3> QED
      BY <2>6, <2>10, <3>1, <3>2, OnOneTopic
  <2> HIDE DEF w
  <2> QED
    BY <1>k, <1>0, <1>1, <2>3, <2>4, <2>5, <2>9, <2>10, <2>11, CallStep DEF w
<1>2. ASSUME NEW t \in w.moved, ~Restorable(t), NoTopic,
             Do(c, [w EXCEPT !.moved = @ \ {t}, !.rec.stranded = @ \cup {t}])
      PROVE  UndoInv'
  <2> DEFINE v == [w EXCEPT !.moved = @ \ {t}, !.rec.stranded = @ \cup {t}]
  <2>3. /\ v.plan = w.plan /\ v.moved = w.moved \ {t} /\ v.st = w.st /\ v.todo = w.todo
        /\ v.rec.st = w.rec.st /\ v.rec.created = w.rec.created /\ v.rec.archived = w.rec.archived
        /\ v.rec.stranded = w.rec.stranded \cup {t} /\ v.rec.before = w.rec.before
        /\ v.rec.written = w.rec.written
    BY <1>k
  <2>4. Do(c, v) /\ UNCHANGED <<live, archive, touched>>
    BY <1>2 DEF NoTopic
  <2> HIDE DEF v
  <2>5. Applies(v) /\ ~Undoes(v) /\ Current(v) = Current(w)
    BY <1>0, <2>3 DEF Applies, Undoes, Current
  <2>8. Advanced(v)
    BY <1>k, <2>3 DEF Advanced, Gone, Made, Changed
  <2>9. CallOK(v)
    BY <1>k, <1>0, <2>3, <2>5, <2>8 DEF CallOK, NewTargets
  <2>11. ASSUME p \in Plans \ cut
         PROVE  Undoable(v.rec, v.moved, touched[p], base[p], live', archive')
    <3>1. Undoable(w.rec, w.moved, touched[p], base[p], live, archive)
      BY <1>k, <2>11
    <3>2. t \notin Topics \ touched[p]
      BY <1>2, <3>1 DEF Undoable, Restores, Gone, Restorable
    <3>3. \A u \in Topics \ touched[p] : u # t /\ Restores(w.rec, w.moved, u, base[p][u], live[u], archive[u])
      BY <3>1, <3>2 DEF Undoable
    <3>4. \A u \in Topics \ touched[p] : Restores(v.rec, v.moved, u, base[p][u], live[u], archive[u])
      BY <2>3, <3>3 DEF Restores, Made, Gone, Changed
    <3> QED
      BY <2>4, <3>4 DEF Undoable
  <2> HIDE DEF w
  <2> QED
    BY <1>k, <1>0, <2>3, <2>4, <2>5, <2>9, <2>11, CallStep DEF w
<1>3. CASE w.moved = {} /\ NoTopic /\ Over(c, w.rec)
  BY <1>0, <1>3, SkipUndoable
<1> QED
  BY <1>1, <1>2, <1>3 DEF MergeRollback

\* Every step of an undo brings one topic back.
LEMMA UndoStepUndoable ==
    ASSUME DreamInv, UndoInv, UndoStep
    PROVE  UndoInv'
<1> DEFINE w == work["user"]  p == w.plan.id
<1>u. "user" \in DreamCallers
  BY DEF DreamCallers
<1>0. Rest /\ Undoes(w) /\ Busy(w) /\ ~Applies(w)
  BY DEF UndoStep, Undoes, Busy, Applies
<1>k. /\ CallOK(w) /\ w.moved = {} /\ p \in Plans
      /\ p \in Plans \ cut => Undoable(w.rec, w.moved, touched[p], base[p], live, archive)
  BY <1>0, <1>u DEF UndoInv, BusyInv, CallOK
<1>f. /\ WorkFields \subseteq DOMAIN w /\ RecFields \subseteq DOMAIN w.rec /\ DOMAIN w.rec.before = Topics
      /\ live \in [Topics -> 0..contents] /\ archive \in [Topics -> 0..contents]
  BY <1>u, CallKnows DEF WorkStale, RecStale, Stale, DreamInv, FilesInv
<1>s. ASSUME NEW v, NEW t, Do("user", v), v.plan = w.plan, v.moved = {}, v.st = w.st,
             Changes(t, p) \/ NoTopic,
             p \in Plans \ cut => Undoable(v.rec, {}, touched[p], base[p], live', archive')
      PROVE  UndoInv'
  <2>1. CallOK(v) /\ Undoes(v) /\ ~Applies(v)
    BY <1>0, <1>k, <1>s DEF CallOK, Undoes, Applies
  <2>2. Changes(t, p) \/ UNCHANGED <<live, archive, touched>>
    BY <1>s DEF NoTopic
  <2> HIDE DEF w
  <2> QED
    BY <1>0, <1>u, <1>s, <2>1, <2>2, CallStep DEF w
<1>1. ASSUME NEW t \in w.rec.created,
             IF Unchanged(t, w.rec.written[t]) THEN ArchiveTopic(t, p) ELSE NoTopic,
             Do("user", [w EXCEPT !.rec.created = @ \ {t}])
      PROVE  UndoInv'
  <2> DEFINE v == [w EXCEPT !.rec.created = @ \ {t}]
  <2>1. /\ v.plan = w.plan /\ v.moved = {} /\ v.st = w.st /\ v.rec.created = w.rec.created \ {t}
        /\ v.rec.archived = w.rec.archived /\ v.rec.stranded = w.rec.stranded
        /\ v.rec.before = w.rec.before /\ v.rec.written = w.rec.written
    BY <1>f, <1>k
  <2>2. Do("user", v)
    BY <1>1
  <2> HIDE DEF v
  <2>3. \A u \in Topics : u # t => Alike(w.rec, w.moved, v.rec, {}, u)
    BY <1>k, <2>1 DEF Alike, Gone
  <2>4. CASE Unchanged(t, w.rec.written[t])
    <3>1. Changes(t, p) /\ live' = [live EXCEPT ![t] = 0]
      BY <1>1, <2>4, FileOps DEF ArchiveTopic
    <3>2. ASSUME p \in Plans \ cut PROVE Undoable(v.rec, {}, touched[p], base[p], live', archive')
      <4>1. Undoable(w.rec, w.moved, touched[p], base[p], live, archive)
        BY <1>k, <3>2
      <4>2. ASSUME t \in Topics \ touched[p]
            PROVE  Restores(v.rec, {}, t, base[p][t], live'[t], archive'[t])
        <5>1. Restores(w.rec, w.moved, t, base[p][t], live[t], archive[t]) /\ Made(w.rec, t)
          BY <1>1, <4>1, <4>2 DEF Undoable, Made
        <5>2. live'[t] = 0
          BY <1>f, <3>1, <4>2
        <5> QED
          BY <1>k, <2>1, <5>1, <5>2 DEF Restores, Made, Gone, Changed
      <4> HIDE DEF w, p
      <4> QED
        BY <2>3, <3>1, <4>1, <4>2, OnOneTopic
    <3> QED
      BY <1>s, <2>1, <2>2, <3>1, <3>2
  <2>5. CASE ~Unchanged(t, w.rec.written[t])
    <3>1. NoTopic /\ UNCHANGED <<live, archive>>
      BY <1>1, <2>5 DEF NoTopic
    <3>2. ASSUME p \in Plans \ cut PROVE Undoable(v.rec, {}, touched[p], base[p], live', archive')
      <4>1. Undoable(w.rec, w.moved, touched[p], base[p], live, archive)
        BY <1>k, <3>2
      <4>2. t \notin Topics \ touched[p]
        BY <1>1, <2>5, <4>1 DEF Undoable, Restores, Made, Unchanged
      <4>3. \A u \in Topics \ touched[p] :
              u # t /\ Restores(w.rec, w.moved, u, base[p][u], live[u], archive[u])
        BY <4>1, <4>2 DEF Undoable
      <4>4. \A u \in Topics \ touched[p] : Restores(v.rec, {}, u, base[p][u], live[u], archive[u])
        BY <1>k, <2>1, <4>3 DEF Restores, Made, Gone, Changed
      <4> QED
        BY <3>1, <4>4 DEF Undoable
    <3> QED
      BY <1>s, <2>1, <2>2, <3>1, <3>2
  <2> QED
    BY <2>4, <2>5
<1>2. ASSUME NEW t \in w.rec.archived \cup w.rec.stranded,
             IF Restorable(t) THEN RestoreTopic(t, p) ELSE NoTopic,
             Do("user", [w EXCEPT !.rec.archived = @ \ {t}, !.rec.stranded = @ \ {t}])
      PROVE  UndoInv'
  <2> DEFINE v == [w EXCEPT !.rec.archived = @ \ {t}, !.rec.stranded = @ \ {t}]
  <2>1. /\ v.plan = w.plan /\ v.moved = {} /\ v.st = w.st /\ v.rec.created = w.rec.created
        /\ v.rec.archived = w.rec.archived \ {t} /\ v.rec.stranded = w.rec.stranded \ {t}
        /\ v.rec.before = w.rec.before /\ v.rec.written = w.rec.written
    BY <1>f, <1>k
  <2>2. Do("user", v)
    BY <1>2
  <2> HIDE DEF v
  <2>3. \A u \in Topics : u # t => Alike(w.rec, w.moved, v.rec, {}, u)
    BY <1>k, <2>1 DEF Alike, Gone
  <2>4. CASE Restorable(t)
    <3>1. Changes(t, p) /\ live' = [live EXCEPT ![t] = archive[t]]
      BY <1>2, <2>4, FileOps DEF RestoreTopic
    <3>2. ASSUME p \in Plans \ cut PROVE Undoable(v.rec, {}, touched[p], base[p], live', archive')
      <4>1. Undoable(w.rec, w.moved, touched[p], base[p], live, archive)
        BY <1>k, <3>2
      <4>2. ASSUME t \in Topics \ touched[p]
            PROVE  Restores(v.rec, {}, t, base[p][t], live'[t], archive'[t])
        <5>1. Restores(w.rec, w.moved, t, base[p][t], live[t], archive[t]) /\ Gone(w.rec, w.moved, t)
          BY <1>2, <4>1, <4>2 DEF Undoable, Restores, Gone
        <5>2. live'[t] = archive[t]
          BY <1>f, <3>1, <4>2
        <5> QED
          BY <1>k, <2>1, <5>1, <5>2 DEF Restores, Made, Gone, Changed
      <4> HIDE DEF w, p
      <4> QED
        BY <2>3, <3>1, <4>1, <4>2, OnOneTopic
    <3> QED
      BY <1>s, <2>1, <2>2, <3>1, <3>2
  <2>5. CASE ~Restorable(t)
    <3>1. NoTopic /\ UNCHANGED <<live, archive>>
      BY <1>2, <2>5 DEF NoTopic
    <3>2. ASSUME p \in Plans \ cut PROVE Undoable(v.rec, {}, touched[p], base[p], live', archive')
      <4>1. Undoable(w.rec, w.moved, touched[p], base[p], live, archive)
        BY <1>k, <3>2
      <4>2. t \notin Topics \ touched[p]
        BY <1>2, <2>5, <4>1 DEF Undoable, Restores, Gone, Restorable
      <4>3. \A u \in Topics \ touched[p] :
              u # t /\ Restores(w.rec, w.moved, u, base[p][u], live[u], archive[u])
        BY <4>1, <4>2 DEF Undoable
      <4>4. \A u \in Topics \ touched[p] : Restores(v.rec, {}, u, base[p][u], live[u], archive[u])
        BY <1>k, <2>1, <4>3 DEF Restores, Made, Gone, Changed
      <4> QED
        BY <3>1, <4>4 DEF Undoable
    <3> QED
      BY <1>s, <2>1, <2>2, <3>1, <3>2
  <2> QED
    BY <2>4, <2>5
<1>3. ASSUME NEW t \in Present(w.rec.before),
             IF Unchanged(t, w.rec.written[t]) THEN PutBack(t, w.rec.before[t], p) ELSE NoTopic,
             Do("user", [w EXCEPT !.rec.before[t] = 0])
      PROVE  UndoInv'
  <2> DEFINE v == [w EXCEPT !.rec.before[t] = 0]
  <2>0. t \in Topics /\ w.rec.before[t] # 0
    BY DEF Present
  <2>1. /\ v.plan = w.plan /\ v.moved = {} /\ v.st = w.st /\ v.rec.created = w.rec.created
        /\ v.rec.archived = w.rec.archived /\ v.rec.stranded = w.rec.stranded
        /\ v.rec.before = [w.rec.before EXCEPT ![t] = 0] /\ v.rec.written = w.rec.written
    BY <1>f, <1>k
  <2>2. Do("user", v)
    BY <1>3
  <2> HIDE DEF v
  <2>b. v.rec.before[t] = 0 /\ \A u \in Topics : u # t => v.rec.before[u] = w.rec.before[u]
    BY <1>f, <2>0, <2>1
  <2>3. \A u \in Topics : u # t => Alike(w.rec, w.moved, v.rec, {}, u)
    BY <1>k, <2>1, <2>b DEF Alike, Gone
  <2>4. CASE Unchanged(t, w.rec.written[t])
    <3>1. Changes(t, p) /\ live' = [live EXCEPT ![t] = w.rec.before[t]]
      BY <1>3, <2>4, FileOps DEF PutBack
    <3>2. ASSUME p \in Plans \ cut PROVE Undoable(v.rec, {}, touched[p], base[p], live', archive')
      <4>1. Undoable(w.rec, w.moved, touched[p], base[p], live, archive)
        BY <1>k, <3>2
      <4>2. ASSUME t \in Topics \ touched[p]
            PROVE  Restores(v.rec, {}, t, base[p][t], live'[t], archive'[t])
        <5>1. Restores(w.rec, w.moved, t, base[p][t], live[t], archive[t]) /\ Changed(w.rec, t)
          BY <2>0, <4>1, <4>2 DEF Undoable, Changed
        <5>2. live'[t] = w.rec.before[t]
          BY <1>f, <3>1, <4>2
        <5> QED
          BY <1>k, <2>1, <2>b, <5>1, <5>2 DEF Restores, Made, Gone, Changed
      <4> HIDE DEF w, p
      <4> QED
        BY <2>3, <3>1, <4>1, <4>2, OnOneTopic
    <3> QED
      BY <1>s, <2>1, <2>2, <3>1, <3>2
  <2>5. CASE ~Unchanged(t, w.rec.written[t])
    <3>1. NoTopic /\ UNCHANGED <<live, archive>>
      BY <1>3, <2>5 DEF NoTopic
    <3>2. ASSUME p \in Plans \ cut PROVE Undoable(v.rec, {}, touched[p], base[p], live', archive')
      <4>1. Undoable(w.rec, w.moved, touched[p], base[p], live, archive)
        BY <1>k, <3>2
      <4>2. t \notin Topics \ touched[p]
        BY <2>0, <2>5, <4>1 DEF Undoable, Restores, Changed, Unchanged
      <4>3. \A u \in Topics \ touched[p] :
              u # t /\ Restores(w.rec, w.moved, u, base[p][u], live[u], archive[u])
        BY <4>1, <4>2 DEF Undoable
      <4>4. \A u \in Topics \ touched[p] : Restores(v.rec, {}, u, base[p][u], live[u], archive[u])
        BY <1>k, <2>1, <2>b, <4>3 DEF Restores, Made, Gone, Changed
      <4> QED
        BY <3>1, <4>4 DEF Undoable
    <3> QED
      BY <1>s, <2>1, <2>2, <3>1, <3>2
  <2> QED
    BY <2>4, <2>5
<1> QED
  BY <1>1, <1>2, <1>3 DEF UndoStep

\* Others change a topic: it counts as touched for every plan in force.
LEMMA OthersTouch ==
    ASSUME DreamInv, UndoInv, NEW t \in Topics, OtherWrites(t) \/ OtherDeletes(t) \/ OtherRestores(t)
    PROVE  UndoInv'
<1>1. UNCHANGED <<preview, reports, work, base, cut>>
  BY DEF OtherWrites, OtherDeletes, OtherRestores
<1>2. Changes(t, 0)
  <2>1. CASE OtherWrites(t)
    BY <2>1, FileOps DEF OtherWrites
  <2>2. CASE OtherRestores(t)
    BY <2>2, FileOps DEF OtherRestores
  <2>3. CASE OtherDeletes(t)
    BY <2>3 DEF OtherDeletes, Changes, DreamInv, FilesInv
  <2> QED
    BY <2>1, <2>2, <2>3
<1>3. \A q \in Plans : q # 0
  BY DEF Plans
<1>4. ASSUME NEW q \in Plans, InForce(q), NEW rec, NEW moved,
             Undoable(rec, moved, touched[q], base[q], live, archive)
      PROVE  Undoable(rec, moved, touched'[q], base'[q], live', archive')
  BY <1>1, <1>2, <1>3, <1>4, OthersUndoable
<1>5. ASSUME NEW c \in DreamCallers, Busy(work[c]), work[c].plan.id \in Plans \ cut
      PROVE  Undoable(work[c].rec, work[c].moved, touched'[work[c].plan.id], base'[work[c].plan.id],
                      live', archive')
  <2>1. InForce(work[c].plan.id)
    BY <1>5 DEF UndoInv, BusyInv, InForce, Undoes
  <2>2. Undoable(work[c].rec, work[c].moved, touched[work[c].plan.id], base[work[c].plan.id],
                 live, archive)
    BY <1>5 DEF UndoInv, BusyInv
  <2> QED
    BY <1>4, <1>5, <2>1, <2>2
<1>6. BusyInv'
  BY <1>1, <1>5 DEF UndoInv, BusyInv
<1>7. ASSUME NEW q \in Plans \ cut, reports[q].st = "applied"
      PROVE  Undoable(reports[q], {}, touched'[q], base'[q], live', archive')
  BY <1>4, <1>7 DEF UndoInv, ReportInv, InForce
<1>8. ReportInv'
  BY <1>1, <1>7 DEF UndoInv, ReportInv
<1>9. OneTask' /\ NewTargets(preview)' /\ DOMAIN base' = Plans /\ DOMAIN touched' = Plans
  BY <1>1, <1>2 DEF UndoInv, OneTask, Changes, Touch
<1> QED
  BY <1>6, <1>8, <1>9 DEF UndoInv

\* No call is at work outside a task.
LEMMA NoTask ==
    ASSUME ~InTask
    PROVE  \A c \in DreamCallers : ~Busy(work[c])
BY DEF InTask, Busy, Applies, Undoes

\* Steps of calls that touch neither files nor reports.
LEMMA IdleStep ==
    ASSUME UndoInv, ~InTask, UNCHANGED <<live, archive, reports, base, touched, cut>>,
           NewTargets(preview'), \A c \in DreamCallers : ~Busy(work'[c])
    PROVE  UndoInv'
<1>1. \A c \in DreamCallers : ~Applies(work[c])
  BY NoTask DEF Busy
<1>2. ReportInv'
  BY <1>1 DEF UndoInv, ReportInv
<1> QED
  BY <1>2 DEF UndoInv, BusyInv, OneTask

\* A plan is shown the topics, or the preview is thrown away.
LEMMA StartUndoable ==
    ASSUME DreamInv, UndoInv, NEW c \in DreamCallers, StartDream(c) \/ DiscardPreview
    PROVE  UndoInv'
<1>1. CASE StartDream(c)
  <2> DEFINE v == [NoWork EXCEPT !.st = "planning",
                                 !.plan = [id |-> plans + 1, actions |-> <<>>, snapshot |-> live]]
  <2>1. /\ ~InTask /\ UNCHANGED <<live, archive, preview, reports, base, touched, cut>>
        /\ work' = [work EXCEPT ![c] = v]
    BY <1>1 DEF StartDream, Do
  <2>2. v.st = "planning"
    BY DEF NoWork
  <2> HIDE DEF v
  <2>3. \A d \in DreamCallers : ~Busy(work'[d])
    BY <2>1, <2>2, NoTask DEF Busy, Applies, Undoes, DreamInv, CallsStale
  <2>4. NewTargets(preview')
    BY <2>1 DEF UndoInv
  <2> QED
    BY <2>1, <2>3, <2>4, IdleStep
<1>2. CASE DiscardPreview
  <2>1. /\ ~InTask /\ UNCHANGED <<live, archive, reports, base, touched, cut, work>>
        /\ preview' = NoPlan
    BY <1>2 DEF DiscardPreview, ghosts
  <2>2. NewTargets(NoPlan)
    BY DEF NewTargets, NoPlan
  <2> QED
    BY <2>1, <2>2, NoTask, IdleStep
<1> QED
  BY <1>1, <1>2

\* A plan that begins to be applied has done nothing yet.
LEMMA BeginUndoable ==
    ASSUME DreamInv, UndoInv, ~InTask, NEW c \in DreamCallers, NEW plan, NEW b,
           BeginApply(c, plan, b), NewTargets(plan), UNCHANGED <<live, archive, preview, cut>>
    PROVE  UndoInv'
<1> DEFINE v == [NoWork EXCEPT !.st = "applying", !.plan = plan, !.reviewed = b,
                               !.todo = DOMAIN plan.actions, !.rec.st = "applying"]
           r == [NoReport EXCEPT !.st = "applying"]  p == plan.id
<1>1. work' = [work EXCEPT ![c] = v] /\ reports' = [reports EXCEPT ![p] = r]
  BY DEF BeginApply, Do
<1>2. /\ v.st = "applying" /\ v.plan = plan /\ v.todo = DOMAIN plan.actions /\ v.moved = {}
      /\ v.rec.st = "applying" /\ v.rec.created = {} /\ v.rec.archived = {} /\ v.rec.stranded = {}
      /\ v.rec.before = Nothing /\ r.st = "applying"
  <2> HIDE DEF Nothing, NoPlan
  <2> QED
    BY DEF NoWork, NoReport
<1> HIDE DEF v, r
<1>3. DOMAIN work = DreamCallers /\ DOMAIN reports = Plans
  BY DEF DreamInv, CallsStale, ReportsStale
<1>4. work'[c] = v /\ Applies(v) /\ ~Undoes(v) /\ \A d \in DreamCallers : d # c => ~Busy(work'[d])
  BY <1>1, <1>2, <1>3, NoTask DEF Applies, Undoes
<1>5. \A q \in Plans : q # p => /\ reports'[q] = reports[q] /\ base'[q] = base[q]
                                /\ touched'[q] = touched[q]
  BY <1>1, <1>3 DEF BeginApply, UndoInv
<1>6. p \in Plans => reports'[p].st = "applying"
  BY <1>1, <1>2, <1>3
<1>7. p \in Plans \ cut => base'[p] = live
  BY DEF BeginApply, UndoInv
<1>8. \A t \in Topics : Nothing[t] = 0
  BY DEF Nothing
<1>9. CallOK(v)
  BY <1>2, <1>4, <1>8 DEF CallOK, Advanced, NewTargets, Gone, Made, Changed
<1>10. p \in Plans \ cut => Undoable(v.rec, v.moved, touched'[p], base'[p], live', archive')
  BY <1>2, <1>7, <1>8 DEF Undoable, Restores, Made, Gone, Changed
<1>11. BusyInv'
  BY <1>2, <1>4, <1>6, <1>9, <1>10 DEF BusyInv
<1>12. ReportInv'
  <2> SUFFICES ASSUME NEW q \in Plans \ cut
               PROVE  /\ reports'[q].st = "applied" =>
                            Undoable(reports'[q], {}, touched'[q], base'[q], live', archive')
                      /\ reports'[q].st = "applying" =>
                            \E d \in DreamCallers : Applies(work'[d]) /\ work'[d].plan.id = q
    BY DEF ReportInv
  <2>1. CASE q = p
    BY <1>2, <1>4, <1>6, <2>1
  <2>2. CASE q # p
    <3>1. reports[q].st # "applying"
      BY NoTask DEF UndoInv, ReportInv, Busy
    <3> QED
      BY <1>5, <2>2, <3>1 DEF UndoInv, ReportInv
  <2> QED
    BY <2>1, <2>2
<1>13. OneTask' /\ NewTargets(preview)' /\ DOMAIN base' = Plans /\ DOMAIN touched' = Plans
  BY <1>4 DEF UndoInv, OneTask, BeginApply
<1> QED
  BY <1>11, <1>12, <1>13 DEF UndoInv

\* A plan that is kept or applied merges into new topics only.
LEMMA AnswerUndoable ==
    ASSUME DreamInv, UndoInv, NEW c \in DreamCallers, NEW reply, Answered(c, reply)
    PROVE  UndoInv'
<1> DEFINE known == Present(work[c].plan.snapshot)
           actions == Capped(reply, Cardinality(known))
           plan == [work[c].plan EXCEPT !.actions = actions]
<1>1. ~InTask /\ UNCHANGED <<live, archive, cut>>
  BY DEF Answered
<1>2. \/ Do(c, NoWork) /\ UNCHANGED <<preview, reports, base, touched>>
      \/ /\ Valid(plan.actions, known)
         /\ Do(c, NoWork) /\ preview' = plan /\ UNCHANGED <<reports, base, touched>>
      \/ Valid(plan.actions, known) /\ BeginApply(c, plan, FALSE) /\ UNCHANGED preview
  BY DEF Answered
<1> HIDE DEF actions
<1>3. plan.snapshot = work[c].plan.snapshot
  <2>1. PlanFields \subseteq DOMAIN work[c].plan
    BY PaperKnows DEF WorkStale, PlanStale
  <2> QED
    BY <2>1
<1> HIDE DEF plan
<1>4. Valid(plan.actions, known) => NewTargets(plan)
  BY <1>3 DEF Valid, NewTargets
<1>5. NoWork.st = "idle" /\ DOMAIN work = DreamCallers
  BY DEF NoWork, DreamInv, CallsStale
<1>6. Do(c, NoWork) => \A d \in DreamCallers : ~Busy(work'[d])
  <2> HIDE DEF NoWork
  <2> QED
    BY <1>1, <1>5, NoTask DEF Do, Busy, Applies, Undoes
<1>7. NewTargets(preview)
  BY DEF UndoInv
<1> HIDE DEF NoWork, known
<1> QED
  BY <1>1, <1>2, <1>4, <1>6, <1>7, IdleStep, BeginUndoable

\* A call that writes the report of its plan: the other plans' reports and calls stay.
LEMMA ReportWritten ==
    ASSUME DreamInv, UndoInv, NEW c \in DreamCallers, NEW v, NEW r, NEW p,
           UNCHANGED <<live, archive, base, touched, cut>>, NewTargets(preview'),
           \A d \in DreamCallers : d # c => ~Busy(work[d]),
           Do(c, v), reports' = [reports EXCEPT ![p] = r],
           \A q \in Plans \ cut : q # p => reports[q].st # "applying",
           Busy(v) => /\ CallOK(v) /\ v.plan.id = p /\ (Undoes(v) => c = "user")
                      /\ p \in Plans => r.st = IF Undoes(v) THEN "undone" ELSE "applying"
                      /\ p \in Plans \ cut => Undoable(v.rec, v.moved, touched[p], base[p], live, archive),
           p \in Plans \ cut =>
               /\ r.st = "applied" => Undoable(r, {}, touched[p], base[p], live, archive)
               /\ r.st = "applying" => Applies(v) /\ v.plan.id = p
    PROVE  UndoInv'
<1>1. DOMAIN work = DreamCallers /\ DOMAIN reports = Plans
  BY DEF DreamInv, CallsStale, ReportsStale
<1>2. work'[c] = v /\ \A d \in DreamCallers : d # c => ~Busy(work'[d])
  BY <1>1 DEF Do
<1>3. /\ p \in Plans => reports'[p] = r
      /\ \A q \in Plans : q # p => reports'[q] = reports[q]
  BY <1>1
<1>4. BusyInv'
  BY <1>2, <1>3 DEF BusyInv
<1>5. ReportInv'
  <2> SUFFICES ASSUME NEW q \in Plans \ cut
               PROVE  /\ reports'[q].st = "applied" =>
                            Undoable(reports'[q], {}, touched[q], base[q], live, archive)
                      /\ reports'[q].st = "applying" =>
                            \E d \in DreamCallers : Applies(work'[d]) /\ work'[d].plan.id = q
    BY DEF ReportInv
  <2>1. CASE q = p
    BY <1>2, <1>3, <2>1
  <2>2. CASE q # p
    BY <1>3, <2>2 DEF UndoInv, ReportInv
  <2> QED
    BY <2>1, <2>2
<1>6. OneTask' /\ DOMAIN base' = Plans /\ DOMAIN touched' = Plans
  BY <1>2 DEF UndoInv, OneTask
<1> QED
  BY <1>4, <1>5, <1>6 DEF UndoInv

\* Between actions, and at the end, the report says what the call has done.
LEMMA CheckpointUndoable ==
    ASSUME DreamInv, UndoInv, NEW c \in DreamCallers, Checkpoint(c) \/ ApplyEnds(c)
    PROVE  UndoInv'
<1> DEFINE w == work[c]  p == w.plan.id
<1>0. Applies(w)
  BY DEF Checkpoint, ApplyEnds, Applies
<1>k. /\ CallOK(w) /\ Busy(w) /\ ~Undoes(w) /\ NewTargets(w.plan) /\ Advanced(w)
      /\ WorkFields \subseteq DOMAIN w /\ RecFields \subseteq DOMAIN w.rec
      /\ p \in Plans \ cut => Undoable(w.rec, w.moved, touched[p], base[p], live, archive)
  BY <1>0, ApplyKnows
<1>1. \A d \in DreamCallers : d # c => ~Busy(work[d])
  BY <1>k DEF UndoInv, OneTask
<1>2. ASSUME NEW q \in Plans \ cut, q # p PROVE reports[q].st # "applying"
  BY <1>1, <1>2 DEF UndoInv, ReportInv, Busy
<1>m. w.moved = {}
  BY <1>0, <1>k DEF Checkpoint, ApplyEnds, CallOK, Current, Foremost
<1>p. NewTargets(preview) /\ NewTargets(NoPlan)
  BY DEF UndoInv, NewTargets, NoPlan
<1>3. CASE Checkpoint(c)
  <2> DEFINE v == [w EXCEPT !.st = "applying", !.todo = @ \ Foremost(w.plan.actions, @)]
  <2>1. /\ UNCHANGED <<live, archive, base, touched, cut, preview>> /\ Do(c, v)
        /\ reports' = [reports EXCEPT ![p] = w.rec]
    BY <1>3 DEF Checkpoint, ghosts
  <2>2. /\ v.plan = w.plan /\ v.rec = w.rec /\ v.moved = {} /\ v.st = "applying"
        /\ v.todo \subseteq w.todo
    BY <1>k, <1>m
  <2> HIDE DEF v
  <2>3. Applies(v) /\ ~Undoes(v)
    BY <2>2 DEF Applies, Undoes
  <2>4. CallOK(v) /\ w.rec.st = "applying"
    BY <1>0, <1>k, <1>m, <2>2, <2>3 DEF CallOK, Advanced, NewTargets
  <2>5. NewTargets(preview')
    BY <1>p, <2>1
  <2> HIDE DEF w
  <2> QED
    BY <1>k, <1>m, <1>1, <1>2, <2>1, <2>2, <2>3, <2>4, <2>5, ReportWritten DEF w
<1>4. CASE ApplyEnds(c)
  <2> DEFINE r == [w.rec EXCEPT !.st = "applied"]
  <2>1. /\ UNCHANGED <<live, archive, base, touched, cut>> /\ Do(c, NoWork)
        /\ reports' = [reports EXCEPT ![p] = r] /\ preview' \in {preview, NoPlan}
    BY <1>4 DEF ApplyEnds, ghosts
  <2>2. /\ r.st = "applied" /\ r.created = w.rec.created /\ r.archived = w.rec.archived
        /\ r.stranded = w.rec.stranded /\ r.before = w.rec.before /\ r.written = w.rec.written
    BY <1>k
  <2> HIDE DEF r
  <2>3. p \in Plans \ cut => Undoable(r, {}, touched[p], base[p], live, archive)
    BY <1>k, <1>m, <2>2 DEF Undoable, Restores, Made, Gone, Changed
  <2>4. ~Busy(NoWork)
    BY DEF NoWork, Busy, Applies, Undoes
  <2>5. NewTargets(preview')
    BY <1>p, <2>1
  <2> HIDE DEF w, NoWork, NoPlan
  <2> QED
    BY <1>1, <1>2, <2>1, <2>2, <2>3, <2>4, <2>5, ReportWritten
<1> QED
  BY <1>3, <1>4

\* An undo takes the report, and gives it up when nothing of it is left.
LEMMA UndoBeginsAndEnds ==
    ASSUME DreamInv, UndoInv, (\E p \in Plans : Undo(p)) \/ UndoEnds
    PROVE  UndoInv'
<1>u. "user" \in DreamCallers
  BY DEF DreamCallers
<1>d. DOMAIN work = DreamCallers /\ DOMAIN reports = Plans
  BY DEF DreamInv, CallsStale, ReportsStale
<1>w. ~Busy(NoWork)
  BY DEF NoWork, Busy, Applies, Undoes
<1>1. ASSUME NEW p \in Plans, Undo(p) PROVE UndoInv'
  <2> DEFINE v == [NoWork EXCEPT !.st = "undoing", !.plan.id = p, !.rec = reports[p]]
             r == [reports[p] EXCEPT !.st = "undone"]
  <2>1. /\ ~InTask /\ UNCHANGED <<live, archive, base, touched, cut, preview>>
        /\ Do("user", v) /\ reports' = [reports EXCEPT ![p] = r]
        /\ reports[p].st \in {"applying", "applied"}
    BY <1>1 DEF Undo, ghosts
  <2>2. v.plan.id = p /\ v.rec = reports[p] /\ v.moved = {} /\ v.st = "undoing"
    <3> HIDE DEF NoReport, Nothing
    <3> QED
      BY DEF NoWork, NoPlan
  <2>3. r.st = "undone"
    BY PaperKnows DEF RecStale
  <2> HIDE DEF v, r
  <2>4. Undoes(v) /\ ~Applies(v) /\ CallOK(v)
    BY <2>2 DEF Undoes, Applies, CallOK
  <2>5. \A d \in DreamCallers : ~Busy(work[d])
    BY <2>1, NoTask
  <2>6. \A q \in Plans \ cut : reports[q].st # "applying"
    BY <2>5 DEF UndoInv, ReportInv, Busy
  <2>7. p \in Plans \ cut => Undoable(v.rec, v.moved, touched[p], base[p], live, archive)
    BY <2>1, <2>2, <2>6 DEF UndoInv, ReportInv
  <2>8. NewTargets(preview')
    BY <2>1 DEF UndoInv
  <2> QED
    BY <1>u, <2>1, <2>2, <2>3, <2>4, <2>5, <2>6, <2>7, <2>8, ReportWritten
<1>2. CASE UndoEnds
  <2> DEFINE p == work["user"].plan.id
  <2>1. /\ Undoes(work["user"]) /\ UNCHANGED <<live, archive, preview, reports, cut>>
        /\ work' = [work EXCEPT !["user"] = NoWork]
        /\ base' = [base EXCEPT ![p] = Nothing] /\ touched' = [touched EXCEPT ![p] = {}]
    BY <1>2 DEF UndoEnds, Undoes, Do
  <2>2. Busy(work["user"]) /\ p \in Plans /\ reports[p].st = "undone"
    BY <1>u, <2>1 DEF UndoInv, BusyInv, CallOK, Busy
  <2>3. \A d \in DreamCallers : ~Busy(work'[d])
    BY <1>u, <1>d, <1>w, <2>1, <2>2 DEF UndoInv, OneTask
  <2>4. \A d \in DreamCallers : ~Applies(work[d])
    BY <1>u, <2>1, <2>2 DEF UndoInv, OneTask, Busy, Applies, Undoes
  <2>5. \A q \in Plans : q # p => base'[q] = base[q] /\ touched'[q] = touched[q]
    BY <2>1 DEF UndoInv
  <2>6. ReportInv'
    BY <2>1, <2>2, <2>4, <2>5 DEF UndoInv, ReportInv
  <2> QED
    BY <2>1, <2>3, <2>6 DEF UndoInv, BusyInv, OneTask
<1> QED
  BY <1>1, <1>2

\* The user applies the preview, the daemon dies, or nothing happens.
LEMMA OtherUndoable ==
    ASSUME DreamInv, UndoInv, ApplyPreview \/ DreamCrash \/ UNCHANGED dreamVars
    PROVE  UndoInv'
<1>1. CASE ApplyPreview
  <2>1. /\ ~InTask /\ BeginApply("user", preview, TRUE) /\ "user" \in DreamCallers
        /\ UNCHANGED <<live, archive, preview, cut>> /\ NewTargets(preview)
    BY <1>1 DEF ApplyPreview, DreamCallers, UndoInv
  <2> QED
    BY <2>1, BeginUndoable
<1>2. CASE DreamCrash
  <2>1. /\ UNCHANGED <<live, archive, preview, reports, base, touched>>
        /\ work' = [c \in DreamCallers |-> NoWork]
        /\ cut' = cut \cup {work[c].plan.id : c \in {x \in DreamCallers : work[x] # NoWork}}
    BY <1>2 DEF DreamCrash
  <2>2. ~Busy(NoWork)
    BY DEF NoWork, Busy, Applies, Undoes
  <2>3. \A c \in DreamCallers : ~Busy(work'[c])
    BY <2>1, <2>2
  <2>4. \A c \in DreamCallers : Busy(work[c]) => work[c].plan.id \in cut'
    BY <2>1, <2>2
  <2>5. cut \subseteq cut'
    BY <2>1
  <2>6. ReportInv'
    BY <2>1, <2>4, <2>5 DEF UndoInv, ReportInv, Busy
  <2> QED
    BY <2>1, <2>3, <2>6 DEF UndoInv, BusyInv, OneTask
<1>3. CASE UNCHANGED dreamVars
  BY <1>3 DEF dreamVars, ghosts, UndoInv, OneTask, BusyInv, ReportInv
<1> QED
  BY <1>1, <1>2, <1>3

\* Both invariants of consolidation hold at first and after every step.
LEMMA DreamInitInv ==
    ASSUME DreamInit
    PROVE  DreamInv /\ UndoInv
<1>1. DreamInv
  <2>1. /\ contents = Len(InitialTopics) /\ live \in [Topics -> 0..Len(InitialTopics)]
        /\ archive = Nothing /\ fresh = {} /\ preview = NoPlan
        /\ reports = [p \in Plans |-> NoReport] /\ work = [c \in DreamCallers |-> NoWork]
    BY DEF DreamInit
  <2>2. contents \in Nat
    BY <2>1, DreamAssumption
  <2>3. FilesInv
    BY <2>1, <2>2 DEF FilesInv, LaterEditWins, Nothing
  <2>4. /\ PlanStale(NoPlan, fresh, contents) /\ RecStale(NoReport, fresh, contents)
        /\ WorkStale(NoWork, fresh, contents)
    BY <2>1, <2>2, NothingStale
  <2> HIDE DEF NoPlan, NoReport, NoWork
  <2> QED
    BY <2>1, <2>3, <2>4 DEF DreamInv, CallsStale, ReportsStale
<1>2. UndoInv
  <2>1. /\ preview = NoPlan /\ DOMAIN base = Plans /\ DOMAIN touched = Plans
        /\ \A p \in Plans : reports[p] = NoReport
        /\ \A c \in DreamCallers : work[c] = NoWork
    BY DEF DreamInit
  <2>2. ~Busy(NoWork) /\ NoReport.st = "none" /\ NewTargets(NoPlan)
    BY DEF NoWork, Busy, Applies, Undoes, NoReport, NewTargets, NoPlan
  <2> HIDE DEF NoPlan, NoReport, NoWork
  <2> QED
    BY <2>1, <2>2 DEF UndoInv, OneTask, BusyInv, ReportInv
<1> QED
  BY <1>1, <1>2

\* The step of the first, action by action.
LEMMA DreamStepKnown ==
    ASSUME DreamInv, [DreamNext]_dreamVars
    PROVE  DreamInv'
BY OthersKeep, StartKeeps, AnswerKeeps, RewriteKeeps, ArchiveKeeps, SourceKeeps, TargetKeeps,
   RollbackKeeps, CheckpointKeeps, UndoKeeps, OtherDreamStepsKeep
   DEF DreamNext, ApplyStep

\* And of the second.
LEMMA DreamStepUndoable ==
    ASSUME DreamInv, UndoInv, [DreamNext]_dreamVars
    PROVE  UndoInv'
<1>1. ASSUME NEW c \in DreamCallers, ApplyStep(c) PROVE UndoInv'
  BY <1>1, RewriteUndoable, ArchiveUndoable, SourceUndoable, TargetUndoable, RollbackUndoable,
     CheckpointUndoable DEF ApplyStep
<1> QED
  BY <1>1, OthersTouch, StartUndoable, AnswerUndoable, UndoStepUndoable, UndoBeginsAndEnds,
     OtherUndoable DEF DreamNext, DreamCallers

\* What others wrote after the topics were last shown to the model stays
\* (LaterEditWins), for any topics, answers of the model, edits, plans, undos,
\* half-failed merges and crashes.
THEOREM LaterEditsStay == DreamSpec => []LaterEditWins
<1>1. DreamInit => DreamInv
  BY DreamInitInv
<1>2. DreamInv /\ [DreamNext]_dreamVars => DreamInv'
  BY DreamStepKnown
<1>3. DreamInv => LaterEditWins
  BY DEF DreamInv, FilesInv
<1> QED
  BY <1>1, <1>2, <1>3, PTL DEF DreamSpec

\* An undo that no crash came into leaves every topic nobody else changed since as
\* it was when the plan was first applied (UndoRestores), however many plans were
\* applied and undone before and in between.
THEOREM UndoGivesBack == DreamSpec => UndoRestores
<1>1. ASSUME UndoInv, UndoEnds, work["user"].plan.id \notin cut
      PROVE  LET p == work["user"].plan.id IN
             \A t \in Topics \ touched[p] : live[t] = base[p][t]
  <2> DEFINE w == work["user"]  p == w.plan.id
  <2>1. /\ Undoes(w) /\ w.rec.created = {} /\ w.rec.archived = {} /\ w.rec.stranded = {}
        /\ \A t \in Topics : w.rec.before[t] = 0
    BY <1>1 DEF UndoEnds, Undoes, Present
  <2>2. w.moved = {} /\ Undoable(w.rec, w.moved, touched[p], base[p], live, archive)
    BY <1>1, <2>1 DEF UndoInv, BusyInv, CallOK, Busy, DreamCallers
  <2> QED
    BY <2>1, <2>2 DEF Undoable, Restores, Made, Gone, Changed
<1>2. DreamInit => DreamInv /\ UndoInv
  BY DreamInitInv
<1>3. DreamInv /\ UndoInv /\ [DreamNext]_dreamVars => (DreamInv /\ UndoInv)'
  BY DreamStepKnown, DreamStepUndoable
<1>4. UndoInv => [UndoEnds /\ work["user"].plan.id \notin cut =>
                    LET p == work["user"].plan.id IN
                    \A t \in Topics \ touched[p] : live[t] = base[p][t]]_dreamVars
  BY <1>1
<1> QED
  BY <1>2, <1>3, <1>4, PTL DEF DreamSpec, UndoRestores
=============================================================================
