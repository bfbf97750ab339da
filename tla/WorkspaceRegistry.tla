------------------------- MODULE WorkspaceRegistry -------------------------
(***************************************************************************)
(* packages/sidecar/src/server/workspaceRegistry.ts: building, publishing  *)
(* and closing the runtime of each workspace, with callers of ensure(),    *)
(* remove(), stop() and start() interleaving at every await.               *)
(*                                                                         *)
(* A WorkspaceEntry is an object with an identity of its own; entries maps *)
(* a workspace to the entry registered for it.  An entry is free again     *)
(* once its last promise has settled.                                      *)
(***************************************************************************)
EXTENDS Naturals, FiniteSets

CONSTANTS
    Cwds,         \* workspaces
    Callers,      \* concurrent calls of ensure()
    Entries,      \* entry objects
    None,         \* no entry, no workspace
    MaxRemovals,  \* bound: remove() calls that close something
    MaxStops      \* bound: stop() calls

ASSUME NoneAssumption == None \notin Cwds \cup Entries
ASSUME BoundAssumption == MaxRemovals \in Nat /\ MaxStops \in Nat

VARIABLES
    entries,   \* cwd -> the entry registered for it, or None
    objs,      \* entry -> its workspace and how far it is
    callers,   \* caller -> what its ensure() call is waiting for
    stopped,   \* the registry is stopped
    closingAll,\* the disposeAll() in progress, or NotClosing
    removals,  \* remove() calls so far
    stops      \* stop() calls so far

vars == <<entries, objs, callers, stopped, closingAll, removals, stops>>

(* The "closing" of the code is one of three: the constructor still runs,  *)
(* its late runtime is being disposed, or a ready runtime is.              *)
Closing == {"aborting", "discarding", "disposing"}
Free == [cwd |-> None, state |-> "free"]
Objs == [cwd : Cwds, state : {"starting", "ready"} \cup Closing]

Idle == [at |-> "idle", cwd |-> None, on |-> None]
Waiting == {"closingAll", "resume", "again", "build", "close"}
Calls == [at : Waiting \cup {"has"}, cwd : Cwds, on : Entries \cup {None}]

NotClosing == [active |-> FALSE, pending |-> {}, failed |-> FALSE]

Init ==
    /\ entries = [w \in Cwds |-> None]
    /\ objs = [e \in Entries |-> Free]
    /\ callers = [c \in Callers |-> Idle]
    /\ stopped = FALSE
    /\ closingAll = NotClosing
    /\ removals = 0 /\ stops = 0

\* Continuations of settled promises run before the next request is handled.
Quiet == \A c \in Callers : callers[c].at \notin {"resume", "again"}

Goto(c, at, w, e) == callers' = [callers EXCEPT ![c] = [at |-> at, cwd |-> w, on |-> e]]

-----------------------------------------------------------------------------
(* ensure() *)

\* The last, synchronous part of ensure(): use, join, wait for or make the entry.
Lookup(c, w) ==
    \/ /\ entries[w] # None /\ objs[entries[w]].state = "ready"
       /\ Goto(c, "has", w, entries[w])
       /\ UNCHANGED <<entries, objs>>
    \/ /\ entries[w] # None /\ objs[entries[w]].state = "starting"
       /\ Goto(c, "build", w, entries[w])
       /\ UNCHANGED <<entries, objs>>
    \/ /\ entries[w] # None /\ objs[entries[w]].state \in Closing
       /\ Goto(c, "close", w, entries[w])
       /\ UNCHANGED <<entries, objs>>
    \/ /\ entries[w] = None
       /\ \E e \in Entries :
            /\ objs[e] = Free
            /\ objs' = [objs EXCEPT ![e] = [cwd |-> w, state |-> "starting"]]
            /\ entries' = [entries EXCEPT ![w] = e]
            /\ Goto(c, "build", w, e)

\* ensure() from its first line: a stopped registry throws, a closing one is
\* awaited first.
Begin(c, w) ==
    \/ /\ stopped
       /\ callers' = [callers EXCEPT ![c] = Idle]
       /\ UNCHANGED <<entries, objs>>
    \/ /\ ~stopped /\ closingAll.active
       /\ Goto(c, "closingAll", w, None)
       /\ UNCHANGED <<entries, objs>>
    \/ ~stopped /\ ~closingAll.active /\ Lookup(c, w)

Ensure(c, w) ==
    /\ Quiet /\ callers[c] = Idle /\ ~stopped
    /\ Begin(c, w)
    /\ UNCHANGED <<stopped, closingAll, removals, stops>>

\* The entry it waited for has closed: ensure() calls itself again.
EnsureAgain(c) ==
    /\ callers[c].at = "again"
    /\ Begin(c, callers[c].cwd)
    /\ UNCHANGED <<stopped, closingAll, removals, stops>>

\* closingAll has resolved: check stopped once more and go on.
EnsureResumes(c) ==
    /\ callers[c].at = "resume"
    /\ \/ stopped /\ callers' = [callers EXCEPT ![c] = Idle] /\ UNCHANGED <<entries, objs>>
       \/ ~stopped /\ Lookup(c, callers[c].cwd)
    /\ UNCHANGED <<stopped, closingAll, removals, stops>>

\* The handler that got a runtime is done with it.
Release(c) ==
    /\ callers[c].at = "has"
    /\ callers' = [callers EXCEPT ![c] = Idle]
    /\ UNCHANGED <<entries, objs, stopped, closingAll, removals, stops>>

-----------------------------------------------------------------------------
(* The promises settle *)

\* Mutant: a failed close is never reported to those who wait for it.
Settled_DropFailed(e, ok) ==
    [c \in Callers |->
        IF callers[c].on # e \/ callers[c].at = "has" \/ (callers[c].at = "close" /\ ~ok)
        THEN callers[c]
        ELSE IF callers[c].at = "close"
             THEN [at |-> "again", cwd |-> callers[c].cwd, on |-> None]
             ELSE Idle]

\* Callers of ensure() when entry e is gone: those that joined its
\* construction get the error, those that waited for its close try again
\* unless the close failed.
Settled(e, ok) ==
    [c \in Callers |->
        IF callers[c].on # e \/ callers[c].at = "has" THEN callers[c]
        ELSE IF callers[c].at = "close" /\ ok
             THEN [at |-> "again", cwd |-> callers[c].cwd, on |-> None]
             ELSE Idle]

Forget(e) ==
    [w \in Cwds |-> IF entries[w] = e THEN None ELSE entries[w]]

\* An entry's close promise settles: the entry leaves the map either way.
CloseSettles(e, ok) ==
    /\ entries' = Forget(e)
    /\ objs' = [objs EXCEPT ![e] = Free]
    /\ callers' = Settled(e, ok)
    /\ closingAll' = IF e \in closingAll.pending
                     THEN [closingAll EXCEPT !.pending = @ \ {e}, !.failed = @ \/ ~ok]
                     ELSE closingAll
    /\ UNCHANGED <<stopped, removals, stops>>

\* The constructor resolves: publish the runtime to everyone who waits for it,
\* or dispose it when remove() came first.
BuildSucceeds(e) ==
    /\ \/ /\ objs[e].state = "starting"
          /\ objs' = [objs EXCEPT ![e].state = "ready"]
          /\ callers' = [c \in Callers |->
                            IF callers[c].on = e /\ callers[c].at = "build"
                            THEN [callers[c] EXCEPT !.at = "has"] ELSE callers[c]]
       \/ /\ objs[e].state = "aborting"
          /\ objs' = [objs EXCEPT ![e].state = "discarding"]
          /\ UNCHANGED callers
    /\ UNCHANGED <<entries, stopped, closingAll, removals, stops>>

\* The constructor rejects; a close that waits for it rejects with it.
BuildFails(e) ==
    /\ objs[e].state \in {"starting", "aborting"}
    /\ CloseSettles(e, FALSE)

\* The late runtime, or the ready one, has been disposed (or its disposal threw).
Disposed(e, ok) ==
    /\ objs[e].state \in {"discarding", "disposing"}
    /\ CloseSettles(e, ok)

-----------------------------------------------------------------------------
(* remove(), stop(), disposeAll(), start() *)

Closed(e) ==
    IF objs[e].state = "starting" THEN [objs[e] EXCEPT !.state = "aborting"]
    ELSE IF objs[e].state = "ready" THEN [objs[e] EXCEPT !.state = "disposing"]
    ELSE objs[e]

\* Mutant: remove() takes the entry off the map before it is disposed.
Remove_DeleteFirst(w) ==
    /\ Quiet /\ removals < MaxRemovals
    /\ entries[w] # None /\ objs[entries[w]].state \notin Closing
    /\ objs' = [objs EXCEPT ![entries[w]] = Closed(entries[w])]
    /\ entries' = [entries EXCEPT ![w] = None]
    /\ removals' = removals + 1
    /\ UNCHANGED <<callers, stopped, closingAll, stops>>

Remove(w) ==
    /\ Quiet /\ removals < MaxRemovals
    /\ entries[w] # None /\ objs[entries[w]].state \notin Closing
    /\ objs' = [objs EXCEPT ![entries[w]] = Closed(entries[w])]
    /\ removals' = removals + 1
    /\ UNCHANGED <<entries, callers, stopped, closingAll, stops>>

Registered == {entries[w] : w \in Cwds} \ {None}

\* Mutant: stop() closes what is ready and forgets what is still starting.
Stop_ReadyOnly ==
    /\ Quiet /\ stops < MaxStops
    /\ stops' = stops + 1
    /\ stopped' = TRUE
    /\ closingAll' = [active |-> TRUE, failed |-> FALSE,
                      pending |-> {e \in Registered : objs[e].state # "starting"}]
    /\ objs' = [e \in Entries |-> IF objs[e].state = "ready" THEN Closed(e) ELSE objs[e]]
    /\ UNCHANGED <<entries, callers, removals>>

\* stop() -> disposeAll(): close every entry, or join the disposal under way.
Stop ==
    /\ Quiet /\ stops < MaxStops
    /\ stops' = stops + 1
    /\ stopped' = TRUE
    /\ IF closingAll.active
       THEN UNCHANGED <<objs, closingAll>>
       ELSE /\ closingAll' = [active |-> TRUE, pending |-> Registered, failed |-> FALSE]
            /\ objs' = [e \in Entries |-> IF e \in Registered THEN Closed(e) ELSE objs[e]]
    /\ UNCHANGED <<entries, callers, removals>>

\* Every close has settled.
ClosingAllSettles ==
    /\ closingAll.active /\ closingAll.pending = {}
    /\ closingAll' = NotClosing
    /\ callers' = [c \in Callers |->
                      IF callers[c].at # "closingAll" THEN callers[c]
                      ELSE IF closingAll.failed THEN Idle
                      ELSE [callers[c] EXCEPT !.at = "resume"]]
    /\ UNCHANGED <<entries, objs, stopped, removals, stops>>

Start ==
    /\ Quiet /\ stopped /\ stopped' = FALSE
    /\ UNCHANGED <<entries, objs, callers, closingAll, removals, stops>>

Progress ==
    \/ \E c \in Callers : EnsureAgain(c) \/ EnsureResumes(c)
    \/ \E e \in Entries : BuildSucceeds(e) \/ BuildFails(e) \/ \E ok \in BOOLEAN : Disposed(e, ok)
    \/ ClosingAllSettles

Next ==
    \/ \E c \in Callers : (\E w \in Cwds : Ensure(c, w)) \/ Release(c)
    \/ \E w \in Cwds : Remove(w)
    \/ Progress \/ Stop \/ Start

Spec == Init /\ [][Next]_vars

\* Constructors, disposals and promise reactions all come to an end.
FairSpec ==
    /\ Spec
    /\ \A c \in Callers : WF_vars(EnsureAgain(c)) /\ WF_vars(EnsureResumes(c))
    /\ \A e \in Entries : /\ WF_vars(BuildSucceeds(e) \/ BuildFails(e))
                          /\ WF_vars(\E ok \in BOOLEAN : Disposed(e, ok))
    /\ WF_vars(ClosingAllSettles)

-----------------------------------------------------------------------------
(* Properties *)

\* A workspace never has two runtimes under construction, in use or being
\* disposed: a new one is built only after the old one is gone.
OneRuntimePerWorkspace ==
    \A e, f \in Entries :
        (objs[e] # Free /\ objs[f] # Free /\ objs[e].cwd = objs[f].cwd) => e = f

\* Once stop() has completed and until the next start(), no runtime is alive,
\* constructors that finished late included.
NothingSurvivesStop ==
    (stopped /\ ~closingAll.active) => \A e \in Entries : objs[e] = Free

\* Every ensure() call is answered: callers that wait for a close, for a
\* constructor and for closingAll never wait for each other.
EnsureAnswered ==
    \A c \in Callers : (callers[c].at \in Waiting) ~> (callers[c].at \notin Waiting)
=============================================================================
