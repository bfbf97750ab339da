---------------------------- MODULE MemoryDream ----------------------------
(***************************************************************************)
(* Consolidating a workspace's memory topics                               *)
(* (packages/sidecar/src/memory/dream/consolidator.ts, dreamPlan.ts,       *)
(* dreamState.ts, memory/local/store.ts, server/handlers/memory.ts).       *)
(*                                                                         *)
(* A run reads the topics, asks a model for a plan and, much later, checks *)
(* the plan and keeps it as a preview or applies it.  An applied plan can  *)
(* be undone from its report.  The store's file operations are synchronous,*)
(* so an apply or an undo is one task of the daemon; files that tools, the *)
(* extractor or an editor write, and a crash, still come between its steps.*)
(*                                                                         *)
(* A content is a number, given to it when it is written.  Left out: the   *)
(* time and churn gates and the backoff (a scheduled run may start at any  *)
(* time), the prompt and the parsing of its answer, and usage times.       *)
(***************************************************************************)
EXTENDS Naturals, Sequences, FiniteSets
LOCAL INSTANCE SequencesExt

CONSTANTS
    Topics,           \* topic ids
    InitialTopics,    \* those that exist at first, in the order of their contents
    StaleTopics,      \* those idle for so long that a plan may just archive them
    Replies,          \* what the model may answer: sequences of actions
    MinTopics,        \* MIN_TOPICS
    RetirementFloor,  \* the least a plan may retire
    MaxPlans,         \* bound: runs that reach the model
    MaxEdits,         \* bound: topics written, deleted or restored by others
    MaxDreamCrashes   \* bound: crashes

ASSUME DreamAssumption ==
    /\ IsFiniteSet(Topics) /\ InitialTopics \in Seq(Topics)
    /\ {MinTopics, RetirementFloor, MaxPlans, MaxEdits, MaxDreamCrashes} \subseteq Nat

VARIABLES
    live,       \* topic -> content of <id>.md, 0 when there is none
    archive,    \* topic -> content of archive/<id>.md
    history,    \* contents kept under archive/history
    confirmed,  \* the user has applied a preview
    preview,    \* .dream/pending.json
    reports,    \* plan -> .dream/reports/<plan>.json
    dreamLock,  \* .dream/lock: free, the caller who has it, or left by a crash
    work,       \* caller -> its call
    contents, plans, edits, dreamCrashes,    \* counters
    base,       \* plan -> the topics when it was first applied
    touched,    \* plan -> topics others changed since then
    cut,        \* plans whose apply or undo a crash interrupted
    fresh       \* contents others wrote after the last snapshot and still want

ghosts == <<base, touched, cut, fresh>>
counters == <<contents, plans, edits, dreamCrashes>>
dreamVars == <<live, archive, history, confirmed, preview, reports, dreamLock, work,
               counters, ghosts>>

DreamCallers == {"schedule", "user"}
Plans == 1..MaxPlans
Nothing == [t \in Topics |-> 0]
Present(topics) == {t \in Topics : topics[t] # 0}

NoPlan == [id |-> 0, actions |-> <<>>, snapshot |-> Nothing]
NoReport == [st |-> "none", created |-> {}, archived |-> {}, stranded |-> {},
             before |-> Nothing, written |-> Nothing]
NoWork == [st |-> "idle", plan |-> NoPlan, reviewed |-> FALSE, todo |-> {},
           moved |-> {}, failed |-> FALSE, rec |-> NoReport]

DreamInit ==
    /\ live \in [Topics -> 0..Len(InitialTopics)]
    /\ \A t \in Topics : LET at == {i \in DOMAIN InitialTopics : InitialTopics[i] = t}
                         IN  live[t] \in IF at = {} THEN {0} ELSE at
    /\ archive = Nothing /\ history = {}
    /\ confirmed = FALSE
    /\ preview = NoPlan /\ reports = [p \in Plans |-> NoReport]
    /\ dreamLock = "free" /\ work = [c \in DreamCallers |-> NoWork]
    /\ contents = Len(InitialTopics)
    /\ plans = 0 /\ edits = 0 /\ dreamCrashes = 0
    /\ base = [p \in Plans |-> Nothing] /\ touched = [p \in Plans |-> {}]
    /\ cut = {} /\ fresh = {}

\* An apply or an undo is under way: the daemon handles nothing else.
InTask == \E c \in DreamCallers : work[c].st \in {"applying", "recording", "undoing"}

----------------------------------------------------------------------------
(* dreamPlan.ts.  An action is a merge of some sources into a new topic, a  *)
(* rewrite, or an archive that may name the topic that has its fact.       *)

Merge(sources, id) == [kind |-> "merge", id |-> id, sources |-> sources, by |-> "none"]
Rewrite(id) == [kind |-> "rewrite", id |-> id, sources |-> {}, by |-> "none"]
Archive(id, by) == [kind |-> "archive", id |-> id, sources |-> {}, by |-> by]

Retires(action) ==
    CASE action.kind = "merge" -> action.sources
      [] action.kind = "rewrite" -> {}
      [] action.kind = "archive" -> {action.id}
Claims(action) == IF action.kind = "merge" THEN action.sources ELSE {action.id}
Targets(actions) == {a.id : a \in {x \in ToSet(actions) : x.kind = "merge"}}
Retired(actions) == UNION {Retires(a) : a \in ToSet(actions)}

\* retirementCap, with a ratio of three tenths.
RetirementCap(n) == IF (3 * n) \div 10 > RetirementFloor THEN (3 * n) \div 10 ELSE RetirementFloor
Retirements(actions) == FoldLeft(LAMBDA n, a : n + Cardinality(Retires(a)), 0, actions)

\* capRetirement: archives go, the last first, and then merges.
WithoutLast(actions, kind, cap) ==
    LET drop(a, s) == IF a.kind = kind /\ s.left > cap
                      THEN [s EXCEPT !.left = @ - Cardinality(Retires(a))]
                      ELSE [s EXCEPT !.kept = <<a>> \o @]
    IN FoldRight(drop, actions, [kept |-> <<>>, left |-> Retirements(actions)]).kept
Capped(actions, n) ==
    WithoutLast(WithoutLast(actions, "archive", RetirementCap(n)), "merge", RetirementCap(n))

\* validateDreamPlan: every action fits the topics the model was shown.
Survives(id, actions, known) ==
    id \in Targets(actions) \/ (id \in known /\ id \notin Retired(actions))
Valid(actions, known) ==
    /\ \A i \in DOMAIN actions : LET a == actions[i] IN
        /\ Claims(a) \subseteq known
        /\ \A j \in DOMAIN actions : j # i => Claims(a) \cap Claims(actions[j]) = {}
        /\ a.kind = "merge" =>
            /\ Cardinality(a.sources) >= 2 /\ a.id \notin known
            /\ \A j \in DOMAIN actions :
                j # i /\ actions[j].kind = "merge" => actions[j].id # a.id
        /\ a.kind = "archive" /\ a.id \notin StaleTopics => Survives(a.by, actions, known)
    /\ Retirements(actions) <= RetirementCap(Cardinality(known))

\* Merges, then rewrites, then archives: the next of the actions at these places.
Order(action) ==
    CASE action.kind = "merge" -> 0 [] action.kind = "rewrite" -> 1 [] action.kind = "archive" -> 2
Foremost(actions, todo) ==
    {i \in todo : \A j \in todo \ {i} :
        \/ Order(actions[i]) < Order(actions[j])
        \/ Order(actions[i]) = Order(actions[j]) /\ i < j}

----------------------------------------------------------------------------
(* memory/local/store.ts: what a step of plan p does to one topic.         *)

\* A plan in force: it has been applied and its undo is not over.
InForce(p) ==
    \/ reports[p].st \in {"applying", "applied"}
    \/ work["user"].st = "undoing" /\ work["user"].plan.id = p
Touch(t, p) == touched' = [q \in Plans |-> IF InForce(q) /\ q # p THEN touched[q] \cup {t}
                                            ELSE touched[q]]

\* A bug: the content is not compared with the one the caller knows.
Unchanged_Exists(t, expected) == live[t] # 0
\* The compare of archiveTopic, updateTopic and deleteTopic: the topic is there
\* with the content the caller expects.
Unchanged(t, expected) == live[t] # 0 /\ live[t] = expected

\* archiveTopic: the copy an earlier archive left goes to the history.
ArchiveTopic(t, p) ==
    /\ archive' = [archive EXCEPT ![t] = live[t]]
    /\ history' = history \cup ({archive[t]} \ {0})
    /\ live' = [live EXCEPT ![t] = 0]
    /\ Touch(t, p)
    /\ UNCHANGED contents

\* restoreTopic: refused when nothing is archived or a live topic has the id.
Restorable(t) == archive[t] # 0 /\ live[t] = 0
RestoreTopic(t, p) ==
    /\ live' = [live EXCEPT ![t] = archive[t]]
    /\ archive' = [archive EXCEPT ![t] = 0]
    /\ Touch(t, p)
    /\ UNCHANGED <<history, contents>>

\* appendEntry and updateTopic, with a new content.
WriteTopic(t, p) ==
    /\ contents' = contents + 1
    /\ live' = [live EXCEPT ![t] = contents + 1]
    /\ Touch(t, p)
    /\ UNCHANGED <<archive, history>>

\* updateTopic with a content that was there before.
PutBack(t, content, p) ==
    /\ live' = [live EXCEPT ![t] = content]
    /\ Touch(t, p)
    /\ UNCHANGED <<archive, history, contents>>

NoTopic == UNCHANGED <<live, archive, history, contents, touched>>

----------------------------------------------------------------------------
(* Others change topics: the memory tool, the extractor, file tools, the user. *)

OtherWrites(t) ==
    /\ edits < MaxEdits /\ edits' = edits + 1
    /\ WriteTopic(t, 0)
    /\ fresh' = (fresh \ {live[t]}) \cup {contents + 1}
    /\ UNCHANGED <<confirmed, preview, reports, dreamLock, work, plans, dreamCrashes, base, cut>>

OtherDeletes(t) ==
    /\ edits < MaxEdits /\ edits' = edits + 1
    /\ live[t] # 0
    /\ live' = [live EXCEPT ![t] = 0]
    /\ Touch(t, 0)
    /\ fresh' = fresh \ {live[t]}
    /\ UNCHANGED <<archive, history, confirmed, preview, reports, dreamLock, work, contents,
                   plans, dreamCrashes, base, cut>>

\* memoryRestoreTopic.
OtherRestores(t) ==
    /\ edits < MaxEdits /\ edits' = edits + 1
    /\ ~InTask /\ Restorable(t)
    /\ RestoreTopic(t, 0)
    /\ UNCHANGED <<confirmed, preview, reports, dreamLock, work, plans, dreamCrashes,
                   base, cut, fresh>>

----------------------------------------------------------------------------
(* runDream *)

\* tryAcquireDreamLock: a lock whose holder is dead is removed first.
Acquirable == dreamLock \in {"free", "dead"}
Do(c, w) == work' = [work EXCEPT ![c] = w]

\* The topics are read, the lock is taken and the model is asked.  A scheduled run
\* does not replace a preview that waits.
StartDream(c) ==
    /\ ~InTask /\ work[c] = NoWork /\ Acquirable
    /\ Cardinality(Present(live)) >= MinTopics
    /\ c = "schedule" => preview = NoPlan
    /\ plans < MaxPlans /\ plans' = plans + 1
    /\ dreamLock' = c
    /\ Do(c, [NoWork EXCEPT !.st = "planning",
                            !.plan = [id |-> plans + 1, actions |-> <<>>, snapshot |-> live]])
    /\ fresh' = {}
    /\ UNCHANGED <<live, archive, history, confirmed, preview, reports, contents, edits,
                   dreamCrashes, base, touched, cut>>

\* applyPlan up to its loop: an empty report is written.
BeginApply(c, plan, isReviewed) ==
    /\ Do(c, [NoWork EXCEPT !.st = "applying", !.plan = plan, !.reviewed = isReviewed,
                            !.todo = DOMAIN plan.actions, !.rec.st = "applying"])
    /\ reports' = [reports EXCEPT ![plan.id] = [NoReport EXCEPT !.st = "applying"]]
    /\ IF plan.id \in cut THEN UNCHANGED <<base, touched>>
       ELSE /\ base' = [base EXCEPT ![plan.id] = live]
            /\ touched' = [touched EXCEPT ![plan.id] = {}]

\* The model answers.  Its plan is trimmed and checked; a plan with nothing to do,
\* an invalid one and no answer at all give the lock back.  A plan the user asked
\* for, and every plan of a workspace he never confirmed, is kept as a preview.
Answered(c, reply) ==
    LET known == Present(work[c].plan.snapshot)
        plan == [work[c].plan EXCEPT !.actions = Capped(reply, Cardinality(known))]
    IN
    /\ ~InTask /\ work[c].st = "planning"
    /\ \/ /\ plan.actions = <<>> \/ ~Valid(plan.actions, known)
          /\ Do(c, NoWork) /\ dreamLock' = "free"
          /\ UNCHANGED <<preview, reports, base, touched>>
       \/ /\ plan.actions # <<>> /\ Valid(plan.actions, known)
          /\ c = "user" \/ ~confirmed
          /\ Do(c, NoWork) /\ dreamLock' = "free"
          /\ preview' = plan
          /\ UNCHANGED <<reports, base, touched>>
       \/ /\ plan.actions # <<>> /\ Valid(plan.actions, known)
          /\ c = "schedule" /\ confirmed
          /\ BeginApply(c, plan, FALSE)
          /\ UNCHANGED <<dreamLock, preview>>
    /\ UNCHANGED <<live, archive, history, confirmed, counters, cut, fresh>>

\* applyPendingDream of the preview the user looked at.
ApplyPreview ==
    /\ ~InTask /\ work["user"] = NoWork /\ preview # NoPlan /\ Acquirable
    /\ dreamLock' = "user"
    /\ BeginApply("user", preview, TRUE)
    /\ UNCHANGED <<live, archive, history, confirmed, preview, counters, cut, fresh>>

\* discardPendingDream.
DiscardPreview ==
    /\ ~InTask /\ preview # NoPlan /\ Acquirable
    /\ preview' = NoPlan /\ dreamLock' = "free"
    /\ UNCHANGED <<live, archive, history, confirmed, reports, work, counters, ghosts>>

----------------------------------------------------------------------------
(* applyPlan: one step per file operation and one per checkpoint.          *)

Rest == UNCHANGED <<confirmed, preview, reports, dreamLock, plans, edits, dreamCrashes,
                    base, cut, fresh>>

\* The action is over, with this record, and the checkpoint comes next.
Over(c, rec) ==
    Do(c, [work[c] EXCEPT !.st = "recording", !.rec = rec, !.moved = {}, !.failed = FALSE])

\* The action the loop of a call is at.
Current(w) == {w.plan.actions[i] : i \in Foremost(w.plan.actions, w.todo)}

ApplyRewrite(c, a) ==
    LET w == work[c]  t == a.id  expected == w.plan.snapshot[t] IN
    /\ w.st = "applying" /\ a.kind = "rewrite"
    /\ IF Unchanged(t, expected)
       THEN /\ WriteTopic(t, w.plan.id)
            /\ Over(c, [w.rec EXCEPT !.before[t] = expected, !.written[t] = contents + 1])
       ELSE NoTopic /\ Over(c, w.rec)
    /\ Rest

\* An archive in favour of a merge that was skipped is skipped, too.
ApplyArchive(c, a) ==
    LET w == work[c]  t == a.id IN
    /\ w.st = "applying" /\ a.kind = "archive"
    /\ IF /\ a.by \in Targets(w.plan.actions) => a.by \in w.rec.created
          /\ Unchanged(t, w.plan.snapshot[t])
       THEN ArchiveTopic(t, w.plan.id) /\ Over(c, [w.rec EXCEPT !.archived = @ \cup {t}])
       ELSE NoTopic /\ Over(c, w.rec)
    /\ Rest

\* A merge moves its sources away one after the other.
MergeSource(c, a, t) ==
    LET w == work[c] IN
    /\ w.st = "applying" /\ a.kind = "merge" /\ ~w.failed
    /\ t \in a.sources \ w.moved
    /\ IF Unchanged(t, w.plan.snapshot[t])
       THEN ArchiveTopic(t, w.plan.id) /\ Do(c, [w EXCEPT !.moved = @ \cup {t}])
       ELSE NoTopic /\ Do(c, [w EXCEPT !.failed = TRUE])
    /\ Rest

\* A bug: the sources are not put into the record.
Merged_TargetOnly(rec, moved, t) == [rec EXCEPT !.created = @ \cup {t}, !.written[t] = contents + 1]
Merged(rec, moved, t) ==
    [rec EXCEPT !.created = @ \cup {t}, !.written[t] = contents + 1, !.archived = @ \cup moved]

\* The merged topic is added, unless its id has been taken meanwhile.
MergeTarget(c, a) ==
    LET w == work[c]  t == a.id IN
    /\ w.st = "applying" /\ a.kind = "merge" /\ ~w.failed
    /\ w.moved = a.sources
    /\ IF live[t] = 0
       THEN WriteTopic(t, w.plan.id) /\ Over(c, Merged(w.rec, w.moved, t))
       ELSE NoTopic /\ Do(c, [w EXCEPT !.failed = TRUE])
    /\ Rest

\* A merge that failed puts back the sources it moved; one that cannot be put
\* back is recorded as stranded.
MergeRollback(c) ==
    LET w == work[c] IN
    /\ w.st = "applying" /\ w.failed
    /\ \/ \E t \in w.moved :
            IF Restorable(t)
            THEN RestoreTopic(t, w.plan.id) /\ Do(c, [w EXCEPT !.moved = @ \ {t}])
            ELSE NoTopic /\ Do(c, [w EXCEPT !.moved = @ \ {t}, !.rec.stranded = @ \cup {t}])
       \/ w.moved = {} /\ NoTopic /\ Over(c, w.rec)
    /\ Rest

Checkpoint(c) ==
    LET w == work[c] IN
    /\ w.st = "recording"
    /\ reports' = [reports EXCEPT ![w.plan.id] = w.rec]
    /\ Do(c, [w EXCEPT !.st = "applying", !.todo = @ \ Foremost(w.plan.actions, @)])
    /\ UNCHANGED <<live, archive, history, confirmed, preview, dreamLock, counters, ghosts>>

\* The final report; a reviewed plan confirms the workspace.
ApplyEnds(c) ==
    LET w == work[c] IN
    /\ w.st = "applying" /\ w.todo = {}
    /\ reports' = [reports EXCEPT ![w.plan.id] = [w.rec EXCEPT !.st = "applied"]]
    /\ preview' = IF w.reviewed THEN NoPlan ELSE preview
    /\ confirmed' = (confirmed \/ w.reviewed)
    /\ Do(c, NoWork) /\ dreamLock' = "free"
    /\ UNCHANGED <<live, archive, history, counters, ghosts>>

----------------------------------------------------------------------------
(* undoDreamReport *)

\* The report is marked before anything is changed.
Undo(p) ==
    /\ ~InTask /\ work["user"] = NoWork /\ Acquirable
    /\ reports[p].st \in {"applying", "applied"}
    /\ reports' = [reports EXCEPT ![p].st = "undone"]
    /\ dreamLock' = "user"
    /\ Do("user", [NoWork EXCEPT !.st = "undoing", !.plan.id = p, !.rec = reports[p]])
    /\ UNCHANGED <<live, archive, history, confirmed, preview, counters, ghosts>>

\* What the plan created goes first, then what it archived comes back, and then
\* what it rewrote; a topic that is not as the plan left it is passed over.
UndoStep ==
    LET w == work["user"]  rec == w.rec  p == w.plan.id IN
    /\ w.st = "undoing"
    /\ \/ \E t \in rec.created :
            /\ IF Unchanged(t, rec.written[t]) THEN ArchiveTopic(t, p) ELSE NoTopic
            /\ Do("user", [w EXCEPT !.rec.created = @ \ {t}])
       \/ \E t \in rec.archived \cup rec.stranded :
            /\ rec.created = {}
            /\ IF Restorable(t) THEN RestoreTopic(t, p) ELSE NoTopic
            /\ Do("user", [w EXCEPT !.rec.archived = @ \ {t}, !.rec.stranded = @ \ {t}])
       \/ \E t \in Present(rec.before) :
            /\ rec.created = {} /\ rec.archived \cup rec.stranded = {}
            /\ IF Unchanged(t, rec.written[t]) THEN PutBack(t, rec.before[t], p) ELSE NoTopic
            /\ Do("user", [w EXCEPT !.rec.before[t] = 0])
    /\ Rest

UndoEnds ==
    LET w == work["user"] IN
    /\ w.st = "undoing"
    /\ w.rec.created \cup w.rec.archived \cup w.rec.stranded \cup Present(w.rec.before) = {}
    /\ Do("user", NoWork) /\ dreamLock' = "free"
    /\ base' = [base EXCEPT ![w.plan.id] = Nothing]
    /\ touched' = [touched EXCEPT ![w.plan.id] = {}]
    /\ UNCHANGED <<live, archive, history, confirmed, preview, reports, counters, cut, fresh>>

----------------------------------------------------------------------------

\* The daemon dies, wherever it is.
DreamCrash ==
    /\ dreamCrashes < MaxDreamCrashes /\ dreamCrashes' = dreamCrashes + 1
    /\ \E c \in DreamCallers : work[c] # NoWork
    /\ cut' = cut \cup {work[c].plan.id : c \in {x \in DreamCallers : work[x] # NoWork}}
    /\ dreamLock' = "dead"
    /\ work' = [c \in DreamCallers |-> NoWork]
    /\ UNCHANGED <<live, archive, history, confirmed, preview, reports, contents, plans, edits,
                   base, touched, fresh>>

ApplyStep(c) ==
    \/ \E a \in Current(work[c]) :
        ApplyRewrite(c, a) \/ ApplyArchive(c, a) \/ (\E t \in Topics : MergeSource(c, a, t))
        \/ MergeTarget(c, a)
    \/ MergeRollback(c) \/ Checkpoint(c) \/ ApplyEnds(c)

DreamNext ==
    \/ \E t \in Topics : OtherWrites(t) \/ OtherDeletes(t) \/ OtherRestores(t)
    \/ \E c \in DreamCallers :
        StartDream(c) \/ (\E reply \in Replies : Answered(c, reply)) \/ ApplyStep(c)
    \/ ApplyPreview \/ DiscardPreview \/ (\E p \in Plans : Undo(p)) \/ UndoStep \/ UndoEnds
    \/ DreamCrash

DreamSpec == DreamInit /\ [][DreamNext]_dreamVars

----------------------------------------------------------------------------

\* What others wrote after the topics were last shown to the model is still there
\* unless they changed it themselves: not a plan made hours before, not the undo of
\* one, and not a merge that fails half-way replaces or retires it
\* (consolidator.ts:473-475, "skipped rather than allowed to win").
LaterEditWins == fresh \subseteq {live[t] : t \in Topics}

\* Undoing a plan whose application came to its end leaves every topic that nobody
\* else changed since as it was before: sources of merges that landed and of merges
\* that were skipped, archived and rewritten ones, and no merged topic is left
\* (consolidator.ts:606-608).
UndoRestores ==
    [][UndoEnds /\ work["user"].plan.id \notin cut =>
        LET p == work["user"].plan.id IN
        \A t \in Topics \ touched[p] : live[t] = base[p][t]]_dreamVars
=============================================================================
