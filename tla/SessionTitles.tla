---------------------------- MODULE SessionTitles ----------------------------
(***************************************************************************)
(* The title of one session and who gave it                                *)
(* (packages/sidecar/src/runtime/session/sessionRegistry.ts:658-817): the  *)
(* user renames, the summarizer and the first message propose, a list of   *)
(* sessions reads.  Title and source are two records of the session's file *)
(* and two caches, filled by a scan of the file.                           *)
(*                                                                         *)
(* Of the awaits, the scan of the file is the one that gives way to other   *)
(* calls.  pi (external) appends records in the order they are asked for,  *)
(* so a call's two records and its caches are written in one step.         *)
(***************************************************************************)
CONSTANT Writers   \* concurrent calls, and the names they give

VARIABLES
    disk,     \* the last name and titleSource in the file
    cache,    \* _nameCache and _titleSourceCache, or cold
    title     \* writer -> its call

titleVars == <<disk, cache, title>>

Kinds == {"user", "summary", "placeholder", "list"}
Cold == [name |-> "untitled", source |-> "cold"]
NoTitle == [name |-> "untitled", source |-> "none"]
NoWrite == [kind |-> "none", scan |-> Cold]

TitlesInit ==
    /\ disk = NoTitle /\ cache = Cold
    /\ title = [w \in Writers |-> NoWrite]

\* A call of renameSession, setSummaryTitle, setPlaceholderTitle or listSessions.
StartTitle(w, kind) ==
    /\ title[w] = NoWrite
    /\ title' = [title EXCEPT ![w].kind = kind]
    /\ UNCHANGED <<disk, cache>>

\* getSessionName and getTitleSource of a cold cache: hydrateSessionMetadata scans
\* the file and, when that is done, fills the caches with what it saw.
Scan(w) ==
    /\ title[w].kind # "none" /\ cache = Cold /\ title[w].scan = Cold
    /\ title' = [title EXCEPT ![w].scan = disk]
    /\ UNCHANGED <<disk, cache>>

Hydrate(w) ==
    /\ title[w].scan # Cold
    /\ cache' = title[w].scan
    /\ title' = [title EXCEPT ![w].scan = Cold]
    /\ UNCHANGED disk

\* Whether a title of this kind may replace the one that is known.
MayReplace(kind, known) ==
    CASE kind = "user" -> TRUE
      [] kind = "summary" -> known.source # "user"
      [] kind = "placeholder" -> known.name = "untitled" \/ known.source = "placeholder"
      [] kind = "list" -> FALSE

\* renameSession, setSummaryTitle or setPlaceholderTitle, and writeTitle, with
\* warm caches.  The names of different calls differ.
Write(w) ==
    LET new == [name |-> w, source |-> title[w].kind] IN
        /\ title[w].kind # "none" /\ cache # Cold /\ title[w].scan = Cold
        /\ disk' = IF MayReplace(title[w].kind, cache) THEN new ELSE disk
        /\ cache' = IF MayReplace(title[w].kind, cache) THEN new ELSE cache
        /\ title' = [title EXCEPT ![w] = NoWrite]

\* invalidateListCache, when some session is created or deleted.
Invalidate ==
    /\ cache # Cold
    /\ cache' = Cold
    /\ UNCHANGED <<disk, title>>

TitlesNext ==
    \/ \E w \in Writers :
        \/ \E kind \in Kinds : StartTitle(w, kind)
        \/ Scan(w) \/ Hydrate(w) \/ Write(w)
    \/ Invalidate

TitlesSpec == TitlesInit /\ [][TitlesNext]_titleVars

----------------------------------------------------------------------------

\* "An explicit rename is permanent" (setSummaryTitle): once the user's title is in
\* the file, no title of another source replaces it.
RenamePermanent ==
    [][disk.source = "user" => disk'.source = "user"]_titleVars
=============================================================================
