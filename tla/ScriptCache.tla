----------------------------- MODULE ScriptCache -----------------------------
(***************************************************************************)
(* The Lua rule kept in memory (internal/engine/lua_engine.go): loaded     *)
(* when the engine starts and again on every write event of the watched    *)
(* file.  The watch begins after the first load and is on the file, not on *)
(* its directory: an editor that moves the file away or replaces it ends   *)
(* it.                                                                     *)
(*                                                                         *)
(* The content of a file is the number of a complete version, or Partial   *)
(* for what an editor leaves while it writes in place: an empty file or    *)
(* the beginning of a rule.                                                *)
(* Bound: MaxEdits edits.                                                  *)
(***************************************************************************)
EXTENDS Naturals

CONSTANT MaxEdits

ASSUME EditAssumption == MaxEdits \in Nat

VARIABLES
    file,     \* the content of the rule file
    present,  \* there is a file of that name
    watch,    \* of fsnotify on it: "none" yet, "on" or "ended"
    event,    \* a write event waits for the watching goroutine
    loading,  \* the goroutine has read the file and holds ScriptMutex
    data,     \* what it read
    cache,    \* ScriptCache
    missed,   \* an edit came before the watch, and nothing has loaded the file since
    edits     \* how many edits were begun

vars == <<file, present, watch, event, loading, data, cache, missed, edits>>

Partial == 0
Content == Partial .. MaxEdits + 1

ContentOK ==
    /\ file \in Content /\ data \in Content /\ cache \in Content
    /\ edits \in 0 .. MaxEdits

FlagsOK ==
    /\ present \in BOOLEAN /\ missed \in BOOLEAN
    /\ event \in BOOLEAN /\ loading \in BOOLEAN

TypeOK == ContentOK /\ FlagsOK /\ watch \in {"none", "on", "ended"}

Init ==
    /\ file = 1 /\ present = TRUE
    /\ cache = file /\ data = file
    /\ watch = "none" /\ missed = FALSE
    /\ event = FALSE /\ loading = FALSE
    /\ edits = 0

-----------------------------------------------------------------------------
(* Editors.                                                                *)

BeginEdit == edits < MaxEdits /\ edits' = edits + 1

\* Mutation: writes that come during a reload are taken for part of the one it serves.
EventAfterWrite_Debounced == event \/ (watch = "on" /\ ~loading)

EventAfterWrite == event \/ watch = "on"

\* The loop takes no notice of the event that tells that the watched file is gone.
WatchEnds == watch' = IF watch = "on" THEN "ended" ELSE watch

\* One opens the file for writing, which truncates it, ...
Truncate ==
    /\ present /\ file # Partial
    /\ BeginEdit
    /\ file' = Partial
    /\ event' = EventAfterWrite
    /\ UNCHANGED <<present, watch, loading, data, cache, missed>>

\* ... and writes the new version.
Write ==
    /\ present /\ file = Partial
    /\ file' = edits + 1
    /\ event' = EventAfterWrite
    /\ UNCHANGED <<present, watch, loading, data, cache, missed, edits>>

\* One renames a new file over it.
Replace ==
    /\ present
    /\ BeginEdit
    /\ file' = edits' + 1
    /\ WatchEnds
    /\ UNCHANGED <<present, event, loading, data, cache, missed>>

\* One moves it away first, for a backup, ...
MoveAway ==
    /\ present
    /\ BeginEdit
    /\ present' = FALSE
    /\ WatchEnds
    /\ UNCHANGED <<file, event, loading, data, cache, missed>>

\* ... and creates the new one.
Create ==
    /\ ~present
    /\ present' = TRUE
    /\ file' = edits + 1
    /\ UNCHANGED <<watch, event, loading, data, cache, missed, edits>>

Edit == Truncate \/ Write \/ Replace \/ MoveAway \/ Create

-----------------------------------------------------------------------------
(* The engine.                                                             *)

\* reloadScript, up to os.ReadFile, which succeeds on a truncated file.
ReadRule ==
    /\ event /\ ~loading /\ present
    /\ loading' = TRUE
    /\ data' = file
    /\ event' = FALSE /\ missed' = FALSE
    /\ UNCHANGED <<file, present, watch, cache, edits>>

\* There is no file: the rule in memory stays.
ReadFails ==
    /\ event /\ ~loading /\ ~present
    /\ event' = FALSE
    /\ UNCHANGED <<file, present, watch, loading, data, cache, missed, edits>>

\* Mutation: the rule is loaded only once.
LoadedScript_Once == cache

LoadedScript == data

\* The rest of reloadScript.
Install ==
    /\ loading
    /\ loading' = FALSE
    /\ cache' = LoadedScript
    /\ UNCHANGED <<file, present, watch, event, data, missed, edits>>

\* InitLuaEngine in a new process loads the rule, if there is one, ...
InitLuaEngine ==
    /\ cache' = IF present THEN file ELSE Partial
    /\ data' = cache'
    /\ watch' = "none" /\ missed' = FALSE
    /\ event' = FALSE /\ loading' = FALSE
    /\ UNCHANGED <<file, present, edits>>

\* ... and then watches the file.  Without a file the process exits.
AddWatch ==
    /\ watch = "none" /\ present
    /\ watch' = "on"
    /\ missed' = (cache # file)
    /\ UNCHANGED <<file, present, event, loading, data, cache, edits>>

\* Without a watcher it goes on with the rule it has.
NewWatcherFails ==
    /\ watch = "none"
    /\ watch' = "ended"
    /\ UNCHANGED <<file, present, event, loading, data, cache, missed, edits>>

Reload == ReadRule \/ ReadFails \/ Install
Watch == AddWatch \/ NewWatcherFails

Next == Edit \/ Reload \/ Watch \/ InitLuaEngine

Spec == Init /\ [][Next]_vars

\* The watching goroutine keeps running.  Editors owe nothing, and nor does whoever restarts.
FairSpec == Spec /\ WF_vars(Reload)

-----------------------------------------------------------------------------
\* While the watch lasts, a rule that differs from the file is about to be replaced: an edit
\* that comes between the reading of the file and the end of the reload raises another event.
\* Only an edit that came between the first load and the watch stays unnoticed until the next.
StaleRuleIsNoticed ==
    watch = "on" /\ cache # file => event \/ (loading /\ data = file) \/ missed

\* So, while the watch lasts, the rule in memory ends up being the one in the file.
CacheCatchesUp == <>[](watch = "on" /\ ~missed => cache = file)

=============================================================================
