----------------------------- MODULE Blacklist -----------------------------
(***************************************************************************)
(* The rules of internal/blacklist/blacklist.go: those of the environment, *)
(* and those of a file that is loaded once and then reloaded when fsnotify *)
(* reports a write.  New loads the file on the caller's goroutine and then *)
(* starts the goroutine of watch; the rules in force are behind an atomic  *)
(* pointer.                                                                *)
(*                                                                         *)
(* The file's writers and fsnotify are external.  A file rewritten in      *)
(* place is truncated and written line by line, each of which is a Write   *)
(* event of the watch on it.  fsnotify watches the file, not its name: a   *)
(* file moved over it, or its removal, ends the watch with events that are *)
(* neither Write nor Create.                                               *)
(*                                                                         *)
(* loadFile is one step: a file that is replaced between its Open and its  *)
(* Scan is read as it was before.  It has no error to return: what it      *)
(* cannot open or read it leaves out (LoadFails).                          *)
(***************************************************************************)
EXTENDS Naturals

CONSTANTS
    Line,       \* rules that the file may hold: a host, or an address block
    EnvRules,   \* the rules of ORIGIN_BLACKLIST_DOMAINS and _IPS
    MaxEdits    \* bound on the steps of the file's writers

ASSUME BlacklistAssumption == MaxEdits \in Nat

VARIABLES
    file,      \* the lines of the file, none if there is no file
    present,   \* there is a file
    edits,
    watch,     \* the inotify watch: "none" yet, "on" the file, or "lost"
    events,    \* Write events that have not been received
    loader,    \* where New, and then the goroutine of watch, is
    loaded,    \* what loadFile returned last
    found,     \* history: the lines of the file then
    inForce,   \* Blacklist.current
    gap        \* history: the file changed between New's load and the watch

blacklistVars == <<file, present, edits, watch, events, loader, loaded, found, inForce, gap>>

Rules == SUBSET (EnvRules \cup Line)

\* Mutant: the rules of the file replace those of the environment.
Bug_Merged(fromFile) == IF fromFile = {} THEN EnvRules ELSE fromFile

\* mergeRules.
Merged(fromFile) == EnvRules \cup fromFile

\* New stores the rules of the environment before it loads the file.
BlacklistInit ==
    /\ file \in SUBSET Line
    /\ present \in BOOLEAN
    /\ file # {} => present
    /\ edits = 0
    /\ watch = "none"
    /\ events = 0
    /\ loader = "load"
    /\ loaded = {}
    /\ found = {}
    /\ inForce = EnvRules
    /\ gap = FALSE

-----------------------------------------------------------------------------
(* New, and then watch on a goroutine of its own.                          *)

LoadFile(lines) ==
    /\ loader \in {"load", "reload"}
    /\ loaded' = lines
    /\ found' = file
    /\ loader' = IF loader = "load" THEN "store" ELSE "restore"
    /\ UNCHANGED <<file, present, edits, watch, events, inForce, gap>>

Load == LoadFile(file)

\* A file that cannot be opened has no rules, and a scan that stops early,
\* at a read error or a line of more than 64 KB, gives those before: the
\* scanner's Err is not asked.
LoadFails == \E part \in SUBSET file : LoadFile(part)

\* Mutant: a reload takes the events that came meanwhile for its own.
Bug_Store ==
    /\ loader \in {"store", "restore"}
    /\ inForce' = Merged(loaded)
    /\ gap' = FALSE
    /\ events' = 0
    /\ loader' = IF loader = "store" THEN "start" ELSE "idle"
    /\ UNCHANGED <<file, present, edits, watch, loaded, found>>

Store ==
    /\ loader \in {"store", "restore"}
    /\ inForce' = Merged(loaded)
    /\ gap' = FALSE
    /\ loader' = IF loader = "store" THEN "start" ELSE "idle"
    /\ UNCHANGED <<file, present, edits, watch, events, loaded, found>>

\* NewWatcher and Add.  What was written since the load goes unnoticed.
StartWatch ==
    /\ loader = "start"
    /\ present
    /\ watch' = "on"
    /\ gap' = (file # found)
    /\ loader' = "idle"
    /\ UNCHANGED <<file, present, edits, events, loaded, found, inForce>>

\* No watcher to be had, or no file to watch: the goroutine returns, and the
\* rules in force stay for good.
WatchFails ==
    /\ loader = "start"
    /\ loader' = "ended"
    /\ UNCHANGED <<file, present, edits, watch, events, loaded, found, inForce, gap>>

\* Mutant: the event of a file that is empty for the moment is skipped.
Bug_TakeEvent ==
    /\ loader = "idle"
    /\ events > 0
    /\ events' = events - 1
    /\ loader' = IF file = {} THEN "idle" ELSE "reload"
    /\ UNCHANGED <<file, present, edits, watch, loaded, found, inForce, gap>>

TakeEvent ==
    /\ loader = "idle"
    /\ events > 0
    /\ events' = events - 1
    /\ loader' = "reload"
    /\ UNCHANGED <<file, present, edits, watch, loaded, found, inForce, gap>>

Loader == Load \/ LoadFails \/ Store \/ StartWatch \/ WatchFails \/ TakeEvent

-----------------------------------------------------------------------------
(* The file's writers.                                                     *)

\* The kernel drops an event equal to the last one in the queue.
Notified ==
    IF watch = "on" THEN events' \in {events + 1} \cup ({events} \ {0})
    ELSE UNCHANGED events

Edit ==
    /\ edits < MaxEdits
    /\ edits' = edits + 1
    /\ UNCHANGED <<loader, loaded, found, inForce, gap>>

\* Opened for rewriting, and created if there was none.
Truncate ==
    /\ Edit
    /\ file' = {}
    /\ present' = TRUE
    /\ Notified
    /\ UNCHANGED watch

WriteLine(l) ==
    /\ Edit
    /\ present
    /\ file' = file \cup {l}
    /\ Notified
    /\ UNCHANGED <<present, watch>>

\* The watch was on the file that is no longer there.
LoseWatch ==
    /\ watch' = IF watch = "on" THEN "lost" ELSE watch
    /\ UNCHANGED events

\* A new version moved over the file.
Replace(version) ==
    /\ Edit
    /\ file' = version
    /\ present' = TRUE
    /\ LoseWatch

\* The file removed.
RemoveFile ==
    /\ Edit
    /\ file' = {}
    /\ present' = FALSE
    /\ LoseWatch

Writer ==
    \/ Truncate
    \/ \E l \in Line : WriteLine(l)
    \/ \E version \in SUBSET Line : Replace(version)
    \/ RemoveFile

BlacklistNext == Loader \/ Writer

\* The goroutines of New and watch run.
LoaderFairness == WF_blacklistVars(Loader)

BlacklistSpec == BlacklistInit /\ [][BlacklistNext]_blacklistVars /\ LoaderFairness

-----------------------------------------------------------------------------
BlacklistTypeOK ==
    /\ file \in SUBSET Line
    /\ present \in BOOLEAN
    /\ edits \in 0 .. MaxEdits
    /\ watch \in {"none", "on", "lost"}
    /\ events \in 0 .. MaxEdits
    /\ loader \in {"load", "store", "start", "idle", "reload", "restore", "ended"}
    /\ loaded \in SUBSET Line
    /\ found \in SUBSET Line
    /\ inForce \in Rules
    /\ gap \in BOOLEAN

(***************************************************************************)
(* As long as the watch holds and nothing was written before it began, the *)
(* rules in force at rest, with no event to come, are those of the         *)
(* environment, always, and of the file as it is now and not as it ever    *)
(* was: no write is missed while another one is being loaded.  They are    *)
(* those of the whole file if the last load read all of it.  If it did     *)
(* not, rules of the file are missing until the next event                 *)
(* (blacklist.go:143-146, 149-162).                                        *)
(***************************************************************************)
AtRest == loader = "idle" /\ events = 0

FreshWhenWatched ==
    watch = "on" /\ AtRest /\ ~gap =>
        /\ EnvRules \subseteq inForce
        /\ inForce \subseteq EnvRules \cup file
        /\ loaded = found => inForce = EnvRules \cup file

(***************************************************************************)
(* A write that the watch has reported takes effect, unless the watch is   *)
(* lost or a reload fails to read the whole file, whatever the loader was  *)
(* doing when it came.                                                     *)
(***************************************************************************)
ReloadFailed == loader = "restore" /\ loaded # found

WatchedEditsTakeEffect ==
    watch = "on" /\ events > 0 ~>
        watch = "lost" \/ inForce = EnvRules \cup file \/ ReloadFailed

(***************************************************************************)
(* README.md:695: the file is reloaded while the program runs.  An edit    *)
(* that moves a new version over the file, as many editors do, ends the    *)
(* reloads for good.  Left aside: a watch that could not be set up, which  *)
(* is logged, an edit before the watch, and loads that fail.               *)
(***************************************************************************)
EditsTakeEffect ==
    [](loader # "ended" /\ ~gap /\ loaded = found) => <>[](inForce = EnvRules \cup file)
=============================================================================
