---------------------------- MODULE ProfileCache ----------------------------
(***************************************************************************)
(* The profile directory and what is cached of it: profiles/loader.py, the  *)
(* menu action ConfigureProfileDirectoryHandler and the switch at the start *)
(* of an analysis in ida/actions.py.                                        *)
(*                                                                          *)
(* PROFILE_DIR is a global.  The JSON files are cached by lru_cache, and    *)
(* again what other modules derive of them: some of these caches are        *)
(* cleared with the loader's, that of core/helper_edge_audit.py is not.     *)
(* The menu action runs on the main thread at any time, an analysis in its  *)
(* background task; a miss calls the cached function without a lock and     *)
(* stores what it returned afterwards, over whatever was cleared meanwhile. *)
(***************************************************************************)
EXTENDS Naturals

CONSTANTS Roots,        \* profile directories
          Nothing,      \* no entry
          MaxSwitches, MaxAnalyses

ASSUME CacheAssumption ==
    Nothing \notin Roots \cup {"cleared", "audit"} /\ MaxSwitches \in Nat /\ MaxAnalyses \in Nat

Caches == {"loader", "cleared", "audit"}
Derived == {"cleared", "audit"}

VARIABLES
    profileDir,   \* PROFILE_DIR
    configured,   \* profile_dir of the configuration file
    cached,       \* per cache the directory its entry was read from
    menu,         \* the menu action: "idle", "moved", "cleared"
    wanted,       \* the directory it was asked for
    worker,       \* the analysis: "idle", "start", "moved", "work",
                  \*   "derive" (a derived cache has missed), "read", "store"
    filling,      \* the derived cache that has missed, Nothing for the loader's
    value,        \* the directory of the data it holds
    switches, analyses,
    overlapped    \* history: a switch from the menu met an analysis, and the
                  \*   caches were not cleared apart from either since

cacheVars == <<profileDir, configured, cached, menu, wanted, worker, filling, value,
               switches, analyses, overlapped>>

CacheTypeOK ==
    /\ profileDir \in Roots /\ configured \in Roots
    /\ cached \in [Caches -> Roots \cup {Nothing}]
    /\ menu \in {"idle", "moved", "cleared"} /\ wanted \in Roots \cup {Nothing}
    /\ worker \in {"idle", "start", "moved", "work", "derive", "read", "store"}
    /\ filling \in Derived \cup {Nothing} /\ value \in Roots \cup {Nothing}
    /\ switches \in 0..MaxSwitches /\ analyses \in 0..MaxAnalyses
    /\ overlapped \in BOOLEAN

CacheInit ==
    /\ profileDir \in Roots /\ configured \in Roots
    /\ cached = [c \in Caches |-> Nothing]
    /\ menu = "idle" /\ wanted = Nothing
    /\ worker = "idle" /\ filling = Nothing /\ value = Nothing
    /\ switches = 0 /\ analyses = 0 /\ overlapped = FALSE

-----------------------------------------------------------------------------
(* clear_profile_caches: the cache_clear calls follow one another, and what *)
(* a thread reads between two of them is of the new directory already.      *)
Cleared == [cached EXCEPT !["loader"] = Nothing, !["cleared"] = Nothing]

(* ConfigureProfileDirectoryHandler.activate, after the dialog: it asks     *)
(* nobody whether an analysis runs.                                         *)
MenuSwitch(r) ==
    /\ menu = "idle" /\ switches < MaxSwitches
    /\ profileDir' = r /\ wanted' = r
    /\ menu' = "moved" /\ switches' = switches + 1
    /\ overlapped' = (worker # "idle")
    /\ UNCHANGED <<configured, cached, worker, filling, value, analyses>>

MenuClears ==
    /\ menu = "moved"
    /\ cached' = Cleared
    /\ menu' = "cleared"
    /\ UNCHANGED <<profileDir, configured, wanted, worker, filling, value, switches, analyses, overlapped>>

(* save_config, or a warning that it failed: the directory stays switched.  *)
MenuSaves ==
    /\ menu = "cleared"
    /\ configured' \in {wanted, configured}
    /\ menu' = "idle" /\ wanted' = Nothing
    /\ UNCHANGED <<profileDir, cached, worker, filling, value, switches, analyses, overlapped>>

(* Free Studio or another IDA saves its settings to the same file.          *)
OthersSave ==
    /\ configured' \in Roots \ {configured}
    /\ UNCHANGED <<profileDir, cached, menu, wanted, worker, filling, value, switches, analyses, overlapped>>

-----------------------------------------------------------------------------
(* An analysis.                                                             *)

StartAnalysis ==
    /\ worker = "idle" /\ analyses < MaxAnalyses
    /\ worker' = "start" /\ analyses' = analyses + 1
    /\ overlapped' = (overlapped \/ menu # "idle")
    /\ UNCHANGED <<profileDir, configured, cached, menu, wanted, filling, value, switches>>

(* What could be wrong: the directory of the configuration is taken over    *)
(* without configure_profile_dir.                                           *)
FollowWithoutClearing ==
    /\ worker = "start"
    /\ profileDir' = configured
    /\ worker' = "work"
    /\ UNCHANGED <<configured, cached, menu, wanted, filling, value, switches, analyses, overlapped>>

(* _configure_profile_dir_for_analysis: nothing is cleared when the         *)
(* directory of the configuration is the active one.                        *)
FollowConfiguration ==
    /\ worker = "start"
    /\ profileDir' = configured
    /\ worker' = IF configured = profileDir THEN "work" ELSE "moved"
    /\ UNCHANGED <<configured, cached, menu, wanted, filling, value, switches, analyses, overlapped>>

AnalysisClears ==
    /\ worker = "moved"
    /\ cached' = Cleared
    /\ worker' = "work"
    /\ overlapped' = (menu # "idle")
    /\ UNCHANGED <<profileDir, configured, menu, wanted, filling, value, switches, analyses>>

(* A derived cache misses; its function calls the loader.                   *)
DerivedMisses(c) ==
    /\ worker = "work" /\ cached[c] = Nothing
    /\ worker' = "derive" /\ filling' = c
    /\ UNCHANGED <<profileDir, configured, cached, menu, wanted, value, switches, analyses, overlapped>>

LoaderHits ==
    /\ worker = "derive" /\ cached["loader"] # Nothing
    /\ worker' = "store" /\ value' = cached["loader"]
    /\ UNCHANGED <<profileDir, configured, cached, menu, wanted, filling, switches, analyses, overlapped>>

(* The file is read below the directory that is active now ...              *)
LoaderMisses ==
    /\ worker \in {"work", "derive"} /\ cached["loader"] = Nothing
    /\ worker' = "read" /\ value' = profileDir
    /\ UNCHANGED <<profileDir, configured, cached, menu, wanted, filling, switches, analyses, overlapped>>

(* ... and the cache keeps what was read, whatever happened meanwhile.      *)
LoaderStores ==
    /\ worker = "read"
    /\ cached' = [cached EXCEPT !["loader"] = value]
    /\ IF filling = Nothing THEN worker' = "work" /\ value' = Nothing
                            ELSE worker' = "store" /\ UNCHANGED value
    /\ UNCHANGED <<profileDir, configured, menu, wanted, filling, switches, analyses, overlapped>>

DerivedStores ==
    /\ worker = "store"
    /\ cached' = [cached EXCEPT ![filling] = value]
    /\ worker' = "work" /\ filling' = Nothing /\ value' = Nothing
    /\ UNCHANGED <<profileDir, configured, menu, wanted, switches, analyses, overlapped>>

AnalysisEnds ==
    /\ worker = "work"
    /\ worker' = "idle"
    /\ UNCHANGED <<profileDir, configured, cached, menu, wanted, filling, value, switches, analyses, overlapped>>

CacheNext ==
    \/ (\E r \in Roots : MenuSwitch(r)) \/ MenuClears \/ MenuSaves \/ OthersSave
    \/ StartAnalysis \/ FollowConfiguration \/ AnalysisClears
    \/ (\E c \in Derived : DerivedMisses(c))
    \/ LoaderHits \/ LoaderMisses \/ LoaderStores \/ DerivedStores \/ AnalysisEnds

CacheSpec == CacheInit /\ [][CacheNext]_cacheVars

-----------------------------------------------------------------------------
(* Properties.                                                              *)

AtRest == menu # "moved" /\ worker # "moved"

(* After a switch, by the menu or by an analysis that follows what the menu *)
(* or another program saved last, or did not, the caches that               *)
(* clear_profile_caches knows hold data of the active directory only,       *)
(* as long as the menu switched while no analysis was running.              *)
ClearedCachesFollow ==
    AtRest /\ ~overlapped => \A c \in {"loader", "cleared"} : cached[c] \in {profileDir, Nothing}

(* "Changing the loader profile root clears cached profile data": no cache  *)
(* answers with data of a directory that was left.                          *)
SwitchClearsCachedData ==
    AtRest /\ ~overlapped => \A c \in Caches : cached[c] \in {profileDir, Nothing}
=============================================================================
