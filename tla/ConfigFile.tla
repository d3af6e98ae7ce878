------------------------------ MODULE ConfigFile ------------------------------
(***************************************************************************)
(* config.json, between the processes that read and rewrite it: the window  *)
(* (src/ui/main_window.py, src/ui/schedule_frame.py) and the worker, which  *)
(* loads it for every job.  A load is not only a read: ConfigManager.load   *)
(* (src/config/manager.py) moves legacy schedules into the SQLite store,    *)
(* row by row, and then writes the file it read back.                       *)
(*                                                                         *)
(* Of the settings two are kept: auto_close_on_farewell, which the form     *)
(* shows, and whether farewell_minimum_participants or the monitor timeout  *)
(* were edited, which it does not.                                          *)
(***************************************************************************)
EXTENDS Naturals, FiniteSets

CONSTANTS
    window, worker,     \* the two programs
    Processes,          \* those of them that are used
    Legacy,             \* enabled, incomplete schedules of an old config.json
    Undated,            \* those without a date that fromisoformat reads
    Idless,             \* those without an id: each load makes one up
    MaxFaults           \* bound: how often, and how often the file is edited by hand

ASSUME ConfigConstants ==
    /\ window # worker /\ Processes \subseteq {window, worker}
    /\ Undated \subseteq Legacy /\ Idless \subseteq Legacy
    /\ MaxFaults \in Nat

VARIABLES
    file,       \* config.json
    rows,       \* how many rows of the store each legacy schedule has
    place,      \* per process: closed, idle, or where its load is
    copy,       \* per process: the AppConfig its load has read
    todo,       \* per process: the schedules its load still has to look at
    applies,    \* does the window's load fill the form?
    form,       \* auto_close_var of the window
    unfilled,   \* ghost: did a load of the window raise before it filled the form?
    faults

configVars == <<file, rows, place, copy, todo, applies, form, unfilled, faults>>

Config == [auto: BOOLEAN, edited: BOOLEAN, migrated: BOOLEAN, named: BOOLEAN,
           legacy: SUBSET Legacy]

ConfigTypeOK ==
    /\ file \in Config
    /\ rows \in [Legacy -> Nat]
    /\ place \in [Processes -> {"closed", "idle", "look", "create", "loaded"}]
    /\ copy \in [Processes -> Config]
    /\ todo \in [Processes -> SUBSET Legacy]
    /\ applies \in BOOLEAN /\ form \in BOOLEAN /\ unfilled \in BOOLEAN
    /\ faults \in 0..MaxFaults

(* An old file, or one that is already migrated.                             *)
ConfigInit ==
    /\ file \in {c \in Config : ~c.edited /\ c.legacy = (IF c.migrated THEN {} ELSE Legacy)}
    /\ rows = [l \in Legacy |-> IF file.migrated THEN 1 ELSE 0]
    /\ place = [p \in Processes |-> "closed"]
    /\ copy = [p \in Processes |-> file]
    /\ todo = [p \in Processes |-> {}]
    /\ applies = FALSE /\ form = TRUE /\ unfilled = FALSE
    /\ faults = 0

Goto(p, to) == place' = [place EXCEPT ![p] = to]
Fault == faults < MaxFaults /\ faults' = faults + 1

-----------------------------------------------------------------------------
(* ConfigManager.load.                                                       *)
Migrated(config) == [config EXCEPT !.migrated = TRUE, !.legacy = {}]

(* Variant: the mark is saved before the schedules are imported.             *)
ReadAndMark(p) ==
    /\ copy' = [copy EXCEPT ![p] = Migrated(file)]
    /\ todo' = [todo EXCEPT ![p] = IF file.migrated THEN {} ELSE file.legacy]
    /\ Goto(p, IF file.migrated THEN "loaded" ELSE "look")
    /\ file' = Migrated(file)
    /\ UNCHANGED rows

Read(p) ==
    /\ copy' = [copy EXCEPT ![p] = file]
    /\ todo' = [todo EXCEPT ![p] = IF file.migrated THEN {} ELSE file.legacy]
    /\ Goto(p, IF file.migrated THEN "loaded" ELSE "look")
    /\ UNCHANGED <<file, rows>>

StartLoad(p, fills) == Read(p) /\ applies' = fills

HasRow(p, l) == l \notin Idless /\ rows[l] > 0

(* The list has an order, the same one in every load.                        *)
Current(p) == CHOOSE l \in todo[p] : TRUE

(* store.get: a schedule that has a row, or no date, is passed over.         *)
PassesOver(p) ==
    /\ place[p] = "look" /\ todo[p] # {}
    /\ Current(p) \in Undated \/ HasRow(p, Current(p))
    /\ todo' = [todo EXCEPT ![p] = @ \ {Current(p)}]
    /\ UNCHANGED <<file, rows, place, copy, applies, form, faults, unfilled>>

MissesRow(p) ==
    /\ place[p] = "look" /\ todo[p] # {}
    /\ Current(p) \notin Undated /\ ~HasRow(p, Current(p))
    /\ Goto(p, "create")
    /\ UNCHANGED <<file, rows, copy, todo, applies, form, faults, unfilled>>

(* load_config swallows the exception, and the window goes on.               *)
LoadRaises(p) ==
    /\ unfilled' = (unfilled \/ p = window)
    /\ todo' = [todo EXCEPT ![p] = {}]
    /\ Goto(p, "idle")
    /\ UNCHANGED <<file, rows, copy>>

(* Variant: a second row, under an id of its own.                            *)
InsertsAnotherRow(p, l) ==
    /\ rows' = [rows EXCEPT ![l] = @ + 1]
    /\ todo' = [todo EXCEPT ![p] = @ \ {l}]
    /\ Goto(p, "look")
    /\ UNCHANGED <<file, copy, unfilled>>

(* store.create: the other process may have made the row since, and then the *)
(* IntegrityError, which _migrate_schedules_once does not catch, ends the    *)
(* load.                                                                     *)
InsertsRow(p, l) ==
    \/ /\ HasRow(p, l)
       /\ LoadRaises(p)
    \/ /\ ~HasRow(p, l)
       /\ rows' = [rows EXCEPT ![l] = @ + 1]
       /\ todo' = [todo EXCEPT ![p] = @ \ {l}]
       /\ Goto(p, "look")
       /\ UNCHANGED <<file, copy, unfilled>>

CreatesRow(p) ==
    /\ place[p] = "create"
    /\ InsertsRow(p, Current(p))
    /\ UNCHANGED <<applies, form, faults>>

(* All are looked at: the copy is written back over whatever is there now.   *)
WritesBack(p) ==
    /\ place[p] = "look" /\ todo[p] = {}
    /\ file' = Migrated(copy[p])
    /\ copy' = [copy EXCEPT ![p] = Migrated(@)]
    /\ Goto(p, "loaded")
    /\ UNCHANGED <<rows, todo, applies, form, faults, unfilled>>

(* Malformed JSON, an unreadable file, a locked database.                    *)
LoadFaults(p) ==
    /\ place[p] \in {"look", "create"}
    /\ Fault
    /\ LoadRaises(p)
    /\ UNCHANGED <<applies, form>>

-----------------------------------------------------------------------------
(* The worker loads the file in executor.run_schedule and keeps the copy.    *)
WorkerLoads ==
    /\ place[worker] \in {"closed", "idle"}
    /\ StartLoad(worker, applies)
    /\ UNCHANGED <<form, faults, unfilled>>

WorkerRunsJob ==
    /\ place[worker] = "loaded"
    /\ Goto(worker, "idle")
    /\ UNCHANGED <<file, rows, copy, todo, applies, form, faults, unfilled>>

(* Variant: the file has only the fields that the form shows.                *)
FromFormOnly(named) ==
    [auto |-> form, migrated |-> FALSE, named |-> named, legacy |-> {}]

(* What _settings_from_ui makes of the form: the fields that it does not     *)
(* show have their defaults, the migration mark among them.                  *)
FromForm(named) ==
    [auto |-> form, edited |-> FALSE, migrated |-> FALSE, named |-> named, legacy |-> {}]

(* __init__: a fresh form, then load_config; and its button, later.          *)
OpensWindow ==
    /\ place[window] = "closed"
    /\ StartLoad(window, TRUE)
    /\ form' = TRUE
    /\ UNCHANGED <<faults, unfilled>>

Reloads ==
    /\ place[window] = "idle"
    /\ \E fills \in BOOLEAN : StartLoad(window, fills)  \* FALSE: schedule_frame.save
    /\ UNCHANGED <<form, faults, unfilled>>

(* _apply_config: select_class saves the form before its options are set.    *)
AppliesConfig ==
    /\ place[window] = "loaded"
    /\ IF applies
       THEN /\ file' = (IF copy[window].named THEN FromForm(TRUE) ELSE file)
            /\ form' = copy[window].auto
       ELSE UNCHANGED <<file, form>>
    /\ Goto(window, "idle")
    /\ UNCHANGED <<rows, copy, todo, applies, faults, unfilled>>

TogglesOption ==
    /\ place[window] = "idle"
    /\ form' = ~form
    /\ UNCHANGED <<file, rows, place, copy, todo, applies, faults, unfilled>>

(* save_config, and the save of select_class and enter_preset_now.           *)
SavesForm ==
    /\ place[window] = "idle"
    /\ \E named \in {file.named, TRUE} : file' = FromForm(named)
    /\ UNCHANGED <<rows, place, copy, todo, applies, form, faults, unfilled>>

(* A user edits farewell_minimum_participants in the file.                   *)
EditsByHand ==
    /\ Fault
    /\ file' = [file EXCEPT !.edited = TRUE]
    /\ UNCHANGED <<rows, place, copy, todo, applies, form, unfilled>>

(* A process dies; it loads again when it is started again.                  *)
Dies(p) ==
    /\ place[p] # "closed"
    /\ Fault
    /\ Goto(p, "closed")
    /\ todo' = [todo EXCEPT ![p] = {}]
    /\ UNCHANGED <<file, rows, copy, applies, form, unfilled>>

LoadSteps(p) ==
    PassesOver(p) \/ MissesRow(p) \/ CreatesRow(p) \/ WritesBack(p) \/ LoadFaults(p)

WindowSteps == OpensWindow \/ Reloads \/ AppliesConfig \/ TogglesOption \/ SavesForm

ConfigNext ==
    \/ \E p \in Processes : LoadSteps(p) \/ Dies(p)
    \/ worker \in Processes /\ (WorkerLoads \/ WorkerRunsJob)
    \/ window \in Processes /\ WindowSteps
    \/ EditsByHand

ConfigSpec == ConfigInit /\ [][ConfigNext]_configVars

-----------------------------------------------------------------------------
(* _migrate_schedules_once imports a schedule with an id once, however many  *)
(* loads run at a time, die or are repeated.                                 *)
ImportedAtMostOnce == \A l \in Legacy \ Idless : rows[l] <= 1

(* The mark is set last: a schedule with a date is in the file until it has  *)
(* its row, whoever loads and saves meanwhile, also when loads raise and     *)
(* processes die.  The one exception: a load of the window has raised, for   *)
(* then its form is saved although the file never filled it.                 *)
ImportNotLost ==
    unfilled \/ \A l \in Legacy \ Undated : l \in file.legacy \/ rows[l] > 0

(* The docstring of _migrate_schedules_once: imported exactly once, then the *)
(* config is marked.                                                         *)
ImportedExactlyOnce ==
    file.legacy = {} /\ (\A p \in Processes : todo[p] = {})
        => \A l \in Legacy : rows[l] = 1

(* The docstring of load_config: settings are loaded from config.json.  To   *)
(* open the window or to reload changes no setting in the file.              *)
LoadingKeepsSettings ==
    [][(\E p \in Processes : place[p] = "loaded") /\ place' # place
         => file'.auto = file.auto /\ file'.edited = file.edited]_configVars

(* The docstring of ConfigManager.save: the worker reads the settings.  What *)
(* the window has saved is not undone by a load of the worker.               *)
WorkerKeepsSettings ==
    [][place'[worker] # place[worker] => file'.auto = file.auto]_configVars
=============================================================================
