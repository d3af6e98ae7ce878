--------------------------- MODULE ConfigFileProofs ---------------------------
(***************************************************************************)
(* Proofs about ConfigFile: any legacy schedules, any number of faults.     *)
(***************************************************************************)
EXTENDS ConfigFile, TLAPS

Dated == Legacy \ Undated

(* All the schedules that have to be imported have a row, or the window has  *)
(* saved a form that was never filled.                                       *)
Imported == unfilled \/ \A l \in Dated : rows[l] > 0

(* A load still has to look at every schedule without a row, and is over     *)
(* when there are none; so is every load of a window that may save its form. *)
LoadInv ==
    \A p \in Processes :
        /\ place[p] \in {"look", "create"}
             => unfilled \/ \A l \in Dated : l \in todo[p] \/ rows[l] > 0
        /\ place[p] = "loaded" => Imported
        /\ p = window /\ place[p] = "idle" => Imported

MarkInv == file.migrated => file.legacy = {}

ConfigInv == ConfigTypeOK /\ ImportedAtMostOnce /\ ImportNotLost /\ LoadInv /\ MarkInv

-----------------------------------------------------------------------------
LEMMA FileTypes ==
    ASSUME NEW config \in Config, NEW named \in BOOLEAN, ConfigTypeOK
    PROVE  /\ Migrated(config) \in Config /\ FromForm(named) \in Config
           /\ Migrated(config).migrated /\ Migrated(config).legacy = {}
           /\ ~FromForm(named).migrated /\ FromForm(named).legacy = {}
BY DEF Config, Migrated, FromForm, ConfigTypeOK

LEMMA ConfigInitial == ConfigInit => ConfigInv
<1> SUFFICES ASSUME ConfigInit PROVE ConfigInv
    OBVIOUS
<1>1. ConfigTypeOK
    <2>1. file \in Config
        BY DEF ConfigInit
    <2>2. rows \in [Legacy -> Nat] /\ faults \in 0..MaxFaults
        BY ConfigConstants DEF ConfigInit
    <2>3. /\ place \in [Processes -> {"closed", "idle", "look", "create", "loaded"}]
          /\ copy \in [Processes -> Config] /\ todo \in [Processes -> SUBSET Legacy]
        BY <2>1 DEF ConfigInit
    <2> QED
        BY <2>1, <2>2, <2>3 DEF ConfigInit, ConfigTypeOK
<1>2. ImportedAtMostOnce /\ ImportNotLost /\ LoadInv /\ MarkInv
    BY DEF ConfigInit, Config, ImportedAtMostOnce, ImportNotLost, LoadInv, MarkInv
<1> QED
    BY <1>1, <1>2 DEF ConfigInv

(* Loading starts: what the file lacks has its row already.                  *)
LEMMA LoadStarts ==
    ASSUME ConfigInv, NEW p \in Processes, Read(p), UNCHANGED unfilled,
           form' \in BOOLEAN, applies' \in BOOLEAN, faults' \in 0..MaxFaults
    PROVE  ConfigInv'
<1> USE DEF ConfigInv, Read, Goto
<1>1. ConfigTypeOK'
    BY DEF ConfigTypeOK, Config
<1>2. ImportedAtMostOnce' /\ ImportNotLost' /\ MarkInv'
    BY DEF ImportedAtMostOnce, ImportNotLost, MarkInv
<1>3. file.migrated => Imported
    BY DEF MarkInv, ImportNotLost, Imported, Dated
<1>4. /\ \A q \in Processes : q # p => place'[q] = place[q] /\ todo'[q] = todo[q]
      /\ place'[p] = IF file.migrated THEN "loaded" ELSE "look"
      /\ todo'[p] = IF file.migrated THEN {} ELSE file.legacy
    BY DEF ConfigTypeOK
<1>5. LoadInv'
    BY <1>3, <1>4 DEF LoadInv, Imported, ImportNotLost, Dated
<1> QED
    BY <1>1, <1>2, <1>5

(* A load ends without its write: the file still has what has no row.        *)
LEMMA LoadEnds ==
    ASSUME ConfigInv, NEW p \in Processes, NEW to \in {"idle", "closed"}, Goto(p, to),
           todo' = [todo EXCEPT ![p] = {}], UNCHANGED <<file, rows, copy, applies, form>>,
           unfilled' \in BOOLEAN, unfilled => unfilled', p = window /\ to = "idle" => unfilled',
           faults' \in 0..MaxFaults
    PROVE  ConfigInv'
<1> USE DEF ConfigInv, Goto
<1>1. ConfigTypeOK'
    BY DEF ConfigTypeOK
<1>2. ImportedAtMostOnce' /\ ImportNotLost' /\ MarkInv'
    BY DEF ImportedAtMostOnce, ImportNotLost, MarkInv
<1>3. /\ \A q \in Processes : q # p => place'[q] = place[q] /\ todo'[q] = todo[q]
      /\ place'[p] = to
    BY DEF ConfigTypeOK
<1>4. LoadInv'
    BY <1>3 DEF LoadInv, Imported
<1> QED
    BY <1>1, <1>2, <1>4

(* The form is saved by a window whose loads are over.                       *)
LEMMA FormSaved ==
    ASSUME ConfigInv, window \in Processes, place[window] \in {"idle", "loaded"},
           NEW named \in BOOLEAN, file' = FromForm(named),
           place' = [place EXCEPT ![window] = "idle"], form' \in BOOLEAN,
           UNCHANGED <<rows, copy, todo, applies, faults, unfilled>>
    PROVE  ConfigInv'
<1> USE DEF ConfigInv
<1>1. ConfigTypeOK'
    BY FileTypes DEF ConfigTypeOK
<1>2. Imported /\ Imported'
    BY DEF LoadInv, Imported
<1>3. ImportedAtMostOnce' /\ ImportNotLost' /\ MarkInv'
    <2>1. MarkInv'
        BY DEF FromForm, MarkInv
    <2>2. ImportedAtMostOnce' /\ ImportNotLost'
        BY <1>2 DEF ImportedAtMostOnce, ImportNotLost, Imported, Dated
    <2> QED
        BY <2>1, <2>2
<1>4. LoadInv'
    BY <1>2 DEF LoadInv, Imported, ConfigTypeOK
<1> QED
    BY <1>1, <1>3, <1>4

LEMMA LoadStep == ASSUME ConfigInv, NEW p \in Processes, LoadSteps(p) PROVE ConfigInv'
<1> USE DEF ConfigInv, Goto
<1>1. CASE PassesOver(p)
    <2>1. ConfigTypeOK'
        BY <1>1 DEF PassesOver, ConfigTypeOK
    <2>2. ImportedAtMostOnce' /\ ImportNotLost' /\ MarkInv'
        BY <1>1 DEF PassesOver, ImportedAtMostOnce, ImportNotLost, MarkInv
    <2>3. /\ \A q \in Processes : q # p => todo'[q] = todo[q]
          /\ todo'[p] = todo[p] \ {Current(p)}
          /\ Current(p) \in Undated \/ rows[Current(p)] > 0
        BY <1>1 DEF PassesOver, HasRow, ConfigTypeOK
    <2>4. LoadInv'
        BY <1>1, <2>3 DEF PassesOver, LoadInv, Imported, Dated
    <2> QED
        BY <2>1, <2>2, <2>4
<1>2. CASE MissesRow(p)
    <2>1. ConfigTypeOK'
        BY <1>2 DEF MissesRow, ConfigTypeOK
    <2>2. ImportedAtMostOnce' /\ ImportNotLost' /\ MarkInv'
        BY <1>2 DEF MissesRow, ImportedAtMostOnce, ImportNotLost, MarkInv
    <2>3. LoadInv'
        BY <1>2 DEF MissesRow, LoadInv, Imported, ConfigTypeOK
    <2> QED
        BY <2>1, <2>2, <2>3
<1>3. CASE CreatesRow(p)
    <2> DEFINE l == Current(p)
    <2>1. CASE HasRow(p, l) /\ LoadRaises(p)
        BY <1>3, <2>1, LoadEnds DEF CreatesRow, LoadRaises, ConfigTypeOK
    <2>2. CASE /\ ~HasRow(p, l) /\ rows' = [rows EXCEPT ![l] = @ + 1]
               /\ todo' = [todo EXCEPT ![p] = @ \ {l}] /\ Goto(p, "look")
               /\ UNCHANGED <<file, copy, unfilled, applies, form, faults>>
        <3> HIDE DEF l
        <3>1. ConfigTypeOK'
            <4>1. rows' \in [Legacy -> Nat] /\ todo' \in [Processes -> SUBSET Legacy]
                <5>1. rows' = [m \in Legacy |-> IF m = l THEN rows[m] + 1 ELSE rows[m]]
                    BY <2>2 DEF ConfigTypeOK
                <5>2. \A m \in Legacy : rows[m] \in Nat
                    BY DEF ConfigTypeOK
                <5>3. todo' \in [Processes -> SUBSET Legacy]
                    BY <2>2 DEF ConfigTypeOK
                <5> HIDE DEF ConfigInv
                <5> QED
                    BY <5>1, <5>2, <5>3
            <4>2. place' \in [Processes -> {"closed", "idle", "look", "create", "loaded"}]
                BY <2>2 DEF ConfigTypeOK
            <4> QED
                BY <2>2, <4>1, <4>2 DEF ConfigTypeOK
        <3>2. \A m \in Legacy : rows'[m] = IF m = l THEN rows[m] + 1 ELSE rows[m]
            BY <2>2 DEF ConfigTypeOK
        <3>3. \A m \in Legacy : rows[m] \in Nat /\ (rows[m] > 0 => rows'[m] > 0)
            BY <3>2 DEF ConfigTypeOK
        <3>4. l \in Legacy => rows'[l] > 0
            BY <3>2, <3>3
        <3>5. ImportedAtMostOnce'
            BY <2>2, <3>2, <3>3 DEF ImportedAtMostOnce, HasRow
        <3>6. ImportNotLost' /\ MarkInv'
            BY <2>2, <3>3 DEF ImportNotLost, MarkInv
        <3>7. /\ \A q \in Processes : q # p => place'[q] = place[q] /\ todo'[q] = todo[q]
              /\ place'[p] = "look" /\ todo'[p] = todo[p] \ {l} /\ place[p] = "create"
            BY <1>3, <2>2 DEF CreatesRow, ConfigTypeOK
        <3>8. LoadInv'
            BY <2>2, <3>3, <3>4, <3>7 DEF LoadInv, Imported, Dated
        <3> QED
            BY <3>1, <3>5, <3>6, <3>8
    <2> QED
        BY <1>3, <2>1, <2>2 DEF CreatesRow, InsertsRow
<1>4. CASE WritesBack(p)
    <2>1. ConfigTypeOK'
        BY <1>4, FileTypes DEF WritesBack, ConfigTypeOK
    <2>2. Imported
        BY <1>4 DEF WritesBack, LoadInv, Imported
    <2>3. ImportedAtMostOnce' /\ ImportNotLost'
        BY <1>4, <2>2 DEF WritesBack, ImportedAtMostOnce, ImportNotLost, Imported, Dated
    <2>4. MarkInv'
        BY <1>4, FileTypes DEF WritesBack, MarkInv, ConfigTypeOK
    <2>5. LoadInv'
        BY <1>4, <2>2 DEF WritesBack, LoadInv, Imported, ConfigTypeOK
    <2> QED
        BY <2>1, <2>3, <2>4, <2>5
<1>5. CASE LoadFaults(p)
    <2>1. faults' \in 0..MaxFaults
        BY <1>5, ConfigConstants DEF LoadFaults, Fault, ConfigTypeOK
    <2>2. /\ unfilled' \in BOOLEAN /\ (unfilled => unfilled') /\ (p = window => unfilled')
          /\ Goto(p, "idle") /\ todo' = [todo EXCEPT ![p] = {}]
          /\ UNCHANGED <<file, rows, copy, applies, form>>
        BY <1>5 DEF LoadFaults, LoadRaises, ConfigTypeOK
    <2> QED
        BY <2>1, <2>2, LoadEnds
<1> QED
    BY <1>1, <1>2, <1>3, <1>4, <1>5 DEF LoadSteps

LEMMA WorkerStep ==
    ASSUME ConfigInv, worker \in Processes, WorkerLoads \/ WorkerRunsJob
    PROVE  ConfigInv'
<1> USE DEF ConfigInv
<1>1. CASE WorkerLoads
    BY <1>1, LoadStarts DEF WorkerLoads, StartLoad, ConfigTypeOK
<1>2. CASE WorkerRunsJob
    <2>1. ConfigTypeOK' /\ LoadInv'
        BY <1>2, ConfigConstants DEF WorkerRunsJob, Goto, ConfigTypeOK, LoadInv, Imported
    <2>2. ImportedAtMostOnce' /\ ImportNotLost' /\ MarkInv'
        BY <1>2 DEF WorkerRunsJob, ImportedAtMostOnce, ImportNotLost, MarkInv
    <2> QED
        BY <2>1, <2>2
<1> QED
    BY <1>1, <1>2

LEMMA WindowStep ==
    ASSUME ConfigInv, window \in Processes, WindowSteps
    PROVE  ConfigInv'
<1> USE DEF ConfigInv
<1>1. CASE OpensWindow
    BY <1>1, LoadStarts DEF OpensWindow, StartLoad, ConfigTypeOK
<1>2. CASE Reloads
    BY <1>2, LoadStarts DEF Reloads, StartLoad, ConfigTypeOK
<1>3. CASE AppliesConfig
    <2>1. copy[window].auto \in BOOLEAN
        BY DEF ConfigTypeOK, Config
    <2>2. CASE applies /\ copy[window].named
        BY <1>3, <2>1, <2>2, FormSaved DEF AppliesConfig, Goto
    <2>3. CASE ~(applies /\ copy[window].named)
        <3>1. file' = file /\ form' \in BOOLEAN
            BY <1>3, <2>1, <2>3 DEF AppliesConfig, ConfigTypeOK
        <3>2. ConfigTypeOK'
            BY <1>3, <3>1 DEF AppliesConfig, Goto, ConfigTypeOK
        <3>3. LoadInv'
            BY <1>3, <3>1 DEF AppliesConfig, Goto, ConfigTypeOK, LoadInv, Imported
        <3>4. ImportedAtMostOnce' /\ ImportNotLost' /\ MarkInv'
            BY <1>3, <3>1 DEF AppliesConfig, ImportedAtMostOnce, ImportNotLost, MarkInv
        <3> QED
            BY <3>2, <3>3, <3>4
    <2> QED
        BY <2>2, <2>3
<1>4. CASE TogglesOption
    BY <1>4 DEF TogglesOption, ConfigTypeOK, LoadInv, Imported, ImportedAtMostOnce,
                ImportNotLost, MarkInv
<1>5. CASE SavesForm
    <2>1. PICK named \in {file.named, TRUE} : file' = FromForm(named)
        BY <1>5 DEF SavesForm
    <2>2. named \in BOOLEAN /\ place' = [place EXCEPT ![window] = "idle"]
        BY <1>5 DEF SavesForm, ConfigTypeOK, Config
    <2> QED
        BY <1>5, <2>1, <2>2, FormSaved DEF SavesForm, ConfigTypeOK
<1> QED
    BY <1>1, <1>2, <1>3, <1>4, <1>5 DEF WindowSteps

LEMMA ConfigStep == ConfigInv /\ [ConfigNext]_configVars => ConfigInv'
<1> SUFFICES ASSUME ConfigInv, [ConfigNext]_configVars PROVE ConfigInv'
    OBVIOUS
<1>1. ASSUME NEW p \in Processes, Dies(p) PROVE ConfigInv'
    <2>1. faults' \in 0..MaxFaults
        BY <1>1, ConfigConstants DEF Dies, Fault, ConfigInv, ConfigTypeOK
    <2> QED
        BY <1>1, <2>1, LoadEnds DEF Dies, ConfigInv, ConfigTypeOK
<1>2. CASE EditsByHand
    <2>1. faults' \in 0..MaxFaults
        BY <1>2, ConfigConstants DEF EditsByHand, Fault, ConfigInv, ConfigTypeOK
    <2>2. file' \in Config /\ file'.legacy = file.legacy /\ file'.migrated = file.migrated
        BY <1>2 DEF EditsByHand, ConfigInv, ConfigTypeOK, Config
    <2> QED
        BY <1>2, <2>1, <2>2 DEF EditsByHand, ConfigInv, ConfigTypeOK, LoadInv, Imported,
            ImportedAtMostOnce, ImportNotLost, MarkInv
<1>3. CASE UNCHANGED configVars
    BY <1>3 DEF configVars, ConfigInv, ConfigTypeOK, LoadInv, Imported, ImportedAtMostOnce,
        ImportNotLost, MarkInv
<1> QED
    BY <1>1, <1>2, <1>3, LoadStep, WorkerStep, WindowStep DEF ConfigNext

LEMMA ConfigInvariant == ConfigSpec => []ConfigInv
<1> QED
    BY ConfigInitial, ConfigStep, PTL DEF ConfigSpec

(* Types of the file, its copies and the rows.                               *)
THEOREM ConfigTypeCorrect == ConfigSpec => []ConfigTypeOK
<1> QED
    BY ConfigInvariant, PTL DEF ConfigInv

(* However many schedules, loads and faults: none with an id gets two rows.  *)
THEOREM ImportedOnce == ConfigSpec => []ImportedAtMostOnce
<1> QED
    BY ConfigInvariant, PTL DEF ConfigInv

(* And none is lost, but for a window that saved what it never loaded.       *)
THEOREM NoImportIsLost == ConfigSpec => []ImportNotLost
<1> QED
    BY ConfigInvariant, PTL DEF ConfigInv
=============================================================================
