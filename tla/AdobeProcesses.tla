---------------------------- MODULE AdobeProcesses ----------------------------
(***************************************************************************)
(* AdobeProcessController of src/browser/meeting_end.py, in the two places  *)
(* login_and_enter_class uses it: a snapshot before the class is entered,   *)
(* and close_new after a farewell.  Processes start and end at any time, on *)
(* their own, and Windows gives the pid of an ended one to the next.  It     *)
(* keeps with each process the pid of the one that started it, also when     *)
(* that pid has changed hands: taskkill /T goes by it.                       *)
(***************************************************************************)
EXTENDS Integers, FiniteSets

CONSTANTS
    Pids,               \* process ids
    MaxStarts           \* bound: processes started during a behaviour

(* A process: is its image one of PROCESS_NAMES, whose is it, when did it    *)
(* start, seen from the two snapshots, the pid of its parent ("none" for one *)
(* that is not followed here), and, as a ghost, has that parent ended?       *)
Process == [adobe: BOOLEAN, owner: {"bot", "user"}, since: {"before", "between", "after"},
            parent: Pids \cup {"none"}, orphan: BOOLEAN]
NoProcess ==
    [adobe |-> FALSE, owner |-> "none", since |-> "never", parent |-> "none", orphan |-> FALSE]

ASSUME ProcessConstants == MaxStarts \in Nat /\ "none" \notin Pids

VARIABLES
    running,    \* external: the process that has each pid
    starts,     \* processes started so far
    phase,      \* "before" the snapshot, "meeting", "killing", "done"
    before,     \* adobe_processes_before
    targets,    \* pids that close_new still has to visit
    failed,     \* ghost: pids whose taskkill failed or whose listing did
    blind       \* ghost: did the first listing fail?

processVars == <<running, starts, phase, before, targets, failed, blind>>

ProcessTypeOK ==
    /\ running \in [Pids -> Process \cup {NoProcess}]
    /\ starts \in 0..MaxStarts
    /\ phase \in {"before", "meeting", "killing", "done"}
    /\ before \subseteq Pids /\ targets \subseteq Pids /\ failed \subseteq Pids
    /\ blind \in BOOLEAN

ProcessInit ==
    /\ running = [p \in Pids |-> NoProcess]
    /\ starts = 0 /\ phase = "before"
    /\ before = {} /\ targets = {} /\ failed = {} /\ blind = FALSE

-----------------------------------------------------------------------------
Free(p) == running[p] = NoProcess
AdobePids == {p \in Pids : running[p].adobe}
Children(p) == {q \in Pids : ~Free(q) /\ running[q].parent = p}

(* The process tree of taskkill /T: the pid, and with each pid those that    *)
(* have it as the pid of their parent.                                       *)
Tree(p) ==
    {q \in Pids : \A closed \in SUBSET Pids :
        p \in closed /\ (\A x \in closed : Children(x) \subseteq closed) => q \in closed}

Since == CASE phase = "before" -> "before" [] phase = "meeting" -> "between" [] OTHER -> "after"

(* Processes end, and those that they started stay behind.                   *)
Without(ended) ==
    [q \in Pids |-> IF q \in ended THEN NoProcess
                    ELSE IF running[q].parent \in ended THEN [running[q] EXCEPT !.orphan = TRUE]
                    ELSE running[q]]

(* The bot's Adobe starts once the class was entered, also late, when a      *)
(* dialog of Windows is confirmed.                                           *)
Starts(p) ==
    /\ Free(p) /\ starts < MaxStarts
    /\ \E owner \in {"bot", "user"}, adobe \in BOOLEAN,
          parent \in {q \in Pids : ~Free(q)} \cup {"none"} :
         /\ owner = "bot" => adobe /\ phase # "before"
         /\ running' = [running EXCEPT ![p] =
               [adobe |-> adobe, owner |-> owner, since |-> Since,
                parent |-> parent, orphan |-> FALSE]]
    /\ starts' = starts + 1
    /\ UNCHANGED <<phase, before, targets, failed, blind>>

Ends(p) ==
    /\ ~Free(p)
    /\ running' = Without({p})
    /\ UNCHANGED <<starts, phase, before, targets, failed, blind>>

(* Variant: the header of the listing is taken for a process.                *)
ListingWithHeader == {AdobePids \cup {"PID"}}

(* snapshot: the pids of tasklist, or the empty set when tasklist fails.     *)
Listing == {AdobePids, {}}

SnapshotBefore ==
    /\ phase = "before"
    /\ phase' = "meeting"
    /\ before' \in Listing
    /\ blind' = (before' # AdobePids)
    /\ UNCHANGED <<running, starts, targets, failed>>

(* Variant: every Adobe process is a target.                                 *)
NewSinceIgnored(listed) == listed

NewSince(listed) == listed \ before

(* close_new: the second listing, then one taskkill per new pid.             *)
ListNew ==
    /\ phase = "meeting"
    /\ phase' = "killing"
    /\ \E listed \in Listing :
         /\ targets' = NewSince(listed)
         /\ failed' = AdobePids \ listed
    /\ UNCHANGED <<running, starts, before, blind>>

KillSucceeds(p) ==
    /\ phase = "killing" /\ p \in targets /\ ~Free(p)
    /\ running' = Without(Tree(p))
    /\ targets' = targets \ {p}
    /\ UNCHANGED <<starts, phase, before, failed, blind>>

(* What a taskkill that fails may have ended before it failed.               *)
EndsInPart(p) ==
    \E ended \in SUBSET (IF Free(p) THEN {} ELSE Tree(p)) : running' = Without(ended)

(* Variant: the loop ends at the first taskkill that fails.                  *)
KillFailsAndEnds(p) ==
    /\ phase = "killing" /\ p \in targets
    /\ EndsInPart(p)
    /\ targets' = {}
    /\ failed' = failed \cup {p}
    /\ UNCHANGED <<starts, phase, before, blind>>

(* The process is gone, one of the tree cannot be ended, or taskkill does    *)
(* not answer in time.                                                       *)
KillFails(p) ==
    /\ phase = "killing" /\ p \in targets
    /\ EndsInPart(p)
    /\ targets' = targets \ {p}
    /\ failed' = failed \cup {p}
    /\ UNCHANGED <<starts, phase, before, blind>>

CloseDone ==
    /\ phase = "killing" /\ targets = {}
    /\ phase' = "done"
    /\ UNCHANGED <<running, starts, before, targets, failed, blind>>

ProcessNext ==
    \/ SnapshotBefore \/ ListNew \/ CloseDone
    \/ \E p \in Pids : Starts(p) \/ Ends(p) \/ KillSucceeds(p) \/ KillFails(p)

ProcessSpec == ProcessInit /\ [][ProcessNext]_processVars

-----------------------------------------------------------------------------
(* close_new visits p, and ends the processes of Stopped.                    *)
Kills(p) == p \in targets /\ targets' = targets \ {p}
Stopped == {q \in Pids : ~Free(q) /\ running'[q] = NoProcess}

Older(q) == running[q].since = "before"

(* "Stop only processes created afterward", and what the code keeps of it: a *)
(* process from before the first snapshot is ended only if that listing      *)
(* failed, or if in the tree of a later Adobe process there is one whose     *)
(* parent is long gone and whose parent's pid was given to a later process.  *)
StopsOnlyLater ==
    [][\A p \in Pids : Kills(p) =>
          \A q \in Stopped : Older(q) =>
             blind \/ \E x \in Tree(p) : Older(x) /\ running[x].orphan]_processVars

(* The docstring's words, which the code does not keep.                      *)
StopsOnlyCreatedAfterward ==
    [][\A p \in Pids : Kills(p) => \A q \in Stopped : ~Older(q)]_processVars

(* An Adobe process of the bot survives close_new only if its kill or its    *)
(* listing failed, it came after the listing, or it was given the pid of a   *)
(* process of the first snapshot.                                            *)
LeftoversExplained ==
    phase = "done" => \A p \in Pids :
        running[p].owner = "bot" =>
            p \in failed \/ p \in before \/ running[p].since = "after"

(* "Close only meeting resources we own": what is ended is the bot's.        *)
ClosesOnlyOwn ==
    [][\A p \in Pids : Kills(p) => \A q \in Stopped : running[q].owner = "bot"]_processVars
=============================================================================
