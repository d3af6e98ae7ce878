--------------------------- MODULE MeetingEndProofs ---------------------------
(***************************************************************************)
(* Proofs about the two parts of src/browser/meeting_end.py: the monitor of  *)
(* the chat, with any participants, names and markups, and the controller of *)
(* the Adobe processes, with any number of them.                            *)
(***************************************************************************)
EXTENDS FarewellMonitor, AdobeProcesses, FiniteSetTheorems, SequenceTheorems, TLAPS

(* A consensus needs two people, and no one spoke otherwise after the        *)
(* farewell of either.                                                       *)
LEMMA ConsensusNeedsTwo ==
    ASSUME NEW messages, Reached(messages)
    PROVE  \E i, j \in DOMAIN messages :
              /\ Identified(messages[i]) /\ Identified(messages[j])
              /\ NormalForm[messages[i].name] # NormalForm[messages[j].name]
              /\ \A k \in (i..Len(messages)) \cup (j..Len(messages)) : ~Interrupts(messages[k])
<1> DEFINE S == FarewellSenders(messages)
<1>1. Cardinality(S) >= AtLeastTwo(Minimum)
    BY DEF Reached
<1>2. AtLeastTwo(Minimum) \in Int /\ AtLeastTwo(Minimum) >= 2
    BY MonitorConstants DEF AtLeastTwo
<1>3. S # {} /\ \A x : S # {x}
    <2> HIDE DEF S
    <2>1. Cardinality(S) # 0 /\ Cardinality(S) # 1
        BY <1>1, <1>2
    <2>2. S # {}
        BY <2>1, FS_EmptySet
    <2>3. \A x : S # {x}
        BY <2>1, FS_Singleton
    <2> QED
        BY <2>2, <2>3
<1>4. PICK a \in S, b \in S : a # b
    <2> HIDE DEF S
    <2>1. PICK a \in S : TRUE
        BY <1>3
    <2> QED
        BY <1>3, <2>1
<1>5. PICK i \in DOMAIN messages :
        /\ NormalForm[messages[i].name] = a /\ Identified(messages[i])
        /\ \A k \in i..Len(messages) : ~Interrupts(messages[k])
    BY DEF FarewellSenders
<1>6. PICK j \in DOMAIN messages :
        /\ NormalForm[messages[j].name] = b /\ Identified(messages[j])
        /\ \A k \in j..Len(messages) : ~Interrupts(messages[k])
    BY DEF FarewellSenders
<1> HIDE DEF S
<1> QED
    BY <1>4, <1>5, <1>6

LEMMA MonitorTypeStep == MonitorTypeOK /\ [MonitorNext]_monitorVars => MonitorTypeOK'
<1> SUFFICES ASSUME MonitorTypeOK, [MonitorNext]_monitorVars PROVE MonitorTypeOK'
    OBVIOUS
<1> USE DEF MonitorTypeOK
<1>1. CASE SeesStop \/ SeesTabClosed \/ SeesConsensus \/ TimesOut
    <2>1. outcome' \in Outcomes /\ UNCHANGED <<chat, earlier, tab, stop, polls>>
        BY <1>1 DEF SeesStop, SeesTabClosed, SeesConsensus, TimesOut, Returns, Outcomes
    <2> QED
        BY <2>1
<1>2. CASE SeesNothing
    BY <1>2, MonitorConstants DEF SeesNothing, Polling
<1>3. CASE CloseTab \/ SetStop
    BY <1>3 DEF CloseTab, SetStop
<1>4. ASSUME NEW message \in Message, Say(message) PROVE MonitorTypeOK'
    <2>1. chat' \in Seq(Message) /\ Len(chat') = Len(chat) + 1
        BY <1>4 DEF Say
    <2> QED
        BY <1>4, <2>1 DEF Say
<1>5. CASE UNCHANGED monitorVars
    BY <1>5 DEF monitorVars
<1> QED
    BY <1>1, <1>2, <1>3, <1>4, <1>5 DEF MonitorNext, Monitor

(* Types; the monitor makes no more polls than its time allows.              *)
THEOREM MonitorTypeCorrect == MonitorSpec => []MonitorTypeOK
<1>1. MonitorInit => MonitorTypeOK
    <2> SUFFICES ASSUME MonitorInit PROVE MonitorTypeOK
        OBVIOUS
    <2>1. chat \in Seq(Message) /\ earlier = Len(chat)
        BY MonitorConstants DEF MonitorInit
    <2>2. earlier \in 0..Len(chat) /\ polls \in 0..MaxPolls
        BY <2>1, MonitorConstants DEF MonitorInit
    <2> QED
        BY <2>1, <2>2 DEF MonitorInit, MonitorTypeOK, Outcomes
<1> QED
    BY <1>1, MonitorTypeStep, PTL DEF MonitorSpec

(* What the script returned when a meeting is closed: farewells of two       *)
(* people, after which nobody that can be told apart said anything else.     *)
ClosesOnShownTail ==
    [][Closes => \E i, j \in DOMAIN Extracted :
          /\ Identified(Extracted[i]) /\ Identified(Extracted[j])
          /\ NormalForm[Extracted[i].name] # NormalForm[Extracted[j].name]
          /\ \A k \in (i..Len(Extracted)) \cup (j..Len(Extracted)) :
                ~Interrupts(Extracted[k])]_monitorVars

(* However many participants, markups and nodes on the page: one voice, or   *)
(* farewells before a question, never close a meeting.                       *)
THEOREM MeetingsCloseOnShownTail == MonitorSpec => ClosesOnShownTail
<1>1. [MonitorNext]_monitorVars /\ Closes => Reached(Extracted)
    BY DEF MonitorNext, Monitor, monitorVars, Closes, SeesStop, SeesTabClosed, SeesConsensus,
           SeesNothing, TimesOut, Returns, CloseTab, SetStop, Say
<1>2. [MonitorNext]_monitorVars
        => (Closes => \E i, j \in DOMAIN Extracted :
              /\ Identified(Extracted[i]) /\ Identified(Extracted[j])
              /\ NormalForm[Extracted[i].name] # NormalForm[Extracted[j].name]
              /\ \A k \in (i..Len(Extracted)) \cup (j..Len(Extracted)) :
                    ~Interrupts(Extracted[k]))
    BY <1>1, ConsensusNeedsTwo
<1> QED
    BY <1>2, PTL DEF MonitorSpec, ClosesOnShownTail

(* All messages on the page match the same selector of the script.           *)
OneMarkup == \A i, k \in DOMAIN chat : chat[i].markup = chat[k].markup

(* Then the script returns the nodes in the order of the chat.               *)
LEMMA OneMarkupKeepsOrder ==
    ASSUME chat \in Seq(Message), OneMarkup
    PROVE  Nodes = chat
<1>1. DOMAIN chat = 1..Len(chat) /\ Len(chat) \in Nat
    OBVIOUS
<1>2. ASSUME NEW i \in DOMAIN chat PROVE Place(i) = i
    <2>1. \A k \in DOMAIN chat : NotBehind(k, i) <=> k <= i
        <3>1. \A k \in DOMAIN chat : chat[k].markup = chat[i].markup /\ chat[i].markup \in Int
            <4>1. \A k \in DOMAIN chat : chat[k] \in Message
                OBVIOUS
            <4> QED
                BY <1>2, <4>1, MonitorConstants DEF OneMarkup, Message
        <3> QED
            BY <3>1 DEF NotBehind
    <2>2. {k \in DOMAIN chat : NotBehind(k, i)} = 1..i
        <3>1. {k \in DOMAIN chat : NotBehind(k, i)} = {k \in DOMAIN chat : k <= i}
            BY <2>1
        <3>2. {k \in 1..Len(chat) : k <= i} = 1..i
            BY <1>1
        <3> QED
            BY <1>1, <3>1, <3>2
    <2>3. Cardinality(1..i) = i
        BY <1>1, FS_Interval
    <2> QED
        BY <2>2, <2>3 DEF Place
<1>3. \A n \in DOMAIN chat : (CHOOSE i \in DOMAIN chat : Place(i) = n) = n
    BY <1>2
<1>4. Nodes = [n \in DOMAIN chat |-> chat[n]]
    <2> DEFINE At(n) == CHOOSE i \in DOMAIN chat : Place(i) = n
    <2>1. Nodes = [n \in DOMAIN chat |-> chat[At(n)]]
        BY DEF Nodes
    <2>2. \A n \in DOMAIN chat : At(n) = n
        BY <1>3
    <2> HIDE DEF At
    <2> QED
        BY <2>1, <2>2
<1> QED
    BY <1>4

(* The end of a sequence, from behind a cut.                                 *)
LEMMA EndOfSequence ==
    ASSUME NEW S, NEW s \in Seq(S), NEW n \in Nat, n = Len(s), NEW cut \in 0..n,
           NEW t, t = SubSeq(s, cut + 1, n)
    PROVE  /\ Len(t) = n - cut /\ DOMAIN t = 1..Len(t)
           /\ \A k \in DOMAIN t : k + cut \in 1..n /\ t[k] = s[k + cut]
<1>1. \A k \in (cut + 1)..n : s[k] \in S
    OBVIOUS
<1>2. /\ t \in Seq(S)
      /\ Len(t) = IF cut + 1 <= n THEN n - (cut + 1) + 1 ELSE 0
      /\ \A k \in 1..(n - (cut + 1) + 1) : t[k] = s[(cut + 1) + k - 1]
    BY <1>1, SubSeqProperties
<1>3. DOMAIN t = 1..Len(t)
    BY <1>2
<1> DEFINE length == Len(t)
<1>4. length = n - cut
    <2>1. length = IF cut + 1 <= n THEN n - (cut + 1) + 1 ELSE 0
        BY <1>2
    <2> HIDE DEF length
    <2> QED
        BY <2>1
<1>5. \A k \in 1..length : t[k] = s[(cut + 1) + k - 1] /\ (cut + 1) + k - 1 = k + cut /\ k + cut \in 1..n
    <2> HIDE DEF length
    <2> QED
        BY <1>2, <1>4
<1> QED
    BY <1>3, <1>4, <1>5

(* What was kept is the newest part of the chat.                             *)
LEMMA ExtractedIsTail ==
    ASSUME chat \in Seq(Message), OneMarkup
    PROVE  \E cut \in 0..Len(chat) :
              /\ Len(Extracted) = Len(chat) - cut /\ DOMAIN Extracted = 1..Len(Extracted)
              /\ \A k \in DOMAIN Extracted :
                    k + cut \in DOMAIN chat /\ Extracted[k] = chat[k + cut]
<1> DEFINE cut == IF Len(chat) > Window THEN Len(chat) - Window ELSE 0
<1>1. Len(chat) \in Nat /\ cut \in 0..Len(chat) /\ DOMAIN chat = 1..Len(chat)
    BY MonitorConstants
<1>2. Extracted = SubSeq(chat, cut + 1, Len(chat))
    BY OneMarkupKeepsOrder, MonitorConstants DEF Extracted
<1> HIDE DEF cut
<1> DEFINE n == Len(chat)
<1>3. /\ Len(Extracted) = n - cut /\ DOMAIN Extracted = 1..Len(Extracted)
      /\ \A k \in DOMAIN Extracted : k + cut \in 1..n /\ Extracted[k] = chat[k + cut]
    <2>1. n \in Nat /\ n = Len(chat) /\ cut \in 0..n /\ Extracted = SubSeq(chat, cut + 1, n)
        BY <1>1, <1>2
    <2> HIDE DEF n
    <2> QED
        BY <2>1, EndOfSequence
<1> QED
    BY <1>1, <1>3

(* A consensus of what is shown is one of the chat itself.                   *)
LEMMA ShownTailIsChatTail ==
    ASSUME chat \in Seq(Message), OneMarkup, Reached(Extracted)
    PROVE  \E i, j \in DOMAIN chat :
              /\ i < j
              /\ Identified(chat[i]) /\ Identified(chat[j])
              /\ NormalForm[chat[i].name] # NormalForm[chat[j].name]
              /\ \A k \in i..Len(chat) : Identified(chat[k]) => chat[k].farewell
<1>1. PICK cut \in 0..Len(chat) :
        /\ Len(Extracted) = Len(chat) - cut /\ DOMAIN Extracted = 1..Len(Extracted)
        /\ \A k \in DOMAIN Extracted :
              k + cut \in DOMAIN chat /\ Extracted[k] = chat[k + cut]
    BY ExtractedIsTail
<1>2. Len(chat) \in Nat /\ DOMAIN chat = 1..Len(chat)
    OBVIOUS
<1>3. PICK i, j \in DOMAIN Extracted :
        /\ Identified(Extracted[i]) /\ Identified(Extracted[j])
        /\ NormalForm[Extracted[i].name] # NormalForm[Extracted[j].name]
        /\ \A k \in (i..Len(Extracted)) \cup (j..Len(Extracted)) : ~Interrupts(Extracted[k])
    BY ConsensusNeedsTwo
<1>4. PICK first, second \in DOMAIN Extracted :
        /\ first < second
        /\ Identified(Extracted[first]) /\ Identified(Extracted[second])
        /\ NormalForm[Extracted[first].name] # NormalForm[Extracted[second].name]
        /\ \A k \in first..Len(Extracted) : ~Interrupts(Extracted[k])
    <2>1. i \in Int /\ j \in Int /\ i # j
        BY <1>1, <1>2, <1>3
    <2>2. CASE i < j
        BY <1>3, <2>2
    <2>3. CASE j < i
        BY <1>3, <2>3
    <2> QED
        BY <2>1, <2>2, <2>3
<1>5. \A k \in (first + cut)..Len(chat) : Identified(chat[k]) => chat[k].farewell
    <2> SUFFICES ASSUME NEW k \in (first + cut)..Len(chat), Identified(chat[k])
                 PROVE  chat[k].farewell
        OBVIOUS
    <2>1. k - cut \in first..Len(Extracted) /\ k - cut \in DOMAIN Extracted /\ (k - cut) + cut = k
        BY <1>1, <1>2, <1>4
    <2>2. Extracted[k - cut] = chat[k] /\ ~Interrupts(Extracted[k - cut])
        BY <1>1, <1>4, <2>1
    <2> QED
        BY <2>2 DEF Interrupts
<1>6. /\ first + cut \in DOMAIN chat /\ second + cut \in DOMAIN chat
      /\ first + cut < second + cut
    BY <1>1, <1>2, <1>4
<1> QED
    BY <1>1, <1>4, <1>5, <1>6

(* While the page uses one markup for its messages, the meeting is closed    *)
(* only on the farewell tail of its chat: with any participants, any window, *)
(* and whatever was on the page before.                                      *)
THEOREM MeetingsCloseOnFarewellTail == MonitorSpec /\ []OneMarkup => ClosesOnFarewellTail
<1>1. [MonitorNext]_monitorVars /\ Closes => Reached(Extracted)
    BY DEF MonitorNext, Monitor, monitorVars, Closes, SeesStop, SeesTabClosed, SeesConsensus,
           SeesNothing, TimesOut, Returns, CloseTab, SetStop, Say
<1>2. MonitorTypeOK /\ OneMarkup /\ [MonitorNext]_monitorVars
        => (Closes => \E i, j \in DOMAIN chat :
              /\ i < j
              /\ Identified(chat[i]) /\ Identified(chat[j])
              /\ NormalForm[chat[i].name] # NormalForm[chat[j].name]
              /\ \A k \in i..Len(chat) : Identified(chat[k]) => chat[k].farewell)
    BY <1>1, ShownTailIsChatTail DEF MonitorTypeOK
<1> QED
    BY <1>2, MonitorTypeCorrect, PTL DEF MonitorSpec, ClosesOnFarewellTail

(* In particular when the script has only one selector that matches.         *)
THEOREM OneSelectorClosesOnFarewellTail ==
    ASSUME Markups = 1
    PROVE  MonitorSpec => ClosesOnFarewellTail
<1>1. MonitorTypeOK => OneMarkup
    <2> SUFFICES ASSUME MonitorTypeOK, NEW i \in DOMAIN chat PROVE chat[i].markup = 1
        BY DEF OneMarkup
    <2>1. chat[i] \in Message
        BY DEF MonitorTypeOK
    <2> QED
        BY <2>1 DEF Message
<1> QED
    BY <1>1, MonitorTypeCorrect, MeetingsCloseOnFarewellTail, PTL

-----------------------------------------------------------------------------
(* The tree of a pid contains it, is closed under parenthood, and lies in    *)
(* every closed set that contains the pid.                                   *)
LEMMA TreeIsClosed ==
    ASSUME NEW p \in Pids
    PROVE  /\ p \in Tree(p) /\ Tree(p) \subseteq Pids
           /\ \A x \in Tree(p) : Children(x) \subseteq Tree(p)
           /\ \A closed \in SUBSET Pids :
                 p \in closed /\ (\A x \in closed : Children(x) \subseteq closed)
                    => Tree(p) \subseteq closed
<1>1. p \in Tree(p) /\ Tree(p) \subseteq Pids
    BY DEF Tree
<1>2. \A closed \in SUBSET Pids :
        p \in closed /\ (\A x \in closed : Children(x) \subseteq closed)
            => Tree(p) \subseteq closed
    BY DEF Tree
<1>3. ASSUME NEW x \in Tree(p), NEW y \in Children(x) PROVE y \in Tree(p)
    <2>1. y \in Pids
        BY <1>3 DEF Children
    <2>2. \A closed \in SUBSET Pids :
            p \in closed /\ (\A z \in closed : Children(z) \subseteq closed) => y \in closed
        BY <1>2, <1>3
    <2> QED
        BY <2>1, <2>2 DEF Tree
<1> QED
    BY <1>1, <1>2, <1>3

(* What is known of a process from the pid lists.  The bot starts only       *)
(* Adobe, and not before the first snapshot.                                 *)
BotInv ==
    /\ \A p \in Pids : running[p].owner = "bot" =>
          running[p].adobe /\ running[p].since # "before"
    /\ phase \in {"killing", "done"} =>
          \A p \in Pids : running[p].owner = "bot" /\ running[p].since # "after"
              => p \in failed \/ p \in before \/ p \in targets
    /\ phase = "done" => targets = {}

(* If the first snapshot did not fail, it has every Adobe process from before *)
(* it; a target is none of these, whoever has its pid by now.                *)
SnapshotInv ==
    /\ phase = "before" => targets = {} /\ ~blind /\ \A p \in Pids : ~Free(p) => Older(p)
    /\ phase # "before" /\ ~blind =>
          \A p \in Pids : running[p].adobe /\ Older(p) => p \in before
    /\ ~blind => \A p \in targets : ~Older(p)

(* A process whose parent lives has it under its pid, and it is not younger. *)
ParentInv ==
    \A q \in Pids : running[q].parent # "none" /\ ~running[q].orphan =>
        ~Free(running[q].parent) /\ (Older(q) => Older(running[q].parent))

(* A pid is given to a new process.                                          *)
LEMMA StartTypes ==
    ASSUME ProcessTypeOK, NEW p \in Pids, Starts(p)
    PROVE  /\ Since \in {"before", "between", "after"}
           /\ UNCHANGED <<phase, before, targets, failed, blind>> /\ running[p] = NoProcess
           /\ \E owner \in {"bot", "user"}, adobe \in BOOLEAN,
                 parent \in {q \in Pids : ~Free(q)} \cup {"none"} :
                 /\ owner = "bot" => adobe /\ phase # "before"
                 /\ running' = [running EXCEPT ![p] =
                                   [adobe |-> adobe, owner |-> owner, since |-> Since,
                                    parent |-> parent, orphan |-> FALSE]]
                 /\ [adobe |-> adobe, owner |-> owner, since |-> Since,
                     parent |-> parent, orphan |-> FALSE] \in Process
BY DEF Starts, Since, Process, Free

(* Some processes end; of the others only the ghost may change.              *)
LEMMA EndingTypes ==
    ASSUME ProcessTypeOK, NEW ended \in SUBSET Pids, running' = Without(ended)
    PROVE  /\ running' \in [Pids -> Process \cup {NoProcess}]
           /\ \A q \in ended : running'[q] = NoProcess
           /\ \A q \in Pids \ ended :
                 /\ running'[q].adobe = running[q].adobe /\ running'[q].owner = running[q].owner
                 /\ running'[q].since = running[q].since /\ running'[q].parent = running[q].parent
                 /\ running'[q].orphan <=> running[q].orphan \/ running[q].parent \in ended
                 /\ running'[q] = NoProcess <=> running[q] = NoProcess
<1>1. \A q \in Pids : running[q] \in Process \cup {NoProcess}
    BY DEF ProcessTypeOK
<1>2. NoProcess.parent \notin ended /\ NoProcess \notin Process /\ NoProcess.orphan = FALSE
    BY ProcessConstants DEF NoProcess, Process
<1>3. \A q \in Pids : running'[q] =
        IF q \in ended THEN NoProcess
        ELSE IF running[q].parent \in ended THEN [running[q] EXCEPT !.orphan = TRUE]
        ELSE running[q]
    BY DEF Without
<1>4. ASSUME NEW q \in Pids, running[q].parent \in ended
      PROVE  LET r == [running[q] EXCEPT !.orphan = TRUE]
             IN  /\ r \in Process /\ r.orphan
                 /\ r.adobe = running[q].adobe /\ r.owner = running[q].owner
                 /\ r.since = running[q].since /\ r.parent = running[q].parent
                 /\ r # NoProcess /\ running[q] # NoProcess
    <2>1. running[q] \in Process
        BY <1>1, <1>2, <1>4
    <2>2. [running[q] EXCEPT !.orphan = TRUE] \in Process
        BY <2>1 DEF Process
    <2> QED
        BY <1>2, <2>1, <2>2 DEF Process
<1>6. running' \in [Pids -> Process \cup {NoProcess}]
    <2>1. \A q \in Pids : running'[q] \in Process \cup {NoProcess}
        BY <1>1, <1>3, <1>4
    <2>2. running' = [q \in Pids |-> running'[q]]
        BY DEF Without
    <2> QED
        BY <2>1, <2>2
<1>7. ASSUME NEW q \in Pids \ ended
      PROVE  /\ running'[q].adobe = running[q].adobe /\ running'[q].owner = running[q].owner
             /\ running'[q].since = running[q].since /\ running'[q].parent = running[q].parent
             /\ running'[q].orphan <=> running[q].orphan \/ running[q].parent \in ended
             /\ running'[q] = NoProcess <=> running[q] = NoProcess
    <2>1. CASE running[q].parent \in ended
        <3>1. running'[q] = [running[q] EXCEPT !.orphan = TRUE]
            BY <1>3, <2>1
        <3> QED
            BY <1>4, <2>1, <3>1
    <2>2. CASE running[q].parent \notin ended
        BY <1>3, <2>2
    <2> QED
        BY <2>1, <2>2
<1> QED
    BY <1>3, <1>6, <1>7

(* However processes end, those of a set end together.                       *)
LEMMA EndingStep ==
    ASSUME NEW p \in Pids, Ends(p) \/ KillSucceeds(p) \/ KillFails(p)
    PROVE  /\ \E ended \in SUBSET Pids : running' = Without(ended) /\ (KillSucceeds(p) => p \in ended)
           /\ UNCHANGED <<starts, phase, before, blind>>
           /\ \/ targets' = targets /\ failed' = failed
              \/ targets' = targets \ {p} /\ failed' = failed /\ KillSucceeds(p)
              \/ targets' = targets \ {p} /\ failed' = failed \cup {p}
<1>1. CASE Ends(p)
    BY <1>1 DEF Ends, KillSucceeds
<1>2. CASE KillSucceeds(p)
    BY <1>2, TreeIsClosed DEF KillSucceeds
<1>3. CASE KillFails(p)
    <2>1. PICK ended \in SUBSET (IF Free(p) THEN {} ELSE Tree(p)) : running' = Without(ended)
        BY <1>3 DEF KillFails, EndsInPart
    <2>2. ended \in SUBSET Pids
        BY <2>1, TreeIsClosed
    <2> QED
        BY <1>2, <1>3, <2>1, <2>2 DEF KillFails
<1> QED
    BY <1>1, <1>2, <1>3

LEMMA ProcessTypeStep == ProcessTypeOK /\ [ProcessNext]_processVars => ProcessTypeOK'
<1> SUFFICES ASSUME ProcessTypeOK, [ProcessNext]_processVars PROVE ProcessTypeOK'
    OBVIOUS
<1>1. CASE SnapshotBefore \/ ListNew \/ CloseDone
    BY <1>1 DEF ProcessTypeOK, SnapshotBefore, ListNew, CloseDone, Listing, AdobePids, NewSince
<1>2. ASSUME NEW p \in Pids, Starts(p) PROVE ProcessTypeOK'
    <2>1. running' \in [Pids -> Process \cup {NoProcess}]
        BY <1>2, StartTypes DEF ProcessTypeOK
    <2>2. starts' \in 0..MaxStarts
        BY <1>2, ProcessConstants DEF Starts, ProcessTypeOK
    <2> QED
        BY <1>2, <2>1, <2>2 DEF Starts, ProcessTypeOK
<1>3. ASSUME NEW p \in Pids, Ends(p) \/ KillSucceeds(p) \/ KillFails(p) PROVE ProcessTypeOK'
    <2>1. running' \in [Pids -> Process \cup {NoProcess}]
        BY <1>3, EndingStep, EndingTypes
    <2> QED
        BY <1>3, <2>1, EndingStep DEF ProcessTypeOK
<1>4. CASE UNCHANGED processVars
    BY <1>4 DEF processVars, ProcessTypeOK
<1> QED
    BY <1>1, <1>2, <1>3, <1>4 DEF ProcessNext

(* Types of the pids, processes and phases.                                  *)
THEOREM ProcessTypeCorrect == ProcessSpec => []ProcessTypeOK
<1>1. ProcessInit => ProcessTypeOK
    <2>1. ProcessInit => blind \in BOOLEAN
        BY DEF ProcessInit
    <2>2. ProcessInit => running \in [Pids -> Process \cup {NoProcess}]
        BY DEF ProcessInit
    <2> QED
        BY <2>1, <2>2, ProcessConstants DEF ProcessInit, ProcessTypeOK
<1> QED
    BY <1>1, ProcessTypeStep, PTL DEF ProcessSpec

LEMMA BotStep == ProcessTypeOK /\ BotInv /\ [ProcessNext]_processVars => BotInv'
<1> SUFFICES ASSUME ProcessTypeOK, BotInv, [ProcessNext]_processVars PROVE BotInv'
    OBVIOUS
<1> USE DEF BotInv
<1>1. CASE SnapshotBefore
    BY <1>1 DEF SnapshotBefore
<1>2. CASE ListNew
    <2>1. PICK listed \in Listing :
            /\ targets' = listed \ before /\ failed' = AdobePids \ listed
            /\ phase' = "killing" /\ UNCHANGED <<running, before>>
        BY <1>2 DEF ListNew, NewSince
    <2>2. \A p \in Pids : running[p].owner = "bot" => p \in AdobePids
        BY DEF AdobePids
    <2> QED
        BY <2>1, <2>2
<1>3. CASE CloseDone
    BY <1>3 DEF CloseDone
<1>4. ASSUME NEW p \in Pids, Starts(p) PROVE BotInv'
    <2>1. PICK owner \in {"bot", "user"}, adobe \in BOOLEAN,
               parent \in {q \in Pids : ~Free(q)} \cup {"none"} :
            /\ owner = "bot" => adobe /\ phase # "before"
            /\ running' = [running EXCEPT ![p] =
                              [adobe |-> adobe, owner |-> owner, since |-> Since,
                               parent |-> parent, orphan |-> FALSE]]
        BY <1>4, StartTypes
    <2>2. /\ UNCHANGED <<phase, before, targets, failed>>
          /\ phase \in {"before", "meeting", "killing", "done"}
        BY <1>4 DEF Starts, ProcessTypeOK
    <2>3. /\ phase # "before" => Since # "before"
          /\ phase \in {"killing", "done"} => Since = "after"
        BY <2>2 DEF Since
    <2>4. \A q \in Pids : /\ q # p => running'[q] = running[q]
                          /\ q = p => running'[q].owner = owner /\ running'[q].adobe = adobe
                                      /\ running'[q].since = Since
        BY <2>1 DEF ProcessTypeOK
    <2> QED
        BY <2>1, <2>2, <2>3, <2>4
<1>5. ASSUME NEW p \in Pids, Ends(p) \/ KillSucceeds(p) \/ KillFails(p) PROVE BotInv'
    <2>1. PICK ended \in SUBSET Pids : running' = Without(ended) /\ (KillSucceeds(p) => p \in ended)
        BY <1>5, EndingStep
    <2>2. /\ \A q \in ended : running'[q] = NoProcess
          /\ \A q \in Pids \ ended :
                /\ running'[q].adobe = running[q].adobe /\ running'[q].owner = running[q].owner
                /\ running'[q].since = running[q].since
        BY <2>1, EndingTypes
    <2>3. \A q \in Pids : running'[q].owner = "bot" =>
            /\ q \notin ended /\ running[q].owner = "bot"
            /\ running'[q].adobe = running[q].adobe /\ running'[q].since = running[q].since
        BY <2>2 DEF NoProcess
    <2>4. /\ UNCHANGED <<phase, before>>
          /\ \/ targets' = targets /\ failed' = failed
             \/ targets' = targets \ {p} /\ failed' = failed /\ p \in ended
             \/ targets' = targets \ {p} /\ failed' = failed \cup {p}
        BY <1>5, <2>1, EndingStep
    <2> QED
        BY <2>3, <2>4
<1>6. CASE UNCHANGED processVars
    BY <1>6 DEF processVars
<1> QED
    BY <1>1, <1>2, <1>3, <1>4, <1>5, <1>6 DEF ProcessNext

(* Whatever is left of the bot's Adobe after close_new has its reason: the   *)
(* only ones are a failed kill or listing, a late start or an old pid.       *)
THEOREM LeftoversHaveAReason == ProcessSpec => []LeftoversExplained
<1>1. ProcessInit => BotInv
    BY DEF ProcessInit, BotInv, NoProcess
<1>2. ProcessSpec => []BotInv
    BY <1>1, BotStep, ProcessTypeCorrect, PTL DEF ProcessSpec
<1>3. BotInv => LeftoversExplained
    BY DEF BotInv, LeftoversExplained
<1> QED
    BY <1>2, <1>3, PTL

LEMMA SnapshotStep == ProcessTypeOK /\ SnapshotInv /\ [ProcessNext]_processVars => SnapshotInv'
<1> SUFFICES ASSUME ProcessTypeOK, SnapshotInv, [ProcessNext]_processVars PROVE SnapshotInv'
    OBVIOUS
<1> USE DEF SnapshotInv
<1>1. CASE SnapshotBefore
    BY <1>1 DEF SnapshotBefore, Listing, AdobePids, Older
<1>2. CASE ListNew
    <2>1. PICK listed \in Listing :
            /\ targets' = listed \ before /\ phase = "meeting"
            /\ phase' = "killing" /\ UNCHANGED <<running, before, blind>>
        BY <1>2 DEF ListNew, NewSince
    <2>2. \A p \in listed : p \in Pids /\ running[p].adobe
        BY <2>1 DEF Listing, AdobePids
    <2> QED
        BY <2>1, <2>2 DEF Older
<1>3. CASE CloseDone
    BY <1>3 DEF CloseDone, Older
<1>4. ASSUME NEW p \in Pids, Starts(p) PROVE SnapshotInv'
    <2>1. UNCHANGED <<phase, before, targets, blind>>
        BY <1>4 DEF Starts
    <2>2. phase = "before" <=> Since = "before"
        BY DEF Since, ProcessTypeOK
    <2>3. running'[p].since = Since /\ \A q \in Pids : q # p => running'[q] = running[q]
        <3>1. PICK owner \in {"bot", "user"}, adobe \in BOOLEAN,
                   parent \in {q \in Pids : ~Free(q)} \cup {"none"} :
                running' = [running EXCEPT ![p] =
                               [adobe |-> adobe, owner |-> owner, since |-> Since,
                                parent |-> parent, orphan |-> FALSE]]
            BY <1>4, StartTypes
        <3> QED
            BY <3>1 DEF ProcessTypeOK
    <2> QED
        BY <2>1, <2>2, <2>3 DEF ProcessTypeOK, Older, Free
<1>5. ASSUME NEW p \in Pids, Ends(p) \/ KillSucceeds(p) \/ KillFails(p) PROVE SnapshotInv'
    <2>1. PICK ended \in SUBSET Pids : running' = Without(ended)
        BY <1>5, EndingStep
    <2>2. \A q \in Pids : /\ Older(q)' => Older(q)
                          /\ running'[q].adobe => running[q].adobe
                          /\ ~Free(q)' /\ Older(q) => Older(q)'
                          /\ ~Free(q)' => ~Free(q)
        BY <2>1, EndingTypes DEF Older, NoProcess, Free
    <2>3. targets' \subseteq targets /\ UNCHANGED <<phase, before, blind>>
        BY <1>5, EndingStep
    <2> QED
        BY <2>2, <2>3 DEF ProcessTypeOK
<1>6. CASE UNCHANGED processVars
    BY <1>6 DEF processVars, Older, Free
<1> QED
    BY <1>1, <1>2, <1>3, <1>4, <1>5, <1>6 DEF ProcessNext

LEMMA ParentStep ==
    ProcessTypeOK /\ SnapshotInv /\ ParentInv /\ [ProcessNext]_processVars => ParentInv'
<1> SUFFICES ASSUME ProcessTypeOK, SnapshotInv, ParentInv, [ProcessNext]_processVars
             PROVE  ParentInv'
    OBVIOUS
<1>1. CASE SnapshotBefore \/ ListNew \/ CloseDone \/ UNCHANGED processVars
    <2>1. running' = running
        BY <1>1 DEF SnapshotBefore, ListNew, CloseDone, processVars
    <2> QED
        BY <2>1 DEF ParentInv, Older, Free
<1>2. ASSUME NEW p \in Pids, Starts(p) PROVE ParentInv'
    <2>1. PICK owner \in {"bot", "user"}, adobe \in BOOLEAN,
               parent \in {q \in Pids : ~Free(q)} \cup {"none"} :
            running' = [running EXCEPT ![p] =
                           [adobe |-> adobe, owner |-> owner, since |-> Since,
                            parent |-> parent, orphan |-> FALSE]]
        BY <1>2, StartTypes
    <2>2. \A q \in Pids : q # p => running'[q] = running[q]
        BY <2>1 DEF ProcessTypeOK
    <2>3. running'[p].parent = parent /\ running'[p].since = Since
        BY <2>1 DEF ProcessTypeOK
    <2>4. running[p] = NoProcess
        BY <1>2, StartTypes
    <2>5. \A q \in Pids : running[q].parent \in Pids \cup {"none"}
        BY DEF ProcessTypeOK, Process, NoProcess
    <2>6. Since = "before" => phase = "before"
        BY DEF Since, ProcessTypeOK
    <2>7. ASSUME NEW q \in Pids, running'[q].parent # "none", ~running'[q].orphan
          PROVE  (~Free(running[q].parent) /\ (Older(q) => Older(running[q].parent)))'
        <3>1. CASE q = p
            <4>1. parent \in Pids /\ ~Free(parent) /\ parent # p
                BY <2>3, <2>4, <2>7, <3>1 DEF Free
            <4>2. running'[parent] = running[parent]
                BY <2>2, <4>1
            <4>3. Older(p)' => Older(parent)
                BY <2>3, <2>6, <4>1 DEF Older, SnapshotInv
            <4> QED
                BY <2>3, <3>1, <4>1, <4>2, <4>3 DEF Free, Older
        <3>2. CASE q # p
            <4>1. running'[q] = running[q] /\ ~Free(running[q].parent)
                BY <2>2, <2>7, <3>2 DEF ParentInv
            <4>2. running[q].parent \in Pids /\ running[q].parent # p
                BY <2>4, <2>5, <2>7, <4>1 DEF Free
            <4> QED
                BY <2>2, <2>7, <4>1, <4>2 DEF ParentInv, Free, Older
        <3> QED
            BY <3>1, <3>2
    <2> QED
        BY <2>7 DEF ParentInv
<1>3. ASSUME NEW p \in Pids, Ends(p) \/ KillSucceeds(p) \/ KillFails(p) PROVE ParentInv'
    <2>1. PICK ended \in SUBSET Pids : running' = Without(ended)
        BY <1>3, EndingStep
    <2>2. \A q \in Pids : running[q].parent \in Pids \cup {"none"}
        BY DEF ProcessTypeOK, Process, NoProcess
    <2>3. ASSUME NEW q \in Pids, running'[q].parent # "none", ~running'[q].orphan
          PROVE  (~Free(running[q].parent) /\ (Older(q) => Older(running[q].parent)))'
        <3>1. q \notin ended
            BY <2>1, <2>3, EndingTypes DEF NoProcess
        <3>2. /\ running'[q].parent = running[q].parent /\ ~running[q].orphan
              /\ running[q].parent \notin ended /\ running'[q].since = running[q].since
            BY <2>1, <2>3, <3>1, EndingTypes
        <3>3. running[q].parent \in Pids \ ended
            BY <2>2, <2>3, <3>2
        <3>4. /\ ~Free(running[q].parent)
              /\ Older(q) => Older(running[q].parent)
            BY <2>3, <3>2 DEF ParentInv
        <3>5. /\ running'[running[q].parent].since = running[running[q].parent].since
              /\ running'[running[q].parent] # NoProcess
            BY <2>1, <3>3, <3>4, EndingTypes DEF Free
        <3> QED
            BY <3>2, <3>4, <3>5 DEF Older, Free
    <2> QED
        BY <2>3 DEF ParentInv
<1> QED
    BY <1>1, <1>2, <1>3 DEF ProcessNext

(* Down the tree of a later process, the first older one is an orphan: a     *)
(* living parent would be older still.                                       *)
LEMMA OlderInTree ==
    ASSUME ParentInv, NEW p \in Pids, ~Older(p), NEW q \in Tree(p), Older(q)
    PROVE  \E x \in Tree(p) : Older(x) /\ running[x].orphan
<1> SUFFICES ASSUME \A x \in Tree(p) : Older(x) => ~running[x].orphan PROVE FALSE
    OBVIOUS
<1> DEFINE later == {x \in Tree(p) : ~Older(x)}
<1>1. later \in SUBSET Pids /\ p \in later
    BY TreeIsClosed
<1>2. ASSUME NEW x \in later, NEW y \in Children(x) PROVE y \in later
    <2>1. x \in Pids /\ ~Older(x)
        BY <1>1
    <2>2. y \in Tree(p) /\ y \in Pids /\ running[y].parent = x
        BY TreeIsClosed DEF Children
    <2>3. x # "none"
        BY <2>1, ProcessConstants
    <2> QED
        BY <2>1, <2>2, <2>3 DEF ParentInv
<1> HIDE DEF later
<1>3. Tree(p) \subseteq later
    BY <1>1, <1>2, TreeIsClosed
<1> QED
    BY <1>3 DEF later

(* Unless the first listing failed, a process from before it is ended only   *)
(* in the tree of a reused pid, however many processes come, go, start       *)
(* others and share their pids meanwhile.                                    *)
THEOREM OlderEndOnlyInReusedTree == ProcessSpec => StopsOnlyLater
<1>1. ProcessInit => SnapshotInv /\ ParentInv
    BY DEF ProcessInit, SnapshotInv, ParentInv, NoProcess, Free
<1>2. ProcessSpec => [](ProcessTypeOK /\ SnapshotInv /\ ParentInv)
    BY <1>1, SnapshotStep, ParentStep, ProcessTypeCorrect, PTL DEF ProcessSpec
<1>3. ASSUME ProcessTypeOK, SnapshotInv, ParentInv, [ProcessNext]_processVars,
             NEW p \in Pids, Kills(p), NEW q \in Stopped, Older(q), ~blind
      PROVE  \E x \in Tree(p) : Older(x) /\ running[x].orphan
    <2>1. q \in Pids /\ ~Free(q) /\ running'[q] = NoProcess /\ running[q] # NoProcess
        BY <1>3 DEF Stopped, Free
    <2>2. p \in targets /\ p \notin targets' /\ ~Older(p)
        BY <1>3 DEF Kills, SnapshotInv
    <2>3. KillSucceeds(p) \/ KillFails(p)
        <3>1. ~(SnapshotBefore \/ ListNew \/ CloseDone \/ UNCHANGED processVars)
            BY <2>1 DEF SnapshotBefore, ListNew, CloseDone, processVars
        <3>2. \A r \in Pids : ~Starts(r) /\ ~Ends(r)
            BY <2>2 DEF Starts, Ends
        <3>3. \A r \in Pids : KillSucceeds(r) \/ KillFails(r) => r = p
            BY <2>2 DEF KillSucceeds, KillFails
        <3> QED
            BY <1>3, <3>1, <3>2, <3>3 DEF ProcessNext
    <2>4. \E ended \in SUBSET Tree(p) : running' = Without(ended)
        BY <2>3 DEF KillSucceeds, KillFails, EndsInPart
    <2>5. q \in Tree(p)
        <3>1. PICK ended \in SUBSET Tree(p) : running' = Without(ended)
            BY <2>4
        <3>2. ended \in SUBSET Pids
            BY TreeIsClosed
        <3>3. q \in Pids \ ended => (running'[q] = NoProcess <=> running[q] = NoProcess)
            BY <1>3, <3>1, <3>2, EndingTypes
        <3> QED
            BY <2>1, <3>3
    <2> QED
        BY <1>3, <2>2, <2>5, OlderInTree
<1>4. ProcessTypeOK /\ SnapshotInv /\ ParentInv /\ [ProcessNext]_processVars
        => \A p \in Pids : Kills(p) => \A q \in Stopped : Older(q) =>
              blind \/ \E x \in Tree(p) : Older(x) /\ running[x].orphan
    BY <1>3
<1> QED
    BY <1>2, <1>4, PTL DEF ProcessSpec, StopsOnlyLater
=============================================================================
