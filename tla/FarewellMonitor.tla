---------------------------- MODULE FarewellMonitor ----------------------------
(***************************************************************************)
(* MeetingEndMonitor and FarewellConsensus of src/browser/meeting_end.py:   *)
(* the monitor polls the chat on the meeting's page until the participants  *)
(* say farewell, the tab is closed, the user stops it, or its time is over. *)
(*                                                                         *)
(* The chat is external: anybody says anything at any time, the room may    *)
(* show what was said in earlier meetings, and the page may be unreadable.  *)
(* A message is a farewell or not (is_farewell and its patterns); its       *)
(* sender is what normalize_persian makes of the name, Nobody when that is  *)
(* blank.  A message without text is skipped like one without a sender.     *)
(***************************************************************************)
EXTENDS Integers, Sequences, FiniteSets

CONSTANTS
    Names,          \* senders as the page shows them
    NormalForm,     \* what normalize_persian makes of each name
    Nobody,         \* the blank normal form: no identified sender
    Minimum,        \* farewell_minimum_participants, as configured
    Markups,        \* how many selectors of the script match messages
    Window,         \* how many nodes the script returns (80)
    Histories,      \* the chats a room may show from earlier meetings
    MaxMessages,    \* bound: messages on the page
    MaxPolls        \* bound: polls until the monitor's deadline

Message == [name: Names, farewell: BOOLEAN, markup: 1..Markups]

ASSUME MonitorConstants ==
    /\ Nobody \in {NormalForm[n] : n \in Names}
    /\ Minimum \in Int
    /\ Window \in Nat \ {0}
    /\ Histories \subseteq Seq(Message)
    /\ Markups \in Nat \ {0}
    /\ MaxPolls \in Nat

VARIABLES
    chat,       \* the messages on the page, in the order of the document
    earlier,    \* ghost: how many of them are from earlier meetings
    tab,        \* is the meeting's tab open?
    stop,       \* stop_event
    polls,      \* polls so far
    outcome     \* what wait returned, "none" while it runs

monitorVars == <<chat, earlier, tab, stop, polls, outcome>>

Outcomes == {"none", "stopped", "meeting_closed", "farewell_consensus", "monitor_timeout"}

MonitorTypeOK ==
    /\ chat \in Seq(Message) /\ earlier \in 0..Len(chat)
    /\ tab \in {"open", "closed"} /\ stop \in BOOLEAN
    /\ polls \in 0..MaxPolls
    /\ outcome \in Outcomes

MonitorInit ==
    /\ chat \in Histories /\ earlier = Len(chat)
    /\ tab = "open" /\ stop = FALSE
    /\ polls = 0 /\ outcome = "none"

-----------------------------------------------------------------------------
(* The extraction script collects the nodes selector by selector: a node is  *)
(* behind all nodes of an earlier markup and the earlier ones of its own.    *)
(* Of the nodes in this order the last ones are kept.                        *)
NotBehind(k, i) ==
    chat[k].markup < chat[i].markup \/ (chat[k].markup = chat[i].markup /\ k <= i)
Place(i) == Cardinality({k \in DOMAIN chat : NotBehind(k, i)})
Nodes == [n \in DOMAIN chat |-> chat[CHOOSE i \in DOMAIN chat : Place(i) = n]]
Extracted == SubSeq(Nodes, IF Len(Nodes) > Window THEN Len(Nodes) - Window + 1 ELSE 1, Len(Nodes))

Identified(message) == NormalForm[message.name] # Nobody
Interrupts(message) == Identified(message) /\ ~message.farewell

(* The identified senders of the tail that no other identified message       *)
(* interrupts: the loop over reversed(messages) until its break.             *)
FarewellSenders(messages) ==
    {NormalForm[messages[i].name] : i \in {k \in DOMAIN messages :
        /\ Identified(messages[k])
        /\ \A l \in k..Len(messages) : ~Interrupts(messages[l])}}

AtLeastTwo(n) == IF n < 2 THEN 2 ELSE n

(* Variant: farewells before an interruption count as well.                  *)
ReachedByAnyFarewell(messages) ==
    Cardinality({NormalForm[messages[i].name] : i \in {k \in DOMAIN messages :
        Identified(messages[k]) /\ messages[k].farewell}}) >= AtLeastTwo(Minimum)

Reached(messages) == Cardinality(FarewellSenders(messages)) >= AtLeastTwo(Minimum)

-----------------------------------------------------------------------------
(* One turn of the loop: stop event, tab, chat, then a wait.                 *)
(* Variant: the deadline does not end the loop.                              *)
PollingPastDeadline == outcome = "none"

Polling == outcome = "none" /\ polls < MaxPolls

Returns(result) ==
    /\ outcome' = result
    /\ UNCHANGED <<chat, earlier, tab, stop, polls>>

SeesStop == Polling /\ stop /\ Returns("stopped")

SeesTabClosed == Polling /\ ~stop /\ tab = "closed" /\ Returns("meeting_closed")

SeesConsensus == Polling /\ ~stop /\ tab = "open" /\ Reached(Extracted) /\ Returns("farewell_consensus")

(* Variant: the deadline is computed anew in every turn.                     *)
SeesNothingForEver ==
    /\ Polling /\ ~stop /\ tab = "open"
    /\ polls' = 1
    /\ UNCHANGED <<chat, earlier, tab, stop, outcome>>

(* No consensus, or the script fails: read_messages then finds no messages.  *)
SeesNothing ==
    /\ Polling /\ ~stop /\ tab = "open"
    /\ polls' = polls + 1
    /\ UNCHANGED <<chat, earlier, tab, stop, outcome>>

TimesOut == outcome = "none" /\ polls = MaxPolls /\ Returns("monitor_timeout")

Monitor == SeesStop \/ SeesTabClosed \/ SeesConsensus \/ SeesNothing \/ TimesOut

-----------------------------------------------------------------------------
(* The participants, and the user at this machine.                           *)
Say(message) ==
    /\ outcome = "none" /\ tab = "open" /\ Len(chat) < MaxMessages
    /\ chat' = Append(chat, message)
    /\ UNCHANGED <<earlier, tab, stop, polls, outcome>>

CloseTab ==
    /\ outcome = "none" /\ tab = "open"
    /\ tab' = "closed"
    /\ UNCHANGED <<chat, earlier, stop, polls, outcome>>

SetStop ==
    /\ outcome = "none" /\ ~stop
    /\ stop' = TRUE
    /\ UNCHANGED <<chat, earlier, tab, polls, outcome>>

MonitorNext == Monitor \/ CloseTab \/ SetStop \/ \E message \in Message : Say(message)

MonitorSpec == MonitorInit /\ [][MonitorNext]_monitorVars

(* The loop sleeps for a bounded time and never blocks.                      *)
FairMonitorSpec == MonitorSpec /\ WF_monitorVars(Monitor)

-----------------------------------------------------------------------------
Closes == outcome # "farewell_consensus" /\ outcome' = "farewell_consensus"

(* "Only the uninterrupted farewell tail represents the current end-of-class *)
(* consensus": when the meeting is closed, the newest message of whoever can *)
(* be told apart is a farewell, and so are all back to one of a second       *)
(* person.  One voice, however often, nameless messages, and farewells       *)
(* before a question never close a meeting.                                  *)
ClosesOnFarewellTail ==
    [][Closes => \E i, j \in DOMAIN chat :
          /\ i < j
          /\ Identified(chat[i]) /\ Identified(chat[j])
          /\ NormalForm[chat[i].name] # NormalForm[chat[j].name]
          /\ \A k \in i..Len(chat) : Identified(chat[k]) => chat[k].farewell]_monitorVars

(* The monitor ends, also when the page can never be read.                   *)
MonitorEnds == <>(outcome # "none")

(* The consensus is current: what closes a meeting was said in it.           *)
ConsensusIsCurrent ==
    [][Closes => Cardinality({NormalForm[chat[i].name] : i \in {k \in earlier + 1..Len(chat) :
                    Identified(chat[k]) /\ chat[k].farewell}}) >= 2]_monitorVars

(* "Require every recently active, identified participant to say farewell":  *)
(* whoever has spoken in this meeting, and can be told apart, has said       *)
(* farewell when it is closed.                                               *)
EveryoneSaidFarewell ==
    [][Closes => \A i \in earlier + 1..Len(chat) : Identified(chat[i]) =>
          \E k \in DOMAIN chat :
             chat[k].farewell /\ NormalForm[chat[k].name] = NormalForm[chat[i].name]]_monitorVars
=============================================================================
