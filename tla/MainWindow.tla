------------------------------ MODULE MainWindow ------------------------------
(***************************************************************************)
(* The desktop window: src/ui/main_window.py and its log queue,             *)
(* src/utils/logger.py.  The handlers of Tk run one at a time; a click on   *)
(* one of them starts a browser flow in a thread, which tells the window    *)
(* only through the queue that a timer of Tk drains.                        *)
(*                                                                         *)
(* The flow is seen from the window (FullFlow has its inside): it works,    *)
(* may hold the page open for the user, logs that it finished and ends.     *)
(* The scheduler worker is another process, which runs flows of its own.    *)
(***************************************************************************)
EXTENDS Naturals, Sequences, SequencesExt

CONSTANTS
    Classes,    \* the fixed class cards (CLASS_PRESETS)
    FirstCard,  \* CLASS_PRESETS[0]
    NULL,       \* no class: nothing selected, or a flow that enters none
    MaxRuns     \* bound: threads started by the window

ASSUME WindowConstants ==
    /\ FirstCard \in Classes
    /\ NULL \notin Classes
    /\ MaxRuns \in Nat

VARIABLES
    threads,    \* the threads started so far, in order; self.worker is the last
    stopEvent,  \* self.stop_event
    queue,      \* the log queue; only the messages WORKER_FINISHED are kept
    enabled,    \* are the action buttons, is the stop button enabled?
    selected,   \* selected_class_name
    formClass,  \* schedule_frame.class_var
    scheduled,  \* the class of schedule_frame.selected_id, or NULL
    session,    \* does the directory of the browser session exist?
    asking,     \* is the question open whether to remove it?
    background  \* external: the worker process is inside a flow

otherVars == <<session, asking, background>>
windowVars == <<threads, stopEvent, queue, enabled, selected, formClass, scheduled, otherVars>>

Thread == [phase: {"working", "held", "logged", "dead"}, class: Classes \cup {NULL}]
Message == [text: {"WORKER_FINISHED"}, stamped: BOOLEAN]
Buttons == [actions: BOOLEAN, stop: BOOLEAN]

WindowTypeOK ==
    /\ threads \in Seq(Thread) /\ Len(threads) <= MaxRuns
    /\ stopEvent \in BOOLEAN
    /\ session \in BOOLEAN /\ asking \in BOOLEAN /\ background \in BOOLEAN
    /\ queue \in Seq(Message) /\ Len(queue) <= Len(threads)
    /\ enabled \in Buttons
    /\ selected \in Classes \cup {NULL} /\ scheduled \in Classes \cup {NULL}
    /\ formClass \in Classes

WindowInit ==
    /\ threads = <<>> /\ queue = <<>>
    /\ stopEvent = FALSE /\ asking = FALSE /\ background = FALSE
    /\ session \in BOOLEAN
    /\ enabled = [actions |-> TRUE, stop |-> FALSE]
    /\ selected \in Classes \cup {NULL}     \* config.class_name, in load_config
    /\ formClass = FirstCard
    /\ scheduled = NULL

Alive(thread) == thread.phase # "dead"
WorkerIsAlive == threads # <<>> /\ Alive(Last(threads))
(* self.worker has browser work left to do.                                  *)
Running == threads # <<>> /\ Last(threads).phase \in {"working", "held"}

SetRunning(running) == enabled' = [actions |-> ~running, stop |-> running]

-----------------------------------------------------------------------------
(* Variant: a message without its time.                                      *)
LoggedPlain(text) == [text |-> text, stamped |-> FALSE]
(* logger.log puts the time before every message ...                         *)
Logged(text) == [text |-> text, stamped |-> TRUE]
(* ... and _poll_logs compares the whole line.                               *)
Means(message, text) == message = LoggedPlain(text)

(* The tail of the three _run_ methods: a fresh stop event, locked buttons   *)
(* and a new thread, unless one is alive; then only an error is shown.       *)
StartThread(class) ==
    /\ Len(threads) < MaxRuns
    /\ stopEvent' = FALSE
    /\ SetRunning(TRUE)
    /\ threads' = Append(threads, [phase |-> "working", class |-> class])

(* Variant: the stop event is cleared before the check.                      *)
RunFlowClearsFirst(class) ==
    \/ WorkerIsAlive /\ stopEvent' = FALSE /\ UNCHANGED <<enabled, threads>>
    \/ ~WorkerIsAlive /\ StartThread(class)

(* Variant: no check.                                                        *)
RunFlowUnchecked(class) == StartThread(class)

RunFlow(class) ==
    \/ WorkerIsAlive /\ UNCHANGED <<stopEvent, enabled, threads>>
    \/ ~WorkerIsAlive /\ StartThread(class)

(* select_class, and the card's "schedule" button, which fills the form too. *)
SelectClass(class) ==
    /\ selected' = class
    /\ UNCHANGED <<threads, stopEvent, queue, enabled, formClass, scheduled, otherVars>>

SchedulePreset(class) ==
    /\ selected' = class /\ formClass' = class
    /\ UNCHANGED <<threads, stopEvent, queue, enabled, scheduled, otherVars>>

(* schedule_frame.save: its button is not one of action_buttons.             *)
SaveSchedule ==
    /\ scheduled' = formClass
    /\ UNCHANGED <<threads, stopEvent, queue, enabled, selected, formClass, otherVars>>

(* The card's "enter now": the class is selected whether or not the flow is  *)
(* started; without a password it is not.                                    *)
EnterPresetNow(class) ==
    /\ selected' = class
    /\ RunFlow(class) \/ UNCHANGED <<threads, stopEvent, enabled>>
    /\ UNCHANGED <<queue, formClass, scheduled, otherVars>>

(* start_bot: the row that the form saved last decides on the class.         *)
StartBot ==
    /\ enabled.actions
    /\ LET class == IF scheduled # NULL THEN scheduled ELSE selected
       IN /\ class # NULL
          /\ RunFlow(class)
    /\ UNCHANGED <<queue, selected, formClass, scheduled, otherVars>>

(* test_site and test_vadana_login enter no class.                           *)
TestRun ==
    /\ enabled.actions
    /\ RunFlow(NULL)
    /\ UNCHANGED <<queue, selected, formClass, scheduled, otherVars>>

(* clear_browser_session: the question has an event loop of its own, in      *)
(* which timer and threads go on but no other button can be clicked.         *)
AskToClear ==
    /\ enabled.actions /\ session
    /\ asking' = TRUE
    /\ UNCHANGED <<threads, stopEvent, queue, enabled, selected, formClass, scheduled,
                   session, background>>

ClearSession ==
    /\ asking /\ asking' = FALSE
    /\ session' \in {session, FALSE}
    /\ UNCHANGED <<threads, stopEvent, queue, enabled, selected, formClass, scheduled, background>>

StopBot ==
    /\ enabled.stop
    /\ stopEvent' = TRUE
    /\ enabled' = [enabled EXCEPT !.stop = FALSE]
    /\ UNCHANGED <<threads, queue, selected, formClass, scheduled, otherVars>>

(* _poll_logs, from the timer.                                               *)
PollLogs ==
    /\ queue # <<>>
    /\ queue' = <<>>
    /\ IF \E i \in DOMAIN queue : Means(queue[i], "WORKER_FINISHED")
       THEN SetRunning(FALSE) ELSE UNCHANGED enabled
    /\ UNCHANGED <<threads, stopEvent, selected, formClass, scheduled, otherVars>>

-----------------------------------------------------------------------------
(* The threads.                                                              *)
Moves(n, from, to) ==
    /\ threads[n].phase = from
    /\ threads' = [threads EXCEPT ![n].phase = to]

(* Variant: the flow already says that it finished when it holds the page.   *)
HoldsPageFinished(n) ==
    /\ ~stopEvent
    /\ Moves(n, "working", "held")
    /\ queue' = Append(queue, Logged("WORKER_FINISHED"))
    /\ UNCHANGED <<stopEvent, enabled, selected, formClass, scheduled, otherVars>>

(* launch_persistent_context, for a flow that keeps its session.             *)
OpensSession(n) ==
    /\ threads[n].phase = "working" /\ session' = TRUE
    /\ UNCHANGED <<threads, stopEvent, queue, enabled, selected, formClass, scheduled,
                   asking, background>>

(* keep_open: the page stays for the user, unless a stop was asked for.      *)
HoldsPage(n) ==
    /\ ~stopEvent
    /\ Moves(n, "working", "held")
    /\ UNCHANGED <<stopEvent, queue, enabled, selected, formClass, scheduled, otherVars>>

Finishes(n, from) ==
    /\ Moves(n, from, "logged")
    /\ queue' = Append(queue, Logged("WORKER_FINISHED"))
    /\ UNCHANGED <<stopEvent, enabled, selected, formClass, scheduled, otherVars>>

FlowEnds(n) == Finishes(n, "working")
UserClosesPage(n) == Finishes(n, "held")
(* Variant: the loop that holds the page looks at the page only.             *)
HoldSeesOnlyPage(n) == FALSE /\ Finishes(n, "held")
HoldSeesStop(n) == stopEvent /\ Finishes(n, "held")

ThreadDies(n) ==
    /\ Moves(n, "logged", "dead")
    /\ UNCHANGED <<stopEvent, queue, enabled, selected, formClass, scheduled, otherVars>>

(* The worker process takes a due row and is done with it.                   *)
BackgroundFlow ==
    /\ background' = ~background
    /\ UNCHANGED <<threads, stopEvent, queue, enabled, selected, formClass, scheduled,
                   session, asking>>

Clicks ==
    /\ ~asking
    /\ \/ \E class \in Classes :
            SelectClass(class) \/ SchedulePreset(class) \/ EnterPresetNow(class)
       \/ SaveSchedule \/ StartBot \/ TestRun \/ AskToClear \/ StopBot

ThreadSteps ==
    \E n \in DOMAIN threads :
        OpensSession(n) \/ HoldsPage(n) \/ FlowEnds(n) \/ UserClosesPage(n) \/ HoldSeesStop(n) \/ ThreadDies(n)

WindowNext == Clicks \/ ClearSession \/ PollLogs \/ ThreadSteps \/ BackgroundFlow
WindowSpec == WindowInit /\ [][WindowNext]_windowVars

(* A flow that works comes to rest (FullFlow's FlowComesToRest), a hold      *)
(* looks at the stop event every half second, Tk's timer keeps firing.       *)
(* Nothing is assumed of the user or of the other process.                   *)
FairThread(n) ==
    /\ WF_windowVars(n \in DOMAIN threads /\ FlowEnds(n))
    /\ WF_windowVars(n \in DOMAIN threads /\ HoldSeesStop(n))
    /\ WF_windowVars(n \in DOMAIN threads /\ ThreadDies(n))

FairTimer == WF_windowVars(PollLogs)

WindowFairness ==
    /\ FairTimer
    /\ \A n \in 1..MaxRuns : FairThread(n)

FairWindowSpec == WindowSpec /\ WindowFairness

(* Where a thread has a next step.                                           *)
ThreadCanGoOn(n) ==
    n \in DOMAIN threads =>
        /\ threads[n].phase = "working"
              => ENABLED <<n \in DOMAIN threads /\ FlowEnds(n)>>_windowVars
        /\ threads[n].phase = "held" /\ stopEvent
              => ENABLED <<n \in DOMAIN threads /\ HoldSeesStop(n)>>_windowVars
        /\ threads[n].phase = "logged"
              => ENABLED <<n \in DOMAIN threads /\ ThreadDies(n)>>_windowVars

NoThreadStuck == \A n \in 1..MaxRuns : ThreadCanGoOn(n)

-----------------------------------------------------------------------------
(* However buttons and cards are clicked, the window has one flow at a time: *)
(* no thread but self.worker, the one that is checked, is ever alive.        *)
OneFlowPerWindow ==
    \A n \in DOMAIN threads : Alive(threads[n]) => n = Len(threads)

(* While self.worker has work left, the conflicting actions are disabled and *)
(* Stop is usable until it was used: no message of an earlier flow, drained  *)
(* late, unlocks the buttons of the next.                                    *)
RunningLocksActions ==
    Running => ~enabled.actions /\ (enabled.stop \/ stopEvent)

(* The browser session is removed, seconds after the button was clicked, only *)
(* when no flow of the window works with it: buttons, question, timer and     *)
(* threads together keep the two apart.                                      *)
SessionClearedAtRest == [][session /\ ~session' => ~Running]_windowVars

(* A stop that was asked for is not withdrawn while its flow is alive.       *)
StopIsNotWithdrawn == [][stopEvent /\ WorkerIsAlive => stopEvent']_windowVars

(* A stopped flow ends, also while it holds the page for the user.           *)
StopEndsRun == (stopEvent /\ WorkerIsAlive) ~> ~WorkerIsAlive

(* The docstring of _set_running: only conflicting actions are disabled.     *)
(* Once the flow has ended, so that nothing conflicts, and no other one is   *)
(* started, the actions come back.                                           *)
ActionsComeBack == (threads # <<>> /\ ~WorkerIsAlive) ~> (enabled.actions \/ WorkerIsAlive)

(* The docstring of select_class: exactly one class is selected.  A flow     *)
(* that enters a class enters the one the window shows as selected.          *)
EntersTheSelectedClass ==
    [][Len(threads') > Len(threads)
         => Last(threads').class \in {NULL, selected'}]_windowVars

(* README, on the worker: a lock per schedule and profile prevents a second  *)
(* run beside the first.                                                     *)
OneFlowPerProfile == ~(Running /\ background)
=============================================================================
