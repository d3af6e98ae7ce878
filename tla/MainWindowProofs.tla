--------------------------- MODULE MainWindowProofs ---------------------------
(***************************************************************************)
(* Proofs about MainWindow: any class cards, any number of clicks and of    *)
(* threads.                                                                 *)
(***************************************************************************)
EXTENDS MainWindow, TLAPS

(* A thread that still has its message to write is the last one, and none    *)
(* writes it twice: so there are never more messages than threads.           *)
Unfinished == IF Running THEN 1 ELSE 0

QueueInv ==
    /\ queue \in Seq({Logged("WORKER_FINISHED")})
    /\ Len(queue) + Unfinished <= Len(threads)

(* No message is the plain one that unlocks the buttons, so the first thread *)
(* locks the actions for good.                                               *)
LockInv == threads # <<>> => ~enabled.actions /\ (enabled.stop \/ stopEvent)

(* The question was asked when the actions were not locked, and while it is  *)
(* open nothing is started.                                                  *)
AskInv == asking => threads = <<>>

StateTypes ==
    /\ threads \in Seq(Thread) /\ Len(threads) <= MaxRuns
    /\ stopEvent \in BOOLEAN
    /\ session \in BOOLEAN /\ asking \in BOOLEAN /\ background \in BOOLEAN
    /\ enabled \in Buttons
    /\ selected \in Classes \cup {NULL} /\ scheduled \in Classes \cup {NULL}
    /\ formClass \in Classes

WindowInv == StateTypes /\ QueueInv /\ OneFlowPerWindow /\ LockInv /\ AskInv

-----------------------------------------------------------------------------
LEMMA LastThread ==
    ASSUME StateTypes
    PROVE  /\ WorkerIsAlive <=> threads # <<>> /\ Alive(threads[Len(threads)])
           /\ Running <=> threads # <<>> /\ threads[Len(threads)].phase \in {"working", "held"}
BY DEF WorkerIsAlive, Running, Last

LEMMA RunningIsAlive == ASSUME StateTypes PROVE Running => WorkerIsAlive
BY LastThread DEF Alive

LEMMA WindowInitial == WindowInit => WindowInv
<1> SUFFICES ASSUME WindowInit PROVE WindowInv
    OBVIOUS
<1>1. StateTypes
    <2>1. enabled \in Buttons
        BY DEF WindowInit, Buttons
    <2>2. threads \in Seq(Thread) /\ Len(threads) <= MaxRuns
        BY WindowConstants DEF WindowInit
    <2> QED
        BY <2>1, <2>2, WindowConstants DEF WindowInit, StateTypes
<1>2. ~Running
    BY DEF WindowInit, Running
<1> QED
    BY <1>1, <1>2
       DEF WindowInit, WindowInv, QueueInv, Unfinished, OneFlowPerWindow, LockInv, AskInv

(* run_flow and what it starts, for each of the handlers that call it: a new *)
(* thread is started when all others have ended.                             *)
LEMMA FlowStarts ==
    ASSUME WindowInv, ~asking, NEW class \in Classes \cup {NULL}, RunFlow(class),
           UNCHANGED <<queue, otherVars>>,
           selected' \in Classes \cup {NULL}, UNCHANGED <<formClass, scheduled>>
    PROVE  WindowInv'
<1> USE DEF WindowInv
<1>1. CASE WorkerIsAlive /\ UNCHANGED <<stopEvent, enabled, threads>>
    <2>1. (Running <=> Running') /\ (WorkerIsAlive <=> WorkerIsAlive')
        BY <1>1 DEF Running, WorkerIsAlive
    <2> QED
        BY <1>1, <2>1 DEF StateTypes, QueueInv, Unfinished, OneFlowPerWindow, LockInv, AskInv, otherVars
<1>2. CASE ~WorkerIsAlive /\ StartThread(class)
    <2> DEFINE new == [phase |-> "working", class |-> class]
    <2>1. /\ new \in Thread /\ threads' = Append(threads, new) /\ threads \in Seq(Thread)
          /\ Len(threads) < MaxRuns
          /\ stopEvent' = FALSE /\ enabled' = [actions |-> FALSE, stop |-> TRUE]
        BY <1>2 DEF StartThread, SetRunning, StateTypes, Thread
    <2>2. /\ threads' \in Seq(Thread) /\ Len(threads') = Len(threads) + 1
          /\ \A n \in 1..Len(threads) : threads'[n] = threads[n]
        BY <2>1
    <2>3. StateTypes'
        <3>1. Len(threads') <= MaxRuns
            BY <2>1, <2>2, WindowConstants
        <3>2. enabled' \in Buttons /\ stopEvent' \in BOOLEAN
            BY <2>1 DEF Buttons
        <3> QED
            BY <2>2, <3>1, <3>2 DEF StateTypes, otherVars
    <2>4. ~Running /\ \A n \in DOMAIN threads : ~Alive(threads[n])
        BY <1>2, LastThread, RunningIsAlive DEF OneFlowPerWindow, StateTypes
    <2>5. QueueInv'
        <3>1. Len(queue) \in Nat /\ Len(threads) \in Nat /\ Len(queue) <= Len(threads)
            BY <2>4 DEF QueueInv, Unfinished, StateTypes
        <3>2. Unfinished' \in {0, 1} /\ queue' = queue
            BY DEF Unfinished
        <3> QED
            BY <2>2, <3>1, <3>2 DEF QueueInv, Logged
    <2>6. OneFlowPerWindow'
        BY <2>2, <2>4 DEF OneFlowPerWindow, Alive, StateTypes
    <2>7. LockInv' /\ AskInv'
        BY <2>1 DEF LockInv, AskInv, otherVars
    <2> QED
        BY <2>3, <2>5, <2>6, <2>7
<1> QED
    BY <1>1, <1>2 DEF RunFlow

(* What does not touch the threads, their messages and the locks.            *)
LEMMA OtherStep ==
    ASSUME WindowInv, StateTypes', UNCHANGED <<threads, queue>>,
           UNCHANGED <<stopEvent, enabled>> \/ (stopEvent' /\ enabled' = [enabled EXCEPT !.stop = FALSE]),
           asking' => asking \/ enabled.actions
    PROVE  WindowInv'
<1> USE DEF WindowInv
<1>1. (Running <=> Running') /\ (WorkerIsAlive <=> WorkerIsAlive')
    BY DEF Running, WorkerIsAlive
<1>2. QueueInv' /\ OneFlowPerWindow'
    BY <1>1 DEF QueueInv, Unfinished, OneFlowPerWindow
<1>3. enabled'.actions = enabled.actions /\ (enabled.stop \/ stopEvent => enabled'.stop \/ stopEvent')
    BY DEF StateTypes, Buttons
<1> QED
    BY <1>2, <1>3 DEF LockInv, AskInv

LEMMA ClickStep == ASSUME WindowInv, Clicks PROVE WindowInv'
<1> USE DEF Clicks, WindowInv, otherVars
<1>1. ASSUME NEW class \in Classes, SelectClass(class) PROVE WindowInv'
    BY <1>1, OtherStep DEF SelectClass, StateTypes
<1>2. ASSUME NEW class \in Classes, SchedulePreset(class) PROVE WindowInv'
    BY <1>2, OtherStep DEF SchedulePreset, StateTypes
<1>3. ASSUME NEW class \in Classes, EnterPresetNow(class) PROVE WindowInv'
    <2>1. CASE RunFlow(class)
        BY <1>3, <2>1, FlowStarts DEF EnterPresetNow, StateTypes
    <2>2. CASE UNCHANGED <<threads, stopEvent, enabled>>
        BY <1>3, <2>2, OtherStep DEF EnterPresetNow, StateTypes
    <2> QED
        BY <1>3, <2>1, <2>2 DEF EnterPresetNow
<1>4. CASE SaveSchedule
    BY <1>4, OtherStep DEF SaveSchedule, StateTypes
<1>5. CASE StartBot
    <2> DEFINE class == IF scheduled # NULL THEN scheduled ELSE selected
    <2>1. class \in Classes \cup {NULL} /\ RunFlow(class)
        BY <1>5 DEF StartBot, StateTypes
    <2> QED
        BY <1>5, <2>1, FlowStarts DEF StartBot, StateTypes
<1>6. CASE TestRun
    BY <1>6, FlowStarts DEF TestRun, StateTypes
<1>7. CASE AskToClear
    BY <1>7, OtherStep DEF AskToClear, StateTypes
<1>8. CASE StopBot
    <2>1. StateTypes'
        BY <1>8 DEF StopBot, StateTypes, Buttons
    <2> QED
        BY <1>8, <2>1, OtherStep DEF StopBot
<1> QED
    BY <1>1, <1>2, <1>3, <1>4, <1>5, <1>6, <1>7, <1>8

(* A drained queue held no message that means anything to the window.        *)
LEMMA PollStep == ASSUME WindowInv, PollLogs PROVE WindowInv'
<1> USE DEF WindowInv, PollLogs
<1>1. \A i \in DOMAIN queue : ~Means(queue[i], "WORKER_FINISHED")
    BY DEF QueueInv, Means, Logged, LoggedPlain
<1>2. enabled' = enabled
    BY <1>1
<1>3. StateTypes' /\ (Running <=> Running')
    BY <1>2 DEF StateTypes, Running, otherVars
<1>4. QueueInv'
    <2>1. Len(queue') = 0 /\ Len(threads) \in Nat /\ (Running => Len(threads) >= 1)
        BY DEF StateTypes, Running
    <2>2. Unfinished' <= Len(threads)
        BY <1>3, <2>1 DEF Unfinished
    <2> QED
        BY <2>1, <2>2, <1>3 DEF QueueInv, Unfinished
<1> QED
    BY <1>2, <1>3, <1>4 DEF OneFlowPerWindow, LockInv, AskInv, otherVars

(* A thread that moves on: it is alive, so it is the last one.               *)
LEMMA ThreadMoves ==
    ASSUME WindowInv, NEW n \in DOMAIN threads, NEW from, NEW to,
           from \in {"working", "held", "logged"},
           \/ from = "working" /\ to = "held" /\ queue' = queue
           \/ from = "logged" /\ to = "dead" /\ queue' = queue
           \/ /\ from \in {"working", "held"} /\ to = "logged"
              /\ queue' = Append(queue, Logged("WORKER_FINISHED")),
           Moves(n, from, to),
           UNCHANGED <<stopEvent, enabled, selected, formClass, scheduled, otherVars>>
    PROVE  WindowInv'
<1> USE DEF WindowInv
<1>1. /\ threads \in Seq(Thread) /\ n \in 1..Len(threads) /\ threads[n].phase = from
      /\ threads' = [threads EXCEPT ![n].phase = to]
    BY DEF StateTypes, Moves
<1>2. n = Len(threads)
    BY <1>1 DEF OneFlowPerWindow, Alive
<1>3. /\ threads' \in Seq(Thread) /\ Len(threads') = Len(threads)
      /\ DOMAIN threads' = DOMAIN threads
      /\ threads'[n].phase = to
      /\ \A m \in DOMAIN threads : m # n => threads'[m] = threads[m]
    <2> HIDE DEF WindowInv
    <2>1. threads[n] \in Thread
        BY <1>1
    <2>2. to \in {"held", "logged", "dead"}
        OBVIOUS
    <2> DEFINE moved == [threads[n] EXCEPT !.phase = to]
    <2>3. moved \in Thread /\ moved.phase = to
        BY <2>1, <2>2 DEF Thread
    <2>4. threads' = [threads EXCEPT ![n] = moved]
        BY <1>1
    <2> HIDE DEF moved
    <2> QED
        BY <1>1, <2>3, <2>4
<1>4. StateTypes'
    BY <1>3 DEF StateTypes, otherVars
<1>5. (Running <=> from \in {"working", "held"}) /\ (Running' <=> to \in {"working", "held"})
    BY <1>1, <1>2, <1>3 DEF Running, Last
<1>6. QueueInv'
    <2>1. Len(queue) \in Nat /\ Len(threads) \in Nat
        BY DEF QueueInv, StateTypes
    <2>2. CASE queue' = queue
        BY <1>3, <1>5, <2>1, <2>2 DEF QueueInv, Unfinished, Logged
    <2>3. CASE /\ from \in {"working", "held"} /\ to = "logged"
               /\ queue' = Append(queue, Logged("WORKER_FINISHED"))
        <3>1. queue' \in Seq({Logged("WORKER_FINISHED")}) /\ Len(queue') = Len(queue) + 1
            BY <2>3 DEF QueueInv
        <3>2. Unfinished = 1 /\ Unfinished' = 0
            BY <1>5, <2>3 DEF Unfinished
        <3> QED
            BY <1>3, <2>1, <3>1, <3>2 DEF QueueInv, Logged
    <2> QED
        BY <2>2, <2>3
<1>7. OneFlowPerWindow'
    BY <1>2, <1>3 DEF OneFlowPerWindow
<1>8. LockInv' /\ AskInv'
    BY <1>1 DEF LockInv, AskInv, otherVars
<1> QED
    BY <1>4, <1>6, <1>7, <1>8

LEMMA ThreadStep == ASSUME WindowInv, ThreadSteps PROVE WindowInv'
<1> USE DEF otherVars
<1>1. PICK n \in DOMAIN threads :
        OpensSession(n) \/ HoldsPage(n) \/ FlowEnds(n) \/ UserClosesPage(n) \/ HoldSeesStop(n)
            \/ ThreadDies(n)
    BY DEF ThreadSteps
<1>2. CASE OpensSession(n)
    BY <1>2, OtherStep DEF OpensSession, WindowInv, StateTypes
<1>3. CASE HoldsPage(n)
    BY <1>3, ThreadMoves DEF HoldsPage
<1>4. CASE FlowEnds(n)
    BY <1>4, ThreadMoves DEF FlowEnds, Finishes
<1>5. CASE UserClosesPage(n) \/ HoldSeesStop(n)
    BY <1>5, ThreadMoves DEF UserClosesPage, HoldSeesStop, Finishes
<1>6. CASE ThreadDies(n)
    BY <1>6, ThreadMoves DEF ThreadDies
<1> QED
    BY <1>1, <1>2, <1>3, <1>4, <1>5, <1>6

LEMMA WindowStep == WindowInv /\ [WindowNext]_windowVars => WindowInv'
<1> SUFFICES ASSUME WindowInv, [WindowNext]_windowVars PROVE WindowInv'
    OBVIOUS
<1>1. CASE Clicks
    BY <1>1, ClickStep
<1>2. CASE ClearSession
    BY <1>2, OtherStep DEF ClearSession, WindowInv, StateTypes
<1>3. CASE PollLogs
    BY <1>3, PollStep
<1>4. CASE ThreadSteps
    BY <1>4, ThreadStep
<1>5. CASE BackgroundFlow
    BY <1>5, OtherStep DEF BackgroundFlow, WindowInv, StateTypes
<1>6. CASE UNCHANGED windowVars
    BY <1>6, OtherStep DEF windowVars, otherVars, WindowInv, StateTypes
<1> QED
    BY <1>1, <1>2, <1>3, <1>4, <1>5, <1>6 DEF WindowNext

LEMMA WindowInvariant == WindowSpec => []WindowInv
<1> QED
    BY WindowInitial, WindowStep, PTL DEF WindowSpec

(* Types, and the log queue has at most one message for each thread.         *)
THEOREM WindowTypeCorrect == WindowSpec => []WindowTypeOK
<1>1. WindowInv => WindowTypeOK
    <2> SUFFICES ASSUME WindowInv PROVE WindowTypeOK
        OBVIOUS
    <2>1. Logged("WORKER_FINISHED") \in Message
        BY DEF Logged, Message
    <2>2. queue \in Seq(Message)
        BY <2>1 DEF WindowInv, QueueInv
    <2>3. Len(queue) <= Len(threads)
        BY <2>2 DEF WindowInv, QueueInv, Unfinished, StateTypes
    <2> QED
        BY <2>2, <2>3 DEF WindowInv, StateTypes, WindowTypeOK
<1> QED
    BY <1>1, WindowInvariant, PTL

(* However many buttons and cards there are and however often they are       *)
(* clicked, the window has one flow at a time.                               *)
THEOREM OneFlowRuns == WindowSpec => []OneFlowPerWindow
<1> QED
    BY WindowInvariant, PTL DEF WindowInv

(* While a flow works, the conflicting actions are disabled and it can be    *)
(* stopped.                                                                  *)
THEOREM RunningFlowLocksActions == WindowSpec => []RunningLocksActions
<1>1. WindowInv => RunningLocksActions
    BY DEF WindowInv, LockInv, RunningLocksActions, Running
<1> QED
    BY <1>1, WindowInvariant, PTL

(* The browser session is removed only while no flow works with it.          *)
THEOREM SessionRemovedAtRest == WindowSpec => SessionClearedAtRest
<1>1. WindowInv /\ [WindowNext]_windowVars => (session /\ ~session' => ~Running)
    <2> SUFFICES ASSUME WindowInv, [WindowNext]_windowVars, session, ~session' PROVE ~Running
        OBVIOUS
    <2>1. ClearSession
        BY DEF WindowNext, windowVars, otherVars, Clicks, SelectClass, SchedulePreset,
               EnterPresetNow, SaveSchedule, StartBot, TestRun, AskToClear, StopBot, PollLogs,
               ThreadSteps, OpensSession, HoldsPage, FlowEnds, UserClosesPage, HoldSeesStop,
               Finishes, ThreadDies, BackgroundFlow
    <2> QED
        BY <2>1 DEF ClearSession, WindowInv, AskInv, Running
<1> QED
    BY <1>1, WindowInvariant, PTL DEF WindowSpec, SessionClearedAtRest

(* No click takes back a stop that was asked for while its flow is alive.    *)
THEOREM StopsAreKept == WindowSpec => StopIsNotWithdrawn
<1>1. [WindowNext]_windowVars => (stopEvent /\ WorkerIsAlive => stopEvent')
    <2> SUFFICES ASSUME [WindowNext]_windowVars, stopEvent, WorkerIsAlive PROVE stopEvent'
        OBVIOUS
    <2>1. ASSUME NEW class, RunFlow(class) PROVE stopEvent'
        BY <2>1 DEF RunFlow
    <2>2. CASE Clicks
        BY <2>1, <2>2 DEF Clicks, SelectClass, SchedulePreset, EnterPresetNow, SaveSchedule,
                          StartBot, TestRun, AskToClear, StopBot
    <2>3. CASE ThreadSteps
        BY <2>3 DEF ThreadSteps, OpensSession, HoldsPage, FlowEnds, UserClosesPage, HoldSeesStop,
                    Finishes, ThreadDies
    <2> QED
        BY <2>2, <2>3 DEF WindowNext, windowVars, ClearSession, PollLogs, BackgroundFlow
<1> QED
    BY <1>1, PTL DEF WindowSpec, StopIsNotWithdrawn

-----------------------------------------------------------------------------
(* The way of a stopped thread to its end: it is the last thread, and the    *)
(* stop event stays set.                                                     *)
StoppedIn(n, phase) ==
    /\ stopEvent
    /\ n \in DOMAIN threads /\ n = Len(threads)
    /\ threads[n].phase = phase
StoppedThread(n) == StoppedIn(n, "working") \/ StoppedIn(n, "held") \/ StoppedIn(n, "logged")

LEMMA StoppedThreadIsLast ==
    ASSUME WindowInv, stopEvent, WorkerIsAlive
    PROVE  \E n \in 1..MaxRuns : StoppedThread(n)
<1> DEFINE n == Len(threads)
<1>1. n \in 1..MaxRuns /\ n \in DOMAIN threads /\ Alive(threads[n]) /\ threads[n] \in Thread
    BY LastThread, WindowConstants DEF WindowInv, StateTypes
<1>2. StoppedThread(n)
    BY <1>1 DEF StoppedThread, StoppedIn, Alive, Thread
<1> QED
    BY <1>1, <1>2

(* A thread moves when it is where its step begins, and is elsewhere then.   *)
LEMMA WhatThreadsDo ==
    ASSUME WindowInv, NEW n \in DOMAIN threads
    PROVE  /\ FlowEnds(n) => threads[n].phase = "working" /\ threads' # threads
           /\ UserClosesPage(n) \/ HoldSeesStop(n) => threads[n].phase = "held" /\ threads' # threads
           /\ ThreadDies(n) => threads[n].phase = "logged" /\ threads' # threads
<1>1. ASSUME NEW from, NEW to, from # to, Moves(n, from, to)
      PROVE  threads[n].phase = from /\ threads' # threads
    <2>1. /\ threads' = [threads EXCEPT ![n] = [threads[n] EXCEPT !.phase = to]]
          /\ threads[n] \in Thread /\ threads \in Seq(Thread)
        BY <1>1 DEF Moves, WindowInv, StateTypes
    <2>2. threads'[n].phase = to
        BY <2>1 DEF Thread
    <2> QED
        BY <1>1, <2>2 DEF Moves
<1> QED
    BY <1>1 DEF FlowEnds, UserClosesPage, HoldSeesStop, ThreadDies, Finishes

(* No other step moves it, and only its own end makes it rest.               *)
LEMMA StoppedThreadMoves ==
    ASSUME WindowInv, [WindowNext]_windowVars, NEW n \in 1..MaxRuns, StoppedThread(n)
    PROVE  \/ UNCHANGED threads /\ stopEvent'
           \/ FlowEnds(n) /\ StoppedIn(n, "logged")'
           \/ (UserClosesPage(n) \/ HoldSeesStop(n)) /\ StoppedIn(n, "logged")'
           \/ ThreadDies(n) /\ ~WorkerIsAlive'
<1> DEFINE Goal == \/ UNCHANGED threads /\ stopEvent'
                   \/ FlowEnds(n) /\ StoppedIn(n, "logged")'
                   \/ (UserClosesPage(n) \/ HoldSeesStop(n)) /\ StoppedIn(n, "logged")'
                   \/ ThreadDies(n) /\ ~WorkerIsAlive'
<1>1. stopEvent /\ n \in DOMAIN threads /\ n = Len(threads) /\ Alive(threads[n])
    BY DEF StoppedThread, StoppedIn, Alive
<1>2. WorkerIsAlive /\ threads \in Seq(Thread)
    BY <1>1, LastThread DEF WindowInv, StateTypes
<1>3. CASE ~ThreadSteps
    <2>1. ASSUME NEW class, RunFlow(class) PROVE UNCHANGED <<threads, stopEvent>>
        BY <1>2, <2>1 DEF RunFlow
    <2>2. CASE Clicks
        BY <1>1, <2>1, <2>2 DEF Clicks, SelectClass, SchedulePreset, EnterPresetNow,
                                SaveSchedule, StartBot, TestRun, AskToClear, StopBot
    <2> QED
        BY <1>1, <1>3, <2>2 DEF WindowNext, windowVars, ClearSession, PollLogs, BackgroundFlow
<1>4. CASE ThreadSteps
    <2>1. PICK m \in DOMAIN threads :
            OpensSession(m) \/ HoldsPage(m) \/ FlowEnds(m) \/ UserClosesPage(m) \/ HoldSeesStop(m)
                \/ ThreadDies(m)
        BY <1>4 DEF ThreadSteps
    <2>2. CASE OpensSession(m)
        BY <1>1, <2>2 DEF OpensSession
    <2>3. ~HoldsPage(m)
        BY <1>1 DEF HoldsPage
    <2>4. CASE FlowEnds(m) \/ UserClosesPage(m) \/ HoldSeesStop(m)
        <3>1. PICK from \in {"working", "held"} : Moves(m, from, "logged") /\ stopEvent' = stopEvent
            BY <2>4 DEF FlowEnds, UserClosesPage, HoldSeesStop, Finishes
        <3>2. m = n
            BY <1>1, <3>1 DEF Moves, Alive, WindowInv, OneFlowPerWindow
        <3>3. /\ threads' = [threads EXCEPT ![n] = [threads[n] EXCEPT !.phase = "logged"]]
              /\ threads[n] \in Thread
            BY <1>1, <1>2, <3>1, <3>2 DEF Moves
        <3>4. [threads[n] EXCEPT !.phase = "logged"] \in Thread
            BY <3>3 DEF Thread
        <3>5. StoppedIn(n, "logged")'
            BY <1>1, <1>2, <3>1, <3>3, <3>4 DEF StoppedIn, Thread
        <3> QED
            BY <2>4, <3>2, <3>5
    <2>5. CASE ThreadDies(m)
        <3>1. Moves(m, "logged", "dead")
            BY <2>5 DEF ThreadDies
        <3>2. m = n
            BY <1>1, <3>1 DEF Moves, Alive, WindowInv, OneFlowPerWindow
        <3>3. /\ threads' = [threads EXCEPT ![n] = [threads[n] EXCEPT !.phase = "dead"]]
              /\ threads[n] \in Thread
            BY <1>1, <1>2, <3>1, <3>2 DEF Moves
        <3>4. [threads[n] EXCEPT !.phase = "dead"] \in Thread
            BY <3>3 DEF Thread
        <3>5. Len(threads') = n /\ threads'[n].phase = "dead"
            BY <1>1, <1>2, <3>3, <3>4 DEF Thread
        <3>6. ~WorkerIsAlive'
            BY <3>5 DEF WorkerIsAlive, Alive, Last
        <3> QED
            BY <2>5, <3>2, <3>6
    <2> QED
        BY <2>1, <2>2, <2>3, <2>4, <2>5
<1> QED
    BY <1>3, <1>4

(* All that the argument uses, each part always true.                        *)
WindowGoesOn ==
    /\ []WindowInv /\ [][WindowNext]_windowVars
    /\ []WindowFairness /\ []NoThreadStuck

WindowRests == <>~WorkerIsAlive

LEMMA StoppedThreadEnds ==
    WindowGoesOn => \A n \in 1..MaxRuns : StoppedThread(n) => WindowRests
<1>1. ASSUME NEW n \in 1..MaxRuns
      PROVE  WindowGoesOn => (StoppedThread(n) => WindowRests)
    <2> DEFINE Stopped(phase) == StoppedIn(n, phase)
               Ends == n \in DOMAIN threads /\ FlowEnds(n)
               SeesStop == n \in DOMAIN threads /\ HoldSeesStop(n)
               Dies == n \in DOMAIN threads /\ ThreadDies(n)
    <2>1. /\ WindowInv /\ Stopped("working") /\ [WindowNext]_windowVars
                => Stopped("working")' \/ Stopped("logged")'
          /\ WindowInv /\ Stopped("working") /\ <<Ends>>_windowVars /\ [WindowNext]_windowVars
                => Stopped("logged")'
        BY StoppedThreadMoves, WhatThreadsDo DEF StoppedThread, StoppedIn
    <2>2. /\ WindowInv /\ Stopped("held") /\ [WindowNext]_windowVars
                => Stopped("held")' \/ Stopped("logged")'
          /\ WindowInv /\ Stopped("held") /\ <<SeesStop>>_windowVars /\ [WindowNext]_windowVars
                => Stopped("logged")'
        BY StoppedThreadMoves, WhatThreadsDo DEF StoppedThread, StoppedIn
    <2>3. /\ WindowInv /\ Stopped("logged") /\ [WindowNext]_windowVars
                => Stopped("logged")' \/ ~WorkerIsAlive'
          /\ WindowInv /\ Stopped("logged") /\ <<Dies>>_windowVars /\ [WindowNext]_windowVars
                => ~WorkerIsAlive'
        BY StoppedThreadMoves, WhatThreadsDo DEF StoppedThread, StoppedIn
    <2>4. (WindowFairness => FairThread(n)) /\ (NoThreadStuck => ThreadCanGoOn(n))
        BY DEF WindowFairness, NoThreadStuck
    <2>5. FairThread(n) => WF_windowVars(Ends) /\ WF_windowVars(SeesStop) /\ WF_windowVars(Dies)
        BY PTL DEF FairThread
    <2>6. ThreadCanGoOn(n) =>
            /\ Stopped("working") => ENABLED <<Ends>>_windowVars
            /\ Stopped("held") => ENABLED <<SeesStop>>_windowVars
            /\ Stopped("logged") => ENABLED <<Dies>>_windowVars
        BY DEF ThreadCanGoOn, StoppedIn
    <2>7. StoppedThread(n) => Stopped("working") \/ Stopped("held") \/ Stopped("logged")
        BY DEF StoppedThread
    <2> QED
        BY <2>1, <2>2, <2>3, <2>4, <2>5, <2>6, <2>7, PTL DEF WindowGoesOn, WindowRests
<1> QED
    BY <1>1

(* A flow that the user stops comes to its end, also while it holds the page, *)
(* and however many flows there were before it.  NoThreadStuck says where a   *)
(* thread has a next step, which TLC evaluates and the prover cannot; the     *)
(* fairness is assumed under [], which adds nothing to it.                    *)
THEOREM StoppedFlowEnds == WindowSpec /\ []WindowFairness /\ []NoThreadStuck => StopEndsRun
<1>1. WindowInv /\ stopEvent /\ WorkerIsAlive => \E n \in 1..MaxRuns : StoppedThread(n)
    BY StoppedThreadIsLast
<1>2. WindowGoesOn /\ (\E n \in 1..MaxRuns : StoppedThread(n)) => WindowRests
    BY StoppedThreadEnds
<1>3. WindowSpec /\ []WindowFairness /\ []NoThreadStuck => []WindowGoesOn
    BY WindowInvariant, PTL DEF WindowSpec, WindowGoesOn
<1> QED
    BY <1>1, <1>2, <1>3, PTL DEF WindowGoesOn, WindowRests, StopEndsRun
=============================================================================
