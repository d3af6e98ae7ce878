---------------------------- MODULE FullFlowProofs ----------------------------
(***************************************************************************)
(* Proofs about FullFlow: any courses, whatever their names contain, any    *)
(* configurations and any number of looks at the login and the class link.  *)
(***************************************************************************)
EXTENDS FullFlow, FiniteSetTheorems, TLAPS

EndStages == {"held", "cleanup", "done"}
MeetingStages == {"adobe", "launching", "meeting"}

(* Where the flow is, and what has happened before: no exception yet, a      *)
(* click that went through.                                                  *)
FlowControl ==
    /\ stage = "reclick" \/ (stage \in {"answer", "enter"} /\ checked) => polls < MaxPolls
    /\ stage \notin EndStages => raised = "none"
    /\ raised = "none" /\ stage \in EndStages \cup MeetingStages => clicked

(* Which page the tab shows: where a reliable dashboard led, and from the    *)
(* verified heading on one that bears the requested name, or the meeting.    *)
FlowPage ==
    /\ reliable /\ page \in Courses => page = config.class
    /\ stage \in {"enter", "reclick"} => page = "meeting" \/ Contains(page, config.class)
    /\ stage = "enter" /\ polls < MaxPolls => page # "meeting"

(* What is open, and what the end of the flow finds.                         *)
FlowResources ==
    /\ stage \in {"start", "chrome"} => page = "none"
    /\ stage = "start" => opened = {}
    /\ stage \notin {"start", "chrome", "cleanup", "done"} => page # "none"
    /\ (stage = "chrome" \/ page # "none") /\ stage # "done" => "playwright" \in opened
    /\ stage = "cleanup" /\ page = "none" => raised = "launch"
    /\ ended # "no" => stage \in {"cleanup", "done"} /\ raised = "none"
    /\ stop => config.caller = "window"
    /\ stop /\ stage = "done" => opened = {}

(* After a stop one stage has acted and no other will, or the class link was *)
(* being clicked.                                                            *)
FlowLate ==
    \/ late = {}
    \/ /\ stop /\ late \subseteq {"enter", "reclick", "adobe"}
       /\ stage \in {"enter", "reclick"} \cup MeetingStages \cup EndStages
    \/ /\ stop /\ \E s \in Stages : late = {s}
       /\ stage \in EndStages \/ (stage \in CheckedStages /\ ~checked)

FlowInv == FlowTypeOK /\ FlowControl /\ FlowPage /\ FlowResources /\ FlowLate

-----------------------------------------------------------------------------
LEMMA ConfigType ==
    ASSUME FlowTypeOK
    PROVE  /\ config.class \in Courses /\ config.keepOpen \in BOOLEAN
           /\ config.caller \in {"window", "worker"}
           /\ config.caller = "worker" => config.keepOpen
BY FlowConstants DEF FlowTypeOK, Config

LEMMA Names ==
    /\ \A s \in {"start", "chrome", "session", "openLogin", "username", "password", "submit", "answer", "course", "verify", "enter", "reclick", "adobe", "launching", "meeting", "held", "cleanup", "done"} : s \in Stages
    /\ \A c \in {"none", "launch", "stopped", "site", "login", "rejected", "element", "course", "entryTimeout", "entryStopped", "adobe", "refused"} : c \in Causes
    /\ OtherPages \subseteq Pages /\ Courses \subseteq Pages
    /\ CheckedStages \subseteq Stages
    /\ "" \in Results /\ "needs_user_action" \in Results /\ "browser_meeting_opened" \in Results
BY DEF Stages, CheckedStages, LoginStages, Causes, Pages, Results

LEMMA LoginNames ==
    ASSUME NEW s \in LoginStages
    PROVE  NextLoginStage(s) \in LoginStages \cup {"answer"} /\ LoginErrors(s) \subseteq Causes \ {"none"}
BY DEF LoginStages, NextLoginStage, LoginErrors, Causes

LEMMA PollsLeft ==
    ASSUME FlowTypeOK
    PROVE  /\ 0 \in 0..MaxPolls /\ MaxPolls \in 0..MaxPolls /\ polls \in 0..MaxPolls
           /\ polls < MaxPolls => polls + 1 \in 0..MaxPolls
BY FlowConstants DEF FlowTypeOK

LEMMA FlowInitial == FlowInit => FlowInv
<1> SUFFICES ASSUME FlowInit PROVE FlowInv
    OBVIOUS
<1> USE DEF FlowInit
<1>1. FlowTypeOK
    <2>1. polls \in 0..MaxPolls /\ candidate \in 1..2 /\ joins \in Nat
        <3>1. MaxPolls \in Nat
            BY FlowConstants
        <3>2. polls = 0 /\ candidate = 1 /\ joins = 0
            OBVIOUS
        <3> HIDE DEF FlowInit
        <3> QED
            BY <3>1, <3>2
    <2>2. page \in Pages /\ stage \in Stages /\ raised \in Causes /\ result \in Results
        BY Names DEF OtherPages
    <2>3. opened \subseteq {"playwright", "chrome"} /\ late \subseteq Stages
        OBVIOUS
    <2> QED
        BY <2>1, <2>2, <2>3 DEF FlowTypeOK
<1>2. FlowControl /\ FlowPage /\ FlowResources /\ FlowLate
    BY FlowConstants DEF FlowControl, FlowPage, FlowResources, FlowLate, EndStages, MeetingStages, OtherPages
<1> QED
    BY <1>1, <1>2 DEF FlowInv


LEMMA TypeStep == ASSUME FlowInv, [FlowNext]_flowVars PROVE FlowTypeOK'
<1> USE DEF FlowInv, FlowTypeOK, Goto, Raise, Acts, setup, entry, meeting, Ready
<1>1. CASE SetStop
    BY <1>1, Names DEF SetStop
<1>2. CASE CheckStop
    BY <1>2, Names DEF CheckStop
<1>3. CASE RefuseInputs
    BY <1>3, Names DEF RefuseInputs
<1>4. CASE StartPlaywright
    BY <1>4, Names DEF StartPlaywright
<1>5. CASE LaunchChrome
    BY <1>5, Names DEF LaunchChrome, OtherPages
<1>6. CASE EnsureLogin
    BY <1>6, Names DEF EnsureLogin, OtherPages
<1>7. CASE LoginStep
    BY <1>7, Names, LoginNames DEF LoginStep, CheckedStages
<1>8. CASE LoginAnswer
    <2>1. polls' \in 0..MaxPolls
        BY <1>8, PollsLeft DEF LoginAnswer
    <2>2. page' \in Pages
        BY <1>8, Names DEF LoginAnswer, OtherPages
    <2>3. stage' \in Stages /\ raised' \in Causes /\ checked' \in BOOLEAN
        BY <1>8, Names DEF LoginAnswer
    <2> QED
        BY <1>8, <2>1, <2>2, <2>3 DEF LoginAnswer
<1>9. CASE LoginUndecided
    BY <1>9, Names DEF LoginUndecided
<1>10. CASE OpenCourse
    BY <1>10, Names, ConfigType DEF OpenCourse, LeadsTo, OtherPages
<1>11. CASE VerifyCourse
    BY <1>11, Names DEF VerifyCourse
<1>12. CASE LinkNotLive
    <2>1. polls' \in 0..MaxPolls
        BY <1>12, PollsLeft DEF LinkNotLive, FlowControl
    <2>2. stage' \in Stages /\ raised' \in Causes /\ checked' \in BOOLEAN
        BY <1>12, Names DEF LinkNotLive
    <2>3. candidate' = candidate \/ candidate' = 1
        BY <1>12 DEF LinkNotLive
    <2>4. candidate' \in 1..2
        BY <2>3
    <2> QED
        BY <1>12, <2>1, <2>2, <2>4 DEF LinkNotLive
<1>13. CASE ClickLink
    <2>1. page' \in Pages /\ joins' \in Nat /\ clicked' \in BOOLEAN
        <3>1. page' \in {page, "meeting"} /\ joins' \in {joins, joins + 1}
            BY <1>13 DEF ClickLink, Click
        <3>2. clicked' \in BOOLEAN
            BY <1>13 DEF ClickLink, Click
        <3>3. "meeting" \in Pages
            BY DEF Pages, OtherPages
        <3>4. page \in Pages /\ joins \in Nat
            OBVIOUS
        <3> QED
            BY <3>1, <3>2, <3>3, <3>4
    <2>2. stage' \in Stages /\ checked' \in BOOLEAN /\ watched' \in {"none", "meeting", "old"}
        BY <1>13, Names DEF ClickLink, EntersMeeting
    <2>3. late' \subseteq Stages /\ UNCHANGED <<result, ended>>
        BY <1>13, Names DEF ClickLink, EntersMeeting
    <2> QED
        BY <1>13, <2>1, <2>2, <2>3 DEF ClickLink
<1>14. CASE ClickAgain
    <2>1. page' \in Pages /\ joins' \in Nat /\ clicked' \in BOOLEAN
        <3>1. page' \in {page, "meeting"} /\ joins' \in {joins, joins + 1}
            BY <1>14 DEF ClickAgain, Click
        <3>2. clicked' \in BOOLEAN
            BY <1>14 DEF ClickAgain, Click
        <3>3. "meeting" \in Pages
            BY DEF Pages, OtherPages
        <3>4. page \in Pages /\ joins \in Nat
            OBVIOUS
        <3> QED
            BY <3>1, <3>2, <3>3, <3>4
    <2>2. stage' \in Stages /\ checked' \in BOOLEAN /\ watched' \in {"none", "meeting", "old"}
        BY <1>14, Names DEF ClickAgain, EntersMeeting
    <2>3. late' \subseteq Stages /\ UNCHANGED <<result, ended>>
        BY <1>14, Names DEF ClickAgain, EntersMeeting
    <2> QED
        BY <1>14, <2>1, <2>2, <2>3 DEF ClickAgain
<1>15. CASE ClickAgainFails
    <2>1. polls' \in 0..MaxPolls
        BY <1>15, PollsLeft DEF ClickAgainFails, FlowControl
    <2>2. stage' \in Stages /\ checked' \in BOOLEAN
        BY <1>15, Names DEF ClickAgainFails
    <2>3. candidate' = 1 \/ candidate' = 2
        BY <1>15 DEF ClickAgainFails
    <2>4. candidate' \in 1..2
        BY <2>3
    <2> QED
        BY <1>15, <2>1, <2>2, <2>4 DEF ClickAgainFails
<1>16. CASE EntryTimesOut
    BY <1>16, Names DEF EntryTimesOut
<1>17. CASE MeetingPageOpen
    BY <1>17, Names DEF MeetingPageOpen, Accept
<1>18. CASE NoAdobeLink
    BY <1>18, Names DEF NoAdobeLink, Accept
<1>19. CASE LaunchAdobe
    BY <1>19, Names DEF LaunchAdobe
<1>20. CASE LaunchUnseen
    BY <1>20, Names DEF LaunchUnseen, Accept
<1>21. CASE MonitorStopped
    BY <1>21, Names DEF MonitorStopped
<1>22. CASE MeetingOver
    BY <1>22, Names DEF MeetingOver
<1>23. CASE MonitorTimesOut
    BY <1>23, Names DEF MonitorTimesOut
<1>24. CASE HoldStopped
    BY <1>24, Names DEF HoldStopped
<1>25. CASE UserClosesTab
    BY <1>25, Names DEF UserClosesTab
<1>26. CASE Cleanup
    BY <1>26, Names DEF Cleanup
<1>27. CASE UNCHANGED flowVars
    BY <1>27 DEF flowVars
<1> QED
    BY <1>1, <1>2, <1>3, <1>4, <1>5, <1>6, <1>7, <1>8, <1>9, <1>10, <1>11, <1>12, <1>13, <1>14, <1>15, <1>16, <1>17, <1>18, <1>19, <1>20, <1>21, <1>22, <1>23, <1>24, <1>25, <1>26, <1>27 DEF FlowNext, FlowStep

LEMMA ControlStep == ASSUME FlowInv, [FlowNext]_flowVars PROVE FlowControl'
<1> USE DEF FlowInv, FlowControl, Goto, Raise, Acts, setup, entry, meeting, Ready, EndStages, MeetingStages
<1>1. CASE SetStop
    BY <1>1 DEF SetStop
<1>2. CASE CheckStop
    BY <1>2 DEF CheckStop
<1>3. CASE RefuseInputs
    BY <1>3 DEF RefuseInputs
<1>4. CASE StartPlaywright
    BY <1>4 DEF StartPlaywright
<1>5. CASE LaunchChrome
    BY <1>5, FlowConstants DEF LaunchChrome, OtherPages
<1>6. CASE EnsureLogin
    BY <1>6, FlowConstants DEF EnsureLogin, OtherPages
<1>7. CASE LoginStep
    BY <1>7, LoginNames DEF LoginStep, LoginStages
<1>8. CASE LoginAnswer
    BY <1>8, FlowConstants DEF LoginAnswer, OtherPages
<1>9. CASE LoginUndecided
    BY <1>9 DEF LoginUndecided
<1>10. CASE OpenCourse
    BY <1>10, FlowConstants, ConfigType DEF OpenCourse, LeadsTo, OtherPages
<1>11. CASE VerifyCourse
    BY <1>11 DEF VerifyCourse
<1>12. CASE LinkNotLive
    BY <1>12 DEF LinkNotLive
<1>13. CASE ClickLink
    BY <1>13, FlowConstants DEF ClickLink, Click, ClickEffects, EntersMeeting, OtherPages
<1>14. CASE ClickAgain
    BY <1>14, FlowConstants DEF ClickAgain, Click, ClickEffects, EntersMeeting, OtherPages
<1>15. CASE ClickAgainFails
    BY <1>15 DEF ClickAgainFails
<1>16. CASE EntryTimesOut
    BY <1>16 DEF EntryTimesOut
<1>17. CASE MeetingPageOpen
    BY <1>17 DEF MeetingPageOpen, Accept
<1>18. CASE NoAdobeLink
    BY <1>18 DEF NoAdobeLink, Accept
<1>19. CASE LaunchAdobe
    BY <1>19 DEF LaunchAdobe
<1>20. CASE LaunchUnseen
    BY <1>20 DEF LaunchUnseen, Accept
<1>21. CASE MonitorStopped
    BY <1>21 DEF MonitorStopped
<1>22. CASE MeetingOver
    BY <1>22 DEF MeetingOver
<1>23. CASE MonitorTimesOut
    BY <1>23 DEF MonitorTimesOut
<1>24. CASE HoldStopped
    BY <1>24 DEF HoldStopped
<1>25. CASE UserClosesTab
    BY <1>25 DEF UserClosesTab
<1>26. CASE Cleanup
    BY <1>26 DEF Cleanup
<1>27. CASE UNCHANGED flowVars
    BY <1>27 DEF flowVars
<1> QED
    BY <1>1, <1>2, <1>3, <1>4, <1>5, <1>6, <1>7, <1>8, <1>9, <1>10, <1>11, <1>12, <1>13, <1>14, <1>15, <1>16, <1>17, <1>18, <1>19, <1>20, <1>21, <1>22, <1>23, <1>24, <1>25, <1>26, <1>27 DEF FlowNext, FlowStep

(* A click that turns the tab into the meeting leaves no look for this tab.  *)
LEMMA PageStep == ASSUME FlowInv, [FlowNext]_flowVars PROVE FlowPage'
<1> USE DEF FlowInv, FlowPage, Goto, Raise, setup, entry, meeting, Ready
<1>1. CASE SetStop \/ UNCHANGED flowVars
    BY <1>1 DEF SetStop, flowVars, Contains
<1>2. CASE CheckStop \/ RefuseInputs \/ StartPlaywright \/ LaunchChrome \/ EnsureLogin
           \/ LoginStep \/ LoginAnswer \/ LoginUndecided
    <2>1. stage' \in {"enter", "reclick"} =>
            stage = "enter" /\ stage' = stage /\ UNCHANGED <<page, polls, config>>
        <3>1. CASE CheckStop
            BY <3>1, LoginNames DEF CheckStop, CheckedStages, LoginStages
        <3>2. CASE RefuseInputs \/ StartPlaywright \/ LaunchChrome \/ EnsureLogin
            BY <3>2 DEF RefuseInputs, StartPlaywright, LaunchChrome, EnsureLogin
        <3>3. CASE LoginStep
            BY <3>3, LoginNames DEF LoginStep, LoginStages
        <3>4. CASE LoginAnswer \/ LoginUndecided
            BY <3>4 DEF LoginAnswer, LoginUndecided
        <3> QED
            BY <1>2, <3>1, <3>2, <3>3, <3>4
    <2>2. UNCHANGED <<config, reliable>> /\ page' \in {page} \cup OtherPages
        BY <1>2 DEF CheckStop, RefuseInputs, StartPlaywright, LaunchChrome, EnsureLogin, LoginStep,
           LoginAnswer, LoginUndecided, OtherPages
    <2> QED
        BY <2>1, <2>2, FlowConstants DEF Contains
<1>3. CASE OpenCourse
    <2>1. \/ page' \in LeadsTo(config.class) /\ stage' = "verify"
          \/ page' = page /\ stage' \in {"held", "cleanup"}
        BY <1>3 DEF OpenCourse
    <2>2. UNCHANGED <<config, reliable>>
        BY <1>3 DEF OpenCourse
    <2> QED
        BY <2>1, <2>2, FlowConstants DEF LeadsTo, OtherPages
<1>4. CASE VerifyCourse
    <2>1. /\ UNCHANGED <<config, reliable, page, polls>>
          /\ \/ stage' = "enter" /\ page \in Courses /\ Contains(page, config.class)
             \/ stage' \in {"held", "cleanup"}
        BY <1>4 DEF VerifyCourse
    <2> QED
        BY <2>1, FlowConstants DEF Contains, OtherPages
<1>5. CASE LinkNotLive \/ ClickAgainFails \/ EntryTimesOut
    <2>1. /\ stage \in {"enter", "reclick"} /\ UNCHANGED <<config, reliable, page>>
          /\ stage' \in {"enter", "held", "cleanup"}
          /\ stage = "enter" /\ stage' = "enter" => polls < MaxPolls
          /\ stage' = "enter" => page # "meeting" \/ polls' = MaxPolls
        BY <1>5 DEF LinkNotLive, ClickAgainFails, EntryTimesOut, FlowControl
    <2>2. polls' = MaxPolls => ~(polls' < MaxPolls)
        BY FlowConstants
    <2> QED
        BY <2>1, <2>2 DEF Contains
<1>6. CASE ClickLink \/ ClickAgain
    <2>1. /\ UNCHANGED <<config, reliable>> /\ page' \in {page, "meeting"}
          /\ stage \in {"enter", "reclick"} /\ stage' \in {"adobe", "reclick"}
        BY <1>6 DEF ClickLink, ClickAgain, Click, EntersMeeting
    <2> QED
        BY <2>1, FlowConstants DEF Contains, OtherPages
<1>7. CASE \/ MeetingPageOpen \/ NoAdobeLink \/ LaunchAdobe \/ LaunchUnseen \/ MonitorStopped
           \/ MeetingOver \/ MonitorTimesOut \/ HoldStopped \/ UserClosesTab \/ Cleanup
    <2>1. UNCHANGED <<config, reliable, page>> /\ stage' \notin {"enter", "reclick"}
        BY <1>7 DEF MeetingPageOpen, NoAdobeLink, LaunchAdobe, LaunchUnseen, MonitorStopped,
           MeetingOver, MonitorTimesOut, HoldStopped, UserClosesTab, Cleanup, Accept
    <2> QED
        BY <2>1
<1> QED
    BY <1>1, <1>2, <1>3, <1>4, <1>5, <1>6, <1>7 DEF FlowNext, FlowStep

LEMMA ResourceStep == ASSUME FlowInv, [FlowNext]_flowVars PROVE FlowResources'
<1> USE DEF FlowInv, FlowResources, Goto, Raise, Acts, setup, entry, meeting, Ready, EndStages
<1>1. CASE SetStop
    BY <1>1 DEF SetStop
<1>2. CASE CheckStop
    BY <1>2 DEF CheckStop, CheckedStages, LoginStages
<1>3. CASE RefuseInputs
    BY <1>3 DEF RefuseInputs
<1>4. CASE StartPlaywright
    BY <1>4 DEF StartPlaywright
<1>5. CASE LaunchChrome
    BY <1>5 DEF LaunchChrome
<1>6. CASE EnsureLogin
    BY <1>6 DEF EnsureLogin
<1>7. CASE LoginStep
    BY <1>7, LoginNames DEF LoginStep, LoginStages
<1>8. CASE LoginAnswer
    BY <1>8 DEF LoginAnswer
<1>9. CASE LoginUndecided
    BY <1>9 DEF LoginUndecided
<1>10. CASE OpenCourse
    BY <1>10, FlowConstants, ConfigType DEF OpenCourse, LeadsTo, OtherPages
<1>11. CASE VerifyCourse
    BY <1>11 DEF VerifyCourse
<1>12. CASE LinkNotLive
    BY <1>12 DEF LinkNotLive
<1>13. CASE ClickLink
    BY <1>13 DEF ClickLink, Click, ClickEffects, EntersMeeting
<1>14. CASE ClickAgain
    BY <1>14 DEF ClickAgain, Click, ClickEffects, EntersMeeting
<1>15. CASE ClickAgainFails
    BY <1>15 DEF ClickAgainFails
<1>16. CASE EntryTimesOut
    BY <1>16 DEF EntryTimesOut
<1>17. CASE MeetingPageOpen
    BY <1>17 DEF MeetingPageOpen, Accept
<1>18. CASE NoAdobeLink
    BY <1>18 DEF NoAdobeLink, Accept
<1>19. CASE LaunchAdobe
    BY <1>19 DEF LaunchAdobe
<1>20. CASE LaunchUnseen
    BY <1>20 DEF LaunchUnseen, Accept
<1>21. CASE MonitorStopped
    BY <1>21 DEF MonitorStopped
<1>22. CASE MeetingOver
    BY <1>22 DEF MeetingOver, FlowControl
<1>23. CASE MonitorTimesOut
    BY <1>23 DEF MonitorTimesOut
<1>24. CASE HoldStopped
    BY <1>24 DEF HoldStopped
<1>25. CASE UserClosesTab
    BY <1>25 DEF UserClosesTab
<1>26. CASE Cleanup
    BY <1>26 DEF Cleanup, ShouldClose
<1>27. CASE UNCHANGED flowVars
    BY <1>27 DEF flowVars
<1> QED
    BY <1>1, <1>2, <1>3, <1>4, <1>5, <1>6, <1>7, <1>8, <1>9, <1>10, <1>11, <1>12, <1>13, <1>14, <1>15, <1>16, <1>17, <1>18, <1>19, <1>20, <1>21, <1>22, <1>23, <1>24, <1>25, <1>26, <1>27 DEF FlowNext, FlowStep

(* A stage before the class link acts only if no other has acted since stop.  *)
LEMMA ActsOnce ==
    ASSUME FlowInv, stage \in CheckedStages \ {"enter"}, checked, Acts, UNCHANGED stop
    PROVE  late' = {} \/ (stop' /\ \E s \in Stages : late' = {s})
<1>1. late = {}
    BY DEF FlowInv, FlowLate, CheckedStages, LoginStages, MeetingStages, EndStages
<1>2. stage \in Stages /\ (late' = {} \/ (stop /\ late' = {stage}))
    BY <1>1 DEF Acts, Stages
<1> QED
    BY <1>2

LEMMA LateStep == ASSUME FlowInv, [FlowNext]_flowVars PROVE FlowLate'
<1> USE DEF FlowInv, FlowLate, Goto, Raise, Acts, setup, entry, meeting, Ready, EndStages, MeetingStages, CheckedStages, LoginStages
<1>1. CASE SetStop
    BY <1>1 DEF SetStop
<1>2. CASE CheckStop
    BY <1>2 DEF CheckStop
<1>3. CASE RefuseInputs
    BY <1>3 DEF RefuseInputs
<1>4. CASE StartPlaywright
    BY <1>4 DEF StartPlaywright
<1>5. CASE LaunchChrome
    BY <1>5 DEF LaunchChrome
<1>6. CASE EnsureLogin
    <2>1. late' = {} \/ (stop' /\ \E s \in Stages : late' = {s})
        BY <1>6, ActsOnce DEF EnsureLogin
    <2>2. stage' \in EndStages \/ (stage' \in CheckedStages /\ ~checked')
        BY <1>6 DEF EnsureLogin
    <2> QED
        BY <2>1, <2>2
<1>7. CASE LoginStep
    <2>1. late' = {} \/ (stop' /\ \E s \in Stages : late' = {s})
        BY <1>7, ActsOnce DEF LoginStep
    <2>2. stage' \in EndStages \/ (stage' \in CheckedStages /\ ~checked')
        BY <1>7, LoginNames DEF LoginStep
    <2> QED
        BY <2>1, <2>2
<1>8. CASE LoginAnswer
    BY <1>8 DEF LoginAnswer
<1>9. CASE LoginUndecided
    BY <1>9 DEF LoginUndecided
<1>10. CASE OpenCourse
    <2>1. late' = {} \/ (stop' /\ \E s \in Stages : late' = {s})
        BY <1>10, ActsOnce DEF OpenCourse
    <2>2. stage' \in EndStages \/ (stage' \in CheckedStages /\ ~checked')
        BY <1>10 DEF OpenCourse
    <2> QED
        BY <2>1, <2>2
<1>11. CASE VerifyCourse
    BY <1>11 DEF VerifyCourse
<1>12. CASE LinkNotLive
    BY <1>12 DEF LinkNotLive
<1>13. CASE ClickLink
    BY <1>13 DEF ClickLink, Click, ClickEffects, EntersMeeting
<1>14. CASE ClickAgain
    BY <1>14 DEF ClickAgain, Click, ClickEffects, EntersMeeting
<1>15. CASE ClickAgainFails
    BY <1>15 DEF ClickAgainFails
<1>16. CASE EntryTimesOut
    BY <1>16 DEF EntryTimesOut
<1>17. CASE MeetingPageOpen
    BY <1>17 DEF MeetingPageOpen, Accept
<1>18. CASE NoAdobeLink
    BY <1>18 DEF NoAdobeLink, Accept
<1>19. CASE LaunchAdobe
    BY <1>19 DEF LaunchAdobe
<1>20. CASE LaunchUnseen
    BY <1>20 DEF LaunchUnseen, Accept
<1>21. CASE MonitorStopped
    BY <1>21 DEF MonitorStopped
<1>22. CASE MeetingOver
    BY <1>22 DEF MeetingOver
<1>23. CASE MonitorTimesOut
    BY <1>23 DEF MonitorTimesOut
<1>24. CASE HoldStopped
    BY <1>24 DEF HoldStopped
<1>25. CASE UserClosesTab
    BY <1>25 DEF UserClosesTab
<1>26. CASE Cleanup
    BY <1>26 DEF Cleanup
<1>27. CASE UNCHANGED flowVars
    BY <1>27 DEF flowVars
<1> QED
    BY <1>1, <1>2, <1>3, <1>4, <1>5, <1>6, <1>7, <1>8, <1>9, <1>10, <1>11, <1>12, <1>13, <1>14, <1>15, <1>16, <1>17, <1>18, <1>19, <1>20, <1>21, <1>22, <1>23, <1>24, <1>25, <1>26, <1>27 DEF FlowNext, FlowStep

LEMMA FlowInvariant == FlowSpec => []FlowInv
<1>1. FlowInv /\ [FlowNext]_flowVars => FlowInv'
    BY TypeStep, ControlStep, PageStep, ResourceStep, LateStep DEF FlowInv
<1> QED
    BY <1>1, FlowInitial, PTL DEF FlowSpec

(* Types; the looks at the login and at the class link never exceed their    *)
(* number.                                                                   *)
THEOREM FlowTypeCorrect == FlowSpec => []FlowTypeOK
<1> QED
    BY FlowInvariant, PTL DEF FlowInv

(* A flow ends without an exception only after the live class link was       *)
(* clicked.                                                                  *)
THEOREM SuccessIsClicked == FlowSpec => []SuccessMeansClicked
<1>1. FlowInv => SuccessMeansClicked
    BY DEF FlowInv, FlowControl, SuccessMeansClicked, EndStages
<1> QED
    BY <1>1, FlowInvariant, PTL

(* After a stop one more stage acts, or the click that is under way.         *)
THEOREM LateActsAreBounded == FlowSpec => []LateActsBounded
<1>1. FlowInv => LateActsBounded
    <2> SUFFICES ASSUME FlowInv PROVE LateActsBounded
        OBVIOUS
    <2>1. CASE late = {}
        BY <2>1, FS_EmptySet DEF LateActsBounded
    <2>2. CASE late \subseteq {"enter", "reclick", "adobe"}
        BY <2>2 DEF LateActsBounded
    <2>3. CASE \E s \in Stages : late = {s}
        BY <2>3, FS_Singleton DEF LateActsBounded
    <2> QED
        BY <2>1, <2>2, <2>3 DEF FlowInv, FlowLate
<1> QED
    BY <1>1, FlowInvariant, PTL

(* Whatever the names of the courses contain, and wherever the links of the  *)
(* dashboard lead: a meeting is opened from a page that bears the requested  *)
(* name, and behind a reliable dashboard from the requested course's.        *)
THEOREM MeetingBehindVerifiedHeading == FlowSpec => EntersRequestedCourse
<1>1. FlowInv /\ [FlowNext]_flowVars
        => (joins' > joins =>
              /\ Contains(page, config.class)
              /\ reliable => page = config.class)
    <2> SUFFICES ASSUME FlowInv, [FlowNext]_flowVars, joins' > joins
                 PROVE  Contains(page, config.class) /\ (reliable => page = config.class)
        OBVIOUS
    <2>1. joins' # joins
        BY DEF FlowInv, FlowTypeOK
    <2>2. ClickLink \/ ClickAgain
        BY <2>1 DEF FlowNext, FlowStep, flowVars, setup, entry, meeting, SetStop, CheckStop,
            RefuseInputs, StartPlaywright, LaunchChrome, EnsureLogin, LoginStep, LoginAnswer,
            LoginUndecided, OpenCourse, VerifyCourse, LinkNotLive, ClickAgainFails, EntryTimesOut,
            MeetingPageOpen, NoAdobeLink, LaunchAdobe, LaunchUnseen, MonitorStopped, MeetingOver,
            MonitorTimesOut, HoldStopped, UserClosesTab, Cleanup
    <2>3. page # "meeting" /\ stage \in {"enter", "reclick"}
        BY <2>2 DEF ClickLink, ClickAgain, Ready, FlowInv, FlowControl, FlowPage
    <2>4. Contains(page, config.class)
        BY <2>3 DEF FlowInv, FlowPage
    <2>5. page \in Courses
        BY <2>4, ConfigType, FlowConstants DEF Contains, FlowInv
    <2> QED
        BY <2>4, <2>5 DEF FlowInv, FlowPage
<1> QED
    BY <1>1, FlowInvariant, PTL DEF FlowSpec, EntersRequestedCourse

(* A meeting kept open is closed for a stop or because it is over.           *)
THEOREM MeetingClosedForCause == FlowSpec => ClosedOnlyForCause
<1>1. [FlowNext]_flowVars
        => (joins > 0 /\ config.keepOpen /\ opened # {} /\ opened' = {} => stop \/ ended # "no")
    <2> SUFFICES ASSUME [FlowNext]_flowVars, config.keepOpen, opened # {}, opened' = {}
                 PROVE  stop \/ ended # "no"
        OBVIOUS
    <2>1. StartPlaywright \/ LaunchChrome \/ Cleanup
        BY DEF FlowNext, FlowStep, flowVars, setup, entry, meeting, SetStop, CheckStop,
            RefuseInputs, EnsureLogin, LoginStep, LoginAnswer,
            LoginUndecided, OpenCourse, VerifyCourse, LinkNotLive, ClickLink, ClickAgain,
            ClickAgainFails, EntryTimesOut,
            MeetingPageOpen, NoAdobeLink, LaunchAdobe, LaunchUnseen, MonitorStopped, MeetingOver,
            MonitorTimesOut, HoldStopped, UserClosesTab
    <2> QED
        BY <2>1 DEF StartPlaywright, LaunchChrome, Cleanup, ShouldClose
<1> QED
    BY <1>1, PTL DEF FlowSpec, ClosedOnlyForCause

-----------------------------------------------------------------------------
(* What the worker sees of the flow.                                         *)
Failure == IF WorkerPlace = "flow" THEN "none" ELSE FailureOf(raised)
Session == WorkerPlace # "flow" /\ "playwright" \in opened

LEMMA StepOfWorker ==
    ASSUME FlowInv, FlowInv', [FlowNext]_flowVars, config.caller = "worker", UNCHANGED config
    PROVE  [Flow!ClassFlowNext]_<<WorkerPlace, Failure, Session>>
<1> USE ConfigType
    DEF WorkerPlace, Place, Failure, Session, FailureOf, FlowInv, FlowControl, FlowResources,
        Goto, Raise, setup, entry, meeting, Ready, EndStages, CheckedStages, LoginStages, MeetingStages,
        Flow!ClassFlowNext, Flow!Refused, Flow!LaunchFailed, Flow!FailedWithTab, Flow!ClassJoined,
        Flow!MeetingEnded, Flow!MonitorEnded, Flow!TabClosed
<1>1. CASE SetStop
    BY <1>1 DEF SetStop
<1>2. CASE CheckStop
    BY <1>2 DEF CheckStop
<1>3. CASE RefuseInputs
    BY <1>3 DEF RefuseInputs
<1>4. CASE StartPlaywright
    BY <1>4 DEF StartPlaywright
<1>5. CASE LaunchChrome
    BY <1>5 DEF LaunchChrome
<1>6. CASE EnsureLogin
    BY <1>6 DEF EnsureLogin
<1>7. CASE LoginStep
    <2>1. WorkerPlace = "flow" /\ page # "none" /\ page' = page /\ UNCHANGED opened
        BY <1>7 DEF LoginStep
    <2>2. CASE Goto(NextLoginStage(stage))
        BY <1>7, <2>1, <2>2, LoginNames DEF LoginStep
    <2>3. CASE \E cause \in {"login", "element"} : Raise(cause)
        BY <1>7, <2>1, <2>3 DEF LoginStep
    <2> QED
        BY <1>7, <2>2, <2>3 DEF LoginStep, LoginErrors
<1>8. CASE LoginAnswer
    BY <1>8 DEF LoginAnswer
<1>9. CASE LoginUndecided
    BY <1>9 DEF LoginUndecided
<1>10. CASE OpenCourse
    BY <1>10 DEF OpenCourse
<1>11. CASE VerifyCourse
    BY <1>11 DEF VerifyCourse
<1>12. CASE LinkNotLive
    BY <1>12 DEF LinkNotLive
<1>13. CASE ClickLink
    BY <1>13 DEF ClickLink, EntersMeeting, Click
<1>14. CASE ClickAgain
    BY <1>14 DEF ClickAgain, EntersMeeting, Click
<1>15. CASE ClickAgainFails
    BY <1>15 DEF ClickAgainFails
<1>16. CASE EntryTimesOut
    BY <1>16 DEF EntryTimesOut
<1>17. CASE MeetingPageOpen
    BY <1>17 DEF MeetingPageOpen, Accept
<1>18. CASE NoAdobeLink
    BY <1>18 DEF NoAdobeLink, Accept
<1>19. CASE LaunchAdobe
    BY <1>19 DEF LaunchAdobe
<1>20. CASE LaunchUnseen
    BY <1>20 DEF LaunchUnseen, Accept
<1>21. CASE MonitorStopped
    BY <1>21 DEF MonitorStopped
<1>22. CASE MeetingOver
    BY <1>22 DEF MeetingOver
<1>23. CASE MonitorTimesOut
    BY <1>23 DEF MonitorTimesOut
<1>24. CASE HoldStopped
    BY <1>24 DEF HoldStopped
<1>25. CASE UserClosesTab
    BY <1>25 DEF UserClosesTab
<1>26. CASE Cleanup
    BY <1>26 DEF Cleanup, ShouldClose
<1>27. CASE UNCHANGED flowVars
    BY <1>27 DEF flowVars
<1> QED
    BY <1>1, <1>2, <1>3, <1>4, <1>5, <1>6, <1>7, <1>8, <1>9, <1>10, <1>11, <1>12, <1>13, <1>14, <1>15, <1>16, <1>17, <1>18, <1>19, <1>20, <1>21, <1>22, <1>23, <1>24, <1>25, <1>26, <1>27 DEF FlowNext, FlowStep

(* Every run of the flow that the worker starts behaves, seen from the       *)
(* worker, as ClassFlow says.                                                *)
THEOREM FlowImplementsClassFlow == FlowSpec => ImplementsClassFlow
<1>1. FlowInit => Flow!ClassFlowInit
    BY DEF FlowInit, Flow!ClassFlowInit, WorkerPlace, Place
<1>2. FlowInv /\ FlowInv' /\ [FlowNext]_flowVars => [Flow!ClassFlowNext]_Flow!classFlowVars
    <2> SUFFICES ASSUME FlowInv, FlowInv', [FlowNext]_flowVars
                 PROVE  [Flow!ClassFlowNext]_<<WorkerPlace, Failure, Session>>
        BY DEF Flow!classFlowVars, Failure, Session
    <2>1. UNCHANGED config
        BY DEF FlowNext, FlowStep, flowVars, setup, SetStop, CheckStop, RefuseInputs,
            StartPlaywright, LaunchChrome, EnsureLogin, LoginStep, LoginAnswer, LoginUndecided,
            OpenCourse, VerifyCourse, LinkNotLive, ClickLink, ClickAgain, ClickAgainFails,
            EntryTimesOut, MeetingPageOpen, NoAdobeLink, LaunchAdobe, LaunchUnseen,
            MonitorStopped, MeetingOver, MonitorTimesOut, HoldStopped, UserClosesTab, Cleanup
    <2>2. CASE config.caller = "worker"
        BY <2>1, <2>2, StepOfWorker
    <2>3. CASE config.caller # "worker"
        BY <2>1, <2>3 DEF WorkerPlace, Failure, Session
    <2> QED
        BY <2>2, <2>3
<1> QED
    BY <1>1, <1>2, FlowInvariant, PTL DEF FlowSpec, ImplementsClassFlow, Flow!ClassFlowSpec

-----------------------------------------------------------------------------
(* How many steps the flow still takes, at most, once the stop event is set:  *)
(* it passes no further look at the event, so a second click and a second    *)
(* locator are all that may come between it and the end.                     *)
StopRank ==
    CASE stage = "done" -> 0
      [] stage = "cleanup" -> 1
      [] stage \in {"launching", "held"} -> 2
      [] stage \in CheckedStages /\ ~checked -> 2
      [] stage \in {"chrome", "adobe", "meeting"} -> 3
      [] stage = "enter" /\ checked -> IF candidate = 1 THEN 7 ELSE 5
      [] stage = "reclick" -> IF candidate = 1 THEN 6 ELSE 4
      [] stage = "start" -> 4
      [] OTHER -> 3

LEMMA StopRankFalls ==
    ASSUME FlowInv, stop, FlowStep \/ UserClosesTab
    PROVE  StopRank' < StopRank
<1> USE DEF StopRank, FlowInv, FlowTypeOK, FlowControl, Goto, Raise, Ready, setup, entry, meeting,
            CheckedStages, LoginStages
<1>1. CASE CheckStop
    BY <1>1 DEF CheckStop
<1>2. CASE RefuseInputs
    BY <1>2 DEF RefuseInputs
<1>3. CASE StartPlaywright
    BY <1>3 DEF StartPlaywright
<1>4. CASE LaunchChrome
    BY <1>4 DEF LaunchChrome
<1>5. CASE EnsureLogin
    BY <1>5 DEF EnsureLogin
<1>6. CASE LoginStep
    BY <1>6, LoginNames DEF LoginStep
<1>7. CASE LoginAnswer
    BY <1>7 DEF LoginAnswer
<1>8. CASE LoginUndecided
    BY <1>8 DEF LoginUndecided
<1>9. CASE OpenCourse
    BY <1>9 DEF OpenCourse
<1>10. CASE VerifyCourse
    BY <1>10 DEF VerifyCourse
<1>11. CASE LinkNotLive
    BY <1>11 DEF LinkNotLive
<1>12. CASE ClickLink
    BY <1>12 DEF ClickLink, Click, EntersMeeting
<1>13. CASE ClickAgain
    BY <1>13 DEF ClickAgain, Click, EntersMeeting
<1>14. CASE ClickAgainFails
    BY <1>14 DEF ClickAgainFails
<1>15. CASE EntryTimesOut
    BY <1>15 DEF EntryTimesOut
<1>16. CASE MeetingPageOpen
    BY <1>16 DEF MeetingPageOpen, Accept
<1>17. CASE NoAdobeLink
    BY <1>17 DEF NoAdobeLink, Accept
<1>18. CASE LaunchAdobe
    <2>1. stage = "adobe" /\ stage' = "launching"
        BY <1>18 DEF LaunchAdobe
    <2> QED
        BY <2>1
<1>19. CASE LaunchUnseen
    <2>1. stage = "launching" /\ stage' = "cleanup"
        BY <1>19 DEF LaunchUnseen, Accept
    <2> QED
        BY <2>1
<1>20. CASE MonitorStopped
    BY <1>20 DEF MonitorStopped
<1>21. CASE MeetingOver
    BY <1>21 DEF MeetingOver
<1>22. CASE MonitorTimesOut
    BY <1>22 DEF MonitorTimesOut
<1>23. CASE HoldStopped
    BY <1>23 DEF HoldStopped
<1>24. CASE UserClosesTab
    BY <1>24 DEF UserClosesTab
<1>25. CASE Cleanup
    BY <1>25 DEF Cleanup
<1> QED
    BY <1>1, <1>2, <1>3, <1>4, <1>5, <1>6, <1>7, <1>8, <1>9, <1>10, <1>11, <1>12, <1>13, <1>14,
       <1>15, <1>16, <1>17, <1>18, <1>19, <1>20, <1>21, <1>22, <1>23, <1>24, <1>25
       DEF FlowStep

LEMMA StopKeepsRank ==
    ASSUME FlowInv, [FlowNext]_flowVars, stop
    PROVE  stop' /\ (StopRank' = StopRank \/ (StopRank' < StopRank /\ (FlowStep \/ UserClosesTab)))
<1>1. stop'
    BY DEF FlowNext, FlowStep, flowVars, setup, SetStop, CheckStop, RefuseInputs,
           StartPlaywright, LaunchChrome, EnsureLogin, LoginStep, LoginAnswer, LoginUndecided,
           OpenCourse, VerifyCourse, LinkNotLive, ClickLink, ClickAgain, ClickAgainFails,
           EntryTimesOut, MeetingPageOpen, NoAdobeLink, LaunchAdobe, LaunchUnseen,
           MonitorStopped, MeetingOver, MonitorTimesOut, HoldStopped, UserClosesTab, Cleanup
<1>2. CASE UNCHANGED flowVars
    BY <1>1, <1>2 DEF flowVars, StopRank
<1>3. CASE FlowStep \/ UserClosesTab
    BY <1>1, <1>3, StopRankFalls
<1> QED
    BY <1>2, <1>3 DEF FlowNext, SetStop

LEMMA StopRankType == ASSUME FlowInv PROVE StopRank \in 0..7 /\ (StopRank = 0 <=> stage = "done")
BY DEF FlowInv, FlowTypeOK, StopRank, Stages, CheckedStages, LoginStages

(* A stopped flow always takes its next step, and with it comes closer to    *)
(* its end.                                                                  *)
StopRankIs(k) == stop /\ StopRank = k
StopRankBelow(k) == stop /\ StopRank < k
StopComesCloser(k) == StopRankIs(k) ~> StopRankBelow(k)

FlowThatGoesOn == FairFlowSpec /\ []FlowNeverStuck

LEMMA StopLowersRank ==
    ASSUME NEW k \in 1..7
    PROVE  FlowThatGoesOn => StopComesCloser(k)
<1>1. FlowInv /\ StopRankIs(k) /\ [FlowNext]_flowVars => StopRankIs(k)' \/ StopRankBelow(k)'
    BY StopKeepsRank DEF StopRankIs, StopRankBelow
<1>2. FlowInv /\ StopRankIs(k) /\ [FlowNext]_flowVars /\ <<FlowStep>>_flowVars
        => StopRankBelow(k)'
    BY StopRankFalls, StopKeepsRank DEF StopRankIs, StopRankBelow
<1>3. FlowInv /\ FlowNeverStuck /\ StopRankIs(k) => ENABLED <<FlowStep>>_flowVars
    BY StopRankType DEF FlowNeverStuck, StopRankIs
<1> QED
    BY <1>1, <1>2, <1>3, FlowInvariant, PTL
       DEF FlowThatGoesOn, FairFlowSpec, FlowSpec, StopComesCloser

(* Whenever the user stops a flow, it ends, and with everything closed; for  *)
(* every site, course and number of looks.  FlowNeverStuck says where the    *)
(* flow has a next step, which TLC evaluates and the prover cannot.          *)
THEOREM StoppedFlowReleases == FairFlowSpec /\ []FlowNeverStuck => StopReleases
<1>1. FlowThatGoesOn =>
        /\ StopComesCloser(1) /\ StopComesCloser(2) /\ StopComesCloser(3) /\ StopComesCloser(4)
        /\ StopComesCloser(5) /\ StopComesCloser(6) /\ StopComesCloser(7)
    BY StopLowersRank
<1>2. FlowInv =>
        /\ stop => (StopRankIs(7) \/ StopRankBelow(7))
        /\ StopRankBelow(7) => (StopRankIs(6) \/ StopRankBelow(6))
        /\ StopRankBelow(6) => (StopRankIs(5) \/ StopRankBelow(5))
        /\ StopRankBelow(5) => (StopRankIs(4) \/ StopRankBelow(4))
        /\ StopRankBelow(4) => (StopRankIs(3) \/ StopRankBelow(3))
        /\ StopRankBelow(3) => (StopRankIs(2) \/ StopRankBelow(2))
        /\ StopRankBelow(2) => (StopRankIs(1) \/ StopRankBelow(1))
    BY StopRankType DEF StopRankIs, StopRankBelow
<1>3. FlowInv /\ StopRankBelow(1) => stage = "done" /\ opened = {}
    BY StopRankType DEF FlowInv, FlowResources, StopRankBelow
<1>4. FairFlowSpec => []FlowInv
    BY FlowInvariant, PTL DEF FairFlowSpec
<1> QED
    BY <1>1, <1>2, <1>3, <1>4, PTL DEF FlowThatGoesOn, StopComesCloser, StopReleases

-----------------------------------------------------------------------------
(* How far the flow is from its end, or from a tab that it holds open: the   *)
(* stages still ahead, and within one the looks and clicks it may still take. *)
AtRest == stage \in {"held", "done"}

StageRank ==
    CASE stage = "start" -> 15     [] stage = "chrome" -> 14    [] stage = "session" -> 13
      [] stage = "openLogin" -> 12 [] stage = "username" -> 11  [] stage = "password" -> 10
      [] stage = "submit" -> 9     [] stage = "answer" -> 8     [] stage = "course" -> 7
      [] stage = "verify" -> 6     [] stage \in {"enter", "reclick"} -> 5
      [] stage = "adobe" -> 4      [] stage = "launching" -> 3  [] stage = "meeting" -> 2
      [] stage = "cleanup" -> 1    [] OTHER -> 0

LookRank ==
    6 * (MaxPolls - polls) +
    (CASE stage = "reclick" -> IF candidate = 1 THEN 3 ELSE 1
       [] stage # "reclick" /\ checked -> IF candidate = 1 THEN 4 ELSE 2
       [] OTHER -> 5)

RanksInRange == StageRank \in 0..15 /\ LookRank \in 0..(6 * MaxPolls + 5)

LEMMA RanksAreNatural == FlowTypeOK => RanksInRange
<1> SUFFICES ASSUME FlowTypeOK PROVE RanksInRange
    OBVIOUS
<1>1. StageRank \in 0..15
    BY DEF StageRank
<1>2. MaxPolls \in Nat /\ polls \in 0..MaxPolls /\ candidate \in 1..2
    BY FlowConstants DEF FlowTypeOK
<1>3. LookRank \in 0..(6 * MaxPolls + 5)
    BY <1>2 DEF LookRank
<1> QED
    BY <1>1, <1>3 DEF RanksInRange

(* No step goes back to an earlier stage, and none looks or clicks again in  *)
(* the same one without using up a look or a locator.                        *)
LEMMA RestComesCloser ==
    ASSUME FlowInv, FlowStep, ~AtRest
    PROVE  \/ AtRest'
           \/ StageRank' < StageRank
           \/ StageRank' = StageRank /\ LookRank' < LookRank
<1> USE FlowConstants
    DEF AtRest, StageRank, LookRank, FlowInv, FlowTypeOK, FlowControl, Goto, Raise, Ready,
        setup, entry, meeting, CheckedStages, LoginStages
<1>1. CASE CheckStop
    BY <1>1 DEF CheckStop
<1>2. CASE RefuseInputs
    BY <1>2 DEF RefuseInputs
<1>3. CASE StartPlaywright
    BY <1>3 DEF StartPlaywright
<1>4. CASE LaunchChrome
    BY <1>4 DEF LaunchChrome
<1>5. CASE EnsureLogin
    BY <1>5 DEF EnsureLogin
<1>6. CASE LoginStep
    <2>1. \/ stage = "openLogin" /\ stage' \in {"username", "held", "cleanup"}
          \/ stage = "username" /\ stage' \in {"password", "held", "cleanup"}
          \/ stage = "password" /\ stage' \in {"submit", "held", "cleanup"}
          \/ stage = "submit" /\ stage' \in {"answer", "held", "cleanup"}
        BY <1>6 DEF LoginStep, NextLoginStage
    <2> QED
        BY <2>1
<1>7. CASE LoginAnswer
    BY <1>7 DEF LoginAnswer
<1>8. CASE LoginUndecided
    BY <1>8 DEF LoginUndecided
<1>9. CASE OpenCourse
    BY <1>9 DEF OpenCourse
<1>10. CASE VerifyCourse
    BY <1>10 DEF VerifyCourse
<1>11. CASE LinkNotLive
    BY <1>11 DEF LinkNotLive
<1>12. CASE ClickLink
    BY <1>12 DEF ClickLink, Click, EntersMeeting
<1>13. CASE ClickAgain
    BY <1>13 DEF ClickAgain, Click, EntersMeeting
<1>14. CASE ClickAgainFails
    BY <1>14 DEF ClickAgainFails
<1>15. CASE EntryTimesOut
    BY <1>15 DEF EntryTimesOut
<1>16. CASE MeetingPageOpen
    BY <1>16 DEF MeetingPageOpen, Accept
<1>17. CASE NoAdobeLink
    BY <1>17 DEF NoAdobeLink, Accept
<1>18. CASE LaunchAdobe
    <2>1. stage = "adobe" /\ stage' \in {"launching", "cleanup"}
        BY <1>18 DEF LaunchAdobe, Accept
    <2> QED
        BY <2>1
<1>19. CASE LaunchUnseen
    <2>1. stage = "launching" /\ stage' \in {"meeting", "held", "cleanup"}
        BY <1>19 DEF LaunchUnseen, Accept
    <2> QED
        BY <2>1
<1>20. CASE MonitorStopped
    BY <1>20 DEF MonitorStopped
<1>21. CASE MeetingOver
    BY <1>21 DEF MeetingOver
<1>22. CASE MonitorTimesOut
    BY <1>22 DEF MonitorTimesOut
<1>23. CASE HoldStopped
    BY <1>23 DEF HoldStopped
<1>24. CASE Cleanup
    BY <1>24 DEF Cleanup
<1> QED
    BY <1>1, <1>2, <1>3, <1>4, <1>5, <1>6, <1>7, <1>8, <1>9, <1>10, <1>11, <1>12, <1>13,
       <1>14, <1>15, <1>16, <1>17, <1>18, <1>19, <1>20, <1>21, <1>22, <1>23, <1>24
       DEF FlowStep

(* One number for both: a later stage outweighs all looks.                   *)
RestRank == StageRank * (6 * MaxPolls + 6) + LookRank

LEMMA LaterWeighsMore ==
    ASSUME NEW weight \in Nat, NEW s \in Nat, NEW t \in Nat,
           NEW a \in Nat, NEW b \in Nat, b < weight, t < s
    PROVE  t * weight + b < s * weight + a
<1>1. t + 1 <= s /\ (t + 1) * weight = t * weight + weight
    OBVIOUS
<1>2. (t + 1) * weight <= s * weight
    BY <1>1
<1>3. t * weight \in Nat /\ s * weight \in Nat
    OBVIOUS
<1> QED
    BY <1>1, <1>2, <1>3

LEMMA RestRankFalls ==
    ASSUME FlowInv, FlowInv', FlowStep, ~AtRest
    PROVE  AtRest' \/ RestRank' < RestRank
<1>1. RanksInRange /\ RanksInRange'
    BY RanksAreNatural, PTL DEF FlowInv
<1>2. /\ StageRank \in Nat /\ StageRank' \in Nat /\ LookRank \in Nat /\ LookRank' \in Nat
      /\ 6 * MaxPolls + 6 \in Nat /\ LookRank' < 6 * MaxPolls + 6
    BY <1>1, FlowConstants DEF RanksInRange
<1>3. StageRank' < StageRank => RestRank' < RestRank
    BY <1>2, LaterWeighsMore DEF RestRank
<1>4. StageRank' = StageRank /\ LookRank' < LookRank => RestRank' < RestRank
    <2> SUFFICES ASSUME StageRank' = StageRank, LookRank' < LookRank PROVE RestRank' < RestRank
        OBVIOUS
    <2>1. StageRank * (6 * MaxPolls + 6) \in Int
        BY <1>2
    <2> QED
        BY <1>2, <2>1 DEF RestRank
<1> QED
    BY <1>3, <1>4, RestComesCloser

LEMMA RestKeepsRank ==
    ASSUME FlowInv, FlowInv', [FlowNext]_flowVars, ~AtRest
    PROVE  \/ AtRest' \/ RestRank' < RestRank
           \/ ~AtRest' /\ RestRank' = RestRank
<1>1. CASE SetStop \/ UNCHANGED flowVars
    <2>1. UNCHANGED <<stage, checked, polls, candidate>>
        BY <1>1 DEF SetStop, flowVars, entry
    <2> QED
        BY <2>1 DEF RestRank, StageRank, LookRank, AtRest
<1>2. CASE FlowStep
    BY <1>2, RestRankFalls
<1>3. ~UserClosesTab
    BY DEF UserClosesTab, AtRest
<1> QED
    BY <1>1, <1>2, <1>3 DEF FlowNext

RestIs(n) == ~AtRest /\ RestRank = n
RestBelow(n) == ~AtRest /\ RestRank < n

(* Whatever the site does, and with any number of looks, the flow does not   *)
(* go round in a circle: from any distance it comes nearer, or to rest.      *)
(* Distances are natural numbers, so this is FlowComesToRest but for the     *)
(* induction over them.                                                      *)
THEOREM FlowComesCloserToRest ==
    ASSUME NEW n \in Nat
    PROVE  FairFlowSpec /\ []FlowNeverStuck => (RestIs(n) ~> AtRest \/ RestBelow(n))
<1>1. FlowInv /\ FlowInv' /\ RestIs(n) /\ [FlowNext]_flowVars
        => RestIs(n)' \/ AtRest' \/ RestBelow(n)'
    BY RestKeepsRank DEF RestIs, RestBelow
<1>2. FlowInv /\ FlowInv' /\ RestIs(n) /\ [FlowNext]_flowVars /\ <<FlowStep>>_flowVars
        => AtRest' \/ RestBelow(n)'
    BY RestRankFalls DEF RestIs, RestBelow
<1>3. FlowNeverStuck /\ RestIs(n) => ENABLED <<FlowStep>>_flowVars
    BY DEF FlowNeverStuck, RestIs, AtRest
<1> QED
    BY <1>1, <1>2, <1>3, FlowInvariant, PTL DEF FairFlowSpec, FlowSpec

=============================================================================
