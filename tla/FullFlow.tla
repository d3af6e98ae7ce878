------------------------------- MODULE FullFlow -------------------------------
(***************************************************************************)
(* One run of BrowserAutomation.login_and_enter_class                      *)
(* (src/browser/automation.py) with the adapter src/sites/vadana_sum39.py:  *)
(* start Chrome, make sure of the login, open the course, click the live    *)
(* class link, hand over to Adobe Connect, watch the meeting, clean up.     *)
(* The stop event is set by another thread, between any two steps; the code *)
(* looks at it only in certain places (CheckStop).                          *)
(*                                                                         *)
(* The site, Chrome and Windows are external: what they answer is a choice. *)
(* Nobody else navigates the flow's tab between the look at its heading and *)
(* the click on the class link.                                            *)
(* Abstracted: locators, screenshots, logging; times are the order of steps.*)
(***************************************************************************)
EXTENDS Integers, FiniteSets

CONSTANTS
    Courses,    \* normalised course names
    PartOf,     \* the pairs <<a, b>> of different names where b contains a
    Configs,    \* the configurations the flow may be started with
    MaxPolls    \* bound: looks at the login's answer, then at the class link,
                \* until the time for it is over

(* An AppConfig, and who starts the flow with it: the window, or the worker, *)
(* whose executor.run_schedule fixes two of the options.                     *)
Config ==
    {c \in [caller: {"window", "worker"}, keepOpen: BOOLEAN, launchAdobe: BOOLEAN,
            autoClose: BOOLEAN, class: Courses] :
        c.caller = "worker" => c.keepOpen /\ c.launchAdobe}

(* What a tab may show besides the page of a course.                         *)
OtherPages == {"none", "loginPage", "dashboard", "meeting", "elsewhere"}

ASSUME FlowConstants ==
    /\ Courses \cap OtherPages = {}
    /\ PartOf \subseteq Courses \X Courses
    /\ Configs \subseteq Config
    /\ MaxPolls \in Nat \ {0}

VARIABLES
    config,     \* the AppConfig of this run; keepOpen is keep_open and not headless
    links,      \* external: how many dashboard links bear the requested name
    reliable,   \* external: do the dashboard's links stay in their places while
                \* they are read, and lead to the course of their name?
    stop,       \* stop_event
    stage,      \* what the flow does next
    checked,    \* has the stop check before that been passed?
    page,       \* what the tab of the flow shows
    opened,     \* what the flow started and did not close
    polls,      \* looks at the login's answer or at the class link so far
    candidate,  \* which of the two locators of the class link is tried
    result,     \* result_status
    raised,     \* the exception, by cause
    watched,    \* the tab that was returned as active_page: the meeting or the old one
    ended,      \* why the meeting tab is gone or was left: "no", "user", "farewell"
    clicked,    \* ghost: has a click on the class link gone through?
    joins,      \* ghost: how often such a click opened the meeting
    late        \* ghost: the stages that acted although stop was set

flowVars == <<config, links, reliable, stop, stage, checked, page, opened, polls,
              candidate, result, raised, watched, ended, clicked, joins, late>>

(* The stages whose action the code precedes by a look at the stop event, in *)
(* the order it takes them.                                                  *)
LoginStages == {"openLogin", "username", "password", "submit"}
CheckedStages == {"session", "course", "verify", "enter"} \cup LoginStages \cup {"answer"}
Stages == CheckedStages \cup
    {"start", "chrome", "reclick", "adobe", "launching", "meeting", "held", "cleanup", "done"}

Causes == {"none", "refused", "launch", "stopped", "site", "login", "rejected", "element",
           "course", "entryTimeout", "entryStopped", "adobe"}
Pages == OtherPages \cup Courses
Results == {"", "needs_user_action", "browser_meeting_opened"}

FlowTypeOK ==
    /\ config \in Configs
    /\ links \in 0..2 /\ reliable \in BOOLEAN
    /\ stop \in BOOLEAN /\ checked \in BOOLEAN
    /\ stage \in Stages
    /\ page \in Pages
    /\ opened \subseteq {"playwright", "chrome"}
    /\ polls \in 0..MaxPolls /\ candidate \in 1..2
    /\ result \in Results /\ raised \in Causes
    /\ watched \in {"none", "meeting", "old"}
    /\ ended \in {"no", "user", "farewell"}
    /\ clicked \in BOOLEAN
    /\ joins \in Nat
    /\ late \subseteq Stages

FlowInit ==
    /\ config \in Configs
    /\ links \in 0..2 /\ reliable \in BOOLEAN
    /\ stop = FALSE
    /\ stage = "start" /\ checked = FALSE
    /\ page = "none" /\ opened = {}
    /\ polls = 0 /\ candidate = 1
    /\ result = "" /\ raised = "none"
    /\ watched = "none" /\ ended = "no"
    /\ clicked = FALSE /\ joins = 0 /\ late = {}

-----------------------------------------------------------------------------
(* What the steps have in common.                                            *)
Goto(next) == stage' = next /\ checked' = FALSE

(* The exception ends the try: the tab is held open for the user if the run  *)
(* keeps browsers open, has a tab and was not stopped.                       *)
Raise(cause) ==
    /\ raised' = cause
    /\ Goto(IF config.keepOpen /\ page # "none" /\ ~stop THEN "held" ELSE "cleanup")

Acts == late' = IF stop THEN late \cup {stage} ELSE late

setup    == <<config, links, reliable, stop>>
entry    == <<polls, candidate, clicked, joins>>
meeting  == <<result, watched, ended>>

(* stop_bot of the window; nobody sets the worker's event.                   *)
SetStop ==
    /\ config.caller = "window" /\ ~stop /\ stage # "done"
    /\ stop' = TRUE
    /\ UNCHANGED <<config, links, reliable, stage, checked, page, opened, raised, late, entry, meeting>>

CheckStop ==
    /\ stage \in CheckedStages /\ ~checked
    /\ stage \in {"answer", "enter"} => polls < MaxPolls
    /\ IF stop THEN Raise("stopped")
               ELSE checked' = TRUE /\ UNCHANGED <<stage, raised>>
    /\ UNCHANGED <<setup, page, opened, late, entry, meeting>>

Ready(s) == stage = s /\ checked

-----------------------------------------------------------------------------
(* Chrome.                                                                   *)
(* _validate_full_flow_inputs raises before the try: nothing to clean up.    *)
RefuseInputs ==
    /\ stage = "start"
    /\ raised' = "refused"
    /\ Goto("done")
    /\ UNCHANGED <<setup, page, opened, late, entry, meeting>>

StartPlaywright ==
    /\ stage = "start"
    /\ \/ Raise("launch") /\ UNCHANGED opened
       \/ opened' = {"playwright"} /\ Goto("chrome") /\ UNCHANGED raised
    /\ UNCHANGED <<setup, page, late, entry, meeting>>

(* Neither channel nor path starts Chrome, or its first tab does not open.   *)
LaunchChrome ==
    /\ stage = "chrome"
    /\ \/ Raise("launch") /\ opened' \in {opened, opened \cup {"chrome"}} /\ UNCHANGED page
       \/ /\ opened' = opened \cup {"chrome"} /\ page' = "elsewhere"
          /\ Goto("session") /\ UNCHANGED raised
    /\ UNCHANGED <<setup, late, entry, meeting>>

(* _ensure_login_state: with a valid session the dashboard shows.            *)
EnsureLogin ==
    /\ Ready("session")
    /\ Acts
    /\ \/ page' = "dashboard" /\ Goto("course") /\ UNCHANGED raised
       \/ page' = "loginPage" /\ Goto("openLogin") /\ UNCHANGED raised
       \/ Raise("site") /\ UNCHANGED page
    /\ UNCHANGED <<setup, opened, entry, meeting>>

NextLoginStage(s) ==
    CASE s = "openLogin" -> "username" [] s = "username" -> "password"
      [] s = "password" -> "submit"    [] s = "submit" -> "answer"

LoginErrors(s) == IF s = "submit" THEN {"login"} ELSE {"login", "element"}

(* Variant: the credentials are submitted without a look at the stop event.  *)
LoginStepUnchecked ==
    /\ stage \in LoginStages
    /\ Acts
    /\ \/ Goto(NextLoginStage(stage)) /\ UNCHANGED raised
       \/ \E cause \in LoginErrors(stage) : Raise(cause)
    /\ UNCHANGED <<setup, page, opened, entry, meeting>>

(* adapter.login: Playwright's errors come back as a LoginResult and are     *)
(* raised again; the next field not being found is an error of its own.      *)
LoginStep ==
    /\ stage \in LoginStages /\ checked
    /\ Acts
    /\ \/ Goto(NextLoginStage(stage)) /\ UNCHANGED raised
       \/ \E cause \in LoginErrors(stage) : Raise(cause)
    /\ UNCHANGED <<setup, page, opened, entry, meeting>>

(* _wait_for_login_result.  That the login button is gone, or that looking   *)
(* for it failed, counts as success too: the tab may still be elsewhere.     *)
(* The site may reject the credentials or ask for a challenge.               *)
LoginAnswer ==
    /\ Ready("answer") /\ polls < MaxPolls
    /\ \/ /\ page' \in {"dashboard", "elsewhere"}
          /\ Goto("course") /\ polls' = 0 /\ UNCHANGED raised
       \/ \E cause \in {"login", "rejected"} : Raise(cause) /\ UNCHANGED <<page, polls>>
       \/ Goto("answer") /\ polls' = polls + 1 /\ UNCHANGED <<page, raised>>
    /\ UNCHANGED <<setup, opened, late, candidate, clicked, joins, meeting>>

LoginUndecided ==
    /\ stage = "answer" /\ polls = MaxPolls
    /\ Raise("login")
    /\ UNCHANGED <<setup, page, opened, late, entry, meeting>>

-----------------------------------------------------------------------------
(* The course.                                                               *)
Contains(heading, name) == heading = name \/ <<name, heading>> \in PartOf

(* Where a link with this name may lead.                                     *)
LeadsTo(name) == (IF reliable THEN {name} ELSE Courses) \cup {"elsewhere"}

(* Variant: without an exact match, a link that contains the name is clicked. *)
OpenSimilarCourse ==
    /\ Ready("course")
    /\ Acts
    /\ \/ /\ page = "dashboard"
          /\ \E course \in Courses :
               /\ Contains(course, config.class) /\ (links = 1 => course = config.class)
               /\ page' \in LeadsTo(course)
          /\ Goto("verify") /\ UNCHANGED raised
       \/ \E cause \in {"course", "site"} : Raise(cause) /\ UNCHANGED page
    /\ UNCHANGED <<setup, opened, entry, meeting>>

(* open_course: exactly one link with the requested name, or an error; the   *)
(* click goes wherever that link, or the one that is in its place by then,   *)
(* points; and the dashboard may not show in time.                           *)
OpenCourse ==
    /\ Ready("course")
    /\ Acts
    /\ \/ /\ page = "dashboard" /\ links = 1
          /\ page' \in LeadsTo(config.class)
          /\ Goto("verify") /\ UNCHANGED raised
       \/ \E cause \in {"course", "site"} : Raise(cause) /\ UNCHANGED page
    /\ UNCHANGED <<setup, opened, entry, meeting>>

(* Variant: any page is taken for the course's.                              *)
VerifyNothing ==
    /\ Ready("verify")
    /\ \/ Goto("enter") /\ UNCHANGED raised
       \/ Raise("course")
    /\ UNCHANGED <<setup, page, opened, late, entry, meeting>>

(* _verify_course_page: a heading that contains the name, or an error.       *)
VerifyCourse ==
    /\ Ready("verify")
    /\ \/ /\ page \in Courses /\ Contains(page, config.class)
          /\ Goto("enter") /\ UNCHANGED raised
       \/ Raise("course")
    /\ UNCHANGED <<setup, page, opened, late, entry, meeting>>

-----------------------------------------------------------------------------
(* The class link: enter_online_class.                                       *)
(* What a click may do: nothing, open the meeting in a tab that shows within *)
(* three seconds or later, or turn this very tab into the meeting.           *)
ClickEffects == {"none", "tab", "lateTab", "sameTab"}

Click(effect, throughout) ==
    /\ clicked' = (clicked \/ throughout \/ effect # "none")
    /\ joins' = IF effect = "none" THEN joins ELSE joins + 1
    /\ page' = IF effect = "sameTab" THEN "meeting" ELSE page

EntersMeeting(tab) == watched' = tab /\ Goto("adobe") /\ UNCHANGED <<result, ended>>

(* Variant: the deadline is not looked at while the link is not live.        *)
LinkNotLiveEver ==
    /\ Ready("enter")
    /\ IF stop THEN Raise("entryStopped") /\ UNCHANGED candidate
       ELSE candidate' = 1 /\ Goto("enter") /\ UNCHANGED raised
    /\ UNCHANGED <<setup, page, opened, polls, clicked, joins, late, meeting>>

(* The link is not live yet: the loop waits, and a stop that comes meanwhile *)
(* is raised as a CourseSelectionError.                                      *)
LinkNotLive ==
    /\ Ready("enter")
    /\ IF stop THEN Raise("entryStopped") /\ UNCHANGED <<polls, candidate>>
       ELSE polls' = polls + 1 /\ candidate' = 1 /\ Goto("enter") /\ UNCHANGED raised
    /\ UNCHANGED <<setup, page, opened, clicked, joins, late, meeting>>

(* The first click, inside expect_page(timeout=3000), on whatever page the   *)
(* tab shows: only the text of the link is looked at.                        *)
ClickLink ==
    /\ Ready("enter")
    /\ Acts
    /\ \E effect \in ClickEffects :
         /\ Click(effect, FALSE)
         /\ IF effect = "tab" THEN EntersMeeting("meeting")
            ELSE Goto("reclick") /\ UNCHANGED meeting
    /\ UNCHANGED <<setup, opened, polls, candidate, raised>>

(* No tab within three seconds: the link is clicked again, and the old tab   *)
(* is returned whatever that click does.  In a tab that has become the       *)
(* meeting there is no such link, and waiting for it uses up all the time.   *)
ClickAgain ==
    /\ stage = "reclick" /\ page # "meeting"
    /\ Acts
    /\ \E effect \in ClickEffects :
         /\ Click(effect, TRUE)
         /\ EntersMeeting(IF effect = "sameTab" THEN "meeting" ELSE "old")
    /\ UNCHANGED <<setup, opened, polls, candidate, raised>>

(* Variant: another locator is tried after each failure.                     *)
ClickAgainFailsOn ==
    /\ stage = "reclick"
    /\ stage' = "enter" /\ candidate' = candidate + 1 /\ checked' = TRUE
    /\ UNCHANGED <<setup, page, opened, polls, raised, clicked, joins, late, meeting>>

(* The second click raises: the other locator is tried, without a new look   *)
(* at the stop event, or the loop goes round.                                *)
ClickAgainFails ==
    /\ stage = "reclick"
    /\ stage' = "enter"
    /\ \/ page # "meeting" /\ candidate = 1 /\ candidate' = 2 /\ checked' = TRUE /\ UNCHANGED polls
       \/ /\ candidate' = 1 /\ checked' = FALSE
          /\ polls' = IF page = "meeting" THEN MaxPolls ELSE polls + 1
    /\ UNCHANGED <<setup, page, opened, raised, clicked, joins, late, meeting>>

(* Variant: when the time is over the tab is returned all the same.          *)
EntryTimesOutQuietly ==
    /\ stage = "enter" /\ polls = MaxPolls
    /\ EntersMeeting("old")
    /\ UNCHANGED <<setup, page, opened, raised, late, entry>>

EntryTimesOut ==
    /\ stage = "enter" /\ polls = MaxPolls
    /\ Raise("entryTimeout")
    /\ UNCHANGED <<setup, page, opened, late, entry, meeting>>

-----------------------------------------------------------------------------
(* Adobe Connect: _handle_adobe_connect with AdobeConnectLauncher.           *)
Accept(status) ==
    /\ result' = status
    /\ Goto(IF ~config.keepOpen \/ stop THEN "cleanup"
            ELSE IF config.autoClose THEN "meeting" ELSE "held")

(* The meeting's web page is open, or launching is off.                      *)
MeetingPageOpen ==
    /\ stage = "adobe" /\ (config.launchAdobe => joins > 0)
    /\ Accept("browser_meeting_opened")
    /\ UNCHANGED <<setup, page, opened, raised, watched, ended, late, entry>>

(* No link for Adobe in any tab: Chrome may be asking the user.              *)
NoAdobeLink ==
    /\ stage = "adobe" /\ config.launchAdobe
    /\ Accept("needs_user_action")
    /\ UNCHANGED <<setup, page, opened, raised, watched, ended, late, entry>>

(* launch_uri, without a look at the stop event: "launching" when Windows    *)
(* has a program for the scheme.                                             *)
LaunchAdobe ==
    /\ stage = "adobe" /\ config.launchAdobe
    /\ Acts
    /\ Goto("launching")
    /\ result' \in {"", "needs_user_action"}
    /\ UNCHANGED <<setup, page, opened, raised, watched, ended, entry>>

(* wait_for_launch never sees Adobe start, as the process checker always     *)
(* says no: it ends by the stop event or by its timeout.  The flow accepts   *)
(* the timeout only after a request to Windows; "" stands for any status it  *)
(* does not accept.                                                          *)
LaunchUnseen ==
    /\ stage = "launching"
    /\ IF stop \/ result = ""
       THEN Raise(IF stop THEN "stopped" ELSE "adobe") /\ result' = ""
       ELSE Accept("needs_user_action") /\ UNCHANGED raised
    /\ UNCHANGED <<setup, page, opened, watched, ended, late, entry>>

-----------------------------------------------------------------------------
(* The meeting and the end.  Only the meeting's own tab shows its chat.      *)
MonitorStopped ==
    /\ stage = "meeting" /\ stop
    /\ Goto("cleanup")
    /\ UNCHANGED <<setup, page, opened, raised, late, entry, meeting>>

MeetingOver ==
    /\ stage = "meeting"
    /\ ended' \in {"user"} \cup (IF watched = "meeting" THEN {"farewell"} ELSE {})
    /\ Goto("cleanup")
    /\ UNCHANGED <<setup, page, opened, raised, result, watched, late, entry>>

(* Variant: a meeting whose monitor times out is closed.                     *)
MonitorTimesOutAndCloses ==
    /\ stage = "meeting"
    /\ opened' = {}
    /\ Goto("done")
    /\ UNCHANGED <<setup, page, raised, late, entry, meeting>>

(* monitor_timeout: the meeting is held open without a monitor.              *)
MonitorTimesOut ==
    /\ stage = "meeting"
    /\ Goto("held")
    /\ UNCHANGED <<setup, page, opened, raised, late, entry, meeting>>

HoldStopped ==
    /\ stage = "held" /\ stop
    /\ Goto("cleanup")
    /\ UNCHANGED <<setup, page, opened, raised, late, entry, meeting>>

(* _wait_for_browser_to_stay_open ends when the user closes the tab.         *)
UserClosesTab ==
    /\ stage = "held"
    /\ Goto("cleanup")
    /\ UNCHANGED <<setup, page, opened, raised, late, entry, meeting>>

(* Variant: a stop does not close anything.                                  *)
ShouldCloseUnlessStopped ==
    \/ ended # "no"
    \/ ~config.keepOpen /\ result \notin {"needs_user_action", "browser_meeting_opened"}

(* Variant: after an error everything is closed.                             *)
ShouldCloseOnError ==
    \/ ended # "no" \/ raised # "none"
    \/ ~config.keepOpen /\ result \notin {"needs_user_action", "browser_meeting_opened"}
    \/ stop

(* meeting_finished is not set by the end of a hold.                         *)
ShouldClose ==
    \/ ended # "no"
    \/ ~config.keepOpen /\ result \notin {"needs_user_action", "browser_meeting_opened"}
    \/ stop

Cleanup ==
    /\ stage = "cleanup"
    /\ opened' = IF ShouldClose THEN {} ELSE opened
    /\ Goto("done")
    /\ UNCHANGED <<setup, page, raised, late, entry, meeting>>

-----------------------------------------------------------------------------
FlowStep ==
    \/ CheckStop \/ RefuseInputs \/ StartPlaywright \/ LaunchChrome
    \/ EnsureLogin \/ LoginStep \/ LoginAnswer \/ LoginUndecided
    \/ OpenCourse \/ VerifyCourse
    \/ LinkNotLive \/ ClickLink \/ ClickAgain \/ ClickAgainFails \/ EntryTimesOut
    \/ MeetingPageOpen \/ NoAdobeLink \/ LaunchAdobe \/ LaunchUnseen
    \/ MonitorStopped \/ MeetingOver \/ MonitorTimesOut
    \/ HoldStopped \/ Cleanup

FlowNext == SetStop \/ FlowStep \/ UserClosesTab

FlowSpec == FlowInit /\ [][FlowNext]_flowVars

(* Every call of the flow has a timeout.  That the user closes a tab that is *)
(* held open is not assumed.                                                 *)
FairFlowSpec == FlowSpec /\ WF_flowVars(FlowStep)

(* Outside of a hold the flow always has a next step, and in a hold once the  *)
(* stop event is set.                                                        *)
FlowNeverStuck ==
    stage # "done" /\ (stage = "held" => stop) => ENABLED <<FlowStep>>_flowVars

-----------------------------------------------------------------------------
(* README: the page's heading is compared with the requested name before the *)
(* class link is clicked.  Wherever the course's link led, each click that   *)
(* opens a meeting is made on a page whose heading contains that name; and   *)
(* if the dashboard is reliable, on the requested course's own, never on one *)
(* of a longer name.                                                         *)
EntersRequestedCourse ==
    [][joins' > joins =>
          /\ Contains(page, config.class)
          /\ reliable => page = config.class]_flowVars

(* "Opening a URL alone is never success": a flow that ends without an       *)
(* exception has clicked the live class link.                                *)
SuccessMeansClicked == stage = "done" /\ raised = "none" => clicked

(* After the user's stop at most the step that had passed its stop check is  *)
(* still taken, the class link's clicks and the launch of Adobe being one    *)
(* such stretch: no further credential is typed, no further page opened.     *)
LateActsBounded == Cardinality(late) <= 1 \/ late \subseteq {"enter", "reclick", "adobe"}

(* A meeting that was joined under keep_open is closed by the flow only for  *)
(* a stop, a farewell, or because its tab is gone: never by mistake, after   *)
(* an error, or when the monitor's time is over.                             *)
ClosedOnlyForCause ==
    [][joins > 0 /\ config.keepOpen /\ opened # {} /\ opened' = {} =>
          stop \/ ended # "no"]_flowVars

(* A stop at any point of the flow ends it, with everything it had started   *)
(* closed again.                                                             *)
StopReleases == stop ~> stage = "done" /\ opened = {}

(* Whatever the site does, the flow comes to its end, or to a tab that it    *)
(* holds open for the user.                                                  *)
FlowComesToRest == <>(stage \in {"held", "done"})

-----------------------------------------------------------------------------
(* What SchedulerWorker knows of the flow is the ClassFlow that it           *)
(* implements when the worker has started it (a flow of the window counts    *)
(* as a ClassFlow that never goes on).                                       *)
FailureOf(cause) ==
    IF cause = "none" THEN "none"
    ELSE IF cause \in {"launch", "stopped", "site", "login", "adobe"} THEN "retryable"
    ELSE "permanent"

(* Cleaning up belongs to the place that the flow comes from.                *)
Place ==
    CASE stage = "done" -> IF raised = "none" THEN "finish" ELSE "handler"
      [] stage \in {"meeting", "held"} -> stage
      [] stage = "cleanup" -> IF ended # "no" THEN "meeting"
                              ELSE IF page = "none" THEN "flow" ELSE "held"
      [] OTHER -> "flow"

WorkerPlace == IF config.caller = "worker" THEN Place ELSE "flow"

Flow == INSTANCE ClassFlow WITH
    place <- WorkerPlace,
    failure <- IF WorkerPlace = "flow" THEN "none" ELSE FailureOf(raised),
    session <- WorkerPlace # "flow" /\ "playwright" \in opened

(* What ClassFlow promises to the worker, the whole flow keeps.              *)

ImplementsClassFlow == Flow!ClassFlowSpec

-----------------------------------------------------------------------------
(* The message of the timeout says that the class link did not become live   *)
(* in time: then no click can have opened the meeting.                       *)
TimeoutMeansNoEntry == raised = "entryTimeout" => joins = 0

(* README: without Adobe Connect on the machine the browser stays open.      *)
NotInstalledKeepsBrowser ==
    stage = "done" /\ raised = "adobe" /\ ~stop => "chrome" \in opened

(* MeetingEndMonitor polls the web chat of the meeting: the tab it is given  *)
(* is the meeting's.                                                         *)
MonitorsTheMeeting == stage = "meeting" => watched = "meeting"
=============================================================================
