------------------------------ MODULE ClassFlow ------------------------------
(***************************************************************************)
(* What the worker relies on in the flow of one job: a flow that fails has  *)
(* said how, a tab that was opened is held until the user closes it, and a  *)
(* Playwright session ends only with a meeting that was seen to end.        *)
(***************************************************************************)
VARIABLES
    place,      \* "flow", "meeting", "held", or where the worker goes on
    failure,    \* "none", or whether a new attempt makes sense
    session     \* is there a Playwright session that is not stopped?

classFlowVars == <<place, failure, session>>

ClassFlowInit == place = "flow" /\ failure = "none" /\ session = FALSE

Refused ==
    /\ place = "flow" /\ place' = "handler"
    /\ failure' = "permanent"
    /\ UNCHANGED session

LaunchFailed ==
    /\ place = "flow" /\ place' = "handler"
    /\ failure' = "retryable"
    /\ session' \in BOOLEAN

FailedWithTab ==
    /\ place = "flow" /\ place' = "held"
    /\ failure' \in {"retryable", "permanent"}
    /\ session' = TRUE

ClassJoined ==
    /\ place = "flow" /\ place' \in {"meeting", "held"}
    /\ session' = TRUE
    /\ UNCHANGED failure

MeetingEnded ==
    /\ place = "meeting" /\ place' = "finish"
    /\ session' = FALSE
    /\ UNCHANGED failure

MonitorEnded ==
    /\ place = "meeting" /\ place' = "held"
    /\ UNCHANGED <<failure, session>>

TabClosed ==
    /\ place = "held" /\ place' = IF failure = "none" THEN "finish" ELSE "handler"
    /\ UNCHANGED <<failure, session>>

ClassFlowNext ==
    \/ Refused \/ LaunchFailed \/ FailedWithTab \/ ClassJoined
    \/ MeetingEnded \/ MonitorEnded \/ TabClosed

ClassFlowSpec == ClassFlowInit /\ [][ClassFlowNext]_classFlowVars
=============================================================================
