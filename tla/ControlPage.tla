----------------------------- MODULE ControlPage -----------------------------
(***************************************************************************)
(* app/control/page.tsx with useSchedulerStatus, which asks every 5 s, and *)
(* useControlActions, whose three requests share one `loading`.            *)
(***************************************************************************)
EXTENDS ApiClient, MockServer

CONSTANTS
    MaxActions   \* bound: buttons pressed

ASSUME ControlPageAssumption == MaxActions \in Nat

VARIABLES
    statuses,      \* `statuses`: is the agent active
    statusView,    \* its `loading` and `error`: "loading", "data" or "error"
    actionLoading, \* `loading` of useControlActions
    action,        \* the request of a button, under way
    asks,          \* GET requests under way
    pressed        \* buttons pressed so far

controlPageVars == <<statuses, statusView, actionLoading, action, asks, pressed>>

NoAction == [what |-> "none", agent |-> 0]

\* Two GET /control/status requests may be under way: one of the interval, and
\* one that a button made.
Asks == {"interval", "button"}

ControlPageTypeOK ==
    /\ statuses \in Seq(BOOLEAN)
    /\ statusView \in {"loading", "data", "error"}
    /\ actionLoading \in BOOLEAN
    /\ action \in {NoAction} \cup
                  [what : {"tick", "pause", "resume"}, agent : DOMAIN agents \cup {0}]
    /\ asks \subseteq Asks
    /\ pressed \in 0..MaxActions

ControlPageInit ==
    /\ statuses = <<>> /\ statusView = "loading"
    /\ actionLoading = FALSE /\ action = NoAction
    /\ asks = {"interval"}
    /\ pressed = 0

-----------------------------------------------------------------------------
(* The table.                                                              *)

AskStatus(k) == asks' = asks \cup {k}

\* The interval; the button "Refresh".
Refresh(k) ==
    /\ k \notin asks
    /\ k = "button" => action = NoAction
    /\ AskStatus(k)
    /\ UNCHANGED <<agents, statuses, statusView, actionLoading, action,
                   pressed, clientVars>>

UnchangedByTable == UNCHANGED <<agents, actionLoading, action, pressed>>

MockStatus(k) ==
    /\ MockAnswers /\ k \in asks
    /\ statuses' = Statuses
    /\ statusView' = "data"
    /\ asks' = asks \ {k}
    /\ UnchangedByTable /\ UNCHANGED clientVars

StatusFails(k) ==
    /\ k \in asks
    /\ RequestThrows
    /\ asks' = asks \ {k}
    /\ statusView' = "error"
    /\ UNCHANGED statuses
    /\ UnchangedByTable

-----------------------------------------------------------------------------
(* The buttons.                                                            *)

Press(what, i) ==
    /\ ~actionLoading /\ pressed < MaxActions
    /\ "button" \notin asks
    /\ actionLoading' = TRUE
    /\ action' = [what |-> what, agent |-> i]
    /\ pressed' = pressed + 1
    /\ UNCHANGED <<agents, statuses, statusView, asks, clientVars>>

PauseAll == Press("pause", 0)
ResumeAll == Press("resume", 0)

\* The button of a row, which is there for an agent that is shown active.
Tick(i) ==
    /\ statusView = "data" /\ i \in DOMAIN statuses /\ statuses[i]
    /\ Press("tick", i)

\* What the request does to the agents of the mock; a tick does nothing.
Perform ==
    agents' = CASE action.what = "pause" -> SetAllActive(FALSE)
                [] action.what = "resume" -> SetAllActive(TRUE)
                [] OTHER -> agents

\* Bug variant: no `finally`.
FinishIfOk(ok) ==
    /\ actionLoading' = ~ok
    /\ action' = NoAction
    /\ IF ok \/ action.what = "tick" THEN AskStatus("button") ELSE UNCHANGED asks
    /\ UNCHANGED <<statuses, statusView, pressed>>

\* `finally`, and the handler after `await`: pause and resume refresh the
\* table if they succeeded, tick in any case.
Finish(ok) ==
    /\ actionLoading' = FALSE
    /\ action' = NoAction
    /\ IF ok \/ action.what = "tick" THEN AskStatus("button") ELSE UNCHANGED asks
    /\ UNCHANGED <<statuses, statusView, pressed>>

MockActs ==
    /\ MockAnswers /\ action # NoAction
    /\ Perform
    /\ Finish(TRUE)
    /\ UNCHANGED clientVars

ActionFails ==
    /\ action # NoAction
    /\ RequestThrows
    /\ Finish(FALSE)
    /\ UNCHANGED agents

ControlPageNext ==
    \/ PauseAll
    \/ ResumeAll
    \/ \E i \in DOMAIN agents : Tick(i)
    \/ MockActs
    \/ ActionFails
    \/ \E k \in Asks : Refresh(k) \/ MockStatus(k) \/ StatusFails(k)

-----------------------------------------------------------------------------
\* The buttons, which one request disables for all agents, come back after an
\* answer, a refusal and an error.
ButtonsComeBack == actionLoading ~> ~actionLoading

=============================================================================
