---------------------------- MODULE PollingHooks ----------------------------
(***************************************************************************)
(* The timers behind every page: the shared intervals of lib/polling.ts and *)
(* the effects of lib/api/hooks.ts that poll with them.  An instance of a  *)
(* hook lives from the mount of its component to the unmount.              *)
(*                                                                         *)
(* Three disciplines occur.  "afterAnswer" (useHealth) starts the next     *)
(* timer when an answer has come; "fixed" (useAgents, useAgent,            *)
(* useMessages) starts it when the last one fires, answer or no answer;    *)
(* "interval" (useSchedulerStatus, useQuickStats) is a setInterval that    *)
(* does not read the shared intervals.                                     *)
(***************************************************************************)
EXTENDS Naturals

CONSTANTS
    Hooks,        \* instances of hooks
    Kind,         \* Kind[h]: the discipline of instance h
    Reloading,    \* the instances of useAgent, whose requests set `loading` again
    MaxChanges,   \* bound: calls of setPollingInterval
    MaxCalls      \* bound: requests of one instance that are under way

ASSUME PollingAssumption ==
    /\ Kind \in [Hooks -> {"afterAnswer", "fixed", "interval"}]
    /\ Reloading \subseteq Hooks
    /\ MaxChanges \in Nat
    /\ MaxCalls \in Nat \ {0}

VARIABLES
    life,      \* life[h]: "new", "active" or, after the cleanup, "gone"
    timeout,   \* timeout[h]: the timer that the effect's variable names is pending
    orphans,   \* orphans[h]: pending timers that no variable names any more
    calls,     \* calls[h]: requests under way
    view,      \* view[h]: the page's state: "loading", "data" or "error"
    changes    \* calls of setPollingInterval so far

pollingVars == <<life, timeout, orphans, calls, view, changes>>

PollingTypeOK ==
    /\ life \in [Hooks -> {"new", "active", "gone"}]
    /\ timeout \in [Hooks -> BOOLEAN]
    /\ orphans \in [Hooks -> Nat]
    /\ calls \in [Hooks -> 0..MaxCalls]
    /\ view \in [Hooks -> {"loading", "data", "error"}]
    /\ changes \in 0..MaxChanges

PollingInit ==
    /\ life = [h \in Hooks |-> "new"]
    /\ timeout = [h \in Hooks |-> FALSE]
    /\ orphans = [h \in Hooks |-> 0]
    /\ calls = [h \in Hooks |-> 0]
    /\ view = [h \in Hooks |-> "loading"]
    /\ changes = 0

\* `timeout = setTimeout(..)`: a timer the variable named before goes on
\* without it.
Displaced(h) == IF timeout[h] THEN 1 ELSE 0

\* fetch(): one more request, and the skeleton again where `loading` is set.
Fetch(h) ==
    /\ calls[h] < MaxCalls
    /\ calls' = [calls EXCEPT ![h] = @ + 1]
    /\ view' = [view EXCEPT ![h] = IF h \in Reloading THEN "loading" ELSE @]

\* The effect: subscribe, the first request, and the first timer unless the
\* answer is to start it.
Mount(h) ==
    /\ life[h] = "new"
    /\ life' = [life EXCEPT ![h] = "active"]
    /\ Fetch(h)
    /\ timeout' = [timeout EXCEPT ![h] = Kind[h] # "afterAnswer"]
    /\ UNCHANGED <<orphans, changes>>

\* The timer that `timeout` names fires: the request, and schedule() in the
\* same callback ("fixed"); an interval stays armed.
Fire(h) ==
    /\ timeout[h]
    /\ Fetch(h)
    /\ timeout' = [timeout EXCEPT ![h] = Kind[h] # "afterAnswer"]
    /\ UNCHANGED <<life, orphans, changes>>

\* Bug variant: schedule() does not look at `active`.
ReschedulesAlways(h) == h \in Hooks

\* schedule() gives up only when the effect has been cleaned up.
Reschedules(h) == life[h] = "active"

\* Another timer of a "fixed" hook fires: the request is made even after the
\* cleanup; while the effect lives, its successor displaces the timer that
\* `timeout` names, so that there are as many orphans as before.
FireOrphanFixed(h) ==
    /\ Kind[h] = "fixed"
    /\ orphans[h] > 0
    /\ Fetch(h)
    /\ IF Reschedules(h)
       THEN /\ orphans' = [orphans EXCEPT ![h] = @ - 1 + Displaced(h)]
            /\ timeout' = [timeout EXCEPT ![h] = TRUE]
       ELSE /\ orphans' = [orphans EXCEPT ![h] = @ - 1]
            /\ UNCHANGED timeout
    /\ UNCHANGED <<life, changes>>

\* The callback of useHealth is the request alone.
FireOrphanHealth(h) ==
    /\ Kind[h] = "afterAnswer"
    /\ orphans[h] > 0
    /\ Fetch(h)
    /\ orphans' = [orphans EXCEPT ![h] = @ - 1]
    /\ UNCHANGED <<life, timeout, changes>>

\* Bug variant: the next timer is started in `then`.
AnswerThenOnly(h, ok) ==
    /\ calls[h] > 0
    /\ calls' = [calls EXCEPT ![h] = @ - 1]
    /\ view' = [view EXCEPT ![h] = IF ok THEN "data" ELSE "error"]
    /\ IF Kind[h] = "afterAnswer" /\ Reschedules(h) /\ ok
       THEN /\ orphans' = [orphans EXCEPT ![h] = @ + Displaced(h)]
            /\ timeout' = [timeout EXCEPT ![h] = TRUE]
       ELSE UNCHANGED <<orphans, timeout>>
    /\ UNCHANGED <<life, changes>>

\* Bug variant: every hook starts a timer when an answer comes.
AnswerAlways(h, ok) ==
    /\ calls[h] > 0
    /\ calls' = [calls EXCEPT ![h] = @ - 1]
    /\ view' = [view EXCEPT ![h] = IF ok THEN "data" ELSE "error"]
    /\ IF Reschedules(h)
       THEN /\ orphans' = [orphans EXCEPT ![h] = @ + Displaced(h)]
            /\ timeout' = [timeout EXCEPT ![h] = TRUE]
       ELSE UNCHANGED <<orphans, timeout>>
    /\ UNCHANGED <<life, changes>>

\* Bug variant: an error leaves `loading` as it is.
AnswerErrorLoading(h, ok) ==
    /\ calls[h] > 0
    /\ calls' = [calls EXCEPT ![h] = @ - 1]
    /\ view' = [view EXCEPT ![h] = IF ok THEN "data" ELSE @]
    /\ IF Kind[h] = "afterAnswer" /\ Reschedules(h)
       THEN /\ orphans' = [orphans EXCEPT ![h] = @ + Displaced(h)]
            /\ timeout' = [timeout EXCEPT ![h] = TRUE]
       ELSE UNCHANGED <<orphans, timeout>>
    /\ UNCHANGED <<life, changes>>

\* then, catch and finally: the answer, good or bad, ends "loading"; useHealth
\* starts its next timer in `finally`, and does nothing once it is gone.
Answer(h, ok) ==
    /\ calls[h] > 0
    /\ calls' = [calls EXCEPT ![h] = @ - 1]
    /\ view' = [view EXCEPT ![h] =
                  IF Kind[h] = "afterAnswer" /\ life[h] # "active" THEN @
                  ELSE IF ok THEN "data" ELSE "error"]
    /\ IF Kind[h] = "afterAnswer" /\ Reschedules(h)
       THEN /\ orphans' = [orphans EXCEPT ![h] = @ + Displaced(h)]
            /\ timeout' = [timeout EXCEPT ![h] = TRUE]
       ELSE UNCHANGED <<orphans, timeout>>
    /\ UNCHANGED <<life, changes>>

\* The listeners of setPollingInterval: useHealth clears its timer before it
\* starts another, the "fixed" hooks subscribe schedule itself.
Listening(h) == life[h] = "active" /\ Kind[h] # "interval"

SetPollingInterval ==
    /\ changes < MaxChanges
    /\ changes' = changes + 1
    /\ orphans' = [h \in Hooks |->
                     IF Listening(h) /\ Kind[h] = "fixed"
                     THEN orphans[h] + Displaced(h) ELSE orphans[h]]
    /\ timeout' = [h \in Hooks |-> Listening(h) \/ timeout[h]]
    /\ UNCHANGED <<life, calls, view>>

\* The cleanup clears the one timer that `timeout` names (or the interval).
Unmount(h) ==
    /\ life[h] = "active"
    /\ life' = [life EXCEPT ![h] = "gone"]
    /\ timeout' = [timeout EXCEPT ![h] = FALSE]
    /\ UNCHANGED <<orphans, calls, view, changes>>

PollingNext ==
    \/ SetPollingInterval
    \/ \E h \in Hooks :
          \/ Mount(h)
          \/ Fire(h)
          \/ FireOrphanFixed(h)
          \/ FireOrphanHealth(h)
          \/ \E ok \in BOOLEAN : Answer(h, ok)
          \/ Unmount(h)

PollingSpec == PollingInit /\ [][PollingNext]_pollingVars

-----------------------------------------------------------------------------
\* Timers and, for the discipline that waits for answers, requests that will
\* start a timer: each of them goes on polling by itself.
Chains(h) ==
    (IF timeout[h] THEN 1 ELSE 0) + orphans[h]
        + (IF Kind[h] = "afterAnswer" THEN calls[h] ELSE 0)

\* A mounted hook never stops polling, whatever answers come or fail to come
\* in time and however the intervals change meanwhile (schedule in `finally`
\* and in the timer's callback).
KeepsPolling == \A h \in Hooks : life[h] = "active" => Chains(h) > 0

\* Requests do not multiply by themselves: only a change of the intervals can
\* add a chain of timers, and a "fixed" hook, which does not clear its timer,
\* gains one with every change.
ChainsBounded ==
    \A h \in Hooks :
        /\ Chains(h) <= 1 + changes
        /\ Kind[h] = "interval" => Chains(h) <= 1

\* A page shows its skeleton only while a request that will replace it is
\* under way: no answer, error or cleanup leaves it loading for ever.
LoadingMeansAsked ==
    \A h \in Hooks :
        (life[h] = "active" /\ view[h] = "loading") => calls[h] > 0

\* A page that was left starts nothing any more: the timers that nobody could
\* clear fire once more at most, each with one last request.
QuietAfterUnmount ==
    [][\A h \in Hooks :
          life[h] = "gone" => /\ life'[h] = "gone" /\ ~timeout'[h]
                              /\ orphans'[h] <= orphans[h]
                              /\ orphans'[h] + calls'[h] <= orphans[h] + calls[h]]_pollingVars

=============================================================================
