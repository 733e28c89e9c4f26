--------------------------- MODULE TaskLifecycle ---------------------------
(***************************************************************************)
(* What the task queue promises, without processes, agents or signals: the *)
(* tasks of an investigation appear all at once, a task is taken once and  *)
(* settled after it was taken, and a settled task keeps its outcome.  With *)
(* AckLoss, a completed task may still be overturned by the failure        *)
(* handler of the runtime.                                                 *)
(***************************************************************************)
CONSTANTS Tasks, AckLoss

VARIABLE status

Init == status = [t \in Tasks |-> "none"]

Release(S) ==
    /\ S # {}
    /\ \A t \in S : status[t] = "none"
    /\ status' = [t \in Tasks |-> IF t \in S THEN "pending" ELSE status[t]]

Take(t) ==
    /\ status[t] = "pending"
    /\ status' = [status EXCEPT ![t] = "running"]

Settle(t) ==
    /\ status[t] = "running"
    /\ \E outcome \in {"complete", "failed"} : status' = [status EXCEPT ![t] = outcome]

Overturn(t) ==
    /\ AckLoss
    /\ status[t] = "complete"
    /\ status' = [status EXCEPT ![t] = "failed"]

Next ==
    \/ \E S \in SUBSET Tasks : Release(S)
    \/ \E t \in Tasks : Take(t) \/ Settle(t) \/ Overturn(t)

Spec == Init /\ [][Next]_status
=============================================================================
