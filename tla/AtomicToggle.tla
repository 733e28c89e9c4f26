---------------------------- MODULE AtomicToggle ----------------------------
(***************************************************************************)
(* What a toggle endpoint promises: a request flips its mark and says what *)
(* it is now, or it reports an error.  With AckLoss, a request that        *)
(* reports an error may have flipped the mark.                             *)
(***************************************************************************)
CONSTANTS Requests, Marks, Target, AckLoss

VARIABLES table, answer

Flip(k) == IF k \in table THEN table \ {k} ELSE table \cup {k}

Init ==
    /\ table \in SUBSET Marks
    /\ answer = [r \in Requests |-> "none"]

Toggle(r) ==
    /\ answer[r] = "none"
    /\ table' = Flip(Target[r])
    /\ answer' = [answer EXCEPT ![r] = IF Target[r] \in table' THEN "on" ELSE "off"]

Fail(r) ==
    /\ answer[r] = "none"
    /\ table' = table \/ (AckLoss /\ table' = Flip(Target[r]))
    /\ answer' = [answer EXCEPT ![r] = "error"]

Next == \E r \in Requests : Toggle(r) \/ Fail(r)

Spec == Init /\ [][Next]_<<table, answer>>
=============================================================================
