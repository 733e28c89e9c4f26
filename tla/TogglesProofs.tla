---------------------------- MODULE TogglesProofs ----------------------------
(***************************************************************************)
(* Toggles that overlap are atomic, for every number of requests.          *)
(***************************************************************************)
EXTENDS Toggles, TLAPS

\* A write that is not committed still applies to the table, and a request is
\* done exactly when it is answered.
WritesApply ==
    \A r \in Requests :
        /\ tx[r].wrote = "deleted" => Target[r] \in table
        /\ tx[r].wrote = "inserted" => Target[r] \in Known \ table
        /\ tx[r].pc = "commit" <=> tx[r].wrote # "nothing"
        /\ tx[r].pc = "done" <=> answer[r] # "none"

\* One transaction at a time has written a mark: the row lock, or the primary
\* key while the row is new.
OneWriter ==
    \A r, q \in Requests :
        r # q /\ Target[r] = Target[q] => tx[r].wrote = "nothing" \/ tx[q].wrote = "nothing"

ToggleInv == TypeOK /\ WritesApply /\ OneWriter

USE TogglesAssumption
USE DEF ToggleInv, TypeOK, WritesApply, OneWriter, At, Step, Answer, Pending

\* Nothing is locked at first.
LEMMA InitInv == Init => ToggleInv
  BY DEF Init, Idle

\* Every step keeps the locks and what they protect.
LEMMA NextInv == ToggleInv /\ [Next]_vars => ToggleInv'
<1> SUFFICES ASSUME ToggleInv, [Next]_vars PROVE ToggleInv'
  OBVIOUS
<1>1. CASE UNCHANGED vars
  BY <1>1 DEF vars
<1>2. ASSUME NEW r \in Requests, Begin(r) PROVE ToggleInv'
  BY <1>2 DEF Begin
<1>3. ASSUME NEW r \in Requests, Delete(r) PROVE ToggleInv'
  <2>1. CASE Target[r] \in table
    <3>1. tx' = [tx EXCEPT ![r] = [pc |-> "commit", wrote |-> "deleted"]] /\ UNCHANGED <<table, answer>>
      BY <1>3, <2>1 DEF Delete
    <3>2. TypeOK'
      BY <3>1
    <3>3. WritesApply'
      BY <3>1, <1>3, <2>1 DEF Delete
    <3>4. OneWriter'
      BY <1>3, <2>1 DEF Delete
    <3> QED BY <3>2, <3>3, <3>4
  <2>2. CASE Target[r] \notin table
    <3>1. tx' = [tx EXCEPT ![r] = [pc |-> "insert", wrote |-> "nothing"]] /\ UNCHANGED <<table, answer>>
      BY <1>3, <2>2 DEF Delete
    <3>2. TypeOK'
      BY <3>1
    <3>3. WritesApply'
      BY <3>1, <1>3, <2>2 DEF Delete
    <3>4. OneWriter'
      BY <1>3, <2>2 DEF Delete
    <3> QED BY <3>2, <3>3, <3>4
  <2> QED BY <2>1, <2>2
<1>4. ASSUME NEW r \in Requests, Insert(r) PROVE ToggleInv'
  <2>1. CASE Target[r] \in Known \ table
    <3>1. TypeOK' /\ WritesApply'
      BY <1>4, <2>1 DEF Insert
    <3>2. OneWriter'
      BY <1>4, <2>1 DEF Insert
    <3> QED BY <3>1, <3>2
  <2>2. CASE Target[r] \notin Known \ table
    <3>1. tx' = [tx EXCEPT ![r] = [pc |-> "done", wrote |-> "nothing"]]
              /\ answer' = [answer EXCEPT ![r] = "error"] /\ UNCHANGED table
      BY <1>4, <2>2 DEF Insert
    <3>2. TypeOK'
      BY <3>1
    <3>3. WritesApply'
      BY <3>1, <1>4, <2>2 DEF Insert
    <3>4. OneWriter'
      BY <1>4, <2>2 DEF Insert
    <3> QED BY <3>2, <3>3, <3>4
  <2> QED BY <2>1, <2>2
<1>5. ASSUME NEW r \in Requests, Commit(r) PROVE ToggleInv'
  BY <1>5 DEF Commit, Write
<1>6. ASSUME NEW r \in Requests, CommitAckLost(r) PROVE ToggleInv'
  BY <1>6 DEF CommitAckLost, Write
<1>7. ASSUME NEW r \in Requests, Rollback(r) PROVE ToggleInv'
  BY <1>7 DEF Rollback
<1> QED BY <1>1, <1>2, <1>3, <1>4, <1>5, <1>6, <1>7 DEF Next

\* Every reachable state is well typed; a write that is not committed yet is
\* the only one of its mark (the row lock), and the row is as the transaction
\* found it, so that its commit does what its answer says.
THEOREM TogglesTypeCorrect == Spec => [](TypeOK /\ WritesApply /\ OneWriter)
<1>1. ToggleInv <=> TypeOK /\ WritesApply /\ OneWriter
  BY DEF ToggleInv
<1>2. Spec => []ToggleInv
  BY InitInv, NextInv, PTL DEF Spec
<1> QED BY <1>1, <1>2, PTL

USE DEF Abstract!Init, Abstract!Next, Abstract!Toggle, Abstract!Fail, Abstract!Flip

\* The commit of a request is where its mark flips; nothing else is visible.
LEMMA StepRefines ==
    ToggleInv /\ [Next]_vars => [Abstract!Next]_<<table, answer>>
<1> SUFFICES ASSUME ToggleInv, [Next]_vars PROVE [Abstract!Next]_<<table, answer>>
  OBVIOUS
<1>1. CASE UNCHANGED vars
  BY <1>1 DEF vars
<1>2. ASSUME NEW r \in Requests, Begin(r) \/ Delete(r) PROVE UNCHANGED <<table, answer>>
  BY <1>2 DEF Begin, Delete
<1>3. ASSUME NEW r \in Requests, Insert(r) PROVE UNCHANGED <<table, answer>> \/ Abstract!Fail(r)
  BY <1>3 DEF Insert
<1>4. ASSUME NEW r \in Requests, Commit(r) PROVE Abstract!Toggle(r)
  <2>1. answer[r] = "none" /\ tx[r].wrote \in {"deleted", "inserted"}
    BY <1>4 DEF Commit
  <2>2. table' = Abstract!Flip(Target[r])
    BY <1>4, <2>1 DEF Commit, Write
  <2>3. Target[r] \in table' <=> tx[r].wrote = "inserted"
    BY <1>4, <2>1 DEF Commit, Write
  <2> QED BY <1>4, <2>1, <2>2, <2>3 DEF Commit
<1>5. ASSUME NEW r \in Requests, CommitAckLost(r) PROVE Abstract!Fail(r)
  <2>1. answer[r] = "none" /\ tx[r].wrote \in {"deleted", "inserted"}
    BY <1>5 DEF CommitAckLost
  <2>2. table' = Abstract!Flip(Target[r])
    BY <1>5, <2>1 DEF CommitAckLost, Write
  <2> QED BY <1>5, <2>1, <2>2 DEF CommitAckLost
<1>6. ASSUME NEW r \in Requests, Rollback(r) PROVE Abstract!Fail(r)
  BY <1>6 DEF Rollback
<1> QED BY <1>1, <1>2, <1>3, <1>4, <1>5, <1>6 DEF Next

\* However many requests overlap, and whichever of them fail, the table and
\* the answers are those of toggles that took effect one after the other.
THEOREM TogglesAtomic == Spec => IsAtomic
<1>1. Init => Abstract!Init
  BY DEF Init
<1>2. Spec => []ToggleInv
  BY InitInv, NextInv, PTL DEF Spec
<1> QED BY <1>1, <1>2, StepRefines, PTL DEF Spec, IsAtomic, Abstract!Spec
=============================================================================
