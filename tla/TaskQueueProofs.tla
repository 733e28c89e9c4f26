--------------------------- MODULE TaskQueueProofs ---------------------------
(***************************************************************************)
(* Who holds a task, and the refinement of the abstract queue, for every   *)
(* number of runtimes, agents and tasks.  As far as the status of tasks    *)
(* and their holders are concerned, every step is of one of five kinds:    *)
(* two lemmas classify the steps, the rest never looks at an action again. *)
(***************************************************************************)
EXTENDS InvestigationsTypes

USE DEF AgentIds, Nil, SignalIds, At, Become, Goto, Fault, Abort, OrchRecord, HandlingTask, HandlingInv

\* OneHolder is not inductive.  That a committing transaction cannot touch a
\* held task follows from Unreleased, and which status a settling runtime
\* overwrites from Holding.
Unreleased ==
    \A t \in TaskIds : task[t].status # "none" => tx[t[1]].pc = "committed"

Holding ==
    \A p \in Orchs :
        orch[p].job # Null =>
            /\ \/ task[orch[p].job].status = "running"
               \/ /\ orch[p].pc = "recover" /\ "ack" \in FaultKinds
                  /\ task[orch[p].job].status \in {"complete", "failed"}
            /\ \A q \in Orchs \ {p} : orch[q].job # orch[p].job

QueueInv == TypeOK /\ Unreleased /\ Holding

-----------------------------------------------------------------------------
(* The kinds of steps.                                                     *)

Put(S, status) ==
    \A t \in TaskIds : task'[t].status = IF t \in S THEN status ELSE task[t].status

\* q lets its task go or keeps it, and does not leave "recover" with it.
Keeps(q) ==
    \/ orch'[q].job = Null
    \/ /\ orch'[q].job = orch[q].job
       /\ orch[q].pc = "recover" => orch'[q].pc = "recover"

Quiet ==
    /\ Put({}, "none")
    /\ \A i \in Invs : tx[i].pc = "committed" => tx'[i].pc = "committed"
    /\ \A q \in Orchs : Keeps(q)

Releases ==
    \E i \in Invs, S \in SUBSET TaskIds :
        /\ \A t \in S : t[1] = i
        /\ tx[i].pc # "committed" /\ Put(S, "pending")
        /\ \A j \in Invs : tx'[j].pc = IF j = i THEN "committed" ELSE tx[j].pc
        /\ UNCHANGED orch

Takes(p) ==
    \E t \in TaskIds :
        /\ task[t].status = "pending" /\ Put({t}, "running")
        /\ orch'[p].job = Null \/ orch'[p].job = t
        /\ \A q \in Orchs \ {p} : Keeps(q)
        /\ UNCHANGED tx

Settles(p) ==
    /\ orch[p].pc = "settle"
    /\ \E outcome \in {"complete", "failed"} : Put({orch[p].job}, outcome)
    /\ \/ orch'[p].job = Null
       \/ orch'[p].job = orch[p].job /\ orch'[p].pc = "recover" /\ "ack" \in FaultKinds
    /\ \A q \in Orchs \ {p} : Keeps(q)
    /\ UNCHANGED tx

Fails(p) ==
    /\ orch[p].pc = "recover"
    /\ Put({orch[p].job}, "failed")
    /\ orch'[p].job = Null
    /\ \A q \in Orchs \ {p} : Keeps(q)
    /\ UNCHANGED tx

LEMMA PutTask ==
    ASSUME StoreTypeOK, NEW t \in TaskIds, NEW status, NEW result, SetTask(t, status, result)
    PROVE  Put({t}, status)
BY DEF StoreTypeOK, SetTask, Put, TaskRow

LEMMA ApiKinds ==
    ASSUME TypeOK, ApiNext, UNCHANGED runtimeVars
    PROVE  Quiet \/ Releases
<1> USE DEF TypeOK, runtimeVars, tables, network, apiVars
<1>1. CASE \E i \in Invs : CommitCreate(i)
    <2>1. PICK i \in Invs : CommitCreate(i)
        BY <1>1
    <2> DEFINE S == {t \in TaskIds : t[1] = i /\ t[2] \in DOMAIN tx[i].rows}
    <2>2. Put(S, "pending")
        BY <2>1 DEF CommitCreate, Put
    <2>3. \A j \in Invs : tx'[j].pc = IF j = i THEN "committed" ELSE tx[j].pc
        BY <2>1 DEF CommitCreate, ApiTypeOK
    <2>4. tx[i].pc # "committed"
        BY <2>1 DEF CommitCreate
    <2> HIDE DEF S
    <2>5. S \in SUBSET TaskIds /\ \A t \in S : t[1] = i
        BY DEF S
    <2> QED
        BY <2>2, <2>3, <2>4, <2>5 DEF Releases
<1>2. CASE UNCHANGED task /\ \A i \in Invs : tx[i].pc = "committed" => tx'[i].pc = "committed"
    BY <1>2 DEF Quiet, Put, Keeps
<1>3. \/ \E i \in Invs : CommitCreate(i)
      \/ UNCHANGED task /\ \A i \in Invs : tx[i].pc = "committed" => tx'[i].pc = "committed"
    <2>1. CASE \E i \in Invs : \/ \E request \in Requests : BeginCreate(i, request)
                               \/ \E a \in AgentIds : InsertTask(i, a)
                               \/ RollbackCreate(i)
        BY <2>1 DEF BeginCreate, InsertTask, RollbackCreate, ApiTypeOK
    <2>2. CASE UNCHANGED <<task, tx>>
        BY <2>2
    <2> QED
        BY <2>1, <2>2 DEF ApiNext, CreateAgent, UpdateAgent, SetAllActive, ControlTick,
            TriggerCheck, TriggerWrite, CreateMessage, RespondToMessage, AcceptPost,
            RefusePost, OperatorSignal, OperatorSeed
<1> QED
    BY <1>1, <1>2, <1>3

\* p is the only process that steps, and holds this job afterwards.
JobAfter(p, job) ==
    /\ orch'[p].job = job
    /\ \A q \in Orchs \ {p} : orch'[q] = orch[q]

LEMMA FreshJob ==
    ASSUME orch \in [Orchs -> OrchRecord], NEW p \in Orchs, NEW pc, Become(p, Fresh(pc))
    PROVE  JobAfter(p, Null)
BY DEF Fresh, JobAfter

LEMMA NextTypeJob ==
    ASSUME orch \in [Orchs -> OrchRecord], NEW p \in Orchs, NextType(p)
    PROVE  JobAfter(p, Null)
BY DEF NextType, JobAfter

\* The steps that leave the task table alone.
LEMMA IdleKeeps ==
    ASSUME TypeOK, NEW p \in Orchs, Progress(p) \/ Failure(p), UNCHANGED task,
           ~ \E q \in Orchs, l \in TaskIds : ClaimSkipsLocked(p, q, l),
           ~ \E t \in TaskIds : ClaimTask(p, t) \/ ClaimAckLost(p, t)
    PROVE  \A q \in Orchs : Keeps(q)
<1>0. orch \in [Orchs -> OrchRecord]
    BY DEF TypeOK, RuntimeTypeOK, OrchState
<1>1. CASE \E pc \in {"idle", "down"} : Become(p, Fresh(pc))
    <2>1. JobAfter(p, Null)
        BY <1>0, <1>1, FreshJob
    <2> QED
        BY <2>1 DEF JobAfter, Keeps
<1>2. CASE \E pc \in {"idle", "mark", "await", "finish", "settle"} :
             Goto(p, pc) /\ orch[p].pc # "recover"
    BY <1>0, <1>2 DEF Keeps
<1>3. CASE \/ Poll(p) \/ NextSignal(p) \/ Mark(p) \/ ClaimNone(p) \/ ReceiveReply(p)
           \/ CheckActive(p) \/ CountOpen(p) \/ Gather(p) \/ Finish(p)
           \/ ConsensusRaises(p) \/ SettleRaises(p)
    <2>1. orch[p].pc # "recover"
        BY <1>3 DEF Poll, NextSignal, Mark, ClaimNone, ReceiveReply, CheckActive, CountOpen,
            Gather, Finish, ConsensusRaises, SettleRaises
    <2>2. JobAfter(p, orch[p].job)
        <3> USE DEF JobAfter
        <3>1. CASE Poll(p)
            BY <1>0, <3>1 DEF Poll
        <3>2. CASE Mark(p)
            BY <1>0, <3>2 DEF Mark
        <3>3. CASE ClaimNone(p)
            BY <1>0, <3>3 DEF ClaimNone
        <3>4. CASE CheckActive(p)
            BY <1>0, <3>4 DEF CheckActive
        <3>5. CASE Gather(p)
            BY <1>0, <3>5 DEF Gather, NextInv
        <3>6. CASE Finish(p)
            BY <1>0, <3>6 DEF Finish, NextInv
        <3>7. CASE ConsensusRaises(p)
            BY <1>0, <3>7 DEF ConsensusRaises, NextInv
        <3>8. CASE SettleRaises(p)
            BY <1>0, <3>8 DEF SettleRaises
        <3>9. CASE NextSignal(p)
            BY <1>0, <3>9 DEF NextSignal
        <3>10. CASE ReceiveReply(p)
            BY <1>0, <3>10 DEF ReceiveReply
        <3>11. CASE CountOpen(p)
            <4>1. PICK i \in orch[p].agenda :
                    \/ Become(p, [orch[p] EXCEPT !.pc = "gather", !.agenda = @ \ {i}, !.inv = i])
                    \/ Become(p, [orch[p] EXCEPT !.agenda = @ \ {i}])
                BY <3>11 DEF CountOpen
            <4> QED
                BY <1>0, <4>1
        <3> QED
            BY <1>3, <3>1, <3>2, <3>3, <3>4, <3>5, <3>6, <3>7, <3>8, <3>9, <3>10, <3>11
    <2> QED
        BY <2>1, <2>2 DEF JobAfter, Keeps
<1>4. CASE Settle(p) \/ Recover(p)
    <2>1. JobAfter(p, Null)
        BY <1>0, <1>4, NextTypeJob DEF Settle, Recover
    <2> QED
        BY <2>1 DEF JobAfter, Keeps
<1> QED
    BY <1>1, <1>2, <1>3, <1>4 DEF Progress, Failure, Start, EndTick, EndAgentTick, BuildFails,
        SendPost, EndConsensusCheck, StoreReport, MarkAckLost, ResearchFails, PostTimesOut,
        RecoverRaises, StatementRaises, Crash

LEMMA RuntimeKinds ==
    ASSUME TypeOK, NEW p \in Orchs, Progress(p) \/ Failure(p), UNCHANGED apiVars
    PROVE  Quiet \/ Takes(p) \/ Settles(p) \/ Fails(p)
<1> USE DEF TypeOK, tables, network, apiVars
<1>0. /\ orch \in [Orchs -> OrchRecord] /\ orch[p] \in OrchState
      /\ orch[p].job \in TaskIds \cup {Null}
    BY DEF RuntimeTypeOK, OrchState
<1>1. ASSUME NEW t \in TaskIds, ClaimTask(p, t) \/ ClaimAckLost(p, t) PROVE Takes(p)
    <2>1. task[t].status = "pending" /\ SetTask(t, "running", task[t].result)
        BY <1>1 DEF ClaimTask, ClaimAckLost, Claim, Oldest, Candidates, Claimable
    <2>2. Put({t}, "running")
        BY <2>1, PutTask
    <2>3. JobAfter(p, Null) \/ JobAfter(p, t)
        <3>1. CASE ClaimTask(p, t)
            BY <1>0, <3>1 DEF ClaimTask, JobAfter
        <3>2. CASE ClaimAckLost(p, t)
            BY <1>0, <3>2, FreshJob DEF ClaimAckLost
        <3> QED
            BY <1>1, <3>1, <3>2
    <2> QED
        BY <1>1, <2>1, <2>2, <2>3 DEF Takes, JobAfter, Keeps
<1>2. ASSUME NEW q \in Orchs, NEW l \in TaskIds, ClaimSkipsLocked(p, q, l)
      PROVE  Quiet \/ Takes(p)
    <2>1. PICK pc : LET o == orch[p] IN
            \/ /\ orch' = [orch EXCEPT ![p] = [o EXCEPT !.todo = @ + 1], ![q] = Fresh(pc)]
               /\ UNCHANGED task
            \/ \E t \in TaskIds :
                 /\ task[t].status = "pending" /\ SetTask(t, "running", task[t].result)
                 /\ orch' = [orch EXCEPT ![p] = [o EXCEPT !.pc = "run", !.job = t],
                                         ![q] = Fresh(pc)]
        BY <1>2 DEF ClaimSkipsLocked, Oldest, Candidates, Claimable
    <2>2. p # q /\ orch[p].pc # "recover"
        BY <1>2 DEF ClaimSkipsLocked
    <2>3. ASSUME NEW r, orch' = [orch EXCEPT ![p] = r, ![q] = Fresh(pc)]
          PROVE  orch'[p] = r /\ \A s \in Orchs \ {p} : Keeps(s)
        BY <2>2, <2>3, <1>0 DEF Fresh, Keeps
    <2>4. CASE /\ UNCHANGED task
               /\ orch' = [orch EXCEPT ![p] = [orch[p] EXCEPT !.todo = @ + 1], ![q] = Fresh(pc)]
        <3>1. [orch[p] EXCEPT !.todo = @ + 1].job = orch[p].job
            BY <1>0 DEF OrchState
        <3>2. Keeps(p)
            BY <2>2, <2>3, <2>4, <3>1 DEF Keeps
        <3> QED
            BY <2>3, <2>4, <3>2 DEF Quiet, Put
    <2>5. ASSUME NEW t \in TaskIds, task[t].status = "pending",
                 SetTask(t, "running", task[t].result),
                 orch' = [orch EXCEPT ![p] = [orch[p] EXCEPT !.pc = "run", !.job = t],
                                      ![q] = Fresh(pc)]
          PROVE  Takes(p)
        <3>1. [orch[p] EXCEPT !.pc = "run", !.job = t].job = t
            BY <1>0 DEF OrchState
        <3>2. Put({t}, "running")
            BY <2>5, PutTask
        <3> QED
            BY <2>3, <2>5, <3>1, <3>2 DEF Takes
    <2> QED
        BY <2>1, <2>4, <2>5
<1>3. CASE WriteOutcome(p) /\ (Settle(p) \/ (Fault("ack") /\ SettleRaises(p)))
    <2>1. orch[p].pc = "settle" /\ orch[p].job \in TaskIds
        BY <1>0, <1>3 DEF Settle, SettleRaises, OrchState
    <2>2. \E outcome \in {"complete", "failed"} : Put({orch[p].job}, outcome)
        BY <1>3, <2>1, PutTask DEF WriteOutcome
    <2>3. \/ JobAfter(p, Null)
          \/ JobAfter(p, orch[p].job) /\ orch'[p].pc = "recover" /\ "ack" \in FaultKinds
        <3>1. CASE Settle(p)
            BY <1>0, <3>1, NextTypeJob DEF Settle
        <3>2. CASE Fault("ack") /\ SettleRaises(p)
            BY <1>0, <3>2 DEF SettleRaises, JobAfter
        <3> QED
            BY <1>3, <3>1, <3>2
    <2> QED
        BY <1>3, <2>1, <2>2, <2>3 DEF Settles, JobAfter, Keeps
<1>4. CASE SetTask(orch[p].job, "failed", Null) /\ (Recover(p) \/ RecoverRaises(p))
    <2>1. orch[p].pc = "recover" /\ orch[p].job \in TaskIds
        BY <1>0, <1>4 DEF Recover, RecoverRaises, OrchState
    <2>2. Put({orch[p].job}, "failed")
        BY <1>4, <2>1, PutTask
    <2>3. JobAfter(p, Null)
        BY <1>0, <1>4, FreshJob, NextTypeJob DEF Recover, RecoverRaises
    <2> QED
        BY <1>4, <2>1, <2>2, <2>3 DEF Fails, JobAfter, Keeps
<1>5. CASE /\ UNCHANGED task
           /\ ~ \E q \in Orchs, l \in TaskIds : ClaimSkipsLocked(p, q, l)
           /\ ~ \E t \in TaskIds : ClaimTask(p, t) \/ ClaimAckLost(p, t)
    BY <1>5, IdleKeeps DEF Quiet, Put
<1>6. \/ UNCHANGED task
      \/ \E t \in TaskIds : ClaimTask(p, t) \/ ClaimAckLost(p, t)
      \/ \E q \in Orchs, l \in TaskIds : ClaimSkipsLocked(p, q, l)
      \/ WriteOutcome(p) /\ (Settle(p) \/ (Fault("ack") /\ SettleRaises(p)))
      \/ SetTask(orch[p].job, "failed", Null) /\ (Recover(p) \/ RecoverRaises(p))
    <2>1. CASE Progress(p)
        <3>1. CASE \/ Start(p) \/ Poll(p) \/ NextSignal(p) \/ EndTick(p) \/ Mark(p) \/ ClaimNone(p)
                   \/ EndAgentTick(p) \/ BuildFails(p) \/ SendPost(p)
            BY <3>1 DEF Start, Poll, NextSignal, EndTick, Mark, ClaimNone, EndAgentTick,
                BuildFails, SendPost
        <3>2. CASE \/ ReceiveReply(p) \/ CheckActive(p) \/ CountOpen(p) \/ EndConsensusCheck(p)
                   \/ Gather(p) \/ StoreReport(p) \/ Finish(p)
            BY <3>2 DEF ReceiveReply, CheckActive, CountOpen, EndConsensusCheck, Gather,
                StoreReport, Finish
        <3>3. CASE Settle(p) \/ Recover(p)
            BY <3>3 DEF Settle, Recover
        <3>4. CASE \E t \in TaskIds : ClaimTask(p, t)
            BY <3>4
        <3> QED
            BY <2>1, <3>1, <3>2, <3>3, <3>4 DEF Progress
    <2>2. CASE SettleRaises(p) \/ RecoverRaises(p)
        BY <2>2 DEF SettleRaises, RecoverRaises
    <2>3. CASE Failure(p)
        BY <2>2, <2>3 DEF Failure, MarkAckLost, ResearchFails, PostTimesOut, ConsensusRaises,
            StatementRaises, Crash
    <2> QED
        BY <2>1, <2>3
<1> QED
    BY <1>1, <1>2, <1>3, <1>4, <1>5, <1>6

-----------------------------------------------------------------------------
(* The inductive invariant.                                                *)

LEMMA QueueInit == Init => QueueInv
BY InitType DEF Init, QueueInv, Unreleased, Holding, StoreInit, RuntimeInit, Fresh

LEMMA QueueStep ==
    ASSUME QueueInv, TypeOK', \/ Quiet \/ Releases
                              \/ \E p \in Orchs : Takes(p) \/ Settles(p) \/ Fails(p)
    PROVE  QueueInv'
<1> USE DEF QueueInv
<1>0. /\ \A p \in Orchs : orch[p].job \in TaskIds \cup {Null} /\ orch'[p].job \in TaskIds \cup {Null}
      /\ \A p \in Orchs : orch[p].pc \in {"settle", "recover"} => orch[p].job # Null
      /\ \A t \in TaskIds : t[1] \in Invs
    BY DEF TypeOK, RuntimeTypeOK, OrchState, TaskIds
<1>1. CASE Quiet
    <2>1. Unreleased'
        BY <1>0, <1>1 DEF Quiet, Put, Unreleased
    <2>2. Holding'
        BY <1>0, <1>1 DEF Quiet, Put, Keeps, Holding
    <2> QED
        BY <2>1, <2>2
<1>2. CASE Releases
    <2>1. Unreleased'
        BY <1>0, <1>2 DEF Releases, Put, Unreleased
    <2>2. Holding'
        BY <1>0, <1>2 DEF Releases, Put, Holding, Unreleased
    <2> QED
        BY <2>1, <2>2
<1>3. ASSUME NEW p \in Orchs, Takes(p) PROVE QueueInv'
    <2>1. Unreleased'
        BY <1>0, <1>3 DEF Takes, Put, Unreleased
    <2>2. Holding'
        BY <1>0, <1>3 DEF Takes, Put, Keeps, Holding
    <2> QED
        BY <2>1, <2>2
<1>4. ASSUME NEW p \in Orchs, Settles(p) PROVE QueueInv'
    <2>1. Unreleased'
        <3>1. orch[p].job \in TaskIds /\ tx[orch[p].job[1]].pc = "committed"
            BY <1>0, <1>4 DEF Settles, Unreleased, Holding
        <3> QED
            BY <1>0, <1>4, <3>1 DEF Settles, Put, Unreleased
    <2>2. Holding'
        BY <1>0, <1>4 DEF Settles, Put, Keeps, Holding
    <2> QED
        BY <2>1, <2>2
<1>5. ASSUME NEW p \in Orchs, Fails(p) PROVE QueueInv'
    <2>1. Unreleased'
        <3>1. orch[p].job \in TaskIds /\ tx[orch[p].job[1]].pc = "committed"
            BY <1>0, <1>5 DEF Fails, Unreleased, Holding
        <3> QED
            BY <1>0, <1>5, <3>1 DEF Fails, Put, Unreleased
    <2>2. Holding'
        BY <1>0, <1>5 DEF Fails, Put, Keeps, Holding
    <2> QED
        BY <2>1, <2>2
<1> QED
    BY <1>1, <1>2, <1>3, <1>4, <1>5

LEMMA Kinds ==
    ASSUME TypeOK, [Next]_vars
    PROVE  \/ Quiet \/ Releases
           \/ \E p \in Orchs : Takes(p) \/ Settles(p) \/ Fails(p)
<1>1. CASE ApiNext /\ UNCHANGED runtimeVars
    BY <1>1, ApiKinds
<1>2. CASE RuntimeNext /\ UNCHANGED apiVars
    BY <1>2, RuntimeKinds DEF RuntimeNext
<1>3. CASE UNCHANGED vars
    BY <1>3 DEF vars, tables, network, apiVars, runtimeVars, Quiet, Put, Keeps
<1> QED
    BY <1>1, <1>2, <1>3 DEF Next

THEOREM QueueCorrect == Spec => []QueueInv
<1>1. QueueInv /\ [Next]_vars => QueueInv'
    BY StepType, Kinds, QueueStep DEF QueueInv
<1> QED
    BY <1>1, QueueInit, PTL DEF Spec

\* No two runtimes ever hold the same task and nobody holds one that is
\* offered to others, for any number of runtimes, tasks and faults.
THEOREM OneHolderCorrect == Spec => []OneHolder
<1>1. QueueInv => OneHolder
    BY DEF QueueInv, Holding, OneHolder
<1> QED
    BY <1>1, QueueCorrect, PTL

-----------------------------------------------------------------------------
(* The refinement.                                                         *)

LEMMA LifecycleInit == Init => Lifecycle!Init
BY DEF Init, StoreInit, Lifecycle!Init, TaskStatus

LEMMA LifecycleStep == QueueInv /\ [Next]_vars => [Lifecycle!Next]_TaskStatus
<1> SUFFICES ASSUME QueueInv, [Next]_vars PROVE [Lifecycle!Next]_TaskStatus
    OBVIOUS
<1>0. TypeOK /\ \A p \in Orchs : orch[p].job \in TaskIds \cup {Null}
    BY DEF QueueInv, TypeOK, RuntimeTypeOK, OrchState
<1>a. ASSUME NEW S, NEW s, Put(S, s)
      PROVE  TaskStatus' = [t \in TaskIds |-> IF t \in S THEN s ELSE TaskStatus[t]]
    BY <1>a DEF Put, TaskStatus
<1>b. ASSUME NEW t \in TaskIds, NEW s, Put({t}, s)
      PROVE  TaskStatus' = [TaskStatus EXCEPT ![t] = s]
    BY <1>b DEF Put, TaskStatus
<1>1. CASE Quiet
    BY <1>1, <1>a DEF Quiet, TaskStatus
<1>2. CASE Releases
    <2>1. PICK i \in Invs, S \in SUBSET TaskIds :
            /\ \A t \in S : t[1] = i
            /\ tx[i].pc # "committed" /\ Put(S, "pending")
        BY <1>2 DEF Releases
    <2>2. \A t \in S : TaskStatus[t] = "none"
        BY <2>1 DEF QueueInv, Unreleased, TaskStatus
    <2>3. TaskStatus' = [t \in TaskIds |-> IF t \in S THEN "pending" ELSE TaskStatus[t]]
        BY <2>1, <1>a
    <2>4. CASE S = {}
        BY <2>3, <2>4 DEF TaskStatus
    <2>5. CASE S # {}
        BY <2>2, <2>3, <2>5 DEF Lifecycle!Next, Lifecycle!Release
    <2> QED
        BY <2>4, <2>5
<1>3. ASSUME NEW p \in Orchs, Takes(p) PROVE Lifecycle!Next
    <2>1. PICK t \in TaskIds : task[t].status = "pending" /\ Put({t}, "running")
        BY <1>3 DEF Takes
    <2>2. TaskStatus[t] = "pending" /\ TaskStatus' = [TaskStatus EXCEPT ![t] = "running"]
        BY <2>1, <1>b DEF TaskStatus
    <2> QED
        BY <2>2 DEF Lifecycle!Next, Lifecycle!Take
<1>4. ASSUME NEW p \in Orchs, Settles(p) PROVE Lifecycle!Next
    <2> DEFINE t == orch[p].job
    <2>1. t \in TaskIds /\ task[t].status = "running"
        BY <1>0, <1>4 DEF Settles, QueueInv, Holding, TypeOK, RuntimeTypeOK, OrchState
    <2>2. PICK outcome \in {"complete", "failed"} : Put({t}, outcome)
        BY <1>4 DEF Settles
    <2>3. TaskStatus[t] = "running" /\ TaskStatus' = [TaskStatus EXCEPT ![t] = outcome]
        BY <2>1, <2>2, <1>b DEF TaskStatus
    <2> QED
        BY <2>1, <2>3 DEF Lifecycle!Next, Lifecycle!Settle
<1>5. ASSUME NEW p \in Orchs, Fails(p) PROVE [Lifecycle!Next]_TaskStatus
    <2> DEFINE t == orch[p].job
    <2>1. /\ t \in TaskIds
          /\ \/ task[t].status = "running"
             \/ "ack" \in FaultKinds /\ task[t].status \in {"complete", "failed"}
        BY <1>0, <1>5 DEF Fails, QueueInv, Holding, TypeOK, RuntimeTypeOK, OrchState
    <2>2. TaskStatus[t] = task[t].status /\ TaskStatus' = [TaskStatus EXCEPT ![t] = "failed"]
        BY <1>5, <2>1, <1>b DEF Fails, TaskStatus
    <2>3. CASE task[t].status = "running"
        BY <2>1, <2>2, <2>3 DEF Lifecycle!Next, Lifecycle!Settle
    <2>4. CASE "ack" \in FaultKinds /\ task[t].status = "complete"
        BY <2>1, <2>2, <2>4 DEF Lifecycle!Next, Lifecycle!Overturn
    <2>5. CASE task[t].status = "failed"
        BY <2>1, <2>2, <2>5 DEF TaskStatus
    <2> QED
        BY <2>1, <2>3, <2>4, <2>5
<1> QED
    BY <1>0, <1>1, <1>2, <1>3, <1>4, <1>5, Kinds

\* The runtimes, the API and all their failures implement the abstract queue:
\* tasks appear together, are taken once and keep their outcome, which only a
\* lost acknowledgement can turn from complete to failed.
THEOREM QueueRefinement == Spec => ImplementsLifecycle
BY LifecycleInit, LifecycleStep, QueueCorrect, PTL DEF Spec, ImplementsLifecycle, Lifecycle!Spec
=============================================================================
