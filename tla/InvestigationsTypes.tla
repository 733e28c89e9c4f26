------------------------- MODULE InvestigationsTypes -------------------------
(***************************************************************************)
(* The type invariant of Investigations.                                   *)
(***************************************************************************)
EXTENDS Investigations, SequenceTheorems, TLAPS

USE DEF AgentIds, Nil, SignalIds, At, Goto, Fault, Abort, OrchRecord, HandlingTask, HandlingInv

LEMMA NewIdIsFree ==
    ASSUME FreeIds # {}
    PROVE  NewId \in MsgIds /\ NewId \in RowIds /\ NewId \in FreeIds
BY DEF NewId, FreeIds, RowIds

LEMMA InitType == Init => TypeOK
<1> SUFFICES ASSUME Init PROVE TypeOK
    OBVIOUS
<1>1. StoreTypeOK
    BY BoundsAssumption
    DEF Init, StoreInit, StoreTypeOK, InvRow, TaskRow, SignalRow, MessageRow, Reply
<1>2. ApiTypeOK
    BY BoundsAssumption DEF Init, ApiInit, ApiTypeOK
<1>3. RuntimeTypeOK
    BY RuntimeAssumption DEF Init, RuntimeInit, RuntimeTypeOK, Fresh, OrchState
<1> QED
    BY <1>1, <1>2, <1>3 DEF TypeOK

-----------------------------------------------------------------------------
(* Sequences that are updated in place.                                    *)

LEMMA MarkType ==
    ASSUME StoreTypeOK, NEW s
    PROVE  /\ [signals EXCEPT ![s].processed = TRUE] \in Seq(SignalRow)
           /\ Len([signals EXCEPT ![s].processed = TRUE]) = Len(signals)
<1> DEFINE row == [signals[s] EXCEPT !.processed = TRUE]
<1>1. [signals EXCEPT ![s].processed = TRUE] = [signals EXCEPT ![s] = row]
    OBVIOUS
<1>2. CASE s \in 1 .. Len(signals)
    <2>1. signals[s] \in SignalRow
        BY <1>2, ElementOfSeq DEF StoreTypeOK
    <2>2. row \in SignalRow
        BY <2>1 DEF SignalRow
    <2> QED
        BY <1>1, <1>2, <2>2, ExceptSeq DEF StoreTypeOK
<1>3. CASE s \notin 1 .. Len(signals)
    <2>1. signals \in [1 .. Len(signals) -> SignalRow]
        BY LenProperties DEF StoreTypeOK
    <2>2. [signals EXCEPT ![s] = row] = signals
        BY <1>3, <2>1
    <2> QED
        BY <1>1, <2>2 DEF StoreTypeOK
<1> QED
    BY <1>2, <1>3

LEMMA FlagsType ==
    ASSUME StoreTypeOK, NEW flag \in BOOLEAN
    PROVE  /\ [a \in DOMAIN active |-> flag] \in Seq(BOOLEAN)
           /\ Len([a \in DOMAIN active |-> flag]) = Len(active)
           /\ \A a \in DOMAIN active :
                /\ [active EXCEPT ![a] = flag] \in Seq(BOOLEAN)
                /\ Len([active EXCEPT ![a] = flag]) = Len(active)
<1>1. DOMAIN active = 1 .. Len(active) /\ Len(active) \in Nat
    BY DEF StoreTypeOK
<1>2. [a \in DOMAIN active |-> flag] \in [1 .. Len(active) -> BOOLEAN]
    BY <1>1
<1>3. [a \in DOMAIN active |-> flag] \in Seq(BOOLEAN)
    BY <1>1, <1>2, SeqDef
<1>4. Len([a \in DOMAIN active |-> flag]) = Len(active)
    BY <1>1, <1>2, <1>3, LenProperties
<1> QED
    BY <1>1, <1>3, <1>4, ExceptSeq DEF StoreTypeOK

-----------------------------------------------------------------------------
(* The steps of the API.                                                   *)

LEMMA ApiType ==
    ASSUME TypeOK, ApiNext, UNCHANGED runtimeVars
    PROVE  TypeOK'
<1> USE DEF TypeOK, tables, network, apiVars, runtimeVars
<1>0. RuntimeTypeOK'
    BY DEF RuntimeTypeOK
<1>1. CASE CreateAgent
    BY <1>0, <1>1, BoundsAssumption DEF CreateAgent, InsertAgent, StoreTypeOK, ApiTypeOK
<1>2. ASSUME NEW a \in AgentIds, NEW flag \in BOOLEAN, UpdateAgent(a, flag)
      PROVE  TypeOK'
    BY <1>0, <1>2, FlagsType DEF UpdateAgent, SetActive, StoreTypeOK, ApiTypeOK
<1>3. ASSUME NEW flag \in BOOLEAN, SetAllActive(flag) PROVE TypeOK'
    BY <1>0, <1>3, FlagsType DEF SetAllActive, SetEveryActive, StoreTypeOK, ApiTypeOK
<1>4. ASSUME NEW a \in AgentIds, ControlTick(a) PROVE TypeOK'
    BY <1>0, <1>4, BoundsAssumption
    DEF ControlTick, InsertSignal, SignalRow, StoreTypeOK, ApiTypeOK
<1>5. ASSUME NEW i \in Invs, NEW request \in Requests, BeginCreate(i, request)
      PROVE  TypeOK'
    BY <1>0, <1>5, RequestsAssumption DEF BeginCreate, TypesOf, StoreTypeOK, ApiTypeOK
<1>6. ASSUME NEW i \in Invs, NEW a \in AgentIds, InsertTask(i, a) PROVE TypeOK'
    <2> DEFINE Tx == [pc : {"none", "open", "committed", "rolled_back"},
                      types : Seq(TaskTypes), rows : Seq(AgentIds)]
               row == [tx[i] EXCEPT !.rows = Append(tx[i].rows, a)]
    <2>1. tx \in [Invs -> Tx] /\ tx[i].rows \in Seq(AgentIds)
        BY DEF ApiTypeOK
    <2>2. Append(tx[i].rows, a) \in Seq(AgentIds)
        BY <2>1
    <2>3. row \in Tx /\ row.types = tx[i].types
        <3> HIDE DEF row
        <3>1. \A r \in Tx, s \in Seq(AgentIds) :
                [r EXCEPT !.rows = s] \in Tx /\ [r EXCEPT !.rows = s].types = r.types
            OBVIOUS
        <3> QED
            BY <2>1, <2>2, <3>1 DEF row
    <2>4. tx' = [tx EXCEPT ![i] = row]
        BY <1>6, <2>1 DEF InsertTask
    <2>5. tx' \in [Invs -> Tx] /\ \A j \in Invs : tx'[j].types = tx[j].types
        <3> HIDE DEF row, Tx
        <3> QED BY <2>1, <2>3, <2>4
    <2>6. ApiTypeOK'
        BY <1>6, <2>5 DEF InsertTask, ApiTypeOK
    <2> QED
        BY <1>0, <1>6, <2>6 DEF InsertTask, StoreTypeOK
<1>7. ASSUME NEW i \in Invs, CommitCreate(i) PROVE TypeOK'
    <2>1. task' \in [TaskIds -> TaskRow]
        <3> DEFINE row(t) == [agent |-> tx[i].rows[t[2]], type |-> tx[i].types[t[2]],
                              status |-> "pending", result |-> Null]
                   new(t) == t[1] = i /\ t[2] \in DOMAIN tx[i].rows
        <3>1. /\ tx[i].rows \in Seq(AgentIds) /\ tx[i].types \in Seq(TaskTypes)
              /\ Len(tx[i].rows) = Len(tx[i].types)
            BY <1>7 DEF CommitCreate, ApiTypeOK
        <3>2. ASSUME NEW t \in TaskIds, new(t) PROVE row(t) \in TaskRow
            <4>1. t[2] \in 1 .. Len(tx[i].rows) /\ t[2] \in 1 .. Len(tx[i].types)
                BY <3>1, <3>2, LenProperties
            <4>2. tx[i].rows[t[2]] \in AgentIds /\ tx[i].types[t[2]] \in TaskTypes
                BY <3>1, <4>1, ElementOfSeq
            <4> QED
                BY <4>2 DEF TaskRow
        <3>3. task' = [t \in TaskIds |-> IF new(t) THEN row(t) ELSE task[t]]
            BY <1>7 DEF CommitCreate
        <3>4. task \in [TaskIds -> TaskRow]
            BY DEF StoreTypeOK
        <3> QED
            <4> HIDE DEF row, new
            <4> QED BY <3>2, <3>3, <3>4
    <2>2. inv' \in [Invs -> InvRow]
        BY <1>7 DEF CommitCreate, SetStatus, StoreTypeOK, InvRow
    <2> QED
        BY <1>0, <1>7, <2>1, <2>2 DEF CommitCreate, StoreTypeOK, ApiTypeOK
<1>8. ASSUME NEW i \in Invs, RollbackCreate(i) PROVE TypeOK'
    BY <1>0, <1>8 DEF RollbackCreate, StoreTypeOK, ApiTypeOK
<1>9. ASSUME NEW c \in Handlers, NEW i \in Invs, TriggerCheck(c, i) PROVE TypeOK'
    BY <1>0, <1>9 DEF TriggerCheck, StoreTypeOK, ApiTypeOK
<1>10. ASSUME NEW c \in Handlers, TriggerWrite(c) PROVE TypeOK'
    BY <1>0, <1>10 DEF TriggerWrite, SetStatus, InvRow, StoreTypeOK, ApiTypeOK
<1>11. CASE CreateMessage
    BY <1>0, <1>11, NewIdIsFree
    DEF CreateMessage, MayPost, InsertMessage, MessageRow, StoreTypeOK, ApiTypeOK
<1>12. ASSUME NEW parent \in RowIds, RespondToMessage(parent) PROVE TypeOK'
    BY <1>0, <1>12, NewIdIsFree
    DEF RespondToMessage, MayPost, InsertMessage, MessageRow, StoreTypeOK, ApiTypeOK
<1>13. ASSUME NEW t \in TaskIds, AcceptPost(t) PROVE TypeOK'
    BY <1>0, <1>13, NewIdIsFree
    DEF AcceptPost, InsertMessage, MessageRow, Reply, StoreTypeOK, ApiTypeOK
<1>14. ASSUME NEW t \in TaskIds, RefusePost(t) PROVE TypeOK'
    BY <1>0, <1>14 DEF RefusePost, Reply, StoreTypeOK, ApiTypeOK
<1>15. ASSUME NEW ty \in OperatorSignals, OperatorSignal(ty) PROVE TypeOK'
    BY <1>0, <1>15, ApiAssumption, BoundsAssumption
    DEF OperatorSignal, InsertSignal, SignalRow, StoreTypeOK, ApiTypeOK
<1>16. ASSUME NEW i \in Seeds, OperatorSeed(i) PROVE TypeOK'
    BY <1>0, <1>16, ApiAssumption
    DEF OperatorSeed, InsertMessage, MessageRow, RowIds, StoreTypeOK, ApiTypeOK
<1> QED
    BY <1>1, <1>2, <1>3, <1>4, <1>5, <1>6, <1>7, <1>8, <1>9, <1>10, <1>11, <1>12,
       <1>13, <1>14, <1>15, <1>16 DEF ApiNext

-----------------------------------------------------------------------------
(* The steps of a runtime: its local state, then the tables.               *)

LEMMA BecomeType ==
    ASSUME orch \in [Orchs -> OrchState], NEW p \in Orchs, NEW r \in OrchState, Become(p, r)
    PROVE  orch' \in [Orchs -> OrchState]
BY DEF Become

LEMMA FreshType == \A pc \in {"idle", "down"} : Fresh(pc) \in OrchState
BY DEF Fresh, OrchState

LEMMA ProgressLocal ==
    ASSUME TypeOK, NEW p \in Orchs, Progress(p)
    PROVE  \E r \in OrchState : Become(p, r)
<1> USE DEF TypeOK
<1>0. orch[p] \in OrchState
    BY DEF RuntimeTypeOK
<1>1. CASE Start(p) \/ EndAgentTick(p) \/ SendPost(p) \/ EndConsensusCheck(p) \/ StoreReport(p)
    <2>1. PICK pc : /\ \/ orch[p].pc = "down" /\ pc = "idle"
                       \/ orch[p].pc \in {"claim", "count"} /\ pc = "mark"
                       \/ orch[p].pc = "run" /\ pc = "await"
                       \/ orch[p].pc = "store" /\ pc = "finish"
                    /\ Become(p, [orch[p] EXCEPT !.pc = pc])
        BY <1>1 DEF Start, EndAgentTick, SendPost, EndConsensusCheck, StoreReport
    <2>2. [orch[p] EXCEPT !.pc = pc] \in OrchState
        BY <1>0, <2>1 DEF OrchState
    <2> QED
        BY <2>1, <2>2
<1>2. CASE Poll(p)
    <2>1. Unprocessed \subseteq SignalIds
        BY BoundsAssumption DEF Unprocessed, StoreTypeOK
    <2>2. [orch[p] EXCEPT !.pc = "batch", !.batch = Unprocessed] \in OrchState
        BY <1>0, <1>2, <2>1 DEF Poll, OrchState
    <2> QED
        BY <1>2, <2>2 DEF Poll
<1>3. CASE NextSignal(p)
    <2>1. PICK s \in orch[p].batch :
            /\ orch[p].pc = "batch"
            /\ Become(p, [orch[p] EXCEPT !.pc = HandlerOf(signals[s]), !.signal = s,
                                         !.batch = @ \ {s}, !.todo = 1])
        BY <1>3 DEF NextSignal
    <2>2. s \in SignalIds
        BY <1>0 DEF OrchState
    <2>3. HandlerOf(signals[s]) \in {"claim", "check", "mark"}
        BY DEF HandlerOf
    <2>4. [orch[p] EXCEPT !.pc = HandlerOf(signals[s]), !.signal = s,
                          !.batch = @ \ {s}, !.todo = 1] \in OrchState
        BY <1>0, <2>1, <2>2, <2>3 DEF OrchState
    <2> QED
        BY <2>1, <2>4
<1>4. CASE EndTick(p) \/ BuildFails(p)
    BY <1>4, FreshType DEF EndTick, BuildFails
<1>5. CASE Mark(p)
    <2>1. [orch[p] EXCEPT !.pc = "batch", !.signal = 0] \in OrchState
        BY <1>0, <1>5 DEF Mark, OrchState
    <2> QED
        BY <1>5, <2>1 DEF Mark
<1>6. ASSUME NEW t \in TaskIds, ClaimTask(p, t) PROVE \E r \in OrchState : Become(p, r)
    <2>1. [orch[p] EXCEPT !.pc = "run", !.job = t] \in OrchState
        BY <1>0, <1>6, NullAssumption DEF ClaimTask, Claim, OrchState
    <2> QED
        BY <1>6, <2>1 DEF ClaimTask
<1>7. CASE ClaimNone(p)
    <2>1. [orch[p] EXCEPT !.todo = @ + 1] \in OrchState
        BY <1>0 DEF OrchState
    <2> QED
        BY <1>7, <2>1 DEF ClaimNone
<1>8. CASE ReceiveReply(p)
    <2>1. PICK r \in replies : /\ orch[p].pc = "await"
                               /\ Become(p, [orch[p] EXCEPT !.pc = "settle", !.outcome = r.id])
        BY <1>8 DEF ReceiveReply
    <2>2. r.id \in RowIds \cup {Null}
        BY DEF StoreTypeOK, Reply
    <2>3. [orch[p] EXCEPT !.pc = "settle", !.outcome = r.id] \in OrchState
        BY <1>0, <2>1, <2>2 DEF OrchState
    <2> QED
        BY <2>1, <2>3
<1>9. CASE Settle(p) \/ Recover(p)
    <2>1. orch[p].todo + 1 \in Nat
        BY <1>0 DEF OrchState
    <2>2. ASSUME NEW n \in Nat
          PROVE  [orch[p] EXCEPT !.pc = "claim", !.todo = n,
                                 !.job = Null, !.outcome = Null] \in OrchState
        BY <1>0, <1>9 DEF Settle, Recover, OrchState
    <2> QED
        BY <1>9, <2>1, <2>2 DEF Settle, Recover, NextType
<1>10. CASE CheckActive(p)
    <2>1. [orch[p] EXCEPT !.pc = "count", !.agenda = ActiveInvs] \in OrchState
        BY <1>0, <1>10 DEF CheckActive, OrchState, ActiveInvs
    <2> QED
        BY <1>10, <2>1 DEF CheckActive
<1>11. CASE CountOpen(p)
    <2>1. ASSUME NEW i \in orch[p].agenda
          PROVE  /\ [orch[p] EXCEPT !.pc = "gather", !.agenda = @ \ {i}, !.inv = i] \in OrchState
                 /\ [orch[p] EXCEPT !.agenda = @ \ {i}] \in OrchState
        <3>1. i \in Invs /\ i # 0 /\ orch[p].pc = "count"
            BY <1>0, <1>11 DEF CountOpen, OrchState, Invs
        <3> QED
            BY <1>0, <3>1 DEF OrchState
    <2> QED
        BY <1>11, <2>1 DEF CountOpen
<1>12. CASE Gather(p) \/ Finish(p)
    <2>1. [orch[p] EXCEPT !.pc = "count", !.inv = 0, !.sources = {}] \in OrchState
        BY <1>0, <1>12 DEF Gather, Finish, OrchState
    <2>2. FindingsOf(orch[p].inv) \subseteq RowIds
        BY DEF FindingsOf, StoreTypeOK, MessageRow
    <2>3. Gather(p) => [orch[p] EXCEPT !.pc = "store", !.sources = FindingsOf(orch[p].inv)]
                            \in OrchState
        BY <1>0, <2>2 DEF Gather, OrchState
    <2> QED
        BY <1>12, <2>1, <2>3 DEF Gather, Finish, NextInv
<1> QED
    BY <1>1, <1>2, <1>3, <1>4, <1>5, <1>6, <1>7, <1>8, <1>9, <1>10, <1>11, <1>12 DEF Progress

LEMMA FailureLocal ==
    ASSUME TypeOK, NEW p \in Orchs, Failure(p)
    PROVE  orch' \in [Orchs -> OrchState] /\ faults' \in 0 .. MaxFaults
<1> USE DEF TypeOK
<1>0. orch \in [Orchs -> OrchState] /\ orch[p] \in OrchState
    BY DEF RuntimeTypeOK
<1>a. \A kind : Fault(kind) => faults' \in 0 .. MaxFaults
    BY RuntimeAssumption DEF RuntimeTypeOK
<1>1. ASSUME NEW t \in TaskIds, ClaimAckLost(p, t)
      PROVE  orch' \in [Orchs -> OrchState] /\ faults' \in 0 .. MaxFaults
    BY <1>0, <1>a, <1>1, FreshType, BecomeType DEF ClaimAckLost
<1>2. CASE MarkAckLost(p) \/ RecoverRaises(p) \/ StatementRaises(p) \/ Crash(p)
    BY <1>0, <1>a, <1>2, FreshType, BecomeType
    DEF MarkAckLost, RecoverRaises, StatementRaises, Crash
<1>3. CASE ResearchFails(p) \/ PostTimesOut(p)
    <2>1. [orch[p] EXCEPT !.pc = "settle"] \in OrchState
        BY <1>0, <1>3 DEF ResearchFails, PostTimesOut, OrchState
    <2> QED
        BY <1>0, <1>a, <1>3, <2>1, BecomeType DEF ResearchFails, PostTimesOut
<1>4. CASE SettleRaises(p)
    <2>1. [orch[p] EXCEPT !.pc = "recover", !.outcome = Null] \in OrchState
        BY <1>0, <1>4 DEF SettleRaises, OrchState
    <2> QED
        BY <1>0, <1>a, <1>4, <2>1, BecomeType DEF SettleRaises
<1>5. CASE ConsensusRaises(p)
    <2>1. [orch[p] EXCEPT !.pc = "count", !.inv = 0, !.sources = {}] \in OrchState
        BY <1>0, <1>5 DEF ConsensusRaises, OrchState
    <2> QED
        BY <1>0, <1>a, <1>5, <2>1, BecomeType DEF ConsensusRaises, NextInv
<1>6. ASSUME NEW q \in Orchs, NEW l \in TaskIds, ClaimSkipsLocked(p, q, l)
      PROVE  orch' \in [Orchs -> OrchState] /\ faults' \in 0 .. MaxFaults
    <2>1. PICK end \in {[fault |-> "db", pc |-> "idle"], [fault |-> "crash", pc |-> "down"]} :
            /\ Fault(end.fault)
            /\ \/ orch' = [orch EXCEPT ![p] = [orch[p] EXCEPT !.todo = @ + 1],
                                      ![q] = Fresh(end.pc)]
               \/ \E t \in Oldest(Candidates(p) \ {l}) :
                    orch' = [orch EXCEPT ![p] = [orch[p] EXCEPT !.pc = "run", !.job = t],
                                         ![q] = Fresh(end.pc)]
        BY <1>6 DEF ClaimSkipsLocked
    <2>2. Fresh(end.pc) \in OrchState
        <3>1. CASE end = [fault |-> "db", pc |-> "idle"]
            <4>1. end.pc = "idle"
                BY <3>1
            <4> QED
                BY <4>1, FreshType
        <3>2. CASE end = [fault |-> "crash", pc |-> "down"]
            <4>1. end.pc = "down"
                BY <3>2
            <4> QED
                BY <4>1, FreshType
        <3> QED
            BY <3>1, <3>2, <2>1
    <2>3. [orch[p] EXCEPT !.todo = @ + 1] \in OrchState
        BY <1>0 DEF OrchState
    <2>4. ASSUME NEW t \in Oldest(Candidates(p) \ {l})
          PROVE  [orch[p] EXCEPT !.pc = "run", !.job = t] \in OrchState
        <3>1. t \in TaskIds /\ t # Null /\ orch[p].pc = "claim"
            BY <1>6, NullAssumption DEF ClaimSkipsLocked, Oldest, Candidates, Claimable
        <3> QED
            BY <1>0, <3>1 DEF OrchState
    <2>5. \A r, s \in OrchState :
            [orch EXCEPT ![p] = r, ![q] = s] \in [Orchs -> OrchState]
        BY <1>0
    <2>6. orch' \in [Orchs -> OrchState]
        BY <2>1, <2>2, <2>3, <2>4, <2>5
    <2> QED
        BY <1>a, <2>1, <2>6
<1> QED
    BY <1>1, <1>2, <1>3, <1>4, <1>5, <1>6 DEF Failure

LEMMA TaskType ==
    ASSUME StoreTypeOK, NEW t, NEW result \in RowIds \cup {Null},
           NEW status \in {"pending", "running", "complete", "failed"}, SetTask(t, status, result)
    PROVE  task' \in [TaskIds -> TaskRow]
BY DEF SetTask, StoreTypeOK, TaskRow

LEMMA InvType ==
    ASSUME StoreTypeOK, NEW i,
           \/ \E status \in {"in_progress", "consensus", "complete"} : SetStatus(i, status)
           \/ \E sources \in SUBSET RowIds : SetReport(i, sources)
    PROVE  inv' \in [Invs -> InvRow]
BY DEF SetStatus, SetReport, StoreTypeOK, InvRow

LEMMA RuntimeStore ==
    ASSUME TypeOK, NEW p \in Orchs, Progress(p) \/ Failure(p)
    PROVE  StoreTypeOK'
<1> USE DEF TypeOK, tables, network
<1>0. /\ orch[p] \in OrchState
      /\ orch[p].outcome \in RowIds \cup {Null}
      /\ orch[p].job \in TaskIds \cup {Null}
      /\ orch[p].sources \in SUBSET RowIds
    BY DEF RuntimeTypeOK, OrchState
<1>a. \A t \in TaskIds : task[t].result \in RowIds \cup {Null}
    BY DEF StoreTypeOK, TaskRow
<1>1. CASE UNCHANGED <<tables, network>>
    BY <1>1 DEF StoreTypeOK
<1>2. CASE Mark(p) \/ MarkAckLost(p)
    BY <1>2, MarkType DEF Mark, MarkAckLost, SetProcessed, StoreTypeOK
<1>3. ASSUME NEW t \in TaskIds, ClaimTask(p, t) \/ ClaimAckLost(p, t) PROVE StoreTypeOK'
    <2>1. task' \in [TaskIds -> TaskRow]
        <3>1. SetTask(t, "running", task[t].result)
            BY <1>3 DEF ClaimTask, ClaimAckLost, Claim
        <3> QED
            BY <3>1, <1>a, TaskType
    <2> QED
        BY <1>3, <2>1 DEF ClaimTask, ClaimAckLost, StoreTypeOK
<1>4. ASSUME NEW q \in Orchs, NEW l \in TaskIds, ClaimSkipsLocked(p, q, l) PROVE StoreTypeOK'
    <2>1. task' = task \/ \E t \in TaskIds : SetTask(t, "running", task[t].result)
        BY <1>4 DEF ClaimSkipsLocked, Oldest, Candidates, Claimable
    <2>2. task' \in [TaskIds -> TaskRow]
        <3>1. ASSUME NEW t \in TaskIds, SetTask(t, "running", task[t].result)
              PROVE  task' \in [TaskIds -> TaskRow]
            BY <3>1, <1>a, TaskType
        <3>2. task \in [TaskIds -> TaskRow]
            BY DEF StoreTypeOK
        <3> QED
            BY <2>1, <3>1, <3>2
    <2> QED
        BY <1>4, <2>2 DEF ClaimSkipsLocked, StoreTypeOK
<1>5. CASE SendPost(p)
    <2>1. orch[p].job \in TaskIds
        BY <1>5, <1>0 DEF SendPost, OrchState
    <2> QED
        BY <1>5, <2>1 DEF SendPost, StoreTypeOK
<1>6. CASE ReceiveReply(p) \/ PostTimesOut(p)
    BY <1>6 DEF ReceiveReply, PostTimesOut, StoreTypeOK
<1>7. CASE Settle(p) \/ SettleRaises(p)
    <2>1. task' \in [TaskIds -> TaskRow]
        <3>1. UNCHANGED task \/ WriteOutcome(p)
            BY <1>7 DEF Settle, SettleRaises
        <3>2. CASE WriteOutcome(p)
            BY <1>0, <3>2, TaskType DEF WriteOutcome
        <3> QED
            BY <3>1, <3>2 DEF StoreTypeOK
    <2> QED
        BY <1>7, <2>1 DEF Settle, SettleRaises, StoreTypeOK
<1>8. CASE Recover(p) \/ RecoverRaises(p)
    <2>1. task' \in [TaskIds -> TaskRow]
        <3>1. UNCHANGED task \/ SetTask(orch[p].job, "failed", Null)
            BY <1>8 DEF Recover, RecoverRaises
        <3>2. CASE SetTask(orch[p].job, "failed", Null)
            BY <3>2, TaskType
        <3> QED
            BY <3>1, <3>2 DEF StoreTypeOK
    <2> QED
        BY <1>8, <2>1 DEF Recover, RecoverRaises, StoreTypeOK
<1>9. CASE StoreReport(p) \/ Finish(p) \/ ConsensusRaises(p)
    <2>1. inv' \in [Invs -> InvRow]
        <3>1. \/ UNCHANGED inv
              \/ SetStatus(orch[p].inv, "complete")
              \/ SetReport(orch[p].inv, orch[p].sources)
            BY <1>9 DEF StoreReport, Finish, ConsensusRaises
        <3>2. CASE SetStatus(orch[p].inv, "complete")
            BY <3>2, InvType
        <3>3. CASE SetReport(orch[p].inv, orch[p].sources)
            BY <1>0, <3>3, InvType
        <3> QED
            BY <3>1, <3>2, <3>3 DEF StoreTypeOK
    <2> QED
        BY <1>9, <2>1 DEF StoreReport, Finish, ConsensusRaises, StoreTypeOK
<1>10. \/ UNCHANGED <<tables, network>>
       \/ Mark(p) \/ MarkAckLost(p)
       \/ \E t \in TaskIds : ClaimTask(p, t) \/ ClaimAckLost(p, t)
       \/ \E q \in Orchs, l \in TaskIds : ClaimSkipsLocked(p, q, l)
       \/ SendPost(p) \/ ReceiveReply(p) \/ PostTimesOut(p) \/ Settle(p) \/ SettleRaises(p)
       \/ Recover(p) \/ RecoverRaises(p) \/ StoreReport(p) \/ Finish(p) \/ ConsensusRaises(p)
    BY DEF Progress, Failure, Start, Poll, NextSignal, EndTick, ClaimNone, EndAgentTick,
           BuildFails, ResearchFails, CheckActive, CountOpen, EndConsensusCheck, Gather,
           StatementRaises, Crash
<1> QED
    BY <1>1, <1>2, <1>3, <1>4, <1>5, <1>6, <1>7, <1>8, <1>9, <1>10

-----------------------------------------------------------------------------

LEMMA StepType == TypeOK /\ [Next]_vars => TypeOK'
<1> SUFFICES ASSUME TypeOK, [Next]_vars PROVE TypeOK'
    OBVIOUS
<1>1. CASE ApiNext /\ UNCHANGED runtimeVars
    BY <1>1, ApiType
<1>2. CASE RuntimeNext /\ UNCHANGED apiVars
    <2>1. PICK p \in Orchs : Progress(p) \/ Failure(p)
        BY <1>2 DEF RuntimeNext
    <2>2. ApiTypeOK'
        BY <1>2 DEF apiVars, ApiTypeOK, TypeOK
    <2>3. StoreTypeOK'
        BY <2>1, RuntimeStore
    <2>4. CASE Progress(p)
        <3>1. orch' \in [Orchs -> OrchState]
            BY <2>4, ProgressLocal, BecomeType DEF TypeOK, RuntimeTypeOK
        <3>2. faults' = faults
            BY <2>4 DEF Progress, Start, Poll, NextSignal, EndTick, Mark, ClaimTask, ClaimNone,
                EndAgentTick, BuildFails, SendPost, ReceiveReply, Settle, Recover, CheckActive,
                CountOpen, EndConsensusCheck, Gather, StoreReport, Finish
        <3> QED
            BY <2>2, <2>3, <3>1, <3>2 DEF TypeOK, RuntimeTypeOK
    <2>5. CASE Failure(p)
        BY <2>2, <2>3, <2>5, FailureLocal DEF TypeOK, RuntimeTypeOK
    <2> QED
        BY <2>1, <2>4, <2>5
<1>3. CASE UNCHANGED vars
    BY <1>3 DEF vars, tables, network, apiVars, runtimeVars, TypeOK, StoreTypeOK, ApiTypeOK,
                RuntimeTypeOK
<1> QED
    BY <1>1, <1>2, <1>3 DEF Next

\* Every reachable state is well typed, for any number of agents, requests and
\* runtimes: in particular a runtime holds a task exactly while it works on it,
\* and no step reads a local variable of another handler.
THEOREM TypeCorrect == Spec => []TypeOK
BY InitType, StepType, PTL DEF Spec
=============================================================================
