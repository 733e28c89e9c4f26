--------------------------- MODULE ConsensusProofs ---------------------------
(***************************************************************************)
(* What an investigation guarantees when it appears (last part) and when   *)
(* it is complete, for every number of runtimes, requests and faults.      *)
(* No lock protects the consensus: a runtime counts the open tasks,        *)
(* gathers, writes a report and completes in statements of their own.  The *)
(* proof says why that is enough: what the count saw (no open task, some   *)
(* findings) can never become untrue.                                      *)
(***************************************************************************)
EXTENDS TaskQueueProofs

USE DEF AgentIds, Nil, SignalIds, At, Become, Goto, Fault, Abort, OrchRecord, HandlingTask,
        HandlingInv

Exists(i) == inv[i].status # "none"

\* Why each investigation that somebody has read exists.
KnownExist ==
    /\ \A i \in Invs : Exists(i) => Committed(i)
    /\ \A p \in Orchs : \A i \in orch[p].agenda : Exists(i)
    /\ \A c \in Handlers : trigger[c] # Nil => Exists(trigger[c])

\* What the runtime p knows of the investigation it runs the consensus for.
Grounds(p) ==
    LET i == orch[p].inv IN
    /\ i \in Invs /\ Exists(i) /\ OpenTasks(i) = {}
    /\ orch[p].pc # "gather" => orch[p].sources # {} /\ orch[p].sources \subseteq FindingsOf(i)
    /\ orch[p].pc = "finish" => inv[i].report # {}

ConsensusInv ==
    /\ QueueInv
    /\ KnownExist
    /\ \A p \in Orchs : orch[p].inv # 0 => Grounds(p)
    /\ CompleteOnlyWhenSettled
    /\ ReportGrounded

-----------------------------------------------------------------------------
(* What a step does to the investigations and to what is known of them.    *)

StatusStep ==
    \A i \in Invs :
        \/ inv'[i].status = inv[i].status
        \/ inv'[i].status = "in_progress" /\ tx'[i].pc = "committed"
        \/ inv'[i].status = "consensus" /\ \E c \in Handlers : trigger[c] = i
        \/ inv'[i].status = "complete" /\ \E p \in Orchs : At(p, "finish") /\ orch[p].inv = i

ReportStep ==
    \A i \in Invs :
        \/ inv'[i].report = inv[i].report
        \/ \E p \in Orchs : /\ At(p, "store") /\ orch[p].inv = i
                            /\ inv'[i].report = orch[p].sources

TriggerStep ==
    \A c \in Handlers :
        trigger'[c] = Nil \/ trigger'[c] = trigger[c] \/ Exists(trigger'[c])

MessageStep == messages \subseteq messages'

\* q drops its investigation, keeps it, or takes a step of _run_consensus.
LocalStep(q) ==
    /\ orch'[q].agenda \subseteq orch[q].agenda \cup ActiveInvs
    /\ \/ orch'[q].inv = 0
       \/ /\ orch'[q].inv = orch[q].inv
          /\ \/ orch'[q].pc = orch[q].pc /\ orch'[q].sources = orch[q].sources
             \/ /\ orch'[q].pc = "store" /\ FindingsOf(orch[q].inv) # {}
                /\ orch'[q].sources = FindingsOf(orch[q].inv)
             \/ /\ orch[q].pc = "store" /\ orch'[q].pc = "finish"
                /\ orch'[q].sources = orch[q].sources
                /\ inv' = [inv EXCEPT ![orch[q].inv].report = orch[q].sources]
       \/ /\ orch'[q].inv \in orch[q].agenda /\ OpenTasks(orch'[q].inv) = {}
          /\ orch'[q].pc = "gather"

ConsensusStep ==
    /\ StatusStep /\ ReportStep /\ TriggerStep /\ MessageStep
    /\ \A q \in Orchs : LocalStep(q)

-----------------------------------------------------------------------------
(* The steps of the API.                                                   *)

LEMMA NoRuntimeStep ==
    ASSUME UNCHANGED orch
    PROVE  \A q \in Orchs : LocalStep(q)
BY DEF LocalStep

LEMMA InsertStep ==
    ASSUME NEW id, NEW content, NEW parent, InsertMessage(id, content, parent)
    PROVE  MessageStep
BY DEF InsertMessage, MessageStep

LEMMA ApiConsensus ==
    ASSUME TypeOK, ApiNext, UNCHANGED runtimeVars
    PROVE  ConsensusStep
<1> USE DEF tables, network, apiVars, runtimeVars
<1>0. /\ inv \in [Invs -> InvRow]
      /\ tx \in [Invs -> [pc : {"none", "open", "committed", "rolled_back"},
                          types : Seq(TaskTypes), rows : Seq(AgentIds)]]
      /\ trigger \in [Handlers -> Invs \cup {Nil}]
      /\ \A q \in Orchs : LocalStep(q)
    BY NoRuntimeStep DEF TypeOK, StoreTypeOK, ApiTypeOK
<1>1. CASE UNCHANGED <<inv, messages, trigger>>
    BY <1>0, <1>1 DEF ConsensusStep, StatusStep, ReportStep, TriggerStep, MessageStep
<1>2. CASE \E i \in Invs : CommitCreate(i)
    <2>1. PICK i \in Invs : CommitCreate(i)
        BY <1>2
    <2>2. StatusStep /\ ReportStep
        BY <1>0, <2>1 DEF CommitCreate, SetStatus, InvRow, StatusStep, ReportStep
    <2>3. TriggerStep /\ MessageStep
        BY <2>1 DEF CommitCreate, TriggerStep, MessageStep
    <2> QED
        BY <1>0, <2>2, <2>3 DEF ConsensusStep
<1>3. CASE \E c \in Handlers, i \in Invs : TriggerCheck(c, i)
    <2>1. StatusStep /\ ReportStep /\ MessageStep
        BY <1>3 DEF TriggerCheck, StatusStep, ReportStep, MessageStep
    <2>2. TriggerStep
        BY <1>0, <1>3 DEF TriggerCheck, TriggerStep, Exists
    <2> QED
        BY <1>0, <2>1, <2>2 DEF ConsensusStep
<1>4. CASE \E c \in Handlers : TriggerWrite(c)
    <2>1. PICK c \in Handlers : TriggerWrite(c)
        BY <1>4
    <2>2. StatusStep /\ ReportStep
        BY <1>0, <2>1 DEF TriggerWrite, SetStatus, InvRow, StatusStep, ReportStep
    <2>3. TriggerStep /\ MessageStep
        BY <1>0, <2>1 DEF TriggerWrite, TriggerStep, MessageStep
    <2> QED
        BY <1>0, <2>2, <2>3 DEF ConsensusStep
<1>5. CASE UNCHANGED <<inv, trigger>> /\ MessageStep
    BY <1>0, <1>5 DEF ConsensusStep, StatusStep, ReportStep, TriggerStep
<1>6. CASE \/ CreateMessage \/ \E parent \in RowIds : RespondToMessage(parent)
           \/ \E t \in TaskIds : AcceptPost(t)
           \/ \E i \in Seeds : OperatorSeed(i)
    <2>1. MessageStep
        <3>1. CASE CreateMessage
            BY <3>1, InsertStep DEF CreateMessage
        <3>2. CASE \E parent \in RowIds : RespondToMessage(parent)
            BY <3>2, InsertStep DEF RespondToMessage
        <3>3. CASE \E t \in TaskIds : AcceptPost(t)
            BY <3>3, InsertStep DEF AcceptPost
        <3>4. CASE \E i \in Seeds : OperatorSeed(i)
            BY <3>4, InsertStep DEF OperatorSeed
        <3> QED
            BY <1>6, <3>1, <3>2, <3>3, <3>4
    <2>2. UNCHANGED <<inv, trigger>>
        BY <1>6 DEF CreateMessage, RespondToMessage, AcceptPost, OperatorSeed
    <2> QED
        BY <1>5, <2>1, <2>2
<1> QED
    BY <1>1, <1>2, <1>3, <1>4, <1>6 DEF ApiNext, CreateAgent, UpdateAgent, SetAllActive,
        ControlTick, BeginCreate, InsertTask, RollbackCreate, RefusePost, OperatorSignal

-----------------------------------------------------------------------------
(* The steps of a runtime.                                                 *)

\* q runs no consensus, or leaves what it knows of it alone.
Unconcerned(q) ==
    /\ orch'[q].agenda \subseteq orch[q].agenda
    /\ \/ orch'[q].inv = 0
       \/ /\ orch'[q].inv = orch[q].inv /\ orch'[q].pc = orch[q].pc
          /\ orch'[q].sources = orch[q].sources

LEMMA FreshUnconcerned ==
    ASSUME orch \in [Orchs -> OrchRecord], NEW p \in Orchs, NEW pc, Become(p, Fresh(pc))
    PROVE  \A q \in Orchs : Unconcerned(q)
BY DEF Fresh, Unconcerned

\* The steps outside _run_consensus.
LEMMA ElsewhereLocal ==
    ASSUME TypeOK, NEW p \in Orchs, Progress(p) \/ Failure(p), ~CheckActive(p), ~CountOpen(p),
           ~Gather(p), ~StoreReport(p)
    PROVE  \A q \in Orchs : Unconcerned(q)
<1>0. orch \in [Orchs -> OrchRecord] /\ orch[p] \in OrchState
    BY DEF TypeOK, RuntimeTypeOK, OrchState
<1>1. CASE \E pc \in {"idle", "down"} : Become(p, Fresh(pc))
    BY <1>0, <1>1, FreshUnconcerned
<1>2. CASE NextInv(p)
    BY <1>0, <1>2 DEF NextInv, Unconcerned
<1>3. ASSUME orch[p].pc \notin HandlingInv,
             \/ \E pc \in {"idle", "mark", "await", "settle"} : Goto(p, pc)
             \/ Poll(p) \/ NextSignal(p) \/ Mark(p) \/ ClaimNone(p) \/ ReceiveReply(p)
             \/ NextType(p) \/ SettleRaises(p) \/ \E t \in TaskIds : ClaimTask(p, t)
      PROVE  \A q \in Orchs : Unconcerned(q)
    <2>1. orch[p].inv = 0
        BY <1>0, <1>3 DEF OrchState
    <2>2. CASE \E pc \in {"idle", "mark", "await", "settle"} : Goto(p, pc)
        BY <1>0, <2>1, <2>2 DEF Unconcerned
    <2>3. CASE Poll(p) \/ Mark(p) \/ ClaimNone(p)
        <3>1. CASE Poll(p)
            BY <1>0, <2>1, <3>1 DEF Unconcerned, Poll
        <3>2. CASE Mark(p)
            BY <1>0, <2>1, <3>2 DEF Unconcerned, Mark
        <3>3. CASE ClaimNone(p)
            BY <1>0, <2>1, <3>3 DEF Unconcerned, ClaimNone
        <3> QED
            BY <2>3, <3>1, <3>2, <3>3
    <2>4. CASE NextSignal(p)
        <3>1. PICK pc, s : Become(p, [orch[p] EXCEPT !.pc = pc, !.signal = s,
                                                     !.batch = @ \ {s}, !.todo = 1])
            BY <2>4 DEF NextSignal
        <3>2. /\ orch'[p].agenda = orch[p].agenda /\ orch'[p].inv = 0
              /\ \A q \in Orchs \ {p} : orch'[q] = orch[q]
            BY <1>0, <2>1, <3>1
        <3> QED
            BY <3>2 DEF Unconcerned
    <2>5. CASE ReceiveReply(p)
        BY <1>0, <2>1, <2>5 DEF Unconcerned, ReceiveReply
    <2>6. CASE NextType(p)
        BY <1>0, <2>1, <2>6 DEF Unconcerned, NextType
    <2>7. CASE SettleRaises(p)
        BY <1>0, <2>1, <2>7 DEF Unconcerned, SettleRaises
    <2>8. CASE \E t \in TaskIds : ClaimTask(p, t)
        BY <1>0, <2>1, <2>8 DEF Unconcerned, ClaimTask
    <2> QED
        BY <1>3, <2>2, <2>3, <2>4, <2>5, <2>6, <2>7, <2>8
<1>4. ASSUME NEW r \in Orchs, NEW l \in TaskIds, ClaimSkipsLocked(p, r, l)
      PROVE  \A q \in Orchs : Unconcerned(q)
    <2>1. PICK pc : LET o == orch[p] IN
            \/ orch' = [orch EXCEPT ![p] = [o EXCEPT !.todo = @ + 1], ![r] = Fresh(pc)]
            \/ \E t : orch' = [orch EXCEPT ![p] = [o EXCEPT !.pc = "run", !.job = t],
                                          ![r] = Fresh(pc)]
        BY <1>4 DEF ClaimSkipsLocked
    <2>2. orch[p].inv = 0 /\ p # r
        BY <1>0, <1>4 DEF ClaimSkipsLocked, OrchState
    <2>3. /\ orch'[p].agenda = orch[p].agenda /\ orch'[p].inv = orch[p].inv
          /\ orch'[r].agenda = {} /\ orch'[r].inv = 0
          /\ \A q \in Orchs \ {p, r} : orch'[q] = orch[q]
        <3>1. PICK rec : /\ orch' = [orch EXCEPT ![p] = rec, ![r] = Fresh(pc)]
                         /\ rec.agenda = orch[p].agenda /\ rec.inv = orch[p].inv
            <4>1. CASE orch' = [orch EXCEPT ![p] = [orch[p] EXCEPT !.todo = @ + 1],
                                            ![r] = Fresh(pc)]
                <5>1. LET rec == [orch[p] EXCEPT !.todo = @ + 1] IN
                        rec.agenda = orch[p].agenda /\ rec.inv = orch[p].inv
                    BY <1>0
                <5> QED
                    BY <4>1, <5>1
            <4>2. ASSUME NEW t,
                         orch' = [orch EXCEPT ![p] = [orch[p] EXCEPT !.pc = "run", !.job = t],
                                              ![r] = Fresh(pc)]
                  PROVE  \E rec : /\ orch' = [orch EXCEPT ![p] = rec, ![r] = Fresh(pc)]
                                  /\ rec.agenda = orch[p].agenda /\ rec.inv = orch[p].inv
                <5>1. LET rec == [orch[p] EXCEPT !.pc = "run", !.job = t] IN
                        rec.agenda = orch[p].agenda /\ rec.inv = orch[p].inv
                    BY <1>0
                <5> QED
                    BY <4>2, <5>1
            <4> QED
                BY <2>1, <4>1, <4>2
        <3> QED
            BY <1>0, <2>2, <3>1 DEF Fresh
    <2>4. Unconcerned(p) /\ Unconcerned(r)
        BY <2>2, <2>3 DEF Unconcerned
    <2>5. \A q \in Orchs \ {p, r} : Unconcerned(q)
        BY <2>3 DEF Unconcerned
    <2> QED
        BY <2>4, <2>5
<1> QED
    <2>1. CASE Progress(p)
        BY <2>1, <1>1, <1>2, <1>3 DEF Progress, Start, EndTick, EndAgentTick, BuildFails,
            SendPost, EndConsensusCheck, Finish, Settle, Recover, Poll, NextSignal, Mark,
            ClaimTask, Claim, ClaimNone, ReceiveReply
    <2>2. CASE Failure(p)
        BY <2>2, <1>1, <1>2, <1>3, <1>4 DEF Failure, ClaimAckLost, MarkAckLost, ResearchFails,
            PostTimesOut, RecoverRaises, SettleRaises, ConsensusRaises, StatementRaises, Crash
    <2> QED
        BY <2>1, <2>2

LEMMA RuntimeLocal ==
    ASSUME TypeOK, NEW p \in Orchs, Progress(p) \/ Failure(p)
    PROVE  \A q \in Orchs : LocalStep(q)
<1>0. orch \in [Orchs -> OrchRecord] /\ orch[p] \in OrchState
    BY DEF TypeOK, RuntimeTypeOK, OrchState
<1>1. CASE CheckActive(p)
    <2>1. orch[p].inv = 0
        BY <1>0, <1>1 DEF CheckActive, OrchState
    <2> QED
        BY <1>0, <1>1, <2>1 DEF CheckActive, LocalStep
<1>2. CASE CountOpen(p)
    <2>1. PICK i \in orch[p].agenda :
            \/ /\ OpenTasks(i) = {}
               /\ orch' = [orch EXCEPT ![p] = [orch[p] EXCEPT !.pc = "gather",
                                                              !.agenda = @ \ {i}, !.inv = i]]
            \/ orch' = [orch EXCEPT ![p] = [orch[p] EXCEPT !.agenda = @ \ {i}]]
        BY <1>2 DEF CountOpen
    <2>2. \A q \in Orchs \ {p} : orch'[q] = orch[q]
        BY <1>0, <2>1
    <2>3. \/ /\ OpenTasks(i) = {} /\ orch'[p].pc = "gather" /\ orch'[p].inv = i
             /\ orch'[p].agenda = orch[p].agenda \ {i}
          \/ /\ orch'[p].agenda = orch[p].agenda \ {i} /\ orch'[p].inv = orch[p].inv
             /\ orch'[p].pc = orch[p].pc /\ orch'[p].sources = orch[p].sources
        <3>1. CASE OpenTasks(i) = {} /\ orch' = [orch EXCEPT ![p] =
                        [orch[p] EXCEPT !.pc = "gather", !.agenda = @ \ {i}, !.inv = i]]
            BY <1>0, <3>1
        <3>2. CASE orch' = [orch EXCEPT ![p] = [orch[p] EXCEPT !.agenda = @ \ {i}]]
            BY <1>0, <3>2
        <3> QED
            BY <2>1, <3>1, <3>2
    <2>4. LocalStep(p)
        BY <2>3 DEF LocalStep
    <2> QED
        BY <2>2, <2>4 DEF LocalStep
<1>3. CASE Gather(p)
    <2>1. CASE NextInv(p)
        BY <1>0, <2>1 DEF NextInv, LocalStep
    <2>2. CASE /\ FindingsOf(orch[p].inv) # {}
               /\ Become(p, [orch[p] EXCEPT !.pc = "store", !.sources = FindingsOf(orch[p].inv)])
        BY <1>0, <2>2 DEF LocalStep
    <2> QED
        BY <1>3, <2>1, <2>2 DEF Gather
<1>4. CASE StoreReport(p)
    BY <1>0, <1>4 DEF StoreReport, SetReport, LocalStep
<1>5. (\A q \in Orchs : Unconcerned(q)) => \A q \in Orchs : LocalStep(q)
    BY DEF Unconcerned, LocalStep
<1> QED
    BY <1>1, <1>2, <1>3, <1>4, <1>5, ElsewhereLocal

LEMMA RuntimeConsensus ==
    ASSUME TypeOK, NEW p \in Orchs, Progress(p) \/ Failure(p), UNCHANGED apiVars
    PROVE  ConsensusStep
<1> USE DEF tables, network, apiVars
<1>0. inv \in [Invs -> InvRow] /\ orch[p] \in OrchState
    BY DEF TypeOK, StoreTypeOK, RuntimeTypeOK
<1>1. /\ UNCHANGED messages
      /\ \/ UNCHANGED inv
         \/ At(p, "store") /\ SetReport(orch[p].inv, orch[p].sources)
         \/ At(p, "finish") /\ SetStatus(orch[p].inv, "complete")
    <2>1. CASE Progress(p)
        BY <2>1 DEF Progress, Start, Poll, NextSignal, EndTick, Mark, ClaimTask, ClaimNone,
            EndAgentTick, BuildFails, SendPost, ReceiveReply, Settle, Recover, CheckActive,
            CountOpen, EndConsensusCheck, Gather, StoreReport, Finish
    <2>2. CASE Failure(p)
        BY <2>2 DEF Failure, ClaimAckLost, ClaimSkipsLocked, MarkAckLost, ResearchFails,
            PostTimesOut, SettleRaises, RecoverRaises, ConsensusRaises, StatementRaises, Crash
    <2> QED
        BY <2>1, <2>2
<1>2. StatusStep /\ ReportStep
    BY <1>0, <1>1 DEF SetReport, SetStatus, InvRow, OrchState, StatusStep, ReportStep
<1>3. TriggerStep /\ MessageStep
    BY <1>1 DEF TriggerStep, MessageStep
<1> QED
    BY <1>2, <1>3, RuntimeLocal DEF ConsensusStep

-----------------------------------------------------------------------------
(* The inductive invariant.                                                *)

LEMMA ConsensusInit == Init => ConsensusInv
BY QueueInit DEF Init, StoreInit, ApiInit, RuntimeInit, Fresh, ConsensusInv, KnownExist,
    Exists, CompleteOnlyWhenSettled, ReportGrounded

LEMMA StaysCommitted ==
    ASSUME TypeOK, [Next]_vars, NEW i \in Invs, Committed(i)
    PROVE  Committed(i)'
BY Kinds DEF Quiet, Releases, Takes, Settles, Fails, Committed

\* What count_pending_tasks found stays true: tasks of a visible investigation
\* only leave the open states.
LEMMA StaysSettled ==
    ASSUME QueueInv, [Next]_vars, NEW i \in Invs, Committed(i), OpenTasks(i) = {}
    PROVE  OpenTasks(i)' = {}
<1>1. SUFFICES ASSUME NEW t \in TaskIds, t[1] = i, task'[t].status \in {"pending", "running"}
               PROVE  FALSE
    BY DEF OpenTasks
<1>2. task[t].status \notin {"pending", "running"}
    BY <1>1 DEF OpenTasks
<1>3. TypeOK
    BY DEF QueueInv
<1>4. CASE Quiet
    BY <1>1, <1>2, <1>4 DEF Quiet, Put
<1>5. CASE Releases
    BY <1>1, <1>2, <1>5 DEF Releases, Put, Committed
<1>6. ASSUME NEW p \in Orchs, Takes(p) PROVE FALSE
    BY <1>1, <1>2, <1>6 DEF Takes, Put
<1>7. ASSUME NEW p \in Orchs, Settles(p) \/ Fails(p) PROVE FALSE
    BY <1>1, <1>2, <1>7 DEF Settles, Fails, Put
<1> QED
    BY <1>3, <1>4, <1>5, <1>6, <1>7, Kinds

LEMMA FindingsGrow ==
    ASSUME MessageStep, NEW i
    PROVE  FindingsOf(i) \subseteq FindingsOf(i)'
BY DEF MessageStep, FindingsOf

LEMMA ConsensusKinds ==
    ASSUME TypeOK, [Next]_vars
    PROVE  ConsensusStep
<1>1. CASE ApiNext /\ UNCHANGED runtimeVars
    BY <1>1, ApiConsensus
<1>2. CASE RuntimeNext /\ UNCHANGED apiVars
    BY <1>2, RuntimeConsensus DEF RuntimeNext
<1>3. CASE UNCHANGED vars
    BY <1>3 DEF vars, tables, network, apiVars, runtimeVars, ConsensusStep, StatusStep,
        ReportStep, TriggerStep, MessageStep, LocalStep
<1> QED
    BY <1>1, <1>2, <1>3 DEF Next

LEMMA StaysExisting ==
    ASSUME StatusStep, NEW i \in Invs, Exists(i)
    PROVE  Exists(i)'
BY DEF StatusStep, Exists

LEMMA ConsensusInduction ==
    ASSUME ConsensusInv, [Next]_vars
    PROVE  ConsensusInv'
<1> USE DEF ConsensusInv
<1>a. QueueInv /\ TypeOK /\ TypeOK' /\ ConsensusStep
    BY StepType, ConsensusKinds DEF QueueInv
<1>b. \A p \in Orchs : /\ orch[p] \in OrchState /\ orch'[p] \in OrchState
                       /\ orch[p].agenda \subseteq Invs /\ orch'[p].agenda \subseteq Invs
    BY <1>a DEF TypeOK, RuntimeTypeOK, OrchState
<1>c. /\ trigger \in [Handlers -> Invs \cup {Nil}] /\ trigger' \in [Handlers -> Invs \cup {Nil}]
      /\ inv \in [Invs -> InvRow] /\ Nil \notin Invs
    BY <1>a DEF TypeOK, StoreTypeOK, ApiTypeOK, Invs
<1>0. /\ QueueInv /\ TypeOK
      /\ StatusStep /\ ReportStep /\ TriggerStep /\ MessageStep
      /\ \A p \in Orchs : LocalStep(p)
    BY <1>a DEF ConsensusStep
<1>1. QueueInv'
    BY <1>a, Kinds, QueueStep
<1>2. KnownExist'
    <2>1. ASSUME NEW i \in Invs, Exists(i)' PROVE Committed(i)'
        <3>1. CASE Exists(i)
            BY <1>0, <3>1, StaysCommitted DEF KnownExist
        <3>2. CASE ~Exists(i)
            BY <1>0, <1>c, <2>1, <3>2 DEF StatusStep, Exists, Committed, KnownExist, Grounds
        <3> QED
            BY <3>1, <3>2
    <2>2. ASSUME NEW p \in Orchs, NEW i \in orch'[p].agenda PROVE Exists(i)'
        <3>1. i \in Invs /\ (i \in orch[p].agenda \/ i \in ActiveInvs)
            BY <1>0, <1>b DEF LocalStep, ActiveInvs
        <3>2. Exists(i)
            BY <3>1 DEF KnownExist, ActiveInvs, Exists
        <3> QED
            BY <1>0, <3>1, <3>2, StaysExisting
    <2>3. ASSUME NEW c \in Handlers, trigger'[c] # Nil PROVE inv'[trigger'[c]].status # "none"
        <3>1. PICK i \in Invs : i = trigger'[c]
            BY <1>c, <2>3
        <3>2. Exists(i)
            BY <1>0, <1>c, <2>3, <3>1 DEF TriggerStep, KnownExist
        <3> QED
            BY <1>0, <3>1, <3>2, StaysExisting DEF Exists
    <2> QED
        BY <2>1, <2>2, <2>3 DEF KnownExist, Exists
<1>3. ASSUME NEW i \in Invs, inv[i].report # {} PROVE inv'[i].report # {}
    BY <1>0, <1>3 DEF ReportStep, Grounds, Invs
<1>4. ASSUME NEW p \in Orchs, orch'[p].inv # 0 PROVE Grounds(p)'
    <2>0. PICK i : i = orch'[p].inv
        OBVIOUS
    <2>1. LocalStep(p)
        BY <1>0
    <2>2. i \in Invs /\ Exists(i) /\ OpenTasks(i) = {}
        <3>1. CASE i = orch[p].inv
            BY <1>4, <2>0, <3>1 DEF Grounds
        <3>2. CASE i \in orch[p].agenda /\ OpenTasks(i) = {}
            BY <1>b, <3>2 DEF KnownExist
        <3> QED
            BY <1>4, <2>0, <2>1, <3>1, <3>2 DEF LocalStep
    <2>3. Exists(i)' /\ OpenTasks(i)' = {}
        BY <1>0, <2>2, StaysExisting, StaysSettled DEF KnownExist
    <2>4. orch'[p].pc # "gather" => /\ orch'[p].sources # {}
                                    /\ orch'[p].sources \subseteq FindingsOf(i)
        BY <1>4, <1>b, <2>0, <2>1 DEF LocalStep, Grounds, OrchState
    <2>5. orch'[p].pc = "finish" => inv'[i].report # {}
        <3>1. CASE orch[p].pc = "finish" /\ i = orch[p].inv
            BY <1>3, <1>4, <2>0, <2>2, <3>1 DEF Grounds
        <3>2. CASE orch[p].pc = "store" /\ i = orch[p].inv
                   /\ inv' = [inv EXCEPT ![orch[p].inv].report = orch[p].sources]
            <4>1. orch[p].sources # {}
                BY <1>4, <2>0, <3>2 DEF Grounds
            <4> QED
                BY <1>c, <2>2, <3>2, <4>1 DEF InvRow
        <3> QED
            BY <1>4, <2>0, <2>1, <3>1, <3>2 DEF LocalStep
    <2> QED
        <3>1. FindingsOf(i) \subseteq FindingsOf(i)'
            BY <1>0, FindingsGrow
        <3>2. orch'[p].pc # "gather" => /\ orch'[p].sources # {}
                                        /\ orch'[p].sources \subseteq FindingsOf(i)'
            BY <2>4, <3>1
        <3> QED
            BY <2>0, <2>2, <2>3, <2>5, <3>2 DEF Grounds, Exists, OpenTasks, FindingsOf
<1>5. CompleteOnlyWhenSettled'
    <2>1. SUFFICES ASSUME NEW t \in TaskIds, inv'[t[1]].status = "complete"
                   PROVE  OpenTasks(t[1])' = {}
        BY DEF CompleteOnlyWhenSettled, OpenTasks
    <2>2. t[1] \in Invs
        BY DEF TaskIds
    <2>3. Exists(t[1]) /\ OpenTasks(t[1]) = {}
        <3>1. CASE inv[t[1]].status = "complete"
            BY <2>2, <3>1 DEF CompleteOnlyWhenSettled, OpenTasks, Exists
        <3>2. CASE \E p \in Orchs : At(p, "finish") /\ orch[p].inv = t[1]
            BY <1>0, <2>2, <3>2 DEF Grounds, Invs
        <3> QED
            BY <1>0, <2>1, <2>2, <3>1, <3>2 DEF StatusStep
    <2> QED
        BY <1>0, <2>2, <2>3, StaysSettled DEF KnownExist
<1>6. ReportGrounded'
    <2>1. ASSUME NEW i \in Invs PROVE inv'[i].report \subseteq FindingsOf(i)'
        <3>1. inv'[i].report \subseteq FindingsOf(i)
            BY <1>0 DEF ReportStep, ReportGrounded, Grounds, Invs
        <3> QED
            BY <1>0, <3>1, FindingsGrow
    <2>2. ASSUME NEW i \in Invs, inv'[i].status = "complete" PROVE inv'[i].report # {}
        <3>1. inv[i].report # {}
            BY <1>0, <2>2 DEF StatusStep, ReportGrounded, Grounds, Invs
        <3> QED
            BY <1>3, <3>1
    <2> QED
        BY <2>1, <2>2 DEF ReportGrounded
<1> QED
    BY <1>1, <1>2, <1>4, <1>5, <1>6

LEMMA ConsensusCorrect == Spec => []ConsensusInv
BY ConsensusInit, ConsensusInduction, PTL DEF Spec

\* An investigation that is complete has no task that may still produce a
\* finding, with any number of runtimes that count, write, crash and lose
\* acknowledgements without a lock.
THEOREM CompletionSettled == Spec => []CompleteOnlyWhenSettled
BY ConsensusCorrect, PTL DEF ConsensusInv

\* A report names findings of its own investigation only, and no
\* investigation is complete without one.
THEOREM ReportsGrounded == Spec => []ReportGrounded
BY ConsensusCorrect, PTL DEF ConsensusInv

-----------------------------------------------------------------------------
(* CreateInvestigation, for every number of agents, tasks and requests: the *)
(* loop of statements in a READ COMMITTED transaction shows an              *)
(* investigation whole or not at all, while agents come, pause and resume.  *)

\* agents are never deleted, so the agent that a round of the loop has found
\* still exists at the commit.
RowsAssigned ==
    \A i \in Invs : \A k \in DOMAIN tx[i].rows : tx[i].rows[k] \in DOMAIN active

Unborn(t) == task[t].status = "none"

\* ReleasedWhole, task by task.
Whole(i) ==
    /\ ~Exists(i) => \A t \in TaskIds : t[1] = i => Unborn(t)
    /\ Exists(i) =>
        /\ Committed(i)
        /\ DOMAIN tx[i].types \subseteq 1 .. MaxTasks
        /\ \A t \in TaskIds : t[1] = i =>
            IF t[2] \in DOMAIN tx[i].types
            THEN /\ ~Unborn(t)
                 /\ task[t].agent \in DOMAIN active /\ task[t].type = tx[i].types[t[2]]
            ELSE Unborn(t)

ReleaseInv == ConsensusInv /\ RowsAssigned /\ \A i \in Invs : Whole(i)

-----------------------------------------------------------------------------
(* What a step that is not a commit does.                                  *)

Commits == \E i \in Invs : CommitCreate(i)

\* Rows are never deleted and keep what the commit has written.
RowsKept ==
    /\ \A i \in Invs : Committed(i) => tx'[i] = tx[i]
    /\ \A i \in Invs : inv'[i].status # "none" => Exists(i)
    /\ \A t \in TaskIds : /\ Unborn(t) <=> task'[t].status = "none"
                          /\ task'[t].agent = task[t].agent /\ task'[t].type = task[t].type

LEMMA TxKept ==
    ASSUME TypeOK, [Next]_vars, ~Commits, NEW i \in Invs, Committed(i)
    PROVE  tx'[i] = tx[i]
<1>1. CASE \E j \in Invs : \/ \E request \in Requests : BeginCreate(j, request)
                           \/ \E a \in AgentIds : InsertTask(j, a)
                           \/ RollbackCreate(j)
    <2>1. PICK j \in Invs : tx[j].pc # "committed" /\ \E r : tx' = [tx EXCEPT ![j] = r]
        BY <1>1 DEF BeginCreate, InsertTask, RollbackCreate
    <2> QED
        BY <2>1 DEF Committed
<1>2. CASE UNCHANGED tx
    BY <1>2
<1>3. UNCHANGED tx \/ ApiNext
    BY DEF Next, vars, apiVars
<1> QED
    BY <1>1, <1>2, <1>3 DEF Commits, ApiNext, CreateAgent, UpdateAgent, SetAllActive, ControlTick,
        TriggerCheck, TriggerWrite, CreateMessage, RespondToMessage, AcceptPost, RefusePost,
        OperatorSignal, OperatorSeed, apiVars

LEMMA TaskKept ==
    ASSUME TypeOK, NEW t \in TaskIds, NEW status, NEW result, SetTask(t, status, result),
           status # "none", ~Unborn(t)
    PROVE  \A u \in TaskIds : /\ Unborn(u) <=> task'[u].status = "none"
                              /\ task'[u].agent = task[u].agent /\ task'[u].type = task[u].type
BY DEF SetTask, TypeOK, StoreTypeOK, TaskRow, Unborn

LEMMA TasksKept ==
    ASSUME QueueInv, [Next]_vars, ~Commits
    PROVE  \A u \in TaskIds : /\ Unborn(u) <=> task'[u].status = "none"
                              /\ task'[u].agent = task[u].agent /\ task'[u].type = task[u].type
<1>0. TypeOK
    BY DEF QueueInv
<1>1. CASE UNCHANGED task
    BY <1>1 DEF Unborn
<1>2. CASE \E t \in TaskIds : /\ ~Unborn(t)
                              /\ \E status, result : SetTask(t, status, result) /\ status # "none"
    BY <1>0, <1>2, TaskKept
<1>3. CASE ApiNext
    <2>1. UNCHANGED task
        BY <1>3 DEF Commits, ApiNext, CreateAgent, UpdateAgent, SetAllActive, ControlTick,
            BeginCreate, InsertTask, RollbackCreate, TriggerCheck, TriggerWrite, CreateMessage,
            RespondToMessage, AcceptPost, RefusePost, OperatorSignal, OperatorSeed, tables
    <2> QED
        BY <1>1, <2>1
<1>4. ASSUME NEW p \in Orchs, Progress(p) \/ Failure(p)
      PROVE  \/ UNCHANGED task
             \/ \E t \in TaskIds : /\ ~Unborn(t)
                                   /\ \E status, result :
                                        SetTask(t, status, result) /\ status # "none"
    <2>1. orch[p].pc \in {"settle", "recover"} => orch[p].job \in TaskIds /\ ~Unborn(orch[p].job)
        BY <1>0 DEF QueueInv, Holding, TypeOK, RuntimeTypeOK, OrchState, Unborn
    <2>2. ASSUME NEW t \in TaskIds, Claim(p, t)
          PROVE  ~Unborn(t) /\ SetTask(t, "running", task[t].result)
        BY <2>2 DEF Claim, Oldest, Candidates, Claimable, Unborn
    <2>3. CASE \E t \in TaskIds : ClaimTask(p, t) \/ ClaimAckLost(p, t)
        BY <2>2, <2>3 DEF ClaimTask, ClaimAckLost
    <2>4. CASE \E q \in Orchs, l \in TaskIds : ClaimSkipsLocked(p, q, l)
        <3>1. \/ UNCHANGED task
              \/ \E t \in Candidates(p) : SetTask(t, "running", task[t].result)
            BY <2>4 DEF ClaimSkipsLocked, Oldest
        <3>2. \A t \in Candidates(p) : t \in TaskIds /\ ~Unborn(t)
            BY DEF Candidates, Claimable, Unborn
        <3> QED
            BY <3>1, <3>2
    <2>5. CASE Settle(p) \/ SettleRaises(p)
        BY <2>1, <2>5 DEF Settle, SettleRaises, WriteOutcome
    <2>6. CASE Recover(p) \/ RecoverRaises(p)
        BY <2>1, <2>6 DEF Recover, RecoverRaises
    <2>7. CASE Progress(p)
        BY <2>7, <2>3, <2>5, <2>6 DEF Progress, Start, Poll, NextSignal, EndTick, Mark, ClaimNone,
            EndAgentTick, BuildFails, SendPost, ReceiveReply, CheckActive, CountOpen,
            EndConsensusCheck, Gather, StoreReport, Finish, tables
    <2>8. CASE Failure(p)
        BY <2>8, <2>3, <2>4, <2>5, <2>6 DEF Failure, MarkAckLost, ResearchFails, PostTimesOut,
            ConsensusRaises, StatementRaises, Crash, tables
    <2> QED
        BY <1>4, <2>7, <2>8
<1> QED
    BY <1>1, <1>2, <1>3, <1>4 DEF Next, RuntimeNext, vars, tables

LEMMA ExistKept ==
    ASSUME ConsensusInv, [Next]_vars, ~Commits, NEW i \in Invs, inv'[i].status # "none"
    PROVE  Exists(i)
<1>0. /\ inv \in [Invs -> InvRow] /\ trigger \in [Handlers -> Invs \cup {Nil}] /\ Nil \notin Invs
      /\ TypeOK
    BY DEF ConsensusInv, QueueInv, TypeOK, StoreTypeOK, ApiTypeOK, Invs
<1>1. CASE inv'[i].status = inv[i].status
    BY <1>1 DEF Exists
<1>2. CASE ApiNext
    <2>1. UNCHANGED inv \/ \E c \in Handlers : TriggerWrite(c)
        BY <1>2 DEF Commits, ApiNext, CreateAgent, UpdateAgent, SetAllActive, ControlTick,
            BeginCreate, InsertTask, RollbackCreate, TriggerCheck, CreateMessage,
            RespondToMessage, AcceptPost, RefusePost, OperatorSignal, OperatorSeed, tables
    <2>2. ASSUME NEW c \in Handlers, TriggerWrite(c) PROVE Exists(i)
        <3>1. CASE i = trigger[c]
            BY <2>2, <3>1 DEF TriggerWrite, ConsensusInv, KnownExist
        <3>2. CASE i # trigger[c]
            BY <1>0, <1>1, <2>2, <3>2 DEF TriggerWrite, SetStatus
        <3> QED
            BY <3>1, <3>2
    <2> QED
        BY <1>1, <2>1, <2>2
<1>3. ASSUME NEW p \in Orchs, Progress(p) \/ Failure(p) PROVE Exists(i)
    <2>1. \/ UNCHANGED inv
          \/ SetReport(orch[p].inv, orch[p].sources)
          \/ At(p, "finish") /\ SetStatus(orch[p].inv, "complete")
        <3>1. CASE Progress(p)
            BY <3>1 DEF Progress, Start, Poll, NextSignal, EndTick, Mark, ClaimTask, ClaimNone,
                EndAgentTick, BuildFails, SendPost, ReceiveReply, Settle, Recover, CheckActive,
                CountOpen, EndConsensusCheck, Gather, StoreReport, Finish, tables
        <3>2. CASE Failure(p)
            BY <3>2 DEF Failure, ClaimAckLost, ClaimSkipsLocked, MarkAckLost, ResearchFails,
                PostTimesOut, SettleRaises, RecoverRaises, ConsensusRaises, StatementRaises,
                Crash, tables
        <3> QED
            BY <1>3, <3>1, <3>2
    <2>2. CASE UNCHANGED inv \/ SetReport(orch[p].inv, orch[p].sources)
        <3>1. inv'[i].status = inv[i].status
            BY <1>0, <2>2 DEF SetReport, InvRow
        <3> QED
            BY <1>1, <3>1
    <2>3. CASE At(p, "finish") /\ SetStatus(orch[p].inv, "complete")
        <3>1. CASE i = orch[p].inv
            BY <1>0, <3>1 DEF ConsensusInv, Grounds
        <3>2. CASE i # orch[p].inv
            BY <1>0, <1>1, <2>3, <3>2 DEF SetStatus
        <3> QED
            BY <3>1, <3>2
    <2> QED
        BY <2>1, <2>2, <2>3
<1> QED
    BY <1>1, <1>2, <1>3 DEF Next, RuntimeNext, vars, tables

LEMMA Kept ==
    ASSUME ConsensusInv, [Next]_vars, ~Commits
    PROVE  RowsKept
BY TxKept, TasksKept, ExistKept DEF ConsensusInv, QueueInv, RowsKept

-----------------------------------------------------------------------------
(* Agents.                                                                 *)

LEMMA AgentsRemain ==
    ASSUME TypeOK, [Next]_vars
    PROVE  DOMAIN active \subseteq DOMAIN active'
<1>1. active \in Seq(BOOLEAN)
    BY DEF TypeOK, StoreTypeOK
<1>2. CASE UNCHANGED active
    BY <1>2
<1>3. CASE CreateAgent
    BY <1>1, <1>3 DEF CreateAgent, InsertAgent
<1>4. CASE \/ \E a \in AgentIds, flag \in BOOLEAN : UpdateAgent(a, flag)
           \/ \E flag \in BOOLEAN : SetAllActive(flag)
    BY <1>4 DEF UpdateAgent, SetActive, SetAllActive, SetEveryActive
<1>5. CASE RuntimeNext
    <2>1. PICK p \in Orchs : Progress(p) \/ Failure(p)
        BY <1>5 DEF RuntimeNext
    <2>2. UNCHANGED active
        <3>1. CASE Progress(p)
            BY <3>1 DEF Progress, Start, Poll, NextSignal, EndTick, Mark, ClaimTask, ClaimNone,
                EndAgentTick, BuildFails, SendPost, ReceiveReply, Settle, Recover, CheckActive,
                CountOpen, EndConsensusCheck, Gather, StoreReport, Finish, tables
        <3>2. CASE Failure(p)
            BY <3>2 DEF Failure, ClaimAckLost, ClaimSkipsLocked, MarkAckLost, ResearchFails,
                PostTimesOut, SettleRaises, RecoverRaises, ConsensusRaises, StatementRaises,
                Crash, tables
        <3> QED
            BY <2>1, <3>1, <3>2
    <2> QED
        BY <1>2, <2>2
<1>6. CASE ApiNext
    BY <1>6, <1>2, <1>3, <1>4 DEF ApiNext, ControlTick, BeginCreate, InsertTask, CommitCreate,
        RollbackCreate, TriggerCheck, TriggerWrite, CreateMessage, RespondToMessage, AcceptPost,
        RefusePost, OperatorSignal, OperatorSeed, tables
<1> QED
    BY <1>2, <1>5, <1>6 DEF Next, vars, tables

\* Every round of the loop assigns its task to an agent that exists.
LEMMA RowsAssignedStep ==
    ASSUME TypeOK, RowsAssigned, [Next]_vars
    PROVE  RowsAssigned'
<1>0. /\ tx \in [Invs -> [pc : {"none", "open", "committed", "rolled_back"},
                          types : Seq(TaskTypes), rows : Seq(AgentIds)]]
      /\ DOMAIN active \subseteq DOMAIN active'
    BY AgentsRemain DEF TypeOK, ApiTypeOK
<1>1. CASE \A i \in Invs : tx'[i].rows = tx[i].rows
    BY <1>0, <1>1 DEF RowsAssigned
<1>2. ASSUME NEW j \in Invs, NEW request \in Requests, BeginCreate(j, request)
      PROVE  RowsAssigned'
    <2>1. tx'[j].rows = <<>> /\ \A i \in Invs \ {j} : tx'[i].rows = tx[i].rows
        BY <1>0, <1>2 DEF BeginCreate
    <2> QED
        BY <1>0, <2>1 DEF RowsAssigned
<1>3. ASSUME NEW j \in Invs, NEW a \in AgentIds, InsertTask(j, a) PROVE RowsAssigned'
    <2>1. /\ tx'[j].rows = Append(tx[j].rows, a)
          /\ \A i \in Invs \ {j} : tx'[i].rows = tx[i].rows
        BY <1>0, <1>3 DEF InsertTask
    <2>2. a \in DOMAIN active'
        BY <1>0, <1>3 DEF InsertTask, AssignedTo, ActiveAgents
    <2>3. tx[j].rows \in Seq(AgentIds)
        BY <1>0
    <2>4. \A k \in DOMAIN Append(tx[j].rows, a) :
            \/ Append(tx[j].rows, a)[k] = a
            \/ k \in DOMAIN tx[j].rows /\ Append(tx[j].rows, a)[k] = tx[j].rows[k]
        BY <2>3
    <2> QED
        BY <1>0, <2>1, <2>2, <2>4 DEF RowsAssigned
<1>4. CASE \E i \in Invs : CommitCreate(i) \/ RollbackCreate(i)
    <2>1. PICK j \in Invs : \E pc : tx' = [tx EXCEPT ![j].pc = pc]
        BY <1>4 DEF CommitCreate, RollbackCreate
    <2>2. \A i \in Invs : tx'[i].rows = tx[i].rows
        BY <1>0, <2>1
    <2> QED
        BY <1>1, <2>2
<1>5. CASE UNCHANGED tx
    BY <1>1, <1>5
<1>6. UNCHANGED tx \/ ApiNext
    BY DEF Next, vars, apiVars
<1> QED
    BY <1>2, <1>3, <1>4, <1>5, <1>6 DEF ApiNext, CreateAgent, UpdateAgent, SetAllActive,
        ControlTick, TriggerCheck, TriggerWrite, CreateMessage, RespondToMessage, AcceptPost,
        RefusePost, OperatorSignal, OperatorSeed, apiVars

-----------------------------------------------------------------------------
(* The inductive invariant.                                                *)

LEMMA ReleaseInit == Init => ReleaseInv
<1> SUFFICES ASSUME Init PROVE ReleaseInv
    OBVIOUS
<1>1. RowsAssigned /\ \A i \in Invs : Whole(i)
    BY DEF Init, StoreInit, ApiInit, RowsAssigned, Whole, Exists, Unborn
<1> QED
    BY <1>1, ConsensusInit DEF ReleaseInv

LEMMA CommitStep ==
    ASSUME ReleaseInv, TypeOK, TypeOK', NEW j \in Invs, CommitCreate(j), NEW i \in Invs
    PROVE  Whole(i)'
<1>0. /\ inv \in [Invs -> InvRow] /\ task \in [TaskIds -> TaskRow]
      /\ tx \in [Invs -> [pc : {"none", "open", "committed", "rolled_back"},
                          types : Seq(TaskTypes), rows : Seq(AgentIds)]]
      /\ tx[j].types \in Seq(TaskTypes) /\ tx[j].rows \in Seq(AgentIds)
    BY DEF TypeOK, StoreTypeOK, ApiTypeOK
<1>1. /\ active' = active
      /\ \A t \in TaskIds : task'[t] =
            IF t[1] = j /\ t[2] \in DOMAIN tx[j].rows
            THEN [agent |-> tx[j].rows[t[2]], type |-> tx[j].types[t[2]],
                  status |-> "pending", result |-> Null]
            ELSE task[t]
    BY DEF CommitCreate
<1>2. \A k \in Invs : tx'[k].types = tx[k].types
    BY <1>0 DEF CommitCreate
<1>3. tx'[j].pc = "committed" /\ inv'[j].status = "in_progress"
    BY <1>0 DEF CommitCreate, SetStatus, InvRow
<1>4. \A k \in Invs \ {j} : tx'[k] = tx[k] /\ inv'[k] = inv[k]
    BY <1>0 DEF CommitCreate, SetStatus
<1>5. CASE i # j
    <2>1. tx'[i] = tx[i] /\ inv'[i] = inv[i] /\ active' = active
        BY <1>1, <1>4, <1>5
    <2>2. \A t \in TaskIds : t[1] = i => task'[t] = task[t]
        BY <1>1, <1>5
    <2>3. Whole(i)
        BY DEF ReleaseInv
    <2> QED
        BY <2>1, <2>2, <2>3 DEF Whole, Exists, Committed, Unborn
<1>6. CASE i = j
    <2>1. DOMAIN tx[j].types = DOMAIN tx[j].rows
        BY <1>0 DEF CommitCreate
    <2>2. DOMAIN tx[j].types \subseteq 1 .. MaxTasks
        BY <1>0, BoundsAssumption DEF TypeOK, ApiTypeOK
    <2>3. ~Exists(j)
        BY DEF CommitCreate, ReleaseInv, Whole, Committed
    <2>4. \A t \in TaskIds : t[1] = j => Unborn(t)
        BY <2>3 DEF ReleaseInv, Whole
    <2>5. ASSUME NEW t \in TaskIds, t[1] = j, t[2] \in DOMAIN tx[j].types
          PROVE  /\ task'[t].status = "pending" /\ task'[t].type = tx[j].types[t[2]]
                 /\ task'[t].agent \in DOMAIN active
        <3>1. tx[j].rows[t[2]] \in DOMAIN active
            BY <2>1, <2>5 DEF ReleaseInv, RowsAssigned
        <3>2. task'[t] = [agent |-> tx[j].rows[t[2]], type |-> tx[j].types[t[2]],
                          status |-> "pending", result |-> Null]
            BY <1>1, <2>1, <2>5
        <3> QED
            BY <3>1, <3>2
    <2>6. ASSUME NEW t \in TaskIds, t[1] = j, t[2] \notin DOMAIN tx[j].types
          PROVE  task'[t].status = "none"
        BY <1>1, <2>1, <2>4, <2>6 DEF Unborn
    <2> QED
        BY <1>1, <1>2, <1>3, <1>6, <2>2, <2>5, <2>6 DEF Whole, Exists, Committed, Unborn
<1> QED
    BY <1>5, <1>6

LEMMA ReleaseInduction ==
    ASSUME ReleaseInv, [Next]_vars
    PROVE  ReleaseInv'
<1>0. /\ ConsensusInv /\ QueueInv /\ TypeOK /\ TypeOK' /\ RowsAssigned /\ StatusStep
      /\ DOMAIN active \subseteq DOMAIN active'
    BY StepType, AgentsRemain, ConsensusKinds DEF ReleaseInv, ConsensusInv, QueueInv, ConsensusStep
<1>1. ConsensusInv' /\ RowsAssigned'
    BY <1>0, ConsensusInduction, RowsAssignedStep
<1>2. ASSUME NEW i \in Invs, ~Commits PROVE Whole(i)'
    <2>1. RowsKept
        BY <1>0, <1>2, Kept
    <2>2. CASE Exists(i)
        <3>1. Committed(i) /\ tx'[i] = tx[i] /\ inv'[i].status # "none"
            BY <1>0, <2>1, <2>2, StaysExisting DEF ReleaseInv, Whole, RowsKept, Exists
        <3> QED
            BY <1>0, <2>1, <2>2, <3>1 DEF ReleaseInv, Whole, RowsKept, Exists, Committed, Unborn
    <2>3. CASE ~Exists(i)
        BY <2>1, <2>3 DEF ReleaseInv, Whole, RowsKept, Exists, Unborn
    <2> QED
        BY <2>2, <2>3
<1>3. ASSUME NEW i \in Invs, Commits PROVE Whole(i)'
    BY <1>0, <1>3, CommitStep DEF Commits
<1> QED
    BY <1>1, <1>2, <1>3 DEF ReleaseInv

\* An investigation is seen with all its tasks or not at all, each for an
\* agent that exists and of the type asked for, although every round of the
\* loop reads the active agents anew and any statement may fail.
THEOREM CreatedWhole == Spec => []ReleasedWhole
<1>1. ASSUME ReleaseInv PROVE ReleasedWhole
    <2>1. SUFFICES ASSUME NEW i \in Invs
                   PROVE  LET rows == {t \in TaskIds : t[1] = i /\ task[t].status # "none"} IN
                          IF inv[i].status = "none"
                          THEN rows = {}
                          ELSE /\ Committed(i)
                               /\ rows = {i} \X DOMAIN tx[i].types
                               /\ \A t \in rows : /\ task[t].agent \in DOMAIN active
                                                  /\ task[t].type = tx[i].types[t[2]]
        BY DEF ReleasedWhole
    <2> DEFINE rows == {t \in TaskIds : t[1] = i /\ task[t].status # "none"}
    <2>2. Whole(i)
        BY <1>1 DEF ReleaseInv
    <2>3. CASE ~Exists(i)
        BY <2>2, <2>3 DEF Whole, Exists, Unborn
    <2>4. CASE Exists(i)
        <3>1. \A t \in rows : /\ t[2] \in DOMAIN tx[i].types /\ task[t].agent \in DOMAIN active
                              /\ task[t].type = tx[i].types[t[2]]
            BY <2>2, <2>4 DEF Whole, Unborn
        <3>2. rows \subseteq {i} \X DOMAIN tx[i].types
            BY <3>1 DEF TaskIds
        <3>3. ASSUME NEW k \in DOMAIN tx[i].types PROVE <<i, k>> \in rows
            <4>1. <<i, k>> \in TaskIds
                BY <2>2, <2>4 DEF Whole, TaskIds
            <4> QED
                BY <2>2, <2>4, <4>1 DEF Whole, Unborn
        <3>4. rows = {i} \X DOMAIN tx[i].types
            BY <3>2, <3>3
        <3> QED
            BY <2>2, <2>4, <3>1, <3>4 DEF Whole, Exists
    <2> QED
        BY <2>3, <2>4
<1>2. Spec => []ReleaseInv
    BY ReleaseInit, ReleaseInduction, PTL DEF Spec
<1> QED
    BY <1>1, <1>2, PTL
=============================================================================
