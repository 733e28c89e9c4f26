-------------------------- MODULE PublishingProofs --------------------------
(***************************************************************************)
(* What the stream says of a task, for every number of runtimes and        *)
(* faults: its research is published at most once, a complete task has its *)
(* finding there, and a task nobody can work on stays pending.  A publish  *)
(* request lives in three places, the runtime about to send it, the        *)
(* request under way and the stored message; the proof is that a task is   *)
(* in at most one of them.                                                 *)
(***************************************************************************)
EXTENDS ConsensusProofs

USE DEF AgentIds, Nil, SignalIds, At, Become, Goto, Fault, Abort, OrchRecord, HandlingTask,
        HandlingInv

Published(t) == \E m \in messages : m.content = t
Untold(t) == t \notin posts /\ ~Published(t)

\* Where the text of a task can be.
OnePlace ==
    /\ \A t \in posts : ~Published(t)
    /\ \A p \in Orchs : At(p, "run") => Untold(orch[p].job)
    /\ \A t \in TaskIds : task[t].status \in {"none", "pending"} => Untold(t)

\* An id that somebody has been told is that of a message with the text.
TruthTold ==
    /\ \A r \in replies : r.id # Null =>
        \E m \in messages : m.id = r.id /\ m.content = r.content
    /\ \A p \in Orchs : orch[p].outcome # Null =>
        \E m \in messages : m.id = orch[p].outcome /\ m.content = orch[p].job

\* Only a type of the registry is ever claimed.
TakenRegistered ==
    \A t \in TaskIds :
        task[t].status \in {"running", "complete", "failed"} => Registered(task[t].type)

\* A runtime that claims is at a position of the registry, counted from 1.
InTurn == \A p \in Orchs : At(p, "claim") => orch[p].todo # 0

\* Only an agent's key publishes.
KeyNeeded == RuntimeKey = Nil => \A m \in messages : m.content = Null

PublishingInv ==
    /\ QueueInv /\ OnePlace /\ PublishedOnce /\ TruthTold /\ CompleteHasFinding
    /\ TakenRegistered /\ InTurn /\ KeyNeeded

-----------------------------------------------------------------------------
(* What a step does to the tasks, the requests and the messages.           *)

\* t is released, claimed or settled.
TaskStep(t) ==
    \/ UNCHANGED task[t]
    \/ tx[t[1]].pc # "committed" /\ task'[t].status = "pending"
    \/ /\ task[t].status = "pending" /\ task'[t].status = "running"
       /\ task'[t].type = task[t].type /\ Registered(task[t].type)
    \/ \E p \in Orchs :
        /\ orch[p].pc \in {"settle", "recover"} /\ orch[p].job = t
        /\ task'[t].type = task[t].type
        /\ \/ task'[t].status = "failed"
           \/ /\ task'[t].status = "complete" /\ task'[t].result = orch[p].outcome
              /\ orch[p].outcome # Null

\* A request is sent by the runtime that leaves "run".
SendStep ==
    \A t \in posts' \ posts :
        \E p \in Orchs : At(p, "run") /\ orch[p].job = t /\ orch'[p].pc # "run"

\* A request is answered by storing its text and nothing else.
StoreStep ==
    /\ messages \subseteq messages'
    /\ \A m \in messages' \ messages : m.content # Null =>
        /\ m.content \in posts \ posts' /\ RuntimeKey # Nil
        /\ messages' = messages \cup {m}

ReplyStep ==
    \A r \in replies' \ replies : r.id # Null =>
        \E m \in messages' : m.id = r.id /\ m.content = r.content

\* q begins with a pending task or goes on with its own.
HolderStep(q) ==
    /\ orch'[q].pc = "run" =>
        \/ orch[q].pc = "run" /\ orch'[q].job = orch[q].job
        \/ task[orch'[q].job].status = "pending" /\ orch'[q].job \in TaskIds
    /\ orch'[q].outcome # Null =>
        /\ orch'[q].job = orch[q].job
        /\ \/ orch'[q].outcome = orch[q].outcome
           \/ \E r \in replies : r.content = orch[q].job /\ r.id = orch'[q].outcome
    /\ orch'[q].pc = "claim" => orch'[q].todo # 0

PublishingStep ==
    /\ \A t \in TaskIds : TaskStep(t)
    /\ SendStep /\ StoreStep /\ ReplyStep
    /\ \A q \in Orchs : HolderStep(q)

-----------------------------------------------------------------------------
(* The steps of the API.                                                   *)

LEMMA QuietStore ==
    ASSUME NEW id, NEW parent, InsertMessage(id, Null, parent)
    PROVE  StoreStep
BY DEF InsertMessage, StoreStep

LEMMA ApiPublishing ==
    ASSUME TypeOK, InTurn, ApiNext, UNCHANGED runtimeVars
    PROVE  PublishingStep
<1> USE DEF tables, network, apiVars, runtimeVars
<1>1. \A q \in Orchs : HolderStep(q)
    BY DEF HolderStep, InTurn
<1>2. \A t \in TaskIds : TaskStep(t)
    <2>1. CASE UNCHANGED task
        BY <2>1 DEF TaskStep
    <2>2. CASE \E i \in Invs : CommitCreate(i)
        BY <2>2 DEF CommitCreate, TaskStep
    <2> QED
        BY <2>1, <2>2 DEF ApiNext, CreateAgent, UpdateAgent, SetAllActive, ControlTick,
            BeginCreate, InsertTask, RollbackCreate, TriggerCheck, TriggerWrite, CreateMessage,
            RespondToMessage, AcceptPost, RefusePost, OperatorSignal, OperatorSeed
<1>3. SendStep /\ StoreStep /\ ReplyStep
    <2>1. CASE UNCHANGED <<messages, posts, replies>>
        BY <2>1 DEF SendStep, StoreStep, ReplyStep
    <2>2. CASE UNCHANGED <<posts, replies>> /\ StoreStep
        BY <2>2 DEF SendStep, ReplyStep
    <2>3. ASSUME NEW t \in TaskIds, AcceptPost(t) PROVE SendStep /\ StoreStep /\ ReplyStep
        <3>1. RuntimeKey # Nil
            BY <2>3 DEF AcceptPost, RequireAgent, AgentOfKey
        <3>2. /\ t \in posts /\ posts' = posts \ {t}
              /\ messages' = messages \cup {[id |-> NewId, content |-> t, parent |-> Null]}
              /\ replies' = replies \cup {[content |-> t, id |-> NewId]}
            BY <2>3 DEF AcceptPost, InsertMessage
        <3>3. StoreStep
            BY <3>1, <3>2 DEF StoreStep
        <3>4. SendStep
            BY <3>2 DEF SendStep
        <3>5. \E m \in messages' : m.id = NewId /\ m.content = t
            <4> DEFINE row == [id |-> NewId, content |-> t, parent |-> Null]
            <4>1. row \in messages' /\ row.id = NewId /\ row.content = t
                BY <3>2
            <4> HIDE DEF row
            <4> QED
                BY <4>1
        <3>6. ReplyStep
            BY <3>2, <3>5 DEF ReplyStep
        <3> QED
            BY <3>3, <3>4, <3>6
    <2>4. ASSUME NEW t \in TaskIds, RefusePost(t) PROVE SendStep /\ StoreStep /\ ReplyStep
        BY <2>4 DEF RefusePost, SendStep, StoreStep, ReplyStep
    <2>5. CASE CreateMessage \/ \E parent \in RowIds : RespondToMessage(parent)
        BY <2>2, <2>5, QuietStore DEF CreateMessage, RespondToMessage
    <2>6. CASE \E i \in Seeds : OperatorSeed(i)
        BY <2>2, <2>6, QuietStore DEF OperatorSeed
    <2> QED
        BY <2>1, <2>3, <2>4, <2>5, <2>6 DEF ApiNext, CreateAgent, UpdateAgent, SetAllActive,
            ControlTick, BeginCreate, InsertTask, CommitCreate, RollbackCreate, TriggerCheck,
            TriggerWrite, OperatorSignal
<1> QED
    BY <1>1, <1>2, <1>3 DEF PublishingStep

-----------------------------------------------------------------------------
(* The steps of a runtime.                                                 *)

LEMMA BecomeHolder ==
    ASSUME TypeOK, InTurn, NEW p \in Orchs, NEW r, Become(p, r),
           r.pc = "run" => task[r.job].status = "pending" /\ r.job \in TaskIds,
           r.outcome # Null =>
              /\ r.job = orch[p].job
              /\ \E reply \in replies : reply.content = r.job /\ reply.id = r.outcome,
           r.pc = "claim" => r.todo # 0
    PROVE  \A q \in Orchs : HolderStep(q)
<1>1. orch'[p] = r /\ \A q \in Orchs \ {p} : orch'[q] = orch[q]
    BY DEF TypeOK, RuntimeTypeOK
<1> QED
    BY <1>1 DEF HolderStep, InTurn

LEMMA FreshHolder ==
    ASSUME TypeOK, InTurn, NEW p \in Orchs, NEW pc \in {"idle", "down"}, Become(p, Fresh(pc))
    PROVE  \A q \in Orchs : HolderStep(q)
<1>1. Fresh(pc).pc \notin {"run", "claim"} /\ Fresh(pc).outcome = Null
    BY DEF Fresh
<1> QED
    BY <1>1, BecomeHolder

\* What a runtime has in hand after any step of its own or of another runtime.
LEMMA RuntimeHolder ==
    ASSUME TypeOK, InTurn, NEW p \in Orchs, Progress(p) \/ Failure(p)
    PROVE  \A q \in Orchs : HolderStep(q)
<1>0. /\ orch \in [Orchs -> OrchRecord] /\ orch[p] \in OrchState /\ orch[p] \in OrchRecord
      /\ orch[p].pc # "settle" => orch[p].outcome = Null
    BY DEF TypeOK, RuntimeTypeOK, OrchState
<1>1. ASSUME NEW pc \in {"idle", "down"}, Become(p, Fresh(pc))
      PROVE  \A q \in Orchs : HolderStep(q)
    BY <1>1, FreshHolder
<1>2. ASSUME NEW pc \in {"idle", "mark", "await", "settle", "finish"}, Goto(p, pc),
             orch[p].pc # "settle"
      PROVE  \A q \in Orchs : HolderStep(q)
    BY <1>0, <1>2, BecomeHolder
<1>3. CASE Poll(p) \/ Mark(p) \/ CheckActive(p)
    <2>1. CASE Poll(p)
        BY <1>0, <2>1, BecomeHolder DEF Poll
    <2>2. CASE Mark(p)
        BY <1>0, <2>2, BecomeHolder DEF Mark
    <2>3. CASE CheckActive(p)
        BY <1>0, <2>3, BecomeHolder DEF CheckActive
    <2> QED
        BY <1>3, <2>1, <2>2, <2>3
<1>4. CASE NextSignal(p)
    <2>1. PICK s \in orch[p].batch : 
            Become(p, [orch[p] EXCEPT !.pc = HandlerOf(signals[s]), !.signal = s,
                                      !.batch = @ \ {s}, !.todo = 1])
        BY <1>4 DEF NextSignal
    <2>2. orch[p].outcome = Null /\ HandlerOf(signals[s]) # "run"
        BY <1>0, <1>4 DEF NextSignal, HandlerOf
    <2> DEFINE r == [orch[p] EXCEPT !.pc = HandlerOf(signals[s]), !.signal = s,
                                    !.batch = @ \ {s}, !.todo = 1]
    <2>3. r.pc # "run" /\ r.outcome = Null /\ r.todo # 0
        BY <1>0, <2>2
    <2>4. Become(p, r)
        BY <2>1
    <2> HIDE DEF r
    <2> QED
        BY <2>3, <2>4, BecomeHolder
<1>5. ASSUME NEW t \in TaskIds, ClaimTask(p, t) PROVE \A q \in Orchs : HolderStep(q)
    <2>1. task[t].status = "pending" /\ orch[p].outcome = Null
        BY <1>0, <1>5 DEF ClaimTask, Claim, Oldest, Candidates, Claimable
    <2> QED
        BY <1>0, <1>5, <2>1, BecomeHolder DEF ClaimTask
<1>6. CASE ClaimNone(p)
    <2>1. orch[p].todo + 1 # 0 /\ orch[p].outcome = Null /\ orch[p].pc = "claim"
        BY <1>0, <1>6 DEF ClaimNone
    <2> QED
        BY <1>0, <1>6, <2>1, BecomeHolder DEF ClaimNone
<1>7. CASE ReceiveReply(p)
    <2>1. PICK reply \in replies :
            /\ reply.content = orch[p].job
            /\ Become(p, [orch[p] EXCEPT !.pc = "settle", !.outcome = reply.id])
        BY <1>7 DEF ReceiveReply
    <2> DEFINE r == [orch[p] EXCEPT !.pc = "settle", !.outcome = reply.id]
    <2>2. r.pc = "settle" /\ r.outcome = reply.id /\ r.job = orch[p].job
        BY <1>0
    <2> HIDE DEF r
    <2> QED
        BY <2>1, <2>2, BecomeHolder DEF r
<1>8. CASE NextType(p)
    <2>1. orch[p].todo + 1 # 0
        BY <1>0
    <2> QED
        BY <1>0, <1>8, <2>1, BecomeHolder DEF NextType
<1>9. CASE CountOpen(p)
    <2>1. PICK i \in orch[p].agenda :
            \/ Become(p, [orch[p] EXCEPT !.pc = "gather", !.agenda = @ \ {i}, !.inv = i])
            \/ Become(p, [orch[p] EXCEPT !.agenda = @ \ {i}])
        BY <1>9 DEF CountOpen
    <2>2. orch[p].outcome = Null /\ orch[p].pc = "count"
        BY <1>0, <1>9 DEF CountOpen
    <2> QED
        BY <1>0, <2>1, <2>2, BecomeHolder
<1>10. CASE NextInv(p) /\ orch[p].pc # "settle"
    BY <1>0, <1>10, BecomeHolder DEF NextInv
<1>11. CASE Gather(p)
    BY <1>0, <1>10, <1>11, BecomeHolder DEF Gather
<1>12. CASE SettleRaises(p)
    BY <1>0, <1>12, BecomeHolder DEF SettleRaises
<1>13. ASSUME NEW r \in Orchs, NEW l \in TaskIds, ClaimSkipsLocked(p, r, l)
       PROVE  \A q \in Orchs : HolderStep(q)
    <2>0. p # r /\ orch[p].pc = "claim" /\ orch[p].outcome = Null
        BY <1>0, <1>13 DEF ClaimSkipsLocked
    <2>1. PICK end \in {[fault |-> "db", pc |-> "idle"], [fault |-> "crash", pc |-> "down"]} :
            \/ orch' = [orch EXCEPT ![p] = [orch[p] EXCEPT !.todo = @ + 1], ![r] = Fresh(end.pc)]
            \/ \E t \in Oldest(Candidates(p) \ {l}) :
                 orch' = [orch EXCEPT ![p] = [orch[p] EXCEPT !.pc = "run", !.job = t],
                                      ![r] = Fresh(end.pc)]
        BY <1>13 DEF ClaimSkipsLocked
    <2>2. ASSUME NEW rec, orch' = [orch EXCEPT ![p] = rec, ![r] = Fresh(end.pc)],
                 rec.outcome = Null,
                 rec.pc = "run" => task[rec.job].status = "pending" /\ rec.job \in TaskIds,
                 rec.pc = "claim" => rec.todo # 0
          PROVE  \A q \in Orchs : HolderStep(q)
        <3>1. /\ orch'[p] = rec /\ orch'[r] = Fresh(end.pc)
              /\ \A q \in Orchs \ {p, r} : orch'[q] = orch[q]
            BY <1>0, <2>0, <2>2
        <3>2. Fresh(end.pc).pc \notin {"run", "claim"} /\ Fresh(end.pc).outcome = Null
            BY DEF Fresh
        <3>3. HolderStep(p) /\ HolderStep(r)
            BY <2>2, <3>1, <3>2 DEF HolderStep
        <3>4. \A q \in Orchs \ {p, r} : HolderStep(q)
            BY <3>1 DEF HolderStep, InTurn
        <3> QED
            BY <3>3, <3>4
    <2>3. CASE orch' = [orch EXCEPT ![p] = [orch[p] EXCEPT !.todo = @ + 1], ![r] = Fresh(end.pc)]
        <3> DEFINE rec == [orch[p] EXCEPT !.todo = @ + 1]
        <3>1. rec.outcome = Null /\ rec.pc = "claim" /\ rec.todo # 0
            BY <1>0, <2>0
        <3> HIDE DEF rec
        <3> QED
            BY <2>2, <2>3, <3>1 DEF rec
    <2>4. ASSUME NEW t \in Oldest(Candidates(p) \ {l}),
                 orch' = [orch EXCEPT ![p] = [orch[p] EXCEPT !.pc = "run", !.job = t],
                                      ![r] = Fresh(end.pc)]
          PROVE  \A q \in Orchs : HolderStep(q)
        <3> DEFINE rec == [orch[p] EXCEPT !.pc = "run", !.job = t]
        <3>1. rec.outcome = Null /\ rec.pc = "run" /\ rec.job = t
            BY <1>0, <2>0
        <3>2. t \in TaskIds /\ task[t].status = "pending"
            BY DEF Oldest, Candidates, Claimable
        <3> HIDE DEF rec
        <3> QED
            BY <2>2, <2>4, <3>1, <3>2 DEF rec
    <2> QED
        BY <2>1, <2>3, <2>4
<1> QED
    <2>1. CASE Progress(p)
        BY <2>1, <1>1, <1>2, <1>3, <1>4, <1>5, <1>6, <1>7, <1>8, <1>9, <1>10, <1>11
        DEF Progress, Start, EndTick, EndAgentTick, BuildFails, SendPost, Settle, Recover,
            EndConsensusCheck, StoreReport, Finish
    <2>2. CASE Failure(p)
        BY <2>2, <1>1, <1>2, <1>10, <1>12, <1>13 DEF Failure, ClaimAckLost, MarkAckLost,
            ResearchFails, PostTimesOut, RecoverRaises, ConsensusRaises, StatementRaises, Crash
    <2> QED
        BY <2>1, <2>2

LEMMA ClaimStep ==
    ASSUME TypeOK, InTurn, NEW p \in Orchs, At(p, "claim"), orch[p].todo <= Len(Registry),
           NEW t \in Candidates(p), SetTask(t, "running", task[t].result)
    PROVE  \A u \in TaskIds : TaskStep(u)
<1>1. t \in TaskIds /\ task[t].status = "pending" /\ task[t].type = Registry[orch[p].todo]
    BY DEF Candidates, Claimable
<1>2. orch[p].todo \in 1 .. Len(Registry) /\ 1 .. Len(Registry) = DOMAIN Registry
    BY RuntimeAssumption DEF InTurn, TypeOK, RuntimeTypeOK, OrchState
<1>3. Registered(task[t].type)
    BY <1>1, <1>2 DEF Registered
<1>4. /\ task'[t].status = "running" /\ task'[t].type = task[t].type
      /\ \A u \in TaskIds \ {t} : task'[u] = task[u]
    BY <1>1 DEF SetTask, TypeOK, StoreTypeOK, TaskRow
<1> QED
    BY <1>1, <1>3, <1>4 DEF TaskStep

LEMMA SettleStep ==
    ASSUME TypeOK, NEW p \in Orchs, orch[p].pc \in {"settle", "recover"},
           \/ WriteOutcome(p) /\ At(p, "settle")
           \/ SetTask(orch[p].job, "failed", Null)
    PROVE  \A u \in TaskIds : TaskStep(u)
<1>1. orch[p].job \in TaskIds
    BY DEF TypeOK, RuntimeTypeOK, OrchState
<1>2. PICK status, result :
        /\ SetTask(orch[p].job, status, result)
        /\ \/ status = "failed"
           \/ status = "complete" /\ result = orch[p].outcome /\ orch[p].outcome # Null
    BY DEF WriteOutcome
<1>3. /\ task'[orch[p].job].status = status /\ task'[orch[p].job].result = result
      /\ task'[orch[p].job].type = task[orch[p].job].type
      /\ \A u \in TaskIds \ {orch[p].job} : task'[u] = task[u]
    BY <1>1, <1>2 DEF SetTask, TypeOK, StoreTypeOK, TaskRow
<1> QED
    BY <1>2, <1>3 DEF TaskStep

LEMMA RuntimePublishing ==
    ASSUME TypeOK, InTurn, NEW p \in Orchs, Progress(p) \/ Failure(p), UNCHANGED apiVars
    PROVE  PublishingStep
<1> USE DEF tables, network, apiVars
<1>0. orch \in [Orchs -> OrchRecord]
    BY DEF TypeOK, RuntimeTypeOK, OrchState
<1>1. UNCHANGED messages /\ replies' \subseteq replies
      /\ (posts' \subseteq posts \/ SendPost(p))
    <2>1. CASE Progress(p)
        BY <2>1 DEF Progress, Start, Poll, NextSignal, EndTick, Mark, ClaimTask, ClaimNone,
            EndAgentTick, BuildFails, SendPost, ReceiveReply, Settle, Recover, CheckActive,
            CountOpen, EndConsensusCheck, Gather, StoreReport, Finish
    <2>2. CASE Failure(p)
        BY <2>2 DEF Failure, ClaimAckLost, ClaimSkipsLocked, MarkAckLost, ResearchFails,
            PostTimesOut, SettleRaises, RecoverRaises, ConsensusRaises, StatementRaises, Crash
    <2> QED
        BY <2>1, <2>2
<1>2. SendStep
    BY <1>0, <1>1 DEF SendPost, SendStep
<1>3. StoreStep /\ ReplyStep
    BY <1>1 DEF StoreStep, ReplyStep
<1>4. ASSUME NEW u \in TaskIds PROVE TaskStep(u)
    <2>1. CASE UNCHANGED task
        BY <2>1 DEF TaskStep
    <2>2. ASSUME NEW t \in TaskIds, ClaimTask(p, t) \/ ClaimAckLost(p, t) PROVE TaskStep(u)
        <3>1. /\ At(p, "claim") /\ orch[p].todo <= Len(Registry) /\ t \in Candidates(p)
              /\ SetTask(t, "running", task[t].result)
            BY <2>2 DEF ClaimTask, ClaimAckLost, Claim, Oldest
        <3> QED
            BY <3>1, ClaimStep
    <2>3. ASSUME NEW q \in Orchs, NEW l \in TaskIds, ClaimSkipsLocked(p, q, l) PROVE TaskStep(u)
        <3>1. /\ At(p, "claim") /\ orch[p].todo <= Len(Registry)
              /\ \/ UNCHANGED task
                 \/ \E t \in Candidates(p) : SetTask(t, "running", task[t].result)
            BY <2>3 DEF ClaimSkipsLocked, Oldest
        <3> QED
            BY <2>1, <3>1, ClaimStep
    <2>4. CASE Settle(p) \/ SettleRaises(p)
        BY <2>1, <2>4, SettleStep DEF Settle, SettleRaises
    <2>5. CASE Recover(p) \/ RecoverRaises(p)
        BY <2>1, <2>5, SettleStep DEF Recover, RecoverRaises
    <2>6. CASE Progress(p)
        BY <2>6, <2>1, <2>2, <2>4, <2>5 DEF Progress, Start, Poll, NextSignal, EndTick, Mark,
            ClaimNone, EndAgentTick, BuildFails, SendPost, ReceiveReply, CheckActive,
            CountOpen, EndConsensusCheck, Gather, StoreReport, Finish
    <2>7. CASE Failure(p)
        BY <2>7, <2>1, <2>2, <2>3, <2>4, <2>5 DEF Failure, MarkAckLost, ResearchFails,
            PostTimesOut, ConsensusRaises, StatementRaises, Crash
    <2> QED
        BY <2>6, <2>7
<1> QED
    BY <1>2, <1>3, <1>4, RuntimeHolder DEF PublishingStep

-----------------------------------------------------------------------------
(* The inductive invariant.                                                *)

LEMMA PublishingInit == Init => PublishingInv
BY QueueInit, NullAssumption DEF Init, StoreInit, RuntimeInit, Fresh, PublishingInv, OnePlace,
    Untold, Published, PublishedOnce, TruthTold, CompleteHasFinding, TakenRegistered, InTurn,
    KeyNeeded

LEMMA PublishingKinds ==
    ASSUME TypeOK, InTurn, [Next]_vars
    PROVE  PublishingStep
<1>1. CASE ApiNext /\ UNCHANGED runtimeVars
    BY <1>1, ApiPublishing
<1>2. CASE RuntimeNext /\ UNCHANGED apiVars
    BY <1>2, RuntimePublishing DEF RuntimeNext
<1>3. CASE UNCHANGED vars
    BY <1>3 DEF vars, tables, network, apiVars, runtimeVars, PublishingStep, TaskStep,
        SendStep, StoreStep, ReplyStep, HolderStep, InTurn
<1> QED
    BY <1>1, <1>2, <1>3 DEF Next

\* A text that is nowhere stays so unless its runtime sends it.
LEMMA StaysUntold ==
    ASSUME SendStep, StoreStep, NEW t, Untold(t), t # Null,
           \A p \in Orchs : At(p, "run") /\ orch[p].job = t => orch'[p].pc = "run"
    PROVE  t \notin posts' /\ \A m \in messages' : m.content # t
BY DEF SendStep, StoreStep, Untold, Published

LEMMA PublishingInduction ==
    ASSUME PublishingInv, [Next]_vars
    PROVE  PublishingInv'
<1> USE DEF PublishingInv
<1>0. /\ TypeOK /\ TypeOK' /\ Unreleased /\ Holding
      /\ SendStep /\ StoreStep /\ ReplyStep
      /\ \A t \in TaskIds : TaskStep(t)
      /\ \A q \in Orchs : HolderStep(q)
    BY StepType, PublishingKinds DEF QueueInv, PublishingStep
<1>a. /\ \A p \in Orchs : orch[p].pc \in HandlingTask => orch[p].job \in TaskIds
      /\ \A p \in Orchs : orch'[p].pc \in HandlingTask => orch'[p].job \in TaskIds
      /\ \A p \in Orchs : orch[p].outcome # Null => orch[p].pc = "settle"
      /\ posts \subseteq TaskIds /\ posts' \subseteq TaskIds /\ Null \notin TaskIds
    BY <1>0, NullAssumption DEF TypeOK, StoreTypeOK, RuntimeTypeOK, OrchState
<1>1. QueueInv'
    BY <1>0, Kinds, QueueStep
<1>2. OnePlace'
    <2>1. ASSUME NEW t \in posts' PROVE \A m \in messages' : m.content # t
        <3>1. \A m \in messages : m.content # t
            BY <1>0, <1>a DEF SendStep, OnePlace, Untold, Published
        <3> QED
            BY <1>0, <1>a, <3>1 DEF StoreStep
    <2>2. ASSUME NEW p \in Orchs, orch'[p].pc = "run"
          PROVE  orch'[p].job \notin posts' /\ \A m \in messages' : m.content # orch'[p].job
        <3>1. PICK t \in TaskIds : t = orch'[p].job
            BY <1>a, <2>2
        <3>2. CASE orch[p].pc = "run" /\ orch[p].job = t
            <4>1. \A q \in Orchs \ {p} : orch[q].job # t
                BY <1>0, <1>a, <3>2 DEF Holding
            <4>2. Untold(t)
                BY <3>2 DEF OnePlace
            <4> QED
                BY <1>0, <1>a, <2>2, <3>1, <4>1, <4>2, StaysUntold
        <3>3. CASE task[t].status = "pending"
            <4>1. \A q \in Orchs : orch[q].job # t
                BY <1>0, <1>a, <3>3 DEF Holding
            <4>2. Untold(t)
                BY <3>3 DEF OnePlace
            <4> QED
                BY <1>0, <1>a, <3>1, <4>1, <4>2, StaysUntold
        <3> QED
            BY <1>0, <2>2, <3>1, <3>2, <3>3 DEF HolderStep
    <2>3. ASSUME NEW t \in TaskIds, task'[t].status \in {"none", "pending"}
          PROVE  t \notin posts' /\ \A m \in messages' : m.content # t
        <3>1. task[t].status \in {"none", "pending"}
            <4>1. /\ TaskStep(t)
                  /\ task[t].status \in {"none", "pending", "running", "complete", "failed"}
                BY <1>0 DEF TypeOK, StoreTypeOK, TaskRow
            <4>2. tx[t[1]].pc # "committed" => task[t].status = "none"
                BY <1>0 DEF Unreleased
            <4> QED
                BY <2>3, <4>1, <4>2 DEF TaskStep
        <3>2. Untold(t)
            BY <3>1 DEF OnePlace
        <3>3. \A q \in Orchs : orch[q].job # t
            BY <1>0, <1>a, <3>1 DEF Holding
        <3> QED
            BY <1>0, <1>a, <3>2, <3>3, StaysUntold
    <2> QED
        BY <2>1, <2>2, <2>3 DEF OnePlace, Untold, Published
<1>3. PublishedOnce'
    <2>1. SUFFICES ASSUME NEW m \in messages', NEW n \in messages', m.content = n.content,
                          m.content # Null
                   PROVE  m = n
        BY DEF PublishedOnce
    <2>2. CASE m \in messages /\ n \in messages
        BY <2>1, <2>2 DEF PublishedOnce
    <2>3. ASSUME NEW k \in messages', k \notin messages, k.content # Null
          PROVE  /\ messages' = messages \cup {k}
                 /\ \A o \in messages : o.content # k.content
        BY <1>0, <2>3 DEF StoreStep, OnePlace, Published
    <2> QED
        BY <2>1, <2>2, <2>3
<1>b. messages \subseteq messages'
    BY <1>0 DEF StoreStep
<1>4. TruthTold'
    <2>1. ASSUME NEW r \in replies', r.id # Null
          PROVE  \E m \in messages' : m.id = r.id /\ m.content = r.content
        BY <1>0, <1>b, <2>1 DEF ReplyStep, TruthTold
    <2>2. ASSUME NEW p \in Orchs, orch'[p].outcome # Null
          PROVE  \E m \in messages' : m.id = orch'[p].outcome /\ m.content = orch'[p].job
        BY <1>0, <1>b, <2>2 DEF HolderStep, TruthTold
    <2> QED
        BY <2>1, <2>2 DEF TruthTold
<1>5. CompleteHasFinding'
    <2>1. SUFFICES ASSUME NEW t \in TaskIds, task'[t].status = "complete"
                   PROVE  \E m \in messages' : m.id = task'[t].result /\ m.content = t
        BY DEF CompleteHasFinding
    <2>2. CASE UNCHANGED task[t]
        BY <1>b, <2>1, <2>2 DEF CompleteHasFinding
    <2>3. CASE \E p \in Orchs : /\ orch[p].job = t /\ orch[p].outcome # Null
                                /\ task'[t].result = orch[p].outcome
        BY <1>b, <2>3 DEF TruthTold
    <2> QED
        BY <1>0, <2>1, <2>2, <2>3 DEF TaskStep
<1>6. TakenRegistered'
    <2>1. SUFFICES ASSUME NEW t \in TaskIds, task'[t].status \in {"running", "complete", "failed"}
                   PROVE  Registered(task'[t].type)
        BY DEF TakenRegistered, Registered
    <2>2. CASE UNCHANGED task[t]
        BY <2>1, <2>2 DEF TakenRegistered
    <2>3. CASE task'[t].type = task[t].type /\ Registered(task[t].type)
        BY <2>3
    <2>4. ASSUME NEW p \in Orchs, orch[p].pc \in {"settle", "recover"}, orch[p].job = t,
                 task'[t].type = task[t].type
          PROVE  Registered(task'[t].type)
        <3>1. task[t].status \in {"running", "complete", "failed"}
            BY <1>0, <1>a, <2>4 DEF Holding
        <3> QED
            BY <2>4, <3>1 DEF TakenRegistered
    <2> QED
        BY <1>0, <2>1, <2>2, <2>3, <2>4 DEF TaskStep
<1>7. InTurn'
    BY <1>0 DEF HolderStep, InTurn
<1>8. KeyNeeded'
    BY <1>0 DEF StoreStep, KeyNeeded
<1> QED
    BY <1>1, <1>2, <1>3, <1>4, <1>5, <1>6, <1>7, <1>8

LEMMA PublishingCorrect == Spec => []PublishingInv
BY PublishingInit, PublishingInduction, PTL DEF Spec

\* The research of a task is on the stream at most once, whatever times out,
\* arrives late or crashes and however many runtimes there are.
THEOREM PublishedAtMostOnce == Spec => []PublishedOnce
BY PublishingCorrect, PTL DEF PublishingInv

\* A task is complete only with a message of the stream that holds its own
\* research, although the answer to the publish request may come late or never.
THEOREM CompletionHasFinding == Spec => []CompleteHasFinding
BY PublishingCorrect, PTL DEF PublishingInv

\* With a key that is not an agent's, nothing is published and no task completes.
THEOREM AdminKeyNeverCompletes == Spec => []NonAgentKeyNeverCompletes
<1>1. ASSUME PublishingInv PROVE NonAgentKeyNeverCompletes
    BY <1>1, NullAssumption
    DEF PublishingInv, KeyNeeded, CompleteHasFinding, NonAgentKeyNeverCompletes
<1> QED
    BY <1>1, PublishingCorrect, PTL

\* A task whose type has no agent class stays pending for ever, and keeps its
\* investigation from being completed.
THEOREM UnregisteredNeverTaken == Spec => []UnregisteredStaysPending
<1>1. ASSUME PublishingInv, CompleteOnlyWhenSettled PROVE UnregisteredStaysPending
    <2>1. SUFFICES ASSUME NEW t \in TaskIds, task[t].status # "none", ~Registered(task[t].type)
                   PROVE  task[t].status = "pending" /\ inv[t[1]].status # "complete"
        BY DEF UnregisteredStaysPending
    <2>2. task[t].status \in {"none", "pending", "running", "complete", "failed"}
        BY <1>1 DEF PublishingInv, QueueInv, TypeOK, StoreTypeOK, TaskRow
    <2> QED
        BY <1>1, <2>1, <2>2 DEF PublishingInv, TakenRegistered, CompleteOnlyWhenSettled
<1> QED
    BY <1>1, PublishingCorrect, CompletionSettled, PTL
=============================================================================
