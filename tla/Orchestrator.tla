---------------------------- MODULE Orchestrator ----------------------------
(***************************************************************************)
(* The Python runtime: Orchestrator.start and tick with the Scheduler, the *)
(* SignalPoller, the agents and the consensus writer they call.  A process *)
(* runs one coroutine at a time, so each is a program with one counter;    *)
(* every await of a statement and the publish request end a step.  Several *)
(* processes may run against one database (FOR UPDATE SKIP LOCKED is there *)
(* for that).                                                              *)
(***************************************************************************)
EXTENDS InvestigationStore

CONSTANTS
    Orchs,       \* runtime processes
    Registry,    \* the keys of AGENT_REGISTRY, in order
    Buildable,   \* the task types whose agent class can be constructed
    FaultKinds,  \* subset of {"db", "ack", "http", "llm", "crash"}
    MaxFaults    \* bound: faults of all kinds

ASSUME RuntimeAssumption ==
    /\ Registry \in Seq(TaskTypes)
    /\ FaultKinds \subseteq {"db", "ack", "http", "llm", "crash"}
    /\ MaxFaults \in Nat

VARIABLES
    orch,   \* the local state of each process
    faults  \* faults so far

runtimeVars == <<orch, faults>>

\* From job on, the local variables of the handler that is running: task["id"],
\* result.finding_id, inv_ids, inv_id, findings.
OrchRecord ==
    [pc      : {"down", "idle", "batch", "claim", "run", "await", "settle", "recover",
                "check", "count", "gather", "store", "finish", "mark"},
     batch   : SUBSET SignalIds,        \* polled and not yet looked at
     signal  : SignalIds \cup {0},      \* being handled
     todo    : Nat,                     \* position in Registry
     job     : TaskIds \cup {Null},     \* the claimed task
     outcome : RowIds \cup {Null},      \* finding_id; Null: error is set
     agenda  : SUBSET Invs,             \* investigations still to look at
     inv     : Invs \cup {0},           \* the one consensus runs for
     sources : SUBSET RowIds]           \* the findings gathered for it

\* Which local variables a step may rely on.
HandlingTask == {"run", "await", "settle", "recover"}
HandlingInv == {"gather", "store", "finish"}
OrchState ==
    {r \in OrchRecord :
        /\ r.pc \in HandlingTask <=> r.job # Null
        /\ r.pc \in HandlingInv <=> r.inv # 0
        /\ r.outcome # Null => r.pc = "settle"}

Fresh(pc) == [pc |-> pc, batch |-> {}, signal |-> 0, todo |-> 0, job |-> Null,
              outcome |-> Null, agenda |-> {}, inv |-> 0, sources |-> {}]

RuntimeTypeOK ==
    /\ orch \in [Orchs -> OrchState]
    /\ faults \in 0 .. MaxFaults

RuntimeInit ==
    /\ orch = [p \in Orchs |-> Fresh("down")]
    /\ faults = 0

At(p, pc) == orch[p].pc = pc
\* Local assignments take effect together with the statement that ends the step.
Become(p, r) == orch' = [orch EXCEPT ![p] = r]
Goto(p, pc) == Become(p, [orch[p] EXCEPT !.pc = pc])

\* "db": the statement raises and had no effect; "ack": it was committed and
\* the connection broke before the answer; "http": the publish request times
\* out; "llm": the model call raises; "crash": the process dies.
Fault(kind) ==
    /\ kind \in FaultKinds
    /\ faults < MaxFaults
    /\ faults' = faults + 1

\* An exception that reaches start(): the rest of the batch is dropped and
\* the next round polls again.
Abort(p) == Become(p, Fresh("idle"))

-----------------------------------------------------------------------------
(* start and tick.                                                         *)

Start(p) ==
    /\ At(p, "down")
    /\ Goto(p, "idle")
    /\ UNCHANGED <<tables, network, faults>>

\* With no unprocessed signal poll() returns [] and the tick does nothing.
Poll(p) ==
    /\ At(p, "idle")
    /\ Unprocessed # {}
    /\ Become(p, [orch[p] EXCEPT !.pc = "batch", !.batch = Unprocessed])
    /\ UNCHANGED <<tables, network, faults>>

\* start_investigation only counts and logs; a force_tick without an agent
\* falls through all branches.
HandlerOf(signal) ==
    CASE signal.type = "force_tick" /\ signal.agent # Nil -> "claim"
      [] signal.type = "trigger_consensus" -> "check"
      [] OTHER -> "mark"

\* Bug variant: a signal is marked when it is picked up.
MarkBeforeHandling(p) ==
    \E s \in orch[p].batch :
        /\ At(p, "batch")
        /\ \A r \in orch[p].batch : s <= r
        /\ Become(p, [orch[p] EXCEPT !.pc = HandlerOf(signals[s]), !.signal = s,
                                     !.batch = @ \ {s}, !.todo = 1])
        /\ SetProcessed(s)
        /\ UNCHANGED <<active, inv, task, messages, network, faults>>

NextSignal(p) ==
    \E s \in orch[p].batch :
        /\ At(p, "batch")
        /\ \A r \in orch[p].batch : s <= r
        /\ Become(p, [orch[p] EXCEPT !.pc = HandlerOf(signals[s]), !.signal = s,
                                     !.batch = @ \ {s}, !.todo = 1])
        /\ UNCHANGED <<tables, network, faults>>

EndTick(p) ==
    /\ At(p, "batch")
    /\ orch[p].batch = {}
    /\ Abort(p)
    /\ UNCHANGED <<tables, network, faults>>

Mark(p) ==
    /\ At(p, "mark")
    /\ SetProcessed(orch[p].signal)
    /\ Become(p, [orch[p] EXCEPT !.pc = "batch", !.signal = 0])
    /\ UNCHANGED <<active, inv, task, messages, network, faults>>

MarkAckLost(p) ==
    /\ At(p, "mark")
    /\ Fault("ack")
    /\ SetProcessed(orch[p].signal)
    /\ Abort(p)
    /\ UNCHANGED <<active, inv, task, messages, network>>

-----------------------------------------------------------------------------
(* _handle_agent_tick: for each type of the registry, claim and run the    *)
(* oldest pending task of the agent.                                       *)

Target(p) == signals[orch[p].signal].agent
Candidates(p) == Claimable(Target(p), Registry[orch[p].todo])

Claim(p, t) ==
    /\ At(p, "claim")
    /\ orch[p].todo <= Len(Registry)
    /\ t \in Oldest(Candidates(p))
    /\ SetTask(t, "running", task[t].result)

ClaimTask(p, t) ==
    /\ Claim(p, t)
    /\ Become(p, [orch[p] EXCEPT !.pc = "run", !.job = t])
    /\ UNCHANGED <<active, inv, signals, messages, network, faults>>

ClaimAckLost(p, t) ==
    /\ Claim(p, t)
    /\ Fault("ack")
    /\ Abort(p)
    /\ UNCHANGED <<active, inv, signals, messages, network>>

\* FOR UPDATE SKIP LOCKED: the statement of p ran while that of q held the
\* lock on task l, and q's was rolled back after p's had passed l over.
ClaimSkipsLocked(p, q, l) ==
    /\ p # q
    /\ At(p, "claim") /\ orch[p].todo <= Len(Registry)
    /\ At(q, "claim") /\ orch[q].todo <= Len(Registry)
    /\ l \in Oldest(Candidates(q)) /\ l \in Candidates(p)
    /\ \E end \in {[fault |-> "db", pc |-> "idle"], [fault |-> "crash", pc |-> "down"]} :
        /\ Fault(end.fault)
        /\ \/ /\ Candidates(p) = {l}
              /\ orch' = [orch EXCEPT ![p] = [orch[p] EXCEPT !.todo = @ + 1],
                                      ![q] = Fresh(end.pc)]
              /\ UNCHANGED task
           \/ \E t \in Oldest(Candidates(p) \ {l}) :
                /\ SetTask(t, "running", task[t].result)
                /\ orch' = [orch EXCEPT ![p] = [orch[p] EXCEPT !.pc = "run", !.job = t],
                                        ![q] = Fresh(end.pc)]
    /\ UNCHANGED <<active, inv, signals, messages, network>>

ClaimNone(p) ==
    /\ At(p, "claim")
    /\ orch[p].todo <= Len(Registry)
    /\ Candidates(p) = {}
    /\ Become(p, [orch[p] EXCEPT !.todo = @ + 1])
    /\ UNCHANGED <<tables, network, faults>>

\* Bug variant: a handled tick is not marked.
EndAgentTickUnmarked(p) ==
    /\ At(p, "claim")
    /\ orch[p].todo > Len(Registry)
    /\ Goto(p, "batch")
    /\ UNCHANGED <<tables, network, faults>>

EndAgentTick(p) ==
    /\ At(p, "claim")
    /\ orch[p].todo > Len(Registry)
    /\ Goto(p, "mark")
    /\ UNCHANGED <<tables, network, faults>>

\* agent_cls(self.cfg) is outside the try: the tick ends, the task stays claimed.
BuildFails(p) ==
    /\ At(p, "run")
    /\ task[orch[p].job].type \notin Buildable
    /\ Abort(p)
    /\ UNCHANGED <<tables, network, faults>>

\* _research, then _publish up to the request.
SendPost(p) ==
    /\ At(p, "run")
    /\ task[orch[p].job].type \in Buildable
    /\ posts' = posts \cup {orch[p].job}
    /\ Goto(p, "await")
    /\ UNCHANGED <<tables, replies, faults>>

\* Bug variant: the failed task is left to itself.
ResearchFailsSilently(p) ==
    /\ At(p, "run")
    /\ task[orch[p].job].type \in Buildable
    /\ Fault("llm")
    /\ Become(p, [orch[p] EXCEPT !.pc = "claim", !.todo = @ + 1, !.job = Null])
    /\ UNCHANGED <<tables, network>>

\* _research catches the exception, _publish returns at once.
ResearchFails(p) ==
    /\ At(p, "run")
    /\ task[orch[p].job].type \in Buildable
    /\ Fault("llm")
    /\ Goto(p, "settle")
    /\ UNCHANGED <<tables, network>>

ReceiveReply(p) ==
    \E r \in replies :
        /\ At(p, "await")
        /\ r.content = orch[p].job
        /\ replies' = replies \ {r}
        /\ Become(p, [orch[p] EXCEPT !.pc = "settle", !.outcome = r.id])
        /\ UNCHANGED <<tables, posts, faults>>

\* Bug variant: a request that timed out is sent again.
RetryPost(p) ==
    /\ At(p, "await")
    /\ Fault("http")
    /\ Goto(p, "run")
    /\ UNCHANGED <<tables, network>>

\* The server may still handle a request that the runtime has given up on.
PostTimesOut(p) ==
    /\ At(p, "await")
    /\ Fault("http")
    /\ posts' \in {posts, posts \ {orch[p].job}}
    /\ replies' = {r \in replies : r.content # orch[p].job}
    /\ Goto(p, "settle")
    /\ UNCHANGED tables

\* Bug variant: the next round still sees the task of the last one.
NextTypeSameTask(p) ==
    Become(p, [orch[p] EXCEPT !.pc = "claim", !.todo = @ + 1, !.outcome = Null])

NextType(p) ==
    Become(p, [orch[p] EXCEPT !.pc = "claim", !.todo = @ + 1,
                              !.job = Null, !.outcome = Null])

\* Bug variant: result.error is not looked at.
AlwaysComplete(p) == SetTask(orch[p].job, "complete", orch[p].outcome)

\* complete_task, or fail_task when result.error is set.
WriteOutcome(p) ==
    SetTask(orch[p].job, IF orch[p].outcome = Null THEN "failed" ELSE "complete",
            orch[p].outcome)

Settle(p) ==
    /\ At(p, "settle")
    /\ WriteOutcome(p)
    /\ NextType(p)
    /\ UNCHANGED <<active, inv, signals, messages, network, faults>>

\* Either call raises inside the try.
SettleRaises(p) ==
    /\ At(p, "settle")
    /\ \/ Fault("db") /\ UNCHANGED task
       \/ Fault("ack") /\ WriteOutcome(p)
    /\ Become(p, [orch[p] EXCEPT !.pc = "recover", !.outcome = Null])
    /\ UNCHANGED <<active, inv, signals, messages, network>>

\* Bug variant: the task is handed back instead of failed.
Requeue(p) ==
    /\ At(p, "recover")
    /\ SetTask(orch[p].job, "pending", Null)
    /\ NextType(p)
    /\ UNCHANGED <<active, inv, signals, messages, network, faults>>

\* except Exception: fail_task
Recover(p) ==
    /\ At(p, "recover")
    /\ SetTask(orch[p].job, "failed", Null)
    /\ NextType(p)
    /\ UNCHANGED <<active, inv, signals, messages, network, faults>>

RecoverRaises(p) ==
    /\ At(p, "recover")
    /\ \/ Fault("db") /\ UNCHANGED task
       \/ Fault("ack") /\ SetTask(orch[p].job, "failed", Null)
    /\ Abort(p)
    /\ UNCHANGED <<active, inv, signals, messages, network>>

-----------------------------------------------------------------------------
(* _handle_consensus_check and _run_consensus.                             *)

CheckActive(p) ==
    /\ At(p, "check")
    /\ Become(p, [orch[p] EXCEPT !.pc = "count", !.agenda = ActiveInvs])
    /\ UNCHANGED <<tables, network, faults>>

CountOpen(p) ==
    \E i \in orch[p].agenda :
        /\ At(p, "count")
        /\ \A j \in orch[p].agenda : i <= j
        /\ IF OpenTasks(i) = {}
           THEN Become(p, [orch[p] EXCEPT !.pc = "gather", !.agenda = @ \ {i}, !.inv = i])
           ELSE Become(p, [orch[p] EXCEPT !.agenda = @ \ {i}])
        /\ UNCHANGED <<tables, network, faults>>

EndConsensusCheck(p) ==
    /\ At(p, "count")
    /\ orch[p].agenda = {}
    /\ Goto(p, "mark")
    /\ UNCHANGED <<tables, network, faults>>

NextInv(p) ==
    Become(p, [orch[p] EXCEPT !.pc = "count", !.inv = 0, !.sources = {}])

\* Bug variant: the query without its WHERE.
GatherEverybodys(p) ==
    LET findings == UNION {FindingsOf(i) : i \in Invs} IN
    /\ At(p, "gather")
    /\ IF findings = {}
       THEN NextInv(p)
       ELSE Become(p, [orch[p] EXCEPT !.pc = "store", !.sources = findings])
    /\ UNCHANGED <<tables, network, faults>>

Gather(p) ==
    /\ At(p, "gather")
    /\ IF FindingsOf(orch[p].inv) = {}
       THEN NextInv(p)
       ELSE Become(p, [orch[p] EXCEPT !.pc = "store", !.sources = FindingsOf(orch[p].inv)])
    /\ UNCHANGED <<tables, network, faults>>

\* generate_report, then set_investigation_report
StoreReport(p) ==
    /\ At(p, "store")
    /\ SetReport(orch[p].inv, orch[p].sources)
    /\ Goto(p, "finish")
    /\ UNCHANGED <<active, task, signals, messages, network, faults>>

Finish(p) ==
    /\ At(p, "finish")
    /\ SetStatus(orch[p].inv, "complete")
    /\ NextInv(p)
    /\ UNCHANGED <<active, task, signals, messages, network, faults>>

\* Exceptions of the try in _run_consensus are logged and the loop goes on.
ConsensusRaises(p) ==
    /\ \/ At(p, "store") /\ (Fault("llm") \/ Fault("db")) /\ UNCHANGED inv
       \/ At(p, "store") /\ Fault("ack") /\ SetReport(orch[p].inv, orch[p].sources)
       \/ At(p, "finish") /\ Fault("db") /\ UNCHANGED inv
       \/ At(p, "finish") /\ Fault("ack") /\ SetStatus(orch[p].inv, "complete")
    /\ NextInv(p)
    /\ UNCHANGED <<active, task, signals, messages, network>>

-----------------------------------------------------------------------------
(* Faults that end the tick.                                               *)

\* The statements outside any try: claim, the queries of the consensus check
\* and mark_processed.
StatementRaises(p) ==
    /\ \/ orch[p].pc \in {"check", "gather", "mark"}
       \/ At(p, "claim") /\ orch[p].todo <= Len(Registry)
       \/ At(p, "count") /\ orch[p].agenda # {}
    /\ Fault("db")
    /\ Abort(p)
    /\ UNCHANGED <<tables, network>>

Crash(p) ==
    /\ ~At(p, "down")
    /\ Fault("crash")
    /\ Become(p, Fresh("down"))
    /\ UNCHANGED <<tables, network>>

\* What the process does of itself; the asyncio loop never stops doing it.
Progress(p) ==
    \/ Start(p) \/ Poll(p) \/ NextSignal(p) \/ EndTick(p) \/ Mark(p)
    \/ \E t \in TaskIds : ClaimTask(p, t)
    \/ ClaimNone(p) \/ EndAgentTick(p) \/ BuildFails(p)
    \/ SendPost(p) \/ ReceiveReply(p) \/ Settle(p) \/ Recover(p)
    \/ CheckActive(p) \/ CountOpen(p) \/ EndConsensusCheck(p)
    \/ Gather(p) \/ StoreReport(p) \/ Finish(p)

Failure(p) ==
    \/ \E t \in TaskIds : ClaimAckLost(p, t)
    \/ \E q \in Orchs, l \in TaskIds : ClaimSkipsLocked(p, q, l)
    \/ MarkAckLost(p) \/ ResearchFails(p) \/ PostTimesOut(p)
    \/ SettleRaises(p) \/ RecoverRaises(p) \/ ConsensusRaises(p)
    \/ StatementRaises(p) \/ Crash(p)

RuntimeNext == \E p \in Orchs : Progress(p) \/ Failure(p)
=============================================================================
