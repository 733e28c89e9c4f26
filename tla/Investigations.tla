--------------------------- MODULE Investigations ---------------------------
(***************************************************************************)
(* The API server and the runtime processes over one database, and what    *)
(* they guarantee together about an investigation.                         *)
(***************************************************************************)
EXTENDS InvestigationAPI, Orchestrator

vars == <<tables, network, apiVars, runtimeVars>>

TypeOK == StoreTypeOK /\ ApiTypeOK /\ RuntimeTypeOK

Init == StoreInit /\ ApiInit /\ RuntimeInit

Next ==
    \/ ApiNext /\ UNCHANGED runtimeVars
    \/ RuntimeNext /\ UNCHANGED apiVars

Spec == Init /\ [][Next]_vars

\* start() loops for ever and sleeps between two ticks, so a process that can
\* step does; the server handles the requests that reach it.  Nothing is
\* assumed of users, operators and faults.
Fairness ==
    /\ \A p \in Orchs : WF_vars(Progress(p) /\ UNCHANGED apiVars)
    /\ \A t \in TaskIds : WF_vars((AcceptPost(t) \/ RefusePost(t)) /\ UNCHANGED runtimeVars)

LiveSpec == Spec /\ Fairness

-----------------------------------------------------------------------------
(* Who holds a task.                                                       *)

Committed(i) == tx[i].pc = "committed"
Settled(t) == task[t].status \in {"complete", "failed"}
Registered(ty) == \E k \in DOMAIN Registry : Registry[k] = ty

\* Two runtimes that polled the same force_tick never run the same task, and
\* a task that somebody runs is not offered to anybody else: get_pending_task
\* claims in one statement and nothing makes a task pending again.
OneHolder ==
    \A p \in Orchs :
        orch[p].job # Null =>
            /\ task[orch[p].job].status \in {"running", "complete", "failed"}
            /\ \A q \in Orchs \ {p} : orch[q].job # orch[p].job

\* The research of a task is published at most once, whatever is retried,
\* times out, arrives late or crashes (_publish, CreateMessage).
PublishedOnce ==
    \A m, n \in messages : m.content = n.content /\ m.content # Null => m = n

\* The finding that a complete task names is a message of the stream and
\* holds that task's research (complete_task with result.finding_id).
CompleteHasFinding ==
    \A t \in TaskIds :
        task[t].status = "complete" =>
            \E m \in messages : m.id = task[t].result /\ m.content = t

-----------------------------------------------------------------------------
(* CreateInvestigation.                                                    *)

\* Whoever sees an investigation sees all its tasks, each for an agent that
\* exists and of the type that was asked for (one transaction, one commit),
\* and a request that failed half-way leaves no task to be worked on.
ReleasedWhole ==
    \A i \in Invs :
        LET rows == {t \in TaskIds : t[1] = i /\ task[t].status # "none"} IN
        IF inv[i].status = "none"
        THEN rows = {}
        ELSE /\ Committed(i)
             /\ rows = {i} \X DOMAIN tx[i].types
             /\ \A t \in rows : /\ task[t].agent \in DOMAIN active
                                /\ task[t].type = tx[i].types[t[2]]

-----------------------------------------------------------------------------
(* The consensus.                                                          *)

\* An investigation is only ever completed when none of its tasks can still
\* produce a finding, although count_pending_tasks and the write are several
\* statements apart and other runtimes go on claiming meanwhile.
CompleteOnlyWhenSettled ==
    \A t \in TaskIds :
        inv[t[1]].status = "complete" => task[t].status \notin {"pending", "running"}

\* A report names messages that are findings of that very investigation, and
\* an investigation is not complete without one: two runtimes that run the
\* consensus at once, crash or lose acknowledgements cannot mix reports up.
ReportGrounded ==
    \A i \in Invs :
        /\ inv[i].report \subseteq FindingsOf(i)
        /\ inv[i].status = "complete" => inv[i].report # {}

-----------------------------------------------------------------------------
(* What the shipped configuration cannot do.                               *)

\* A task whose type is not a key of AGENT_REGISTRY ("consensus" of the
\* default list) is never claimed, and its investigation never completes.
UnregisteredStaysPending ==
    \A t \in TaskIds :
        (task[t].status # "none" /\ ~Registered(task[t].type)) =>
            /\ task[t].status = "pending"
            /\ inv[t[1]].status # "complete"

\* _publish sends admin_api_key, RequireAgent refuses a key that is not an
\* agent's: nothing is published and no task completes.
NonAgentKeyNeverCompletes ==
    RuntimeKey = Nil =>
        /\ \A m \in messages : m.content = Null
        /\ \A t \in TaskIds : task[t].status # "complete"

-----------------------------------------------------------------------------
(* The abstract task queue.                                                *)

TaskStatus == [t \in TaskIds |-> task[t].status]

Lifecycle == INSTANCE TaskLifecycle WITH
    Tasks <- TaskIds,
    AckLoss <- "ack" \in FaultKinds,
    status <- TaskStatus

\* The task table goes through the steps of the abstract queue and no others,
\* with any number of runtimes, crashes and retries.
ImplementsLifecycle == Lifecycle!Spec

-----------------------------------------------------------------------------
(* Progress.                                                               *)

\* Signals are durable: one that was written is handled and marked in the
\* end, although a failed tick drops the batch it was polled in and starts
\* over (start, poll, mark_processed).
SignalsDrain ==
    \A s \in SignalIds :
        s \in Unprocessed ~> (s \in DOMAIN signals /\ signals[s].processed)

\* A force_tick for agent a that is unprocessed and in nobody's hands.
UnpolledTick(a) ==
    \E s \in Unprocessed :
        /\ signals[s].type = "force_tick" /\ signals[s].agent = a
        /\ \A p \in Orchs : s \notin orch[p].batch /\ s # orch[p].signal

\* A tick that nobody has polled yet takes the task that waits for it, even
\* if the process dies while it handles the tick (spec.md:171, "no lost
\* messages if Python restarts"; tick marks after handling).  With one runtime
\* only: of two, one may skip the task that the other has locked, mark the
\* tick, and leave the task when the other's statement is rolled back.
TickServed ==
    \A a \in AgentIds, t \in TaskIds :
        (/\ Registered(task[t].type)
         /\ Claimable(a, task[t].type) = {t}
         /\ UnpolledTick(a))
        ~> task[t].status # "pending"

\* Without a dying process or database, a claimed task is settled: late and
\* refused publish requests and failing models all end in complete or failed.
ClaimedSettles ==
    \A t \in TaskIds : task[t].status = "running" ~> Settled(t)

-----------------------------------------------------------------------------
(* What the repository says of itself and the code does not do.            *)

\* scheduler.py:10: "Polls investigation_tasks for pending tasks and
\* dispatches to agents."  Only a force_tick makes a runtime look at the
\* tasks, and CreateInvestigation writes none.
PendingIsDispatched ==
    \A t \in TaskIds :
        (task[t].status = "pending" /\ Registered(task[t].type))
            ~> task[t].status # "pending"

\* orchestrator.py:8: "Trigger consensus when all tasks complete".  Nothing
\* writes the trigger_consensus signal that the consensus check waits for.
ConsensusWhenSettled ==
    \A i \in Invs :
        (Committed(i) /\ OpenTasks(i) = {} /\ FindingsOf(i) # {})
            ~> inv[i].status = "complete"

\* base.py:83: body["parent_msg_id"] = str(state.investigation_id), which is
\* where _run_consensus looks for findings.  The handler of the route stores
\* no parent.
PublishedUnderInvestigation ==
    \A m \in messages : m.content # Null => m.parent = m.content[1]

\* investigations.go:101: consensus cannot be triggered for an investigation
\* that is "investigation_already_complete".  The status is read first and
\* overwritten later.
CompleteIsFinal ==
    [][\A i \in Invs : inv[i].status = "complete" => inv'[i].status = "complete"]_vars
=============================================================================
