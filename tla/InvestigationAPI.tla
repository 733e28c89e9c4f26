-------------------------- MODULE InvestigationAPI --------------------------
(***************************************************************************)
(* The handlers of the Go server that change the tables of an              *)
(* investigation: agents, investigations, control signals and messages.    *)
(*                                                                         *)
(* POST /investigations runs a READ COMMITTED transaction of many          *)
(* statements: its rows are kept in tx[i] until the commit makes them      *)
(* visible.  POST /investigations/{id}/consensus reads and then writes     *)
(* outside a transaction: two actions.  Every other handler is one         *)
(* statement.                                                              *)
(***************************************************************************)
EXTENDS InvestigationStore

CONSTANTS
    Requests,         \* task_types of the requests: sequences of TaskTypes
    DefaultTypes,     \* the task types of a request that names none
    MaxPosts,         \* bound: messages that agents post by themselves
    Handlers,         \* bound: TriggerConsensus requests in flight
    RuntimeKey,       \* the agent whose key the runtime sends; Nil: the admin's
    OperatorSignals,  \* external: types of signals inserted by hand
    Seeds             \* external: investigations given a message row by hand

TypesOf(request) == IF request = <<>> THEN DefaultTypes ELSE request

ASSUME RequestsAssumption ==
    /\ DefaultTypes \in Seq(TaskTypes)
    /\ Requests \subseteq Seq(TaskTypes)
    /\ \A r \in Requests : Len(TypesOf(r)) <= MaxTasks
ASSUME ApiAssumption ==
    /\ MaxPosts \in Nat
    /\ RuntimeKey \in AgentIds \cup {Nil}
    /\ Seeds \subseteq Invs
    /\ OperatorSignals \subseteq {"start_investigation", "trigger_consensus"}

VARIABLES
    tx,      \* the CreateInvestigation transactions
    trigger  \* the investigation a TriggerConsensus handler has read

apiVars == <<tx, trigger>>

ApiTypeOK ==
    /\ tx \in [Invs -> [pc : {"none", "open", "committed", "rolled_back"},
                        types : Seq(TaskTypes),
                        rows : Seq(AgentIds)]]
    /\ \A i \in Invs : Len(tx[i].types) <= MaxTasks
    /\ trigger \in [Handlers -> Invs \cup {Nil}]

ApiInit ==
    /\ tx = [i \in Invs |-> [pc |-> "none", types |-> <<>>, rows |-> <<>>]]
    /\ trigger = [c \in Handlers |-> Nil]

-----------------------------------------------------------------------------
(* Agents.                                                                 *)

CreateAgent ==
    /\ InsertAgent
    /\ UNCHANGED <<inv, task, signals, messages, network, apiVars>>

UpdateAgent(a, flag) ==
    /\ SetActive(a, flag)
    /\ UNCHANGED <<inv, task, signals, messages, network, apiVars>>

\* ControlPauseAll and ControlResumeAll
SetAllActive(flag) ==
    /\ SetEveryActive(flag)
    /\ UNCHANGED <<inv, task, signals, messages, network, apiVars>>

ControlTick(a) ==
    /\ a \in DOMAIN active
    /\ InsertSignal("force_tick", a)
    /\ UNCHANGED <<active, inv, task, messages, network, apiVars>>

-----------------------------------------------------------------------------
(* CreateInvestigation.                                                    *)

\* The switch on the task type: "research" goes to the first active agent,
\* "news" to the second, and so on in the order of the default list; a type
\* without a slot, or whose slot is empty, goes to the last active agent.
Slot(ty) == {k \in DOMAIN DefaultTypes : DefaultTypes[k] = ty}
Rank(a) == Cardinality({b \in ActiveAgents : b <= a})
AssignedTo(a, ty) ==
    LET n == Cardinality(ActiveAgents) IN
    /\ a \in ActiveAgents
    /\ \/ Rank(a) \in Slot(ty)
       \/ Slot(ty) \cap (1 .. n) = {} /\ Rank(a) = n

BeginCreate(i, request) ==
    /\ tx[i].pc = "none"
    /\ \A j \in Invs : j < i => tx[j].pc # "none"
    /\ tx' = [tx EXCEPT ![i] = [pc |-> "open", types |-> TypesOf(request), rows |-> <<>>]]
    /\ UNCHANGED <<tables, network, trigger>>

\* One round of the loop.  The active agents are read again in every round.
\* With none of them, agentID stays uuid.Nil and the insert breaks the
\* foreign key: only RollbackCreate is left.
InsertTask(i, a) ==
    LET k == Len(tx[i].rows) + 1 IN
    /\ tx[i].pc = "open"
    /\ k <= Len(tx[i].types)
    /\ AssignedTo(a, tx[i].types[k])
    /\ tx' = [tx EXCEPT ![i].rows = Append(@, a)]
    /\ UNCHANGED <<tables, network, trigger>>

\* Bug variant: what was inserted is committed when the loop stops half-way.
CommitPartly(i) ==
    /\ tx[i].pc = "open"
    /\ tx' = [tx EXCEPT ![i].pc = "committed"]
    /\ SetStatus(i, "in_progress")
    /\ task' = [t \in TaskIds |->
                 IF t[1] = i /\ t[2] \in DOMAIN tx[i].rows
                 THEN [agent |-> tx[i].rows[t[2]], type |-> tx[i].types[t[2]],
                       status |-> "pending", result |-> Null]
                 ELSE task[t]]
    /\ UNCHANGED <<active, signals, messages, network, trigger>>

CommitCreate(i) ==
    /\ tx[i].pc = "open"
    /\ Len(tx[i].rows) = Len(tx[i].types)
    /\ tx' = [tx EXCEPT ![i].pc = "committed"]
    /\ SetStatus(i, "in_progress")
    /\ task' = [t \in TaskIds |->
                 IF t[1] = i /\ t[2] \in DOMAIN tx[i].rows
                 THEN [agent |-> tx[i].rows[t[2]], type |-> tx[i].types[t[2]],
                       status |-> "pending", result |-> Null]
                 ELSE task[t]]
    /\ UNCHANGED <<active, signals, messages, network, trigger>>

\* Any statement may fail, and the client may go away (r.Context()).
RollbackCreate(i) ==
    /\ tx[i].pc = "open"
    /\ tx' = [tx EXCEPT ![i].pc = "rolled_back"]
    /\ UNCHANGED <<tables, network, trigger>>

-----------------------------------------------------------------------------
(* TriggerConsensus: the check and the write are two statements.  It       *)
(* writes no control signal.                                               *)

TriggerCheck(c, i) ==
    /\ trigger[c] = Nil
    /\ inv[i].status \notin {"none", "complete"}
    /\ trigger' = [trigger EXCEPT ![c] = i]
    /\ UNCHANGED <<tables, network, tx>>

TriggerWrite(c) ==
    /\ trigger[c] # Nil
    /\ SetStatus(trigger[c], "consensus")
    /\ trigger' = [trigger EXCEPT ![c] = Nil]
    /\ UNCHANGED <<active, task, signals, messages, network, tx>>

-----------------------------------------------------------------------------
(* Messages.                                                               *)

\* Messages that agents post on their own account; MaxPosts bounds them.
MayPost ==
    /\ ActiveAgents # {} /\ FreeIds # {}
    /\ Cardinality({m \in messages : m.content = Null /\ m.id \in MsgIds}) < MaxPosts

CreateMessage ==
    /\ MayPost
    /\ InsertMessage(NewId, Null, Null)
    /\ UNCHANGED <<active, inv, task, signals, network, apiVars>>

RespondToMessage(parent) ==
    /\ MayPost
    /\ parent # Null
    /\ InsertMessage(NewId, Null, parent)
    /\ UNCHANGED <<active, inv, task, signals, network, apiVars>>

\* Authenticate puts the owner of the key into the request; with the admin's
\* key, an unknown one or that of a paused agent there is none.
RequireAgent(key) == AgentOfKey(key) # Nil

\* Bug variant: the route is not restricted to agent keys.
AcceptAnyPost(t) ==
    /\ t \in posts
    /\ FreeIds # {}
    /\ InsertMessage(NewId, t, Null)
    /\ posts' = posts \ {t}
    /\ replies' = replies \cup {[content |-> t, id |-> NewId]}
    /\ UNCHANGED <<active, inv, task, signals, apiVars>>

\* CreateMessage called by the runtime: a key that is not that of an active
\* agent is refused; parent_msg_id of the body is not read.
AcceptPost(t) ==
    /\ t \in posts
    /\ RequireAgent(RuntimeKey) /\ FreeIds # {}
    /\ InsertMessage(NewId, t, Null)
    /\ posts' = posts \ {t}
    /\ replies' = replies \cup {[content |-> t, id |-> NewId]}
    /\ UNCHANGED <<active, inv, task, signals, apiVars>>

RefusePost(t) ==
    /\ t \in posts
    /\ ~RequireAgent(RuntimeKey)
    /\ posts' = posts \ {t}
    /\ replies' = replies \cup {[content |-> t, id |-> Null]}
    /\ UNCHANGED <<tables, apiVars>>

-----------------------------------------------------------------------------
(* Rows inserted by hand: nothing in the repository writes these signals,  *)
(* and no message can have an investigation as its parent until a message  *)
(* row with the investigation's id exists.                                 *)

OperatorSignal(ty) ==
    /\ InsertSignal(ty, Nil)
    /\ UNCHANGED <<active, inv, task, messages, network, apiVars>>

OperatorSeed(i) ==
    /\ inv[i].status # "none"
    /\ InsertMessage(i, Null, Null)
    /\ UNCHANGED <<active, inv, task, signals, network, apiVars>>

ApiNext ==
    \/ CreateAgent
    \/ \E a \in AgentIds, flag \in BOOLEAN : UpdateAgent(a, flag)
    \/ \E flag \in BOOLEAN : SetAllActive(flag)
    \/ \E a \in AgentIds : ControlTick(a)
    \/ \E i \in Invs, request \in Requests : BeginCreate(i, request)
    \/ \E i \in Invs, a \in AgentIds : InsertTask(i, a)
    \/ \E i \in Invs : CommitCreate(i) \/ RollbackCreate(i)
    \/ \E c \in Handlers, i \in Invs : TriggerCheck(c, i)
    \/ \E c \in Handlers : TriggerWrite(c)
    \/ CreateMessage
    \/ \E parent \in RowIds : RespondToMessage(parent)
    \/ \E t \in TaskIds : AcceptPost(t) \/ RefusePost(t)
    \/ \E ty \in OperatorSignals : OperatorSignal(ty)
    \/ \E i \in Seeds : OperatorSeed(i)
=============================================================================
