------------------------- MODULE InvestigationStore -------------------------
(***************************************************************************)
(* The state that the Go API server and the Python agent runtime share:    *)
(* the PostgreSQL tables of migrations/001 to 003 and the HTTP requests    *)
(* in flight from the runtime to the server.  Neither process sees the     *)
(* memory of the other: everything they tell each other goes through here. *)
(*                                                                         *)
(* The operators are the SQL statements that both sides run.  A statement  *)
(* outside a transaction block is atomic; it is one operator, used in one  *)
(* action.                                                                 *)
(***************************************************************************)
EXTENDS Naturals, Sequences, FiniteSets

CONSTANTS
    NAgents,     \* bound: rows of the agents table
    NInvs,       \* bound: calls of POST /api/v1/investigations
    MaxTasks,    \* bound: tasks of one investigation
    MaxSignals,  \* bound: rows of control_signals
    MsgIds,      \* bound: ids of the message rows the server inserts
    TaskTypes,   \* task_type values a request may carry
    Null         \* SQL NULL, Python None

AgentIds == 1 .. NAgents  \* an agent is its rank in ORDER BY created_at
Nil == 0                  \* uuid.Nil, the id of no row
Invs == 1 .. NInvs        \* an investigation is the rank of its created_at
TaskIds == Invs \X (1 .. MaxTasks)
SignalIds == 1 .. MaxSignals

\* Primary keys of all tables are drawn from one UUID space and never collide.
RowIds == MsgIds \cup Invs

ASSUME BoundsAssumption ==
    NAgents \in Nat /\ NInvs \in Nat /\ MaxTasks \in Nat /\ MaxSignals \in Nat
ASSUME UuidAssumption == MsgIds \cap Invs = {}
ASSUME NullAssumption ==
    Null \notin TaskIds /\ Null \notin RowIds /\ Null \notin TaskTypes

VARIABLES
    active,    \* agents.active, in created_at order; its domain are the rows
    inv,       \* investigations: status ("none": no such row) and report
    task,      \* investigation_tasks ("none": no such row)
    signals,   \* control_signals in created_at order
    messages,  \* messages: a set of rows
    posts,     \* publish requests the server has not handled yet
    replies    \* answers to publish requests, not yet read by the runtime

tables == <<active, inv, task, signals, messages>>
network == <<posts, replies>>

InvRow == [status : {"none", "in_progress", "consensus", "complete"},
           report : SUBSET RowIds]  \* the messages it was written from; {}: NULL
TaskRow == [agent  : AgentIds \cup {Nil},
            type   : TaskTypes \cup {Null},
            status : {"none", "pending", "running", "complete", "failed"},
            result : RowIds \cup {Null}]  \* finding_id; Null: {"error": ...}
SignalRow == [type      : {"force_tick", "start_investigation", "trigger_consensus"},
              agent     : AgentIds \cup {Nil},
              processed : BOOLEAN]
\* content: the task whose research the text is, Null for anything else.
MessageRow == [id : RowIds, content : TaskIds \cup {Null}, parent : RowIds \cup {Null}]
Reply == [content : TaskIds, id : RowIds \cup {Null}]  \* Null: a 4xx answer

StoreTypeOK ==
    /\ active \in Seq(BOOLEAN) /\ Len(active) <= NAgents
    /\ inv \in [Invs -> InvRow]
    /\ task \in [TaskIds -> TaskRow]
    /\ signals \in Seq(SignalRow) /\ Len(signals) <= MaxSignals
    /\ messages \subseteq MessageRow
    /\ posts \subseteq TaskIds
    /\ replies \subseteq Reply

StoreInit ==
    /\ active = <<>>
    /\ inv = [i \in Invs |-> [status |-> "none", report |-> {}]]
    /\ task = [t \in TaskIds |->
                 [agent |-> Nil, type |-> Null, status |-> "none", result |-> Null]]
    /\ signals = <<>>
    /\ messages = {}
    /\ posts = {}
    /\ replies = {}

-----------------------------------------------------------------------------
(* Queries.                                                                *)

\* SELECT id FROM agents WHERE active = true
ActiveAgents == {a \in DOMAIN active : active[a]}

\* Bug variants of the claim: a claimed task is offered again; the type of
\* the task is not compared ($2 IS NULL).
ClaimableWhileRunning(a, ty) ==
    {t \in TaskIds : /\ task[t].agent = a /\ task[t].type = ty
                     /\ task[t].status \in {"pending", "running"}}
ClaimableOfAnyType(a, ty) ==
    {t \in TaskIds : task[t].agent = a /\ task[t].status = "pending"}

\* SELECT ... FROM agents WHERE api_key = $1 AND active = true: a key is named
\* by the agent it was generated for.
AgentOfKey(key) == IF key \in ActiveAgents THEN key ELSE Nil

\* SELECT ... WHERE agent_id = $1 AND status = 'pending' AND task_type = $2
Claimable(a, ty) ==
    {t \in TaskIds : task[t].agent = a /\ task[t].type = ty /\ task[t].status = "pending"}

\* ORDER BY created_at LIMIT 1: created_at is the start of the transaction
\* that inserted the row, so the tasks of one investigation are ties.
Oldest(S) == {t \in S : \A u \in S : t[1] <= u[1]}

\* Bug variant: AND status = 'pending'
OpenTasksNotRunning(i) == {t \in TaskIds : t[1] = i /\ task[t].status = "pending"}

\* WHERE investigation_id = $1 AND status IN ('pending', 'running')
OpenTasks(i) ==
    {t \in TaskIds : t[1] = i /\ task[t].status \in {"pending", "running"}}

\* WHERE status IN ('in_progress', 'consensus')
ActiveInvs == {i \in Invs : inv[i].status \in {"in_progress", "consensus"}}

\* WHERE m.parent_msg_id = $1
FindingsOf(i) == {m.id : m \in {n \in messages : n.parent = i}}

\* WHERE processed = false
Unprocessed == {s \in DOMAIN signals : ~signals[s].processed}

-----------------------------------------------------------------------------
(* Updates.  None of them looks at the status it overwrites.               *)

\* active has the default true
InsertAgent == Len(active) < NAgents /\ active' = Append(active, TRUE)

SetActive(a, flag) == a \in DOMAIN active /\ active' = [active EXCEPT ![a] = flag]

SetEveryActive(flag) == active' = [a \in DOMAIN active |-> flag]

SetTask(t, status, result) ==
    task' = [task EXCEPT ![t].status = status, ![t].result = result]

SetStatus(i, status) == inv' = [inv EXCEPT ![i].status = status]

SetReport(i, sources) == inv' = [inv EXCEPT ![i].report = sources]

SetProcessed(s) == signals' = [signals EXCEPT ![s].processed = TRUE]

\* agent_id references agents(id), and may be NULL
InsertSignal(ty, a) ==
    /\ a \in DOMAIN active \cup {Nil}
    /\ Len(signals) < MaxSignals
    /\ signals' = Append(signals, [type |-> ty, agent |-> a, processed |-> FALSE])

\* parent_msg_id references messages(id), and may be NULL
InsertMessage(id, content, parent) ==
    /\ id \notin {m.id : m \in messages}
    /\ parent \in {m.id : m \in messages} \cup {Null}
    /\ messages' = messages \cup {[id |-> id, content |-> content, parent |-> parent]}

\* gen_random_uuid(): an id that no row has yet.
FreeIds == MsgIds \ {m.id : m \in messages}
NewId == CHOOSE id \in MsgIds : id \in FreeIds
=============================================================================
