----------------------------- MODULE MockServer -----------------------------
(***************************************************************************)
(* lib/api/mock.ts: what a request does to the agents.  An agent is its    *)
(* place in the array (ids are a1, a2, ..): nothing removes one.  The text *)
(* of an agent stands for display_name, description and personality.       *)
(* The Go handlers of the same routes do the same to the table agents,     *)
(* except where a definition says otherwise.                               *)
(***************************************************************************)
EXTENDS Naturals, Sequences

CONSTANTS
    Usernames,   \* usernames of agents, old and new
    Texts,       \* texts of agents, old and new
    Blank        \* the empty field of a form

AgentRow == [username : Usernames, text : Texts, active : BOOLEAN]

ASSUME MockAssumption == Blank \notin Usernames \cup Texts /\ Texts # {}

VARIABLE agents    \* the agents of the server, or of mock.ts

AgentsTypeOK == agents \in Seq(AgentRow)

\* POST /agents: the new agent is active; the username is not looked up.
PostAgent(form) ==
    Append(agents, [username |-> form.username, text |-> form.text, active |-> TRUE])

\* The column username of the table is unique.
Taken(username) == \E i \in DOMAIN agents : agents[i].username = username

\* Bug variant: a field that is not in the request is assigned too.
PatchAgentUnchecked(id, req) ==
    [agents EXCEPT ![id] =
        [@ EXCEPT !.active = IF "active" \in DOMAIN req THEN req.active ELSE Blank]]

\* PATCH /agents/:id takes the fields that are there and not empty, never
\* the username.
Patched(row, req) ==
    [row EXCEPT
        !.active = IF "active" \in DOMAIN req THEN req.active ELSE @,
        !.text = IF "text" \in DOMAIN req /\ req.text # Blank THEN req.text ELSE @]

PatchAgent(id, req) == [agents EXCEPT ![id] = Patched(agents[id], req)]

\* POST /control/pause-all and /control/resume-all.
SetAllActive(b) == [i \in DOMAIN agents |-> [agents[i] EXCEPT !.active = b]]

\* GET /control/status: a new array with every call.
Statuses == [i \in DOMAIN agents |-> agents[i].active]

=============================================================================
