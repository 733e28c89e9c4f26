----------------------------- MODULE AgentsPage -----------------------------
(***************************************************************************)
(* app/agents/page.tsx with its hooks useAgents, useCreateAgent and        *)
(* useUpdateAgent: one form for new and for edited agents, a button on     *)
(* every card that pauses or resumes the agent, a list that is polled.     *)
(*                                                                         *)
(* React draws the page when a state variable gets another value.  GET     *)
(* /agents of the mock answers the very array that it changes, so that the *)
(* state holds Array once and for all and no later answer makes React      *)
(* draw.  In live mode there are no answers, only errors (see ApiClient).  *)
(***************************************************************************)
EXTENDS ApiClient, MockServer

CONSTANTS
    Array,      \* the array `agents` of the mock itself, not a copy
    Writes,     \* places for a POST or PATCH request and the refresh after it
    Polls,      \* places for the GET requests of the timer of useAgents
    MaxWrites   \* bound: POST and PATCH requests that the user makes

\* Array is an identity: it is not the empty list of the first drawing.
ASSUME AgentsPageAssumption == Array # <<>> /\ MaxWrites \in Nat

VARIABLES
    form,       \* `form`
    editingId,  \* `editingId`
    showForm,   \* `showForm`
    creating, updating,  \* `loading` of useCreateAgent and of useUpdateAgent
    hookAgents, \* `agents` of useAgents
    listView,   \* its `loading` and `error`: "loading", "data" or "error"
    drawn,      \* the agents on the screen
    asked,      \* GET requests under way
    writes,     \* writes[w]: a POST or PATCH request
    sent,       \* writes sent so far
    overlapped  \* two writes were under way at once

formVars == <<form, editingId, showForm>>
agentsPageVars ==
    <<formVars, creating, updating, hookAgents, listView, drawn,
      asked, writes, sent, overlapped>>

Form == [username : Usernames \cup {Blank}, text : Texts \cup {Blank}]
BlankForm == [username |-> Blank, text |-> Blank]
None == [kind |-> "none"]
Lists == Polls \cup Writes

WriteRequest ==
    [kind : {"none"}] \cup [kind : {"create"}, body : Form]
        \cup [kind : {"update"}, id : Nat \ {0}, body : Form \cup [active : BOOLEAN]]

AgentsPageTypeOK ==
    /\ form \in Form
    /\ editingId \in Nat \cup {Nil}
    /\ showForm \in BOOLEAN /\ creating \in BOOLEAN /\ updating \in BOOLEAN
    /\ hookAgents \in {<<>>, Array}
    /\ listView \in {"loading", "data", "error"}
    /\ drawn \in Seq(AgentRow)
    /\ asked \subseteq Lists
    /\ writes \in [Writes -> WriteRequest]
    /\ sent \in 0..MaxWrites
    /\ overlapped \in BOOLEAN

\* The first drawing, and the effect of useAgents has asked for the list.
AgentsPageInit ==
    /\ form = BlankForm /\ editingId = Nil /\ showForm = FALSE
    /\ creating = FALSE /\ updating = FALSE
    /\ hookAgents = <<>> /\ listView = "loading" /\ drawn = <<>>
    /\ \E l \in Polls : asked = {l}
    /\ writes = [w \in Writes |-> None]
    /\ sent = 0 /\ overlapped = FALSE

-----------------------------------------------------------------------------
(* Drawing.                                                                *)

\* What the state of useAgents holds now.
Content == IF hookAgents = Array THEN agents ELSE <<>>

Draw == drawn' = Content'

\* Setting a state variable to the value it has does not draw the page.
DrawIfChanged ==
    IF <<formVars, creating, updating, hookAgents, listView>>'
         = <<formVars, creating, updating, hookAgents, listView>>
    THEN UNCHANGED drawn
    ELSE Draw

\* The grid of cards is there when the list is neither loading nor failed.
Card(i) == listView = "data" /\ i \in DOMAIN drawn

-----------------------------------------------------------------------------
(* The form.                                                               *)

\* Bug variant: the reset forgets editingId.
ResetFormOnly(open) ==
    /\ form' = BlankForm
    /\ UNCHANGED editingId
    /\ showForm' = open

ResetForm(open) ==
    /\ form' = BlankForm
    /\ editingId' = Nil
    /\ showForm' = open

UnchangedByForm ==
    UNCHANGED <<agents, creating, updating, hookAgents, listView, asked, writes,
                sent, overlapped, clientVars>>

\* "New Agent" and, in the form, "Cancel" and the cross.
New == ResetForm(TRUE) /\ UnchangedByForm /\ Draw
Cancel == showForm /\ ResetForm(FALSE) /\ UnchangedByForm /\ Draw

\* startEdit fills the form from the agent as the state holds it.
StartEdit(i) ==
    /\ Card(i)
    /\ form' = [username |-> Content[i].username, text |-> Content[i].text]
    /\ editingId' = i
    /\ showForm' = TRUE
    /\ UnchangedByForm
    /\ Draw

\* The inputs, filled in one after the other and seen here when both are;
\* the one for the username is disabled while an agent is edited.
Type(u, t) ==
    /\ showForm
    /\ editingId # Nil => u = form.username
    /\ form' = [username |-> u, text |-> t]
    /\ UNCHANGED <<editingId, showForm>>
    /\ UnchangedByForm
    /\ Draw

-----------------------------------------------------------------------------
(* Requests.                                                               *)

Send(w, r) ==
    /\ writes[w] = None /\ w \notin asked /\ sent < MaxWrites
    /\ writes' = [writes EXCEPT ![w] = r]
    /\ sent' = sent + 1
    /\ overlapped' = (overlapped \/ \E v \in Writes : writes[v] # None)

Complete(f) == f.username # Blank /\ f.text # Blank

\* handleSubmit; the button is disabled while a write is "Saving...".
SubmitNew(w) ==
    /\ showForm /\ ~creating /\ ~updating
    /\ Complete(form) /\ editingId = Nil
    /\ Send(w, [kind |-> "create", body |-> form])
    /\ creating' = TRUE
    /\ UNCHANGED <<agents, formVars, updating, hookAgents, listView, asked, clientVars>>
    /\ DrawIfChanged

SubmitEdit(w) ==
    /\ showForm /\ ~creating /\ ~updating
    /\ Complete(form) /\ editingId # Nil
    /\ Send(w, [kind |-> "update", id |-> editingId, body |-> form])
    /\ updating' = TRUE
    /\ UNCHANGED <<agents, formVars, creating, hookAgents, listView, asked, clientVars>>
    /\ DrawIfChanged

\* handleToggleActive; this button is never disabled.
ToggleActive(w, i) ==
    /\ Card(i)
    /\ Send(w, [kind |-> "update", id |-> i, body |-> [active |-> ~Content[i].active]])
    /\ updating' = TRUE
    /\ UNCHANGED <<agents, formVars, creating, hookAgents, listView, asked, clientVars>>
    /\ DrawIfChanged

\* A GET /agents request.
Ask(l) == asked' = asked \cup {l}

\* The timer of useAgents.
Poll(l) ==
    /\ l \notin asked
    /\ Ask(l)
    /\ UNCHANGED <<agents, formVars, creating, updating, hookAgents, listView, drawn,
                   writes, sent, overlapped, clientVars>>

\* What a write does to the agents.
Effect(r) ==
    IF r.kind = "create" THEN PostAgent(r.body)
    ELSE PatchAgent(r.id, r.body)

\* Bug variant: no `finally`, `loading` of an update stays.
ContinueLoading(w, ok) ==
    LET r == writes[w] IN
    /\ writes' = [writes EXCEPT ![w] = None]
    /\ Ask(w)
    /\ creating' = IF r.kind = "create" THEN FALSE ELSE creating
    /\ UNCHANGED <<updating, hookAgents, listView, sent, overlapped>>
    /\ IF r.kind = "create" /\ ok
       THEN ResetForm(FALSE) /\ Draw
       ELSE UNCHANGED formVars /\ DrawIfChanged

\* Bug variant: `loading` ends in the try block, after a good answer.
ContinueIfOk(w, ok) ==
    LET r == writes[w] IN
    /\ writes' = [writes EXCEPT ![w] = None]
    /\ Ask(w)
    /\ creating' = IF r.kind = "create" /\ ok THEN FALSE ELSE creating
    /\ updating' = IF r.kind = "update" /\ ok THEN FALSE ELSE updating
    /\ UNCHANGED <<hookAgents, listView, sent, overlapped>>
    /\ IF r.kind = "create" /\ ok
       THEN ResetForm(FALSE) /\ Draw
       ELSE UNCHANGED formVars /\ DrawIfChanged

\* The code after `await`: loading is false again, good or bad; an agent that
\* was created resets the form; the list is asked for.
Continue(w, ok) ==
    LET r == writes[w] IN
    /\ writes' = [writes EXCEPT ![w] = None]
    /\ Ask(w)
    /\ creating' = IF r.kind = "create" THEN FALSE ELSE creating
    /\ updating' = IF r.kind = "update" THEN FALSE ELSE updating
    /\ UNCHANGED <<hookAgents, listView, sent, overlapped>>
    /\ IF r.kind = "create" /\ ok
       THEN ResetForm(FALSE) /\ Draw
       ELSE UNCHANGED formVars /\ DrawIfChanged

MockWrites(w) ==
    /\ MockAnswers /\ writes[w] # None
    /\ agents' = Effect(writes[w])
    /\ Continue(w, TRUE)
    /\ UNCHANGED clientVars

WriteFails(w) ==
    /\ writes[w] # None
    /\ RequestThrows
    /\ UNCHANGED agents
    /\ Continue(w, FALSE)

MockLists(l) ==
    /\ MockAnswers /\ l \in asked
    /\ asked' = asked \ {l}
    /\ hookAgents' = Array
    /\ listView' = "data"
    /\ UNCHANGED <<agents, formVars, creating, updating, writes, sent, overlapped, clientVars>>
    /\ DrawIfChanged

ListFails(l) ==
    /\ l \in asked
    /\ RequestThrows
    /\ asked' = asked \ {l}
    /\ listView' = "error"
    /\ UNCHANGED <<agents, formVars, creating, updating, hookAgents, writes, sent, overlapped>>
    /\ DrawIfChanged

AgentsPageNext ==
    \/ New
    \/ Cancel
    \/ \E i \in DOMAIN drawn : StartEdit(i)
    \/ \E u \in Usernames, t \in Texts : Type(u, t)
    \/ \E w \in Writes :
          \/ SubmitNew(w)
          \/ SubmitEdit(w)
          \/ \E i \in DOMAIN drawn : ToggleActive(w, i)
          \/ MockWrites(w)
          \/ WriteFails(w)
    \/ \E l \in Polls : Poll(l)
    \/ \E l \in Lists : MockLists(l) \/ ListFails(l)

-----------------------------------------------------------------------------
\* What is sent to an agent was typed in the form of that agent: whatever
\* answers reset the form meanwhile, an edit never lands on another agent and
\* the fields of a new agent never on an old one (editingId and form change
\* together).
EditsReachTheirAgent ==
    /\ \A w \in Writes :
          (writes[w].kind = "update" /\ "username" \in DOMAIN writes[w].body) =>
              writes[w].body.username = agents[writes[w].id].username
    /\ editingId # Nil => form.username = agents[editingId].username

\* "Saving..." ends, also after a refusal or an error (finally).
SavingEnds == (creating \/ updating) ~> (~creating /\ ~updating)

\* With the mock, the cards are right whenever no write is under way, as long
\* as no two writes ever were: it is the end of "Saving..." that draws them.
DrawnUnlessOverlapped ==
    (/\ mode = "mock" /\ hookAgents = Array /\ ~overlapped
     /\ \A w \in Writes : writes[w] = None) => drawn = agents

\* frontend-prompt.md: the agent list is fetched again every 30 s
\* ("refetchInterval: 30000"), so that no card stays wrong.
ListRefetched == (drawn # agents) ~> (drawn = agents)

\* frontend-prompt.md: "All dashboard requests include this header"; the list
\* of agents fails only when the network or the server does.
KeyAccepted == listView = "error" => fails > 0

=============================================================================
