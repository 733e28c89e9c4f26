---------------------------- MODULE SettingsPage ----------------------------
(***************************************************************************)
(* app/settings/page.tsx: it asks the server for the agents once and then  *)
(* keeps its own list, which it changes by what it believes its requests   *)
(* do.  It does not use lib/api: there is no mock, no poll and no look at  *)
(* the status of an answer.                                                *)
(***************************************************************************)
EXTENDS ApiClient, MockServer

CONSTANTS
    AgentLimit,  \* the limit of GET /agents, which the page does not set
    Toggles,     \* places for PATCH requests under way
    MaxSettings, \* bound: POST and PATCH requests
    MaxOthers    \* bound: changes that others make to the agents

VARIABLES
    shown,       \* `agents`
    shownLoading, \* `loading`
    getting,     \* the GET of the effect
    posting,     \* the POST; while there is one, `creating` disables the button
    toggling,    \* toggling[t]: a PATCH
    settingsSent, \* POST and PATCH requests so far
    others,      \* changes by others so far
    raced        \* somebody else changed the agents after the GET was served,
                 \* a create met the GET, two toggles met on an agent, or a
                 \* request failed or was refused

settingsPageVars ==
    <<shown, shownLoading, getting, posting, toggling, settingsSent, others, raced>>

\* A row of the list: the agent's number, and what the page knows of it.
SettingsRow == [id : Nat, active : BOOLEAN]

\* What the body of an error makes: id and active are undefined.
ErrorRow == [id |-> 0, active |-> FALSE]

ASSUME SettingsPageAssumption ==
    AgentLimit \in Nat \ {0} /\ MaxSettings \in Nat /\ MaxOthers \in Nat

\* GET /agents: the newest AgentLimit agents, the newest first.
Rows ==
    LET n == Len(agents) IN
    [i \in 1..(IF n < AgentLimit THEN n ELSE AgentLimit) |->
        [id |-> n + 1 - i, active |-> agents[n + 1 - i].active]]

NoGet == [phase |-> "none", rows |-> <<>>]
NoCreate == [phase |-> "none", username |-> Blank, answer |-> ErrorRow]
NoToggle == [phase |-> "none", id |-> 0, active |-> FALSE]

SettingsPageTypeOK ==
    /\ shown \in Seq(SettingsRow)
    /\ shownLoading \in BOOLEAN
    /\ getting \in [phase : {"none", "sent", "served"}, rows : Seq(SettingsRow)]
    /\ posting \in [phase : {"none", "sent", "served"}, username : Usernames \cup {Blank},
                    answer : SettingsRow]
    /\ toggling \in [Toggles -> [phase : {"none", "sent", "served"}, id : Nat,
                                 active : BOOLEAN]]
    /\ settingsSent \in 0..MaxSettings
    /\ others \in 0..MaxOthers
    /\ raced \in BOOLEAN

SettingsPageInit ==
    /\ shown = <<>> /\ shownLoading = TRUE
    /\ getting = [phase |-> "sent", rows |-> <<>>]
    /\ posting = NoCreate
    /\ toggling = [t \in Toggles |-> NoToggle]
    /\ settingsSent = 0 /\ others = 0
    /\ raced = FALSE

-----------------------------------------------------------------------------
(* The list, once.                                                         *)

GetServed ==
    /\ getting.phase = "sent"
    /\ getting' = [phase |-> "served", rows |-> Rows]
    /\ UNCHANGED <<agents, shown, shownLoading, posting, toggling, settingsSent, others,
                   raced, clientVars>>

\* setAgents(data.agents || []) replaces whatever the list is by now.
GetAnswered ==
    /\ getting.phase = "served"
    /\ shown' = getting.rows
    /\ getting' = NoGet
    /\ shownLoading' = FALSE
    /\ UNCHANGED <<agents, posting, toggling, settingsSent, others, raced, clientVars>>

\* `finally`; an error body has no agents.
GetFails ==
    /\ getting # NoGet
    /\ RequestFails
    /\ getting' = NoGet
    /\ shownLoading' = FALSE
    /\ shown' \in {shown, <<>>}
    /\ raced' = TRUE
    /\ UNCHANGED <<agents, posting, toggling, settingsSent, others>>

-----------------------------------------------------------------------------
(* createAgent.                                                            *)

Create(u) ==
    /\ posting = NoCreate /\ settingsSent < MaxSettings
    /\ posting' = [NoCreate EXCEPT !.phase = "sent", !.username = u]
    /\ settingsSent' = settingsSent + 1
    /\ raced' = (raced \/ getting # NoGet)
    /\ UNCHANGED <<agents, shown, shownLoading, getting, toggling, others, clientVars>>

CreateServed ==
    /\ posting.phase = "sent"
    /\ IF Taken(posting.username)
       THEN /\ posting' = [posting EXCEPT !.phase = "served"]
            /\ UNCHANGED agents
       ELSE /\ agents' = PostAgent([username |-> posting.username,
                                    text |-> CHOOSE t \in Texts : TRUE])
            /\ posting' = [posting EXCEPT !.phase = "served",
                               !.answer = [id |-> Len(agents) + 1, active |-> TRUE]]
    /\ UNCHANGED <<shown, shownLoading, getting, toggling, settingsSent, others, raced,
                   clientVars>>

\* The answer is appended, whatever it is.
CreateAnswered ==
    /\ posting.phase = "served"
    /\ shown' = Append(shown, posting.answer)
    /\ posting' = NoCreate
    /\ raced' = (raced \/ posting.answer = ErrorRow)
    /\ UNCHANGED <<agents, shownLoading, getting, toggling, settingsSent, others, clientVars>>

\* No answer: `finally` alone.
CreateFails ==
    /\ posting # NoCreate
    /\ RequestFails
    /\ posting' = NoCreate
    /\ raced' = TRUE
    /\ UNCHANGED <<agents, shown, shownLoading, getting, toggling, settingsSent, others>>

-----------------------------------------------------------------------------
(* toggleActive.                                                           *)

\* The button of a row sends the opposite of what the row shows.
Toggle(t, row) ==
    /\ ~shownLoading
    /\ toggling[t] = NoToggle /\ settingsSent < MaxSettings
    /\ toggling' = [toggling EXCEPT ![t] =
                       [phase |-> "sent", id |-> row.id, active |-> row.active]]
    /\ settingsSent' = settingsSent + 1
    /\ raced' = (raced \/ \E s \in Toggles : toggling[s] # NoToggle /\ toggling[s].id = row.id)
    /\ UNCHANGED <<agents, shown, shownLoading, getting, posting, others, clientVars>>

\* PATCH /agents/undefined is refused.
ToggleServed(t) ==
    /\ toggling[t].phase = "sent"
    /\ agents' = IF toggling[t].id \in DOMAIN agents
                 THEN PatchAgent(toggling[t].id, [active |-> ~toggling[t].active])
                 ELSE agents
    /\ toggling' = [toggling EXCEPT ![t].phase = "served"]
    /\ UNCHANGED <<shown, shownLoading, getting, posting, settingsSent, others, raced,
                   clientVars>>

\* Bug variant: the row gets the state it had when the button was pressed.
FlippedBack(id, active) ==
    [i \in DOMAIN shown |->
        IF shown[i].id = id THEN [shown[i] EXCEPT !.active = active] ELSE shown[i]]

\* The rows with this id in the list as it is now.
Flipped(id, active) ==
    [i \in DOMAIN shown |->
        IF shown[i].id = id THEN [shown[i] EXCEPT !.active = ~active] ELSE shown[i]]

ToggleAnswered(t) ==
    /\ toggling[t].phase = "served"
    /\ shown' = Flipped(toggling[t].id, toggling[t].active)
    /\ toggling' = [toggling EXCEPT ![t] = NoToggle]
    /\ UNCHANGED <<agents, shownLoading, getting, posting, settingsSent, others, raced,
                   clientVars>>

\* A refusal is taken for a success, a lost answer for nothing.
ToggleFails(t) ==
    /\ toggling[t] # NoToggle
    /\ RequestFails
    /\ shown' \in {shown, Flipped(toggling[t].id, toggling[t].active)}
    /\ toggling' = [toggling EXCEPT ![t] = NoToggle]
    /\ raced' = TRUE
    /\ UNCHANGED <<agents, shownLoading, getting, posting, settingsSent, others>>

-----------------------------------------------------------------------------
(* Others: the agents page, the control page, another tab, a program.      *)

\* The page asks once: what changes afterwards it does not see.
Elsewhere(changed) ==
    /\ others < MaxOthers
    /\ others' = others + 1
    /\ agents' = changed
    /\ raced' = (raced \/ getting.phase # "sent")
    /\ UNCHANGED <<shown, shownLoading, getting, posting, toggling, settingsSent, clientVars>>

ElsewhereCreated(u) ==
    ~Taken(u) /\ Elsewhere(PostAgent([username |-> u, text |-> CHOOSE t \in Texts : TRUE]))

ElsewhereToggled(i) == Elsewhere(PatchAgent(i, [active |-> ~agents[i].active]))

ElsewhereSetAll(b) == Elsewhere(SetAllActive(b))

SettingsPageNext ==
    \/ GetServed
    \/ GetAnswered
    \/ GetFails
    \/ \E u \in Usernames : Create(u)
    \/ CreateServed
    \/ CreateAnswered
    \/ CreateFails
    \/ \E t \in Toggles :
          \/ \E i \in DOMAIN shown : Toggle(t, shown[i])
          \/ ToggleServed(t)
          \/ ToggleAnswered(t)
          \/ ToggleFails(t)
    \/ \E u \in Usernames : ElsewhereCreated(u)
    \/ \E i \in DOMAIN agents : ElsewhereToggled(i)
    \/ \E b \in BOOLEAN : ElsewhereSetAll(b)

-----------------------------------------------------------------------------
\* The list that the page keeps by itself is right whenever no request is
\* under way, in every order in which creates and toggles of different agents
\* are served and answered (setAgents with a function of the previous list):
\* no agent twice, each as the server has it, and the newest ones are there.
\* What the list does not survive is named by `raced`.
TruthfulUnlessRaced ==
    (/\ ~raced
     /\ getting = NoGet /\ posting = NoCreate
     /\ \A t \in Toggles : toggling[t] = NoToggle) =>
        /\ \A i, j \in DOMAIN shown : shown[i].id = shown[j].id => i = j
        /\ \A i \in DOMAIN shown : /\ shown[i].id \in DOMAIN agents
                                   /\ shown[i].active = agents[shown[i].id].active
        /\ \A a \in DOMAIN agents :
              a > Len(agents) - AgentLimit => \E i \in DOMAIN shown : shown[i].id = a

=============================================================================
