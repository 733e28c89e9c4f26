----------------------------- MODULE PagesProofs -----------------------------
(***************************************************************************)
(* The pages of the web application, for every population of agents, every *)
(* number of requests under way and of investigations, and every failure.  *)
(*                                                                         *)
(* A tab shows one part, and the variables of the others stay as they      *)
(* were opened: only agents and the mode are shared.  So each page has an  *)
(* inductive invariant of its own, and PagesInv puts them together.        *)
(***************************************************************************)
EXTENDS Pages, PollingProofs, SequenceTheorems

-----------------------------------------------------------------------------
(* The agents.                                                             *)

LEMMA AgentsDomain ==
    ASSUME AgentsTypeOK
    PROVE  /\ Len(agents) \in Nat /\ DOMAIN agents = 1 .. Len(agents)
           /\ \A i \in 1 .. Len(agents) : agents[i] \in AgentRow
BY LenProperties, ElementOfSeq DEF AgentsTypeOK

\* POST appends an active agent and leaves the others as they are.
LEMMA PostAgentFacts ==
    ASSUME AgentsTypeOK, NEW data, data.username \in Usernames, data.text \in Texts,
           agents' = PostAgent(data)
    PROVE  /\ AgentsTypeOK'
           /\ Len(agents') = Len(agents) + 1
           /\ \A i \in 1 .. Len(agents) : agents'[i] = agents[i]
           /\ agents'[Len(agents) + 1].active = TRUE
<1> DEFINE new == [username |-> data.username, text |-> data.text, active |-> TRUE]
<1>1. new \in AgentRow
    BY DEF AgentRow
<1>2. agents' = Append(agents, new)
    BY DEF PostAgent
<1>3. new.active = TRUE
    OBVIOUS
<1> HIDE DEF new
<1> QED
    BY <1>1, <1>2, <1>3, AppendProperties DEF AgentsTypeOK

\* PATCH changes the agent that is asked for, and never its username.
LEMMA PatchAgentFacts ==
    ASSUME AgentsTypeOK, NEW id \in Nat, NEW req, agents' = PatchAgent(id, req),
           "active" \in DOMAIN req => req.active \in BOOLEAN,
           "text" \in DOMAIN req => req.text \in Texts \cup {Blank}
    PROVE  /\ AgentsTypeOK'
           /\ Len(agents') = Len(agents)
           /\ \A i \in 1 .. Len(agents) :
                /\ agents'[i].username = agents[i].username
                /\ i # id => agents'[i] = agents[i]
                /\ i = id /\ "active" \in DOMAIN req => agents'[i].active = req.active
<1> DEFINE row == agents[id]
           new == Patched(row, req)
<1>1. agents' = [agents EXCEPT ![id] = new]
    BY DEF PatchAgent
<1>2. CASE id \in 1 .. Len(agents)
    <2>1. row \in AgentRow
        BY <1>2, AgentsDomain
    <2> HIDE DEF row
    <2>2. /\ new \in AgentRow /\ new.username = row.username
          /\ "active" \in DOMAIN req => new.active = req.active
        BY <2>1 DEF AgentRow, Patched
    <2> HIDE DEF new
    <2>3. /\ agents' \in Seq(AgentRow) /\ Len(agents') = Len(agents)
          /\ \A i \in 1 .. Len(agents) : agents'[i] = IF i = id THEN new ELSE agents[i]
        BY <1>1, <1>2, <2>2, ExceptSeq DEF AgentsTypeOK
    <2> QED
        BY <2>2, <2>3 DEF AgentsTypeOK, row
<1>3. CASE id \notin 1 .. Len(agents)
    <2> HIDE DEF new
    <2>1. agents' = agents
        <3>1. agents \in [1 .. Len(agents) -> AgentRow]
            BY LenProperties DEF AgentsTypeOK
        <3> QED
            BY <1>1, <1>3, <3>1
    <2> QED
        BY <1>3, <2>1 DEF AgentsTypeOK
<1> QED
    BY <1>2, <1>3

LEMMA SetAllActiveFacts ==
    ASSUME AgentsTypeOK, NEW b \in BOOLEAN, agents' = SetAllActive(b)
    PROVE  AgentsTypeOK' /\ Len(agents') = Len(agents)
<1> DEFINE n == Len(agents)
<1>1. n \in Nat /\ DOMAIN agents = 1 .. n
    BY AgentsDomain
<1>2. \A i \in 1 .. n : [agents[i] EXCEPT !.active = b] \in AgentRow
    BY AgentsDomain DEF AgentRow
<1>3. agents' \in [1 .. n -> AgentRow]
    BY <1>1, <1>2 DEF SetAllActive
<1> HIDE DEF n
<1>4. agents' \in Seq(AgentRow)
    BY <1>1, <1>3, SeqDef
<1>5. Len(agents') = n
    BY <1>1, <1>3, <1>4, LenProperties
<1> QED
    BY <1>4, <1>5 DEF AgentsTypeOK, n

-----------------------------------------------------------------------------
(* The page of an agent.                                                   *)

LEMMA DetailInit == AgentsTypeOK /\ AgentDetailInit => AgentDetailTypeOK
<1> SUFFICES ASSUME AgentsTypeOK, AgentDetailInit PROVE AgentDetailTypeOK
    OBVIOUS
<1>1. agentId \in Nat
    BY AgentsDomain DEF AgentDetailInit
<1>2. agentCalls \in 0 .. DetailCalls
    BY AgentDetailAssumption DEF AgentDetailInit
<1>3. agentScreen = "skeleton"
    BY DEF AgentDetailInit
<1>4. agentShown \in BOOLEAN /\ agentError \in BOOLEAN /\ agentLoading \in BOOLEAN
    BY ZenonT(30) DEF AgentDetailInit
<1> QED
    BY <1>1, <1>2, <1>3, <1>4 DEF AgentDetailTypeOK

LEMMA DetailStep ==
    ASSUME AgentDetailTypeOK, AgentDetailNext
    PROVE  AgentDetailTypeOK' /\ UNCHANGED agents
<1>0. /\ agentId \in Nat /\ agentCalls \in 0 .. DetailCalls
      /\ agentShown \in BOOLEAN /\ agentError \in BOOLEAN /\ agentLoading \in BOOLEAN
    BY Zenon DEF AgentDetailTypeOK
<1>1. UNCHANGED <<agents, agentId>> /\ DrawPage
    BY DEF AgentDetailNext, PollAgent, MockAgent, AgentFails
<1>2. agentCalls' \in 0 .. DetailCalls
    <2>1. \/ agentCalls < DetailCalls /\ agentCalls' = agentCalls + 1
          \/ agentCalls > 0 /\ agentCalls' = agentCalls - 1
        BY DEF AgentDetailNext, PollAgent, MockAgent, AgentFails
    <2> QED
        BY <1>0, <2>1, AgentDetailAssumption
<1>3. agentShown' \in BOOLEAN /\ agentError' \in BOOLEAN /\ agentLoading' \in BOOLEAN
    <2>1. CASE PollAgent
        BY <1>0, <2>1 DEF PollAgent
    <2>2. CASE MockAgent
        BY <1>0, <2>2 DEF MockAgent, Found
    <2>3. CASE AgentFails
        BY <1>0, <2>3 DEF AgentFails
    <2> QED
        BY <2>1, <2>2, <2>3 DEF AgentDetailNext
<1>4. agentScreen' \in {"skeleton", "not found", "agent", "crashed"}
    <2> DEFINE page == Page(agentShown', agentError', agentLoading')
    <2>1. page \in {"skeleton", "not found", "agent"}
        BY <1>3 DEF Page
    <2>2. agentScreen' \in {page, "crashed"}
        BY <1>1 DEF DrawPage
    <2> QED
        BY <2>1, <2>2, Zenon
<1> QED
    BY <1>0, <1>1, <1>2, <1>3, <1>4, Zenon DEF AgentDetailTypeOK

-----------------------------------------------------------------------------
(* The stream page.                                                        *)

LEMMA StreamInit == StreamPageInit => StreamPageTypeOK
<1> SUFFICES ASSUME StreamPageInit PROVE StreamPageTypeOK
    OBVIOUS
<1>1. streamMore \in BOOLEAN /\ streamLoading \in BOOLEAN /\ streamError \in BOOLEAN
    BY Zenon DEF StreamPageInit
<1>2. messagesShown = 0 /\ streamCursor = Nil /\ streamAsks = {"latest"}
    BY DEF StreamPageInit
<1> QED
    BY <1>1, <1>2, StreamPageAssumption DEF StreamPageTypeOK

LEMMA StreamStep == ASSUME StreamPageTypeOK, StreamPageNext PROVE StreamPageTypeOK'
<1>1. MockMessages \in Nat /\ MockPage \in Nat \ {0}
    BY StreamPageAssumption
<1>2. CASE FetchLatest \/ LoadMore \/ MockHasNoRoute
    BY <1>2 DEF FetchLatest, LoadMore, MockHasNoRoute, StreamPageTypeOK
<1>3. CASE MockLatest
    <2>1. messagesShown' \in 0 .. MockPage /\ streamCursor' \in {Nil, MockPage}
        BY <1>1, <1>3 DEF MockLatest
    <2>2. streamMore' \in BOOLEAN /\ streamLoading' \in BOOLEAN /\ streamError' \in BOOLEAN
        <3>1. streamMore' = (MockMessages > MockPage)
            BY <1>3 DEF MockLatest
        <3>2. streamMore' \in BOOLEAN
            BY <1>1, <3>1, SMT
        <3>3. streamLoading' \in BOOLEAN /\ streamError' \in BOOLEAN
            BY <1>3, Zenon DEF MockLatest
        <3> QED
            BY <3>2, <3>3
    <2>3. streamAsks' \subseteq {"latest", "older"}
        BY <1>3 DEF MockLatest, StreamPageTypeOK
    <2> QED
        BY <2>1, <2>2, <2>3 DEF StreamPageTypeOK
<1>4. CASE LatestFails
    BY <1>4 DEF LatestFails, StreamPageTypeOK
<1> QED
    BY <1>2, <1>3, <1>4 DEF StreamPageNext

-----------------------------------------------------------------------------
(* The control page.                                                       *)

LEMMA ControlInit == ControlPageInit => ControlPageTypeOK
<1> SUFFICES ASSUME ControlPageInit PROVE ControlPageTypeOK
    OBVIOUS
<1>1. <<>> \in Seq(BOOLEAN)
    BY EmptySeq
<1>2. actionLoading \in BOOLEAN
    BY Zenon DEF ControlPageInit
<1> QED
    BY <1>1, <1>2, ControlPageAssumption DEF ControlPageInit, ControlPageTypeOK, Asks

LEMMA StatusesTyped == AgentsTypeOK => Statuses \in Seq(BOOLEAN)
<1> SUFFICES ASSUME AgentsTypeOK PROVE Statuses \in Seq(BOOLEAN)
    OBVIOUS
<1>1. Statuses \in [1 .. Len(agents) -> BOOLEAN] /\ Len(agents) \in Nat
    BY AgentsDomain DEF Statuses, AgentRow
<1> QED
    BY <1>1, SeqDef

\* The requests of the table.
LEMMA ControlTableStep ==
    ASSUME AgentsTypeOK, ControlPageTypeOK, NEW k \in Asks,
           Refresh(k) \/ MockStatus(k) \/ StatusFails(k)
    PROVE  ControlPageTypeOK' /\ UNCHANGED agents
<1>1. UNCHANGED <<agents, actionLoading, action, pressed>>
    BY DEF Refresh, MockStatus, StatusFails, UnchangedByTable
<1>2. statuses' \in Seq(BOOLEAN) /\ statusView' \in {"loading", "data", "error"}
    BY StatusesTyped DEF Refresh, MockStatus, StatusFails, ControlPageTypeOK
<1>3. asks' \subseteq Asks
    BY DEF Refresh, MockStatus, StatusFails, AskStatus, ControlPageTypeOK
<1> QED
    BY <1>1, <1>2, <1>3 DEF ControlPageTypeOK

\* The buttons.
LEMMA ControlActionStep ==
    ASSUME AgentsTypeOK, ControlPageTypeOK,
           \/ PauseAll \/ ResumeAll \/ MockActs \/ ActionFails
           \/ \E i \in DOMAIN agents : Tick(i)
    PROVE  ControlPageTypeOK' /\ AgentsTypeOK'
<1> DEFINE Acts == [what : {"tick", "pause", "resume"}, agent : DOMAIN agents \cup {0}]
<1>1. AgentsTypeOK' /\ DOMAIN agents' = DOMAIN agents
    <2>1. UNCHANGED agents \/ \E b \in BOOLEAN : agents' = SetAllActive(b)
        BY DEF PauseAll, ResumeAll, Tick, Press, MockActs, ActionFails, Perform
    <2>2. CASE UNCHANGED agents
        BY <2>2 DEF AgentsTypeOK
    <2>3. ASSUME NEW b \in BOOLEAN, agents' = SetAllActive(b)
          PROVE  AgentsTypeOK' /\ Len(agents') = Len(agents)
        BY <2>3, SetAllActiveFacts
    <2>4. AgentsTypeOK' /\ Len(agents') = Len(agents)
        BY <2>1, <2>2, <2>3
    <2> QED
        BY <2>4, AgentsDomain, LenProperties DEF AgentsTypeOK
<1>2. UNCHANGED <<statuses, statusView>>
    BY DEF PauseAll, ResumeAll, Tick, Press, MockActs, ActionFails, Finish
<1>3. actionLoading' \in BOOLEAN
    BY DEF PauseAll, ResumeAll, Tick, Press, MockActs, ActionFails, Finish
<1>4. pressed' \in 0 .. MaxActions
    <2>1. \/ pressed' = pressed
          \/ pressed < MaxActions /\ pressed' = pressed + 1
        BY DEF PauseAll, ResumeAll, Tick, Press, MockActs, ActionFails, Finish
    <2> QED
        BY <2>1, ControlPageAssumption DEF ControlPageTypeOK
<1>5. action' \in {NoAction} \cup Acts
    <2>1. \/ \E what \in {"tick", "pause", "resume"}, i \in DOMAIN agents \cup {0} :
               action' = [what |-> what, agent |-> i]
          \/ action' = NoAction
        BY DEF PauseAll, ResumeAll, Tick, Press, MockActs, ActionFails, Finish
    <2> QED
        BY <2>1
<1>6. asks' \subseteq Asks
    BY DEF PauseAll, ResumeAll, Tick, Press, MockActs, ActionFails, Finish, AskStatus,
           Asks, ControlPageTypeOK
<1> QED
    BY <1>1, <1>2, <1>3, <1>4, <1>5, <1>6 DEF ControlPageTypeOK

LEMMA ControlStep ==
    ASSUME AgentsTypeOK, ControlPageTypeOK, ControlPageNext
    PROVE  ControlPageTypeOK' /\ AgentsTypeOK'
BY ControlTableStep, ControlActionStep DEF ControlPageNext, AgentsTypeOK

-----------------------------------------------------------------------------
(* The pages of the investigations.                                        *)

\* Every list of investigations is an error, so that no page ever has a row
\* and the dashboard knows only investigations that this tab has made; the
\* body that breaks it is that of a refused POST.
InvestigationsInv ==
    /\ InvestigationPagesTypeOK
    /\ recent = NoRows
    /\ screen.name # "report" => fetch.body = Refused
    /\ \A i \in Ids : activeInv # Active(i, "complete")
    /\ \A p \in Posts :
          /\ posts[p].phase = "served" => posts[p].id \in Ids
          /\ posts[p].phase = "refused" => refused
    /\ CrashOnlyAfterRefusal

LEMMA ScreenNames ==
    ASSUME NEW s \in Screens
    PROVE  /\ \A n : s = On(n) => s.name = n
           /\ s.name = "report" => s.id \in Ids
           /\ s.name # "report" =>
                 s \in {On(n) : n \in {"landing", "dashboard", "list", "crashed"}}
           /\ s.name \in {"landing", "dashboard", "list", "crashed", "report"}
BY DEF Screens, On, Report

\* The query without a status names an argument that it is not given.
LEMMA ListRefused == ListInvestigations = Refused
<1>1. 3 \in Placeholders(FALSE) /\ 3 \notin 1 .. Arguments(FALSE)
    BY DEF Placeholders, Arguments
<1>2. ~QueryRuns(FALSE)
    BY <1>1 DEF QueryRuns
<1> QED
    BY <1>2 DEF ListInvestigations

LEMMA NoRowsTyped == NoRows \in [Ids -> Stages] /\ NoRows \in Bodies /\ Refused \in Bodies
BY DEF NoRows, Stages, Bodies

LEMMA NothingOpen == FindActive(NoRows) = Nil
<1> DEFINE open == {i \in Ids : NoRows[i] \notin {"none", "complete"}}
<1>1. open = {}
    BY DEF NoRows
<1> QED
    BY <1>1 DEF FindActive

\* No list has a row and no investigation is seen complete: no link leads to
\* a report.
LEMMA LinksFacts ==
    ASSUME InvestigationsInv
    PROVE  Links \subseteq {On("landing"), On("list"), On("dashboard")}
<1>1. Listed = {}
    BY DEF InvestigationsInv, Listed, NoRows
<1>2. {k \in Ids : activeInv = Active(k, "complete")} = {}
    BY DEF InvestigationsInv
<1>3. screen \in Screens
    BY DEF InvestigationsInv, InvestigationPagesTypeOK
<1> DEFINE links ==
        CASE screen.name = "landing" -> {On("list")}
          [] screen.name = "list" -> {On("landing"), On("dashboard")}
          [] screen.name = "dashboard" -> {On("landing"), On("list")}
          [] screen.name = "report" ->
                IF reportView \in {"loading", "not found"} THEN {On("landing")}
                ELSE {On("landing"), On("list"), On("dashboard")}
          [] OTHER -> {}
<1>4. Links = links
    BY <1>1, <1>2 DEF Links
<1> QED
    BY <1>3, <1>4, ScreenNames

LEMMA InvestigationsInit == InvestigationPagesInit => InvestigationsInv
<1> SUFFICES ASSUME InvestigationPagesInit PROVE InvestigationsInv
    OBVIOUS
<1>1. screen \in Screens /\ screen # On("crashed")
    BY DEF InvestigationPagesInit, Screens, On, Report
<1>2. NoFetch \in [phase : {"none", "sent", "served"}, body : Bodies]
      /\ NewFetch \in [phase : {"none", "sent", "served"}, body : Bodies]
      /\ NoFetch.body = Refused /\ NewFetch.body = Refused
    BY NoRowsTyped DEF NoFetch, NewFetch
<1>3. posts \in [Posts -> [phase : {"none", "sent", "served", "refused"},
                           id : Ids \cup {0}, here : BOOLEAN]]
      /\ \A p \in Posts : posts[p].phase = "none"
    BY DEF InvestigationPagesInit, NoPost
<1>4. trigger \in [phase : {"none", "sent", "read", "served"}, id : Ids \cup {0}]
    BY DEF InvestigationPagesInit, NoTrigger
<1>5. question \in BOOLEAN /\ refused \in BOOLEAN
    BY Zenon DEF InvestigationPagesInit
<1>6. \A i \in Ids : activeInv # Active(i, "complete")
    BY InvestigationPagesAssumption DEF InvestigationPagesInit, Active
<1>7. InvestigationPagesTypeOK
    BY <1>1, <1>2, <1>3, <1>4, <1>5, NoRowsTyped
    DEF InvestigationPagesInit, InvestigationPagesTypeOK
<1>8. recent = NoRows /\ fetch.body = Refused
    BY <1>2 DEF InvestigationPagesInit
<1> QED
    BY <1>1, <1>3, <1>6, <1>7, <1>8 DEF InvestigationsInv, CrashOnlyAfterRefusal

\* What the server does to the investigations, and to requests.
LEMMA InvestigationsServerStep ==
    ASSUME InvestigationsInv,
           \/ \E i \in Ids : Advance(i)
           \/ FetchServed \/ TriggerRead \/ TriggerWritten
           \/ \E p \in Posts : PostServed(p) \/ PostRefused(p)
    PROVE  InvestigationsInv'
<1> DEFINE Post_ == [phase : {"none", "sent", "served", "refused"},
                     id : Ids \cup {0}, here : BOOLEAN]
           Fetch_ == [phase : {"none", "sent", "served"}, body : Bodies]
           Trigger_ == [phase : {"none", "sent", "read", "served"}, id : Ids \cup {0}]
<1>0. /\ stage \in [Ids -> Stages] /\ screen \in Screens
      /\ posts \in [Posts -> Post_] /\ fetch \in Fetch_ /\ trigger \in Trigger_
      /\ refused \in BOOLEAN
    BY DEF InvestigationsInv, InvestigationPagesTypeOK
<1>1. UNCHANGED <<screen, question, activeInv, recent, reportView>>
    BY DEF Advance, FetchServed, TriggerRead, TriggerWritten, PostServed, PostRefused, tabVars
<1>2. stage' \in [Ids -> Stages]
    <2>1. \/ stage' = stage
          \/ \E i, s : s \in Stages /\ stage' = [stage EXCEPT ![i] = s]
          \/ stage' = [stage EXCEPT ![trigger.id] =
                          IF @ \in {"reported", "complete"} THEN "reported" ELSE "consensus"]
        BY DEF Advance, FetchServed, TriggerRead, TriggerWritten, PostServed, PostRefused,
               Stages
    <2>2. ASSUME NEW i, NEW s \in Stages, stage' = [stage EXCEPT ![i] = s]
          PROVE  stage' \in [Ids -> Stages]
        BY <1>0, <2>2
    <2>3. CASE stage' = [stage EXCEPT ![trigger.id] =
                            IF @ \in {"reported", "complete"} THEN "reported" ELSE "consensus"]
        BY <1>0, <2>3 DEF Stages
    <2> QED
        BY <1>0, <2>1, <2>2, <2>3
<1>3. fetch' \in Fetch_ /\ (screen'.name # "report" => fetch'.body = Refused)
    <2>1. CASE UNCHANGED fetch
        BY <1>0, <1>1, <2>1 DEF InvestigationsInv
    <2>2. CASE FetchServed
        <3> DEFINE body == IF screen.name = "report" THEN GetInvestigation(screen.id)
                           ELSE ListInvestigations
        <3>1. body \in Bodies
            <4>1. ASSUME NEW i \in Ids PROVE GetInvestigation(i) \in Bodies
                BY <1>0, NoRowsTyped DEF GetInvestigation, Bodies
            <4> QED
                BY <1>0, <4>1, ScreenNames, ListRefused, NoRowsTyped
        <3>2. fetch' = [phase |-> "served", body |-> body]
            BY <2>2 DEF FetchServed
        <3>3. screen.name # "report" => body = Refused
            BY ListRefused
        <3> HIDE DEF body
        <3> QED
            BY <1>1, <3>1, <3>2, <3>3
    <2> QED
        BY <2>1, <2>2 DEF Advance, TriggerRead, TriggerWritten, PostServed, PostRefused
<1>4. trigger' \in Trigger_
    BY <1>0 DEF Advance, FetchServed, TriggerRead, TriggerWritten, PostServed, PostRefused
<1>5. /\ posts' \in [Posts -> Post_] /\ refused' \in BOOLEAN
      /\ \A p \in Posts : /\ posts'[p].phase = "served" => posts'[p].id \in Ids
                          /\ posts'[p].phase = "refused" => refused'
      /\ refused => refused'
    <2>1. CASE UNCHANGED <<posts, refused>>
        BY <1>0, <2>1 DEF InvestigationsInv
    <2>2. ASSUME NEW p \in Posts, PostServed(p) PROVE <1>5!:
        BY <1>0, <2>2 DEF PostServed, InvestigationsInv
    <2>3. ASSUME NEW p \in Posts, PostRefused(p) PROVE <1>5!:
        BY <1>0, <2>3 DEF PostRefused, InvestigationsInv
    <2> QED
        BY <2>1, <2>2, <2>3 DEF Advance, FetchServed, TriggerRead, TriggerWritten
<1> QED
    BY <1>1, <1>2, <1>3, <1>4, <1>5
    DEF InvestigationsInv, InvestigationPagesTypeOK, CrashOnlyAfterRefusal

\* Navigation leaves the page behind, and asks for a list at most.
LEMMA GoStep ==
    ASSUME InvestigationsInv, NEW fetched \in BOOLEAN,
           NEW to \in {On("landing"), On("list"), On("dashboard")}, Go(to, fetched)
    PROVE  InvestigationsInv'
<1> DEFINE Post_ == [phase : {"none", "sent", "served", "refused"},
                     id : Ids \cup {0}, here : BOOLEAN]
           Fetch_ == [phase : {"none", "sent", "served"}, body : Bodies]
           Trigger_ == [phase : {"none", "sent", "read", "served"}, id : Ids \cup {0}]
<1>0. posts \in [Posts -> Post_] /\ trigger \in Trigger_
    BY DEF InvestigationsInv, InvestigationPagesTypeOK
<1>1. screen' = to /\ screen' \in Screens /\ screen' # On("crashed")
    BY DEF Go, On, Screens
<1>2. fetch' \in Fetch_ /\ fetch'.body = Refused
    <2>1. NoFetch \in Fetch_ /\ NewFetch \in Fetch_
          /\ NoFetch.body = Refused /\ NewFetch.body = Refused
        BY NoRowsTyped DEF NoFetch, NewFetch
    <2> QED
        BY <2>1 DEF Go
<1>3. /\ posts' \in [Posts -> Post_]
      /\ \A p \in Posts : posts'[p].phase = posts[p].phase /\ posts'[p].id = posts[p].id
    BY <1>0 DEF Go
<1>4. trigger' \in Trigger_
    BY <1>0 DEF Go, NoTrigger
<1>5. /\ question' \in BOOLEAN /\ activeInv' = Nil /\ recent' = NoRows
      /\ reportView' = "loading" /\ UNCHANGED <<stage, refused>>
    BY DEF Go
<1>6. \A i \in Ids : activeInv' # Active(i, "complete")
    BY <1>5, InvestigationPagesAssumption DEF Active
<1>7. InvestigationPagesTypeOK'
    BY <1>0, <1>1, <1>2, <1>3, <1>4, <1>5, NoRowsTyped
    DEF InvestigationsInv, InvestigationPagesTypeOK
<1> QED
    BY <1>1, <1>2, <1>3, <1>5, <1>6, <1>7 DEF InvestigationsInv, CrashOnlyAfterRefusal

LEMMA NavigationStep ==
    ASSUME InvestigationsInv, Investigate \/ FollowLink
    PROVE  InvestigationsInv'
BY LinksFacts, GoStep DEF Investigate, FollowLink

\* What becomes the active investigation: an open one that this tab has made,
\* or the body of a refusal.
LEMMA SetActiveFacts ==
    ASSUME InvestigationsInv, NEW inv, SetActive(inv), inv = Refused => refused,
           inv # Refused => \E i \in Ids : inv = Active(i, "in_progress")
    PROVE  /\ activeInv' \in {Nil, Refused} \cup
                   [id : Ids, status : {"in_progress", "consensus", "complete"}]
           /\ \A i \in Ids : activeInv' # Active(i, "complete")
           /\ screen' \in Screens
           /\ screen' \in {screen, On("crashed")}
           /\ screen' = On("crashed") => refused
<1>1. screen \in Screens /\ (screen = On("crashed") => refused)
    BY DEF InvestigationsInv, InvestigationPagesTypeOK, CrashOnlyAfterRefusal
<1>2. On("crashed") \in Screens
    BY DEF On, Screens
<1>3. CASE inv = Refused
    BY <1>1, <1>2, <1>3, InvestigationPagesAssumption DEF SetActive, Active
<1>4. CASE inv # Refused
    <2>1. PICK i \in Ids : inv = Active(i, "in_progress")
        BY <1>4
    <2>2. inv \in [id : Ids, status : {"in_progress", "consensus", "complete"}]
        BY <2>1 DEF Active
    <2>3. \A k \in Ids : inv # Active(k, "complete")
        BY <2>1 DEF Active
    <2>4. activeInv' = inv /\ screen' = screen
        BY <1>4 DEF SetActive
    <2> QED
        BY <1>1, <2>2, <2>3, <2>4
<1> QED
    BY <1>3, <1>4

\* The handlers of the pages.
LEMMA InvestigationsHandlerStep ==
    ASSUME InvestigationsInv,
           \/ PollInvestigations \/ DashboardListed \/ ListListed \/ ReportLoaded
           \/ FetchFails \/ TypeQuestion \/ TriggerConsensus \/ TriggerAnswered
           \/ TriggerFails
           \/ \E p \in Posts : StartInvestigation(p) \/ PostFails(p)
    PROVE  InvestigationsInv'
<1> DEFINE Post_ == [phase : {"none", "sent", "served", "refused"},
                     id : Ids \cup {0}, here : BOOLEAN]
           Fetch_ == [phase : {"none", "sent", "served"}, body : Bodies]
           Trigger_ == [phase : {"none", "sent", "read", "served"}, id : Ids \cup {0}]
<1>0. /\ screen \in Screens /\ question \in BOOLEAN
      /\ posts \in [Posts -> Post_] /\ fetch \in Fetch_ /\ trigger \in Trigger_
    BY DEF InvestigationsInv, InvestigationPagesTypeOK
<1>1. UNCHANGED <<stage, refused>>
    BY DEF PollInvestigations, DashboardListed, ListListed, ReportLoaded, FetchFails,
           TypeQuestion, TriggerConsensus, TriggerAnswered, TriggerFails,
           StartInvestigation, PostFails,
           UnchangedByPage, tabVars
<1>2. /\ screen = On("dashboard") => screen.name # "report"
      /\ screen = On("list") => screen.name # "report"
    BY DEF On
<1>3. UNCHANGED <<screen, activeInv>> /\ recent' = NoRows
    <2>1. CASE DashboardListed
        <3>1. Listing(fetch.body) = NoRows
            BY <1>2, <2>1 DEF DashboardListed, Listing, InvestigationsInv
        <3> QED
            BY <2>1, <3>1, NothingOpen DEF DashboardListed
    <2>2. CASE ListListed
        BY <1>2, <2>2 DEF ListListed, Listing, InvestigationsInv
    <2>3. CASE ~DashboardListed /\ ~ListListed
        <3>1. UNCHANGED <<screen, activeInv, recent>>
            BY <2>3 DEF PollInvestigations, ReportLoaded, FetchFails, TypeQuestion,
                TriggerConsensus, TriggerAnswered, TriggerFails, StartInvestigation,
                PostFails, tabVars
        <3> QED
            BY <3>1 DEF InvestigationsInv
    <2> QED
        BY <2>1, <2>2, <2>3
<1>4. question' \in BOOLEAN
    <2>1. question' = question \/ question' = TRUE
        BY DEF PollInvestigations, DashboardListed, ListListed, ReportLoaded, FetchFails,
               TypeQuestion, TriggerConsensus, TriggerAnswered, TriggerFails, StartInvestigation,
               PostFails, tabVars
    <2> QED
        BY <1>0, <2>1
<1>5. fetch' \in Fetch_ /\ (screen'.name # "report" => fetch'.body = Refused)
    <2>1. fetch' \in {fetch, NoFetch, NewFetch}
        BY DEF PollInvestigations, DashboardListed, ListListed, ReportLoaded, FetchFails,
               TypeQuestion, TriggerConsensus, TriggerAnswered, TriggerFails, StartInvestigation,
               PostFails, FetchInvestigations
    <2>2. NoFetch \in Fetch_ /\ NewFetch \in Fetch_
          /\ NoFetch.body = Refused /\ NewFetch.body = Refused
        BY NoRowsTyped DEF NoFetch, NewFetch
    <2> QED
        BY <1>0, <1>3, <2>1, <2>2 DEF InvestigationsInv
<1>6. reportView' \in {"loading", "not found", "bare"} \cup Stages
    <2>1. \/ reportView' = reportView \/ reportView' \in {"not found", "bare"}
          \/ /\ screen.name = "report" /\ fetch.body # Refused
             /\ reportView' = fetch.body[screen.id]
        BY DEF PollInvestigations, DashboardListed, ListListed, ReportLoaded, FetchFails,
               TypeQuestion, TriggerConsensus, TriggerAnswered, TriggerFails, StartInvestigation,
               PostFails, tabVars
    <2>2. (screen.name = "report" /\ fetch.body # Refused) => fetch.body[screen.id] \in Stages
        BY <1>0, ScreenNames DEF Bodies
    <2> QED
        BY <2>1, <2>2 DEF InvestigationsInv, InvestigationPagesTypeOK
<1>7. /\ posts' \in [Posts -> Post_]
      /\ \A p \in Posts : /\ posts'[p].phase = "served" => posts'[p].id \in Ids
                          /\ posts'[p].phase = "refused" => refused'
    <2>1. \/ posts' = posts
          \/ \E p \in Posts, r \in {[phase |-> "sent", id |-> 0, here |-> TRUE], NoPost} :
                posts' = [posts EXCEPT ![p] = r]
        BY DEF PollInvestigations, DashboardListed, ListListed, ReportLoaded, FetchFails,
               TypeQuestion, TriggerConsensus, TriggerAnswered, TriggerFails,
               StartInvestigation, PostFails
    <2>2. ASSUME NEW p \in Posts,
                 NEW r \in {[phase |-> "sent", id |-> 0, here |-> TRUE], NoPost},
                 posts' = [posts EXCEPT ![p] = r]
          PROVE  <1>7!:
        <3>1. r \in Post_ /\ r.phase \notin {"served", "refused"}
            <4>1. CASE r = [phase |-> "sent", id |-> 0, here |-> TRUE]
                BY <4>1
            <4>2. CASE r = NoPost
                BY <4>2 DEF NoPost
            <4> QED
                BY <4>1, <4>2
        <3>2. /\ posts' \in [Posts -> Post_]
              /\ \A q \in Posts : posts'[q] = IF q = p THEN r ELSE posts[q]
            BY <1>0, <2>2, <3>1
        <3>3. ASSUME NEW q \in Posts
              PROVE  /\ posts'[q].phase = "served" => posts'[q].id \in Ids
                     /\ posts'[q].phase = "refused" => refused'
            BY <1>1, <3>1, <3>2 DEF InvestigationsInv
        <3> QED
            BY <3>2, <3>3
    <2>3. CASE posts' = posts
        BY <1>0, <1>1, <2>3 DEF InvestigationsInv
    <2> QED
        BY <2>1, <2>2, <2>3
<1>8. trigger' \in Trigger_
    <2>1. \/ trigger' = trigger \/ trigger' = NoTrigger
          \/ /\ activeInv \notin {Nil, Refused}
             /\ trigger' = [phase |-> "sent", id |-> activeInv.id]
        BY DEF PollInvestigations, DashboardListed, ListListed, ReportLoaded, FetchFails,
               TypeQuestion, TriggerConsensus, TriggerAnswered, TriggerFails,
               StartInvestigation, PostFails
    <2>2. activeInv \notin {Nil, Refused} => activeInv.id \in Ids
        BY DEF InvestigationsInv, InvestigationPagesTypeOK
    <2> QED
        BY <1>0, <2>1, <2>2 DEF NoTrigger
<1> QED
    BY <1>1, <1>3, <1>4, <1>5, <1>6, <1>7, <1>8
    DEF InvestigationsInv, InvestigationPagesTypeOK, CrashOnlyAfterRefusal

\* The answer of a POST.
LEMMA PostAnsweredStep ==
    ASSUME InvestigationsInv, NEW p \in Posts, PostAnswered(p)
    PROVE  InvestigationsInv'
<1> DEFINE Post_ == [phase : {"none", "sent", "served", "refused"},
                     id : Ids \cup {0}, here : BOOLEAN]
           Fetch_ == [phase : {"none", "sent", "served"}, body : Bodies]
           inv == IF posts[p].phase = "refused" THEN Refused
                  ELSE Active(posts[p].id, "in_progress")
<1>0. /\ posts \in [Posts -> Post_] /\ fetch \in Fetch_
      /\ screen \in Screens /\ question \in BOOLEAN
    BY DEF InvestigationsInv, InvestigationPagesTypeOK
<1>1. inv = Refused => refused
    <2>1. CASE posts[p].phase = "refused"
        BY <2>1 DEF InvestigationsInv
    <2>2. CASE posts[p].phase # "refused"
        <3>1. posts[p].id \in Ids
            BY <2>2 DEF PostAnswered, InvestigationsInv
        <3> QED
            BY <2>2, <3>1, InvestigationPagesAssumption DEF Active
    <2> QED
        BY <2>1, <2>2
<1>2. inv # Refused => \E i \in Ids : inv = Active(i, "in_progress")
    BY DEF PostAnswered, InvestigationsInv
<1>3. /\ \/ /\ screen = On("dashboard") /\ SetActive(inv) /\ question' = FALSE
            /\ FetchInvestigations
         \/ UNCHANGED <<activeInv, screen, question, fetch>>
      /\ posts' = [posts EXCEPT ![p] = NoPost]
      /\ UNCHANGED <<recent, reportView, trigger, stage, refused>>
    BY DEF PostAnswered, UnchangedByPage
<1> HIDE DEF inv
<1>4. /\ activeInv' \in {Nil, Refused} \cup
             [id : Ids, status : {"in_progress", "consensus", "complete"}]
      /\ \A i \in Ids : activeInv' # Active(i, "complete")
      /\ screen' \in Screens /\ screen' \in {screen, On("crashed")}
      /\ screen' = On("crashed") => refused
    <2>1. CASE SetActive(inv)
        BY <1>1, <1>2, <2>1, SetActiveFacts DEF On
    <2>2. CASE UNCHANGED <<activeInv, screen>>
        BY <2>2 DEF InvestigationsInv, InvestigationPagesTypeOK, CrashOnlyAfterRefusal
    <2> QED
        BY <1>3, <2>1, <2>2
<1>5. fetch' \in Fetch_ /\ (screen'.name # "report" => fetch'.body = Refused)
    <2>1. fetch' = fetch \/ fetch' = NewFetch
        BY <1>3 DEF FetchInvestigations
    <2>2. NewFetch \in Fetch_ /\ NewFetch.body = Refused
        BY NoRowsTyped DEF NoFetch, NewFetch
    <2>3. screen.name = "report" => screen' = screen
        BY <1>3 DEF On
    <2> QED
        BY <1>0, <2>1, <2>2, <2>3 DEF InvestigationsInv
<1>6. /\ posts' \in [Posts -> Post_]
      /\ \A q \in Posts : /\ posts'[q].phase = "served" => posts'[q].id \in Ids
                          /\ posts'[q].phase = "refused" => refused'
    <2>1. NoPost \in Post_ /\ NoPost.phase = "none"
        BY DEF NoPost
    <2> QED
        BY <1>0, <1>3, <2>1 DEF InvestigationsInv
<1>7. question' \in BOOLEAN
    BY <1>0, <1>3
<1>8. InvestigationPagesTypeOK'
    BY <1>3, <1>4, <1>5, <1>6, <1>7 DEF InvestigationsInv, InvestigationPagesTypeOK
<1> QED
    BY <1>3, <1>4, <1>5, <1>6, <1>8 DEF InvestigationsInv, CrashOnlyAfterRefusal

LEMMA InvestigationsStep ==
    ASSUME InvestigationsInv, InvestigationPagesNext
    PROVE  InvestigationsInv'
BY InvestigationsServerStep, NavigationStep, InvestigationsHandlerStep, PostAnsweredStep
   DEF InvestigationPagesNext

-----------------------------------------------------------------------------
(* The agents page.                                                        *)

\* The agents b are what became of the agents a: none is gone and none has
\* got another username.
Grows(a, b) ==
    Len(a) <= Len(b) /\ \A i \in 1 .. Len(a) : b[i].username = a[i].username

\* A request that reaches the agent it was made for.
Reaches(r) ==
    /\ r.kind = "create" => Complete(r.body)
    /\ r.kind = "update" =>
          /\ r.id \in 1 .. Len(agents)
          /\ "username" \in DOMAIN r.body => r.body.username = agents[r.id].username

\* The form is that of the agent that is edited.
FormInv ==
    /\ form \in Form /\ editingId \in Nat \cup {Nil} /\ showForm \in BOOLEAN
    /\ editingId # Nil =>
          editingId \in 1 .. Len(agents) /\ form.username = agents[editingId].username

\* The cards were the agents at some time.
RowsInv ==
    /\ hookAgents \in {<<>>, Array} /\ drawn \in Seq(AgentRow) /\ asked \subseteq Lists
    /\ Grows(drawn, agents)
    /\ hookAgents # Array => drawn = <<>>

WritesInv ==
    /\ writes \in [Writes -> WriteRequest]
    /\ \A w \in Writes : Reaches(writes[w])

FlagsInv ==
    /\ creating \in BOOLEAN /\ updating \in BOOLEAN /\ overlapped \in BOOLEAN
    /\ listView \in {"loading", "data", "error"}
    /\ sent \in 0 .. MaxWrites

\* With the mock and one write at a time, the end of "Saving..." draws what
\* the write has done.
SerialInv ==
    (mode = "mock" /\ ~overlapped) =>
        /\ \A v, w \in Writes : (writes[v] # None /\ writes[w] # None) => v = w
        /\ \A w \in Writes : /\ writes[w].kind = "create" => creating
                             /\ writes[w].kind = "update" => updating
        /\ hookAgents = Array => drawn = agents

AgentsInv == FormInv /\ RowsInv /\ WritesInv /\ FlagsInv /\ SerialInv

LEMMA AgentsInvTypeOK == AgentsInv => AgentsPageTypeOK
BY DEF AgentsInv, FormInv, RowsInv, WritesInv, FlagsInv, AgentsPageTypeOK

LEMMA GrowsTransitive ==
    ASSUME NEW a \in Seq(AgentRow), NEW b \in Seq(AgentRow), NEW c \in Seq(AgentRow),
           Grows(a, b), Grows(b, c)
    PROVE  Grows(a, c)
BY LenProperties DEF Grows

LEMMA GrowsReflexive == ASSUME NEW a \in Seq(AgentRow) PROVE Grows(a, a)
BY LenProperties DEF Grows

LEMMA AgentsInit == AgentsTypeOK /\ AgentsPageInit => AgentsInv
<1> SUFFICES ASSUME AgentsTypeOK, AgentsPageInit PROVE AgentsInv
    OBVIOUS
<1>1. <<>> \in Seq(AgentRow) /\ Len(<<>>) = 0 /\ 1 .. 0 = {}
    BY EmptySeq
<1>2. FormInv
    <2>1. form \in Form
        BY DEF AgentsPageInit, Form, BlankForm
    <2>2. showForm \in BOOLEAN
        BY Zenon DEF AgentsPageInit
    <2> QED
        BY <2>1, <2>2 DEF AgentsPageInit, FormInv
<1>3. RowsInv
    <2>1. Grows(<<>>, agents)
        BY <1>1, AgentsDomain DEF Grows
    <2> QED
        BY <1>1, <2>1 DEF AgentsPageInit, RowsInv, Lists
<1>4. WritesInv
    BY DEF AgentsPageInit, WritesInv, WriteRequest, None, Reaches
<1>5. FlagsInv
    <2>1. creating \in BOOLEAN /\ updating \in BOOLEAN /\ overlapped \in BOOLEAN
        BY Zenon DEF AgentsPageInit
    <2> QED
        BY <2>1, AgentsPageAssumption DEF AgentsPageInit, FlagsInv
<1>6. SerialInv
    BY <1>1, AgentsPageAssumption DEF AgentsPageInit, SerialInv, None
<1> QED
    BY <1>2, <1>3, <1>4, <1>5, <1>6 DEF AgentsInv

\* What a write does to the agents.
LEMMA EffectFacts ==
    ASSUME AgentsTypeOK, NEW r \in WriteRequest \ {None}, Reaches(r), agents' = Effect(r)
    PROVE  AgentsTypeOK' /\ Grows(agents, agents')
<1>1. CASE r.kind = "create"
    <2>1. r.body.username \in Usernames /\ r.body.text \in Texts
        BY <1>1 DEF Reaches, WriteRequest, Form, Complete
    <2>2. agents' = PostAgent(r.body)
        BY <1>1 DEF Effect
    <2>3. AgentsTypeOK' /\ Len(agents') = Len(agents) + 1
          /\ \A i \in 1 .. Len(agents) : agents'[i] = agents[i]
        BY <2>1, <2>2, PostAgentFacts
    <2> QED
        BY <2>3, AgentsDomain DEF Grows
<1>2. CASE r.kind = "update"
    <2>1. /\ "active" \in DOMAIN r.body => r.body.active \in BOOLEAN
          /\ "text" \in DOMAIN r.body => r.body.text \in Texts \cup {Blank}
        <3>1. r.body \in Form \cup [active : BOOLEAN]
            BY <1>2 DEF WriteRequest
        <3>2. CASE r.body \in Form
            BY <3>2 DEF Form
        <3>3. CASE r.body \in [active : BOOLEAN]
            <4>1. DOMAIN r.body = {"active"} /\ r.body.active \in BOOLEAN
                BY <3>3
            <4> QED
                BY <4>1
        <3> QED
            BY <3>1, <3>2, <3>3
    <2>2. r.id \in Nat
        BY <1>2, AgentsDomain DEF Reaches
    <2>3. agents' = PatchAgent(r.id, r.body)
        BY <1>2 DEF Effect
    <2> QED
        BY <2>1, <2>2, <2>3, PatchAgentFacts, AgentsDomain DEF Grows
<1> QED
    BY <1>1, <1>2 DEF WriteRequest, None

LEMMA AgentsGrow ==
    ASSUME AgentsTypeOK, WritesInv, AgentsPageNext
    PROVE  AgentsTypeOK' /\ Grows(agents, agents')
<1>1. \/ UNCHANGED agents
      \/ \E w \in Writes : writes[w] # None /\ agents' = Effect(writes[w])
    BY DEF AgentsPageNext, New, Cancel, StartEdit, Type, UnchangedByForm, SubmitNew,
           SubmitEdit, ToggleActive, MockWrites, WriteFails,
           Poll, MockLists, ListFails
<1>2. CASE UNCHANGED agents
    BY <1>2, GrowsReflexive DEF AgentsTypeOK
<1>3. ASSUME NEW w \in Writes, writes[w] # None, agents' = Effect(writes[w])
      PROVE  AgentsTypeOK' /\ Grows(agents, agents')
    BY <1>3, EffectFacts DEF WritesInv
<1> QED
    BY <1>1, <1>2, <1>3

LEMMA FormStep ==
    ASSUME AgentsTypeOK, FormInv, RowsInv, AgentsPageNext, AgentsTypeOK',
           Grows(agents, agents')
    PROVE  FormInv'
<1>0. Len(agents) \in Nat /\ Len(agents') \in Nat /\ Len(agents) <= Len(agents')
      /\ \A i \in 1 .. Len(agents) :
            i \in 1 .. Len(agents') /\ agents'[i].username = agents[i].username
    <2>1. Len(agents') \in Nat
        BY LenProperties DEF AgentsTypeOK
    <2> QED
        BY <2>1, AgentsDomain DEF Grows
<1>1. \/ UNCHANGED <<form, editingId, showForm>>
      \/ \E b \in BOOLEAN : ResetForm(b)
      \/ \E i \in DOMAIN drawn : StartEdit(i)
      \/ \E u \in Usernames, t \in Texts : Type(u, t)
    BY DEF AgentsPageNext, New, Cancel, formVars, SubmitNew, SubmitEdit, ToggleActive,
           MockWrites, WriteFails, Continue, Poll, MockLists, ListFails
<1>2. CASE UNCHANGED <<form, editingId, showForm>>
    BY <1>0, <1>2 DEF FormInv
<1>3. ASSUME NEW b \in BOOLEAN, ResetForm(b) PROVE FormInv'
    BY <1>3 DEF ResetForm, FormInv, BlankForm, Form
<1>4. ASSUME NEW i \in DOMAIN drawn, StartEdit(i) PROVE FormInv'
    <2>1. i \in 1 .. Len(drawn) /\ i \in 1 .. Len(agents)
          /\ drawn[i].username = agents[i].username
        BY <1>0, LenProperties DEF RowsInv, Grows
    <2>2. agents[i] \in AgentRow /\ drawn[i] \in AgentRow
        BY <2>1, AgentsDomain, ElementOfSeq DEF RowsInv
    <2>3. Content \in {agents, drawn}
        BY DEF Content, RowsInv
    <2>4. /\ form' = [username |-> Content[i].username, text |-> Content[i].text]
          /\ editingId' = i /\ showForm' = TRUE
        BY <1>4 DEF StartEdit
    <2>5. form' \in Form /\ form'.username = agents[i].username
        BY <2>1, <2>2, <2>3, <2>4 DEF Form, AgentRow
    <2>6. i \in Nat
        BY <1>0, <2>1
    <2> QED
        BY <1>0, <2>1, <2>4, <2>5, <2>6 DEF FormInv
<1>5. ASSUME NEW u \in Usernames, NEW t \in Texts, Type(u, t) PROVE FormInv'
    <2>1. /\ form' \in Form /\ UNCHANGED <<editingId, showForm>>
          /\ editingId # Nil => form'.username = form.username
        BY <1>5 DEF Type, Form
    <2> QED
        BY <1>0, <2>1 DEF FormInv
<1> QED
    BY <1>1, <1>2, <1>3, <1>4, <1>5

LEMMA RowsStep ==
    ASSUME AgentsTypeOK, RowsInv, AgentsPageNext, AgentsTypeOK', Grows(agents, agents')
    PROVE  RowsInv'
<1>0. agents \in Seq(AgentRow) /\ agents' \in Seq(AgentRow) /\ <<>> \in Seq(AgentRow)
      /\ Grows(<<>>, agents')
    <2>1. Len(agents') \in Nat
        BY LenProperties DEF AgentsTypeOK
    <2> QED
        BY <2>1, EmptySeq DEF AgentsTypeOK, Grows
<1>1. asked' \subseteq Lists
    BY DEF AgentsPageNext, New, Cancel, StartEdit, Type, UnchangedByForm, SubmitNew,
           SubmitEdit, ToggleActive, MockWrites, WriteFails, Continue, Poll, MockLists,
           ListFails, Ask, Lists, RowsInv
<1>2. hookAgents' = hookAgents \/ hookAgents' = Array
    BY DEF AgentsPageNext, New, Cancel, StartEdit, Type, UnchangedByForm, SubmitNew,
           SubmitEdit, ToggleActive, MockWrites, WriteFails, Continue, Poll, MockLists,
           ListFails
<1>3. Draw \/ UNCHANGED <<drawn, hookAgents>>
    BY DEF AgentsPageNext, New, Cancel, StartEdit, Type, SubmitNew, SubmitEdit,
           ToggleActive, MockWrites, WriteFails, Continue, Poll, MockLists, ListFails,
           DrawIfChanged
<1>4. hookAgents' \in {<<>>, Array}
    BY <1>2 DEF RowsInv
<1>5. drawn' \in Seq(AgentRow) /\ Grows(drawn', agents')
      /\ (hookAgents' # Array => drawn' = <<>>)
    <2>1. CASE Draw
        BY <1>0, <2>1, GrowsReflexive DEF Draw, Content
    <2>2. CASE UNCHANGED <<drawn, hookAgents>>
        BY <1>0, <2>2, GrowsTransitive DEF RowsInv
    <2> QED
        BY <1>3, <2>1, <2>2
<1> QED
    BY <1>1, <1>4, <1>5 DEF RowsInv

\* What is sent goes to the agent of the form, or of the card.
LEMMA SentReaches ==
    ASSUME AgentsTypeOK, FormInv, RowsInv
    PROVE  /\ Complete(form) =>
                 LET r == [kind |-> "create", body |-> form] IN
                 r \in WriteRequest /\ Reaches(r)
           /\ editingId # Nil =>
                 LET r == [kind |-> "update", id |-> editingId, body |-> form] IN
                 r \in WriteRequest /\ Reaches(r)
           /\ \A i \in DOMAIN drawn :
                 LET r == [kind |-> "update", id |-> i,
                           body |-> [active |-> ~Content[i].active]] IN
                 r \in WriteRequest /\ Reaches(r)
<1>1. ASSUME Complete(form)
      PROVE  LET r == [kind |-> "create", body |-> form] IN
             r \in WriteRequest /\ Reaches(r)
    BY <1>1 DEF FormInv, WriteRequest, Reaches
<1>2. ASSUME editingId # Nil
      PROVE  LET r == [kind |-> "update", id |-> editingId, body |-> form] IN
             r \in WriteRequest /\ Reaches(r)
    <2>1. editingId \in 1 .. Len(agents) /\ editingId \in Nat \ {0} /\ form \in Form
          /\ form.username = agents[editingId].username
        BY <1>2, AgentsDomain DEF FormInv
    <2> QED
        BY <2>1 DEF WriteRequest, Reaches
<1>3. ASSUME NEW i \in DOMAIN drawn
      PROVE  LET r == [kind |-> "update", id |-> i,
                       body |-> [active |-> ~Content[i].active]] IN
             r \in WriteRequest /\ Reaches(r)
    <2> DEFINE body == [active |-> ~Content[i].active]
    <2>1. i \in 1 .. Len(agents) /\ i \in Nat \ {0}
        BY LenProperties, AgentsDomain DEF RowsInv, Grows
    <2>2. body \in [active : BOOLEAN] /\ DOMAIN body = {"active"}
        OBVIOUS
    <2>3. "username" \notin DOMAIN body
        BY <2>2
    <2> HIDE DEF body
    <2>4. [kind |-> "update", id |-> i, body |-> body] \in WriteRequest
        BY <2>1, <2>2 DEF WriteRequest
    <2>5. Reaches([kind |-> "update", id |-> i, body |-> body])
        BY <2>1, <2>3 DEF Reaches
    <2> QED
        BY <2>4, <2>5 DEF body
<1> QED
    BY <1>1, <1>2, <1>3

LEMMA WritesStep ==
    ASSUME AgentsTypeOK, FormInv, RowsInv, WritesInv, AgentsPageNext, AgentsTypeOK',
           Grows(agents, agents')
    PROVE  WritesInv'
<1>1. \A r : Reaches(r) =>
        /\ r.kind = "create" => Complete(r.body)
        /\ r.kind = "update" =>
              /\ r.id \in 1 .. Len(agents')
              /\ "username" \in DOMAIN r.body => r.body.username = agents'[r.id].username
    <2>1. Len(agents') \in Nat
        BY LenProperties DEF AgentsTypeOK
    <2> QED
        BY <2>1, AgentsDomain DEF Reaches, Grows
<1>2. \/ writes' = writes
      \/ \E w \in Writes : writes' = [writes EXCEPT ![w] = None]
      \/ \E w \in Writes, r \in WriteRequest :
            Reaches(r) /\ writes' = [writes EXCEPT ![w] = r]
    <2>1. CASE \E w \in Writes :
                 SubmitNew(w) \/ SubmitEdit(w) \/ \E i \in DOMAIN drawn : ToggleActive(w, i)
        BY <2>1, SentReaches DEF SubmitNew, SubmitEdit, ToggleActive, Send
    <2> QED
        BY <2>1 DEF AgentsPageNext, New, Cancel, StartEdit, Type, UnchangedByForm,
               MockWrites, WriteFails, Continue, Poll,
               MockLists, ListFails
<1>3. CASE writes' = writes
    BY <1>1, <1>3 DEF WritesInv, Reaches
<1>4. ASSUME NEW w \in Writes, NEW r \in WriteRequest, Reaches(r),
             writes' = [writes EXCEPT ![w] = r]
      PROVE  WritesInv'
    BY <1>1, <1>4 DEF WritesInv, Reaches
<1>5. None \in WriteRequest /\ Reaches(None)
    BY DEF None, WriteRequest, Reaches
<1> QED
    BY <1>2, <1>3, <1>4, <1>5

LEMMA FlagsStep ==
    ASSUME FlagsInv, AgentsPageNext
    PROVE  FlagsInv'
<1>1. /\ creating' \in {creating, TRUE, FALSE} /\ updating' \in {updating, TRUE, FALSE}
      /\ overlapped' = overlapped \/ overlapped' \in BOOLEAN
      /\ listView' \in {listView, "data", "error"}
      /\ sent' = sent \/ (sent < MaxWrites /\ sent' = sent + 1)
    BY DEF AgentsPageNext, New, Cancel, StartEdit, Type, UnchangedByForm, SubmitNew,
           SubmitEdit, ToggleActive, Send, MockWrites, WriteFails, Continue, Poll, MockLists, ListFails
<1>2. creating' \in BOOLEAN /\ updating' \in BOOLEAN /\ overlapped' \in BOOLEAN
    BY <1>1 DEF FlagsInv
<1>3. sent' \in 0 .. MaxWrites
    BY <1>1, AgentsPageAssumption DEF FlagsInv
<1>4. listView' \in {"loading", "data", "error"}
    BY <1>1 DEF FlagsInv
<1> QED
    BY <1>2, <1>3, <1>4 DEF FlagsInv

LEMMA SerialStep ==
    ASSUME AgentsTypeOK, FormInv, RowsInv, WritesInv, FlagsInv, SerialInv, AgentsPageNext,
           AgentsTypeOK', RowsInv'
    PROVE  SerialInv'
<1> DEFINE Single == \A v, w \in Writes : (writes[v] # None /\ writes[w] # None) => v = w
           Saving == \A w \in Writes : /\ writes[w].kind = "create" => creating
                                       /\ writes[w].kind = "update" => updating
<1> SUFFICES ASSUME mode' = "mock", ~overlapped'
             PROVE  Single' /\ Saving' /\ (hookAgents' = Array => drawn' = agents')
    BY DEF SerialInv
<1>1. mode = "mock" /\ ~overlapped
    <2>1. mode' = mode
        BY DEF AgentsPageNext, New, Cancel, StartEdit, Type, UnchangedByForm, SubmitNew,
               SubmitEdit, ToggleActive, MockWrites, WriteFails, Poll, MockLists, ListFails,
               RequestThrows, RequestRefused, RequestFails, clientVars
    <2>2. \/ overlapped' = overlapped
          \/ overlapped' = (overlapped \/ \E v \in Writes : writes[v] # None)
        BY DEF AgentsPageNext, New, Cancel, StartEdit, Type, UnchangedByForm, SubmitNew,
               SubmitEdit, ToggleActive, Send, MockWrites, WriteFails, Continue, Poll, MockLists, ListFails
    <2>3. overlapped \in BOOLEAN
        BY DEF FlagsInv
    <2>4. ~overlapped
        BY <2>2, <2>3, Zenon
    <2> QED
        BY <2>1, <2>4
<1>2. Single /\ Saving /\ (hookAgents = Array => drawn = agents)
    BY <1>1 DEF SerialInv
<1>3. writes \in [Writes -> WriteRequest] /\ creating \in BOOLEAN /\ updating \in BOOLEAN
    BY DEF WritesInv, FlagsInv
<1>4. Draw => (hookAgents' = Array => drawn' = agents')
    BY DEF Draw, Content
<1>5. DrawIfChanged /\ UNCHANGED agents => (hookAgents' = Array => drawn' = agents')
    BY <1>2, <1>4 DEF DrawIfChanged
<1>6. CASE \/ New \/ Cancel \/ \E i \in DOMAIN drawn : StartEdit(i)
           \/ \E u \in Usernames, t \in Texts : Type(u, t)
    <2>1. Draw /\ UNCHANGED <<writes, creating, updating>>
        BY <1>6 DEF New, Cancel, StartEdit, Type, UnchangedByForm
    <2> QED
        BY <1>2, <1>4, <2>1
<1>7. ASSUME NEW w \in Writes,
             SubmitNew(w) \/ SubmitEdit(w) \/ \E i \in DOMAIN drawn : ToggleActive(w, i)
      PROVE  Single' /\ Saving' /\ (hookAgents' = Array => drawn' = agents')
    <2>1. /\ overlapped' = (overlapped \/ \E v \in Writes : writes[v] # None)
          /\ \E r : writes' = [writes EXCEPT ![w] = r]
          /\ DrawIfChanged /\ UNCHANGED agents
        BY <1>7 DEF SubmitNew, SubmitEdit, ToggleActive, Send
    <2>2. \A v \in Writes : writes[v] = None
        BY <2>1
    <2>3. \A v \in Writes : v # w => writes'[v] = None
        BY <1>3, <2>1, <2>2
    <2>4. /\ writes'[w].kind = "create" => creating'
          /\ writes'[w].kind = "update" => updating'
        BY <1>3, <1>7 DEF SubmitNew, SubmitEdit, ToggleActive, Send
    <2> QED
        BY <1>5, <2>1, <2>3, <2>4 DEF None
<1>8. ASSUME NEW w \in Writes, MockWrites(w)
      PROVE  Single' /\ Saving' /\ (hookAgents' = Array => drawn' = agents')
    <2>1. writes[w] # None /\ Continue(w, TRUE)
        BY <1>8 DEF MockWrites
    <2>2. \A v \in Writes : writes'[v] = None
        BY <1>2, <1>3, <2>1 DEF Continue
    <2>3. writes[w].kind \in {"create", "update"}
        BY <1>3, <2>1 DEF WriteRequest, None
    <2>4. Draw
        <3>1. CASE writes[w].kind = "create"
            BY <2>1, <3>1 DEF Continue
        <3>2. CASE writes[w].kind = "update"
            <4>1. updating = TRUE /\ updating' = FALSE /\ DrawIfChanged
                BY <1>2, <1>3, <2>1, <3>2 DEF Continue
            <4> QED
                BY <4>1 DEF DrawIfChanged
        <3> QED
            BY <2>3, <3>1, <3>2
    <2> QED
        BY <1>4, <2>2, <2>4 DEF None
<1>9. ASSUME NEW l \in Lists, MockLists(l)
      PROVE  Single' /\ Saving' /\ (hookAgents' = Array => drawn' = agents')
    BY <1>2, <1>5, <1>9 DEF MockLists
<1>10. ASSUME NEW l \in Polls, Poll(l)
       PROVE  Single' /\ Saving' /\ (hookAgents' = Array => drawn' = agents')
    BY <1>2, <1>10 DEF Poll
<1>11. /\ \A w \in Writes : ~WriteFails(w)
       /\ \A l \in Lists : ~ListFails(l)
    BY <1>1 DEF WriteFails, ListFails, RequestThrows, RequestRefused, RequestFails
<1> QED
    BY <1>6, <1>7, <1>8, <1>9, <1>10, <1>11 DEF AgentsPageNext

LEMMA AgentsStep ==
    ASSUME AgentsTypeOK, AgentsInv, AgentsPageNext
    PROVE  AgentsTypeOK' /\ AgentsInv'
BY AgentsGrow, FormStep, RowsStep, WritesStep, FlagsStep, SerialStep DEF AgentsInv

\* What the invariant says of requests and cards.
LEMMA AgentsInvGives == AgentsInv => EditsReachTheirAgent /\ DrawnUnlessOverlapped
BY DEF AgentsInv, FormInv, WritesInv, Reaches, SerialInv, EditsReachTheirAgent,
       DrawnUnlessOverlapped

-----------------------------------------------------------------------------
(* The settings page.                                                      *)

\* An agent was made and the page has not heard of it.
Created == posting.phase = "served" /\ posting.answer # ErrorRow

\* The agents that the page has heard of are the first Heard ones, but for
\* those beyond the limit of the list.
Heard == Len(agents) - (IF Created THEN 1 ELSE 0)

\* A request that is not under way has left nothing behind, and nothing is
\* toggled before the list is there.
RequestsInv ==
    /\ getting.phase = "none" => getting = NoGet
    /\ posting.phase = "none" => posting = NoCreate
    /\ posting.phase = "sent" => posting.answer = ErrorRow
    /\ posting.phase # "none" => posting.username \in Usernames
    /\ \A t \in Toggles : toggling[t].phase = "none" => toggling[t] = NoToggle
    /\ getting # NoGet => shownLoading /\ \A t \in Toggles : toggling[t] = NoToggle

OncePerAgent == \A i, j \in 1 .. Len(shown) : shown[i].id = shown[j].id => i = j

NewestThere ==
    \A a \in 1 .. Heard :
        a > Heard - AgentLimit => \E i \in 1 .. Len(shown) : shown[i].id = a

\* A row shows its agent, but for a toggle whose answer is on its way.
RowAgrees(i) ==
    /\ shown[i].id \in 1 .. Heard
    /\ \/ shown[i].active = agents[shown[i].id].active
       \/ \E t \in Toggles : toggling[t].phase = "served" /\ toggling[t].id = shown[i].id

\* A toggle is about a row of the list and has been made or will be.
ToggleAgrees(t) ==
    LET r == toggling[t] IN
    r.phase # "none" =>
        /\ \E i \in 1 .. Len(shown) : shown[i].id = r.id /\ shown[i].active = r.active
        /\ r.phase = "served" => agents[r.id].active = ~r.active

TogglesApart ==
    \A s, t \in Toggles :
        /\ toggling[s].phase # "none" /\ toggling[t].phase # "none"
        /\ toggling[s].id = toggling[t].id
        => s = t

\* The list of the page and that of the server, with the requests between.
Agreeing ==
    /\ Heard \in Nat
    /\ Created => /\ posting.answer = [id |-> Len(agents), active |-> TRUE]
                  /\ agents[Len(agents)].active = TRUE
    /\ OncePerAgent
    /\ NewestThere
    /\ \A i \in 1 .. Len(shown) : RowAgrees(i)
    /\ \A t \in Toggles : ToggleAgrees(t)
    /\ TogglesApart

\* The list on its way is what the server has.
Asking == posting = NoCreate /\ (getting.phase = "served" => getting.rows = Rows)

SettingsInv ==
    /\ SettingsPageTypeOK
    /\ RequestsInv
    /\ ~raced => IF getting = NoGet THEN Agreeing ELSE Asking

LEMMA SettingsInit == SettingsPageInit => SettingsInv
<1> SUFFICES ASSUME SettingsPageInit PROVE SettingsInv
    OBVIOUS
<1>1. <<>> \in Seq(SettingsRow)
    BY EmptySeq
<1>2. shownLoading \in BOOLEAN /\ raced \in BOOLEAN
    BY Zenon DEF SettingsPageInit
<1>3. getting \in [phase : {"none", "sent", "served"}, rows : Seq(SettingsRow)]
      /\ getting # NoGet /\ getting.phase = "sent"
    BY <1>1 DEF SettingsPageInit, NoGet
<1>4. posting \in [phase : {"none", "sent", "served"}, username : Usernames \cup {Blank},
                   answer : SettingsRow]
      /\ posting = NoCreate /\ posting.phase = "none"
    BY DEF SettingsPageInit, NoCreate, ErrorRow, SettingsRow
<1>5. toggling \in [Toggles -> [phase : {"none", "sent", "served"}, id : Nat,
                                active : BOOLEAN]]
    BY DEF SettingsPageInit, NoToggle
<1>6. settingsSent \in 0 .. MaxSettings /\ others \in 0 .. MaxOthers
    BY SettingsPageAssumption DEF SettingsPageInit
<1>7. SettingsPageTypeOK
    BY <1>1, <1>2, <1>3, <1>4, <1>5, <1>6 DEF SettingsPageInit, SettingsPageTypeOK
<1>8. RequestsInv
    BY <1>3, <1>4 DEF SettingsPageInit, RequestsInv, NoToggle
<1> QED
    BY <1>3, <1>4, <1>7, <1>8 DEF SettingsInv, Asking

\* GET /agents answers the newest agents, each once and as it is.
LEMMA RowsFacts ==
    ASSUME AgentsTypeOK
    PROVE  /\ Rows \in Seq(SettingsRow) /\ Len(Rows) \in Nat /\ Len(Rows) =< Len(agents)
           /\ \A i \in 1 .. Len(Rows) :
                 /\ Len(agents) + 1 - i \in 1 .. Len(agents)
                 /\ Rows[i].id = Len(agents) + 1 - i
                 /\ Rows[i].active = agents[Len(agents) + 1 - i].active
           /\ \A a \in 1 .. Len(agents) : a > Len(agents) - AgentLimit =>
                 /\ Len(agents) + 1 - a \in 1 .. Len(Rows)
                 /\ Rows[Len(agents) + 1 - a].id = a
<1> DEFINE n == Len(agents)
           l == IF n < AgentLimit THEN n ELSE AgentLimit
           Row_(i) == [id |-> n + 1 - i, active |-> agents[n + 1 - i].active]
           rows == Rows
<1>1. n \in Nat /\ \A i \in 1 .. n : agents[i].active \in BOOLEAN
    BY AgentsDomain DEF AgentRow
<1>2. l \in Nat /\ l =< n
    BY <1>1, SettingsPageAssumption
<1>3. \A i \in 1 .. l : n + 1 - i \in 1 .. n
    BY <1>1, <1>2
<1>4. \A i \in 1 .. l : Row_(i) \in SettingsRow
    BY <1>1, <1>3 DEF SettingsRow
<1>5. rows = [i \in 1 .. l |-> Row_(i)]
    BY DEF Rows
<1>6. \A a \in 1 .. n : a > n - AgentLimit => n + 1 - a \in 1 .. l /\ n + 1 - (n + 1 - a) = a
    BY <1>1, SettingsPageAssumption
<1>7. \A i : Row_(i).id = n + 1 - i /\ Row_(i).active = agents[n + 1 - i].active
    OBVIOUS
<1> HIDE DEF n, l, Row_, rows
<1>8. rows \in [1 .. l -> SettingsRow]
    BY <1>4, <1>5
<1>9. rows \in Seq(SettingsRow)
    BY <1>2, <1>8, SeqDef
<1>10. Len(rows) = l
    BY <1>2, <1>8, <1>9, LenProperties
<1>11. \A i \in 1 .. l : rows[i] = Row_(i)
    BY <1>5
<1>12. \A a \in 1 .. n : a > n - AgentLimit =>
          n + 1 - a \in 1 .. l /\ rows[n + 1 - a].id = a
    BY <1>6, <1>7, <1>11
<1> QED
    BY <1>2, <1>3, <1>7, <1>9, <1>10, <1>11, <1>12 DEF n, rows

LEMMA FlippedFacts ==
    ASSUME SettingsPageTypeOK, NEW id \in Nat, NEW b \in BOOLEAN
    PROVE  /\ Flipped(id, b) \in Seq(SettingsRow)
           /\ Len(Flipped(id, b)) = Len(shown)
           /\ \A i \in 1 .. Len(shown) :
                 /\ Flipped(id, b)[i].id = shown[i].id
                 /\ Flipped(id, b)[i].active = IF shown[i].id = id THEN ~b ELSE shown[i].active
<1> DEFINE n == Len(shown)
           Flip(i) == IF shown[i].id = id THEN [shown[i] EXCEPT !.active = ~b] ELSE shown[i]
           flipped == Flipped(id, b)
<1>1. n \in Nat /\ DOMAIN shown = 1 .. n /\ \A i \in 1 .. n : shown[i] \in SettingsRow
    BY LenProperties, ElementOfSeq DEF SettingsPageTypeOK
<1>2. \A i \in 1 .. n : /\ Flip(i) \in SettingsRow
                        /\ Flip(i).id = shown[i].id
                        /\ Flip(i).active = IF shown[i].id = id THEN ~b ELSE shown[i].active
    BY <1>1 DEF SettingsRow
<1>3. flipped = [i \in 1 .. n |-> Flip(i)]
    BY <1>1 DEF Flipped
<1> HIDE DEF n, Flip, flipped
<1>4. flipped \in [1 .. n -> SettingsRow]
    BY <1>2, <1>3
<1>5. flipped \in Seq(SettingsRow)
    BY <1>1, <1>4, SeqDef
<1>6. Len(flipped) = n
    BY <1>1, <1>4, <1>5, LenProperties
<1>7. \A i \in 1 .. n : flipped[i] = Flip(i)
    BY <1>3
<1> QED
    BY <1>2, <1>5, <1>6, <1>7 DEF n, flipped

\* The list, once.
LEMMA GetTypeStep ==
    ASSUME AgentsTypeOK, SettingsInv, GetServed \/ GetAnswered \/ GetFails
    PROVE  SettingsPageTypeOK' /\ RequestsInv' /\ AgentsTypeOK' /\ Rows' = Rows
           /\ getting # NoGet
<1>1. UNCHANGED <<agents, posting, toggling, settingsSent, others>>
    BY DEF GetServed, GetAnswered, GetFails
<1>2. AgentsTypeOK' /\ Rows' = Rows
    BY <1>1 DEF AgentsTypeOK, Rows
<1>3. <<>> \in Seq(SettingsRow)
    BY EmptySeq
<1>4. getting \in [phase : {"none", "sent", "served"}, rows : Seq(SettingsRow)]
    BY DEF SettingsInv, SettingsPageTypeOK
<1>5. shown' \in Seq(SettingsRow)
    <2>1. shown' \in {shown, <<>>, getting.rows}
        BY DEF GetServed, GetAnswered, GetFails
    <2> QED
        BY <1>3, <1>4, <2>1 DEF SettingsInv, SettingsPageTypeOK
<1>6. getting' \in [phase : {"none", "sent", "served"}, rows : Seq(SettingsRow)]
      /\ \/ getting' = NoGet
         \/ getting'.phase = "served" /\ getting'.rows = Rows
    <2>1. \/ getting' = [phase |-> "none", rows |-> <<>>]
          \/ getting' = [phase |-> "served", rows |-> Rows]
        BY DEF GetServed, GetAnswered, GetFails, NoGet
    <2>2. Rows \in Seq(SettingsRow)
        BY RowsFacts
    <2>3. CASE getting' = [phase |-> "none", rows |-> <<>>]
        BY <1>3, <2>3 DEF NoGet
    <2>4. CASE getting' = [phase |-> "served", rows |-> Rows]
        BY <2>2, <2>4
    <2> QED
        BY <2>1, <2>3, <2>4
<1>7. shownLoading' \in BOOLEAN /\ raced' \in BOOLEAN
    <2>1. shownLoading' \in {shownLoading, FALSE} /\ raced' \in {raced, TRUE}
        BY DEF GetServed, GetAnswered, GetFails
    <2> QED
        BY <2>1 DEF SettingsInv, SettingsPageTypeOK
<1>8. SettingsPageTypeOK'
    BY <1>1, <1>5, <1>6, <1>7 DEF SettingsInv, SettingsPageTypeOK
<1>9. getting # NoGet /\ (getting' # NoGet => UNCHANGED shownLoading)
    BY DEF GetServed, GetAnswered, GetFails, NoGet
<1>10. RequestsInv'
    <2>1. getting'.phase = "none" => getting' = NoGet
        BY <1>6
    <2>2. shownLoading /\ \A t \in Toggles : toggling[t] = NoToggle
        BY <1>9 DEF SettingsInv, RequestsInv
    <2>3. getting' # NoGet => shownLoading'
        BY <1>9, <2>2, Zenon
    <2> QED
        BY <1>1, <2>1, <2>2, <2>3 DEF SettingsInv, RequestsInv
<1> QED
    BY <1>2, <1>8, <1>9, <1>10

LEMMA GetStep ==
    ASSUME AgentsTypeOK, SettingsInv, GetServed \/ GetAnswered \/ GetFails
    PROVE  SettingsInv' /\ AgentsTypeOK'
<1> SUFFICES ASSUME ~raced' PROVE IF getting' = NoGet THEN Agreeing' ELSE Asking'
    BY GetTypeStep DEF SettingsInv
<1>1. UNCHANGED <<agents, posting, toggling>>
    BY DEF GetServed, GetAnswered, GetFails
<1>2. ~raced /\ (GetServed \/ GetAnswered)
    BY DEF GetServed, GetAnswered, GetFails
<1>3. Asking /\ getting # NoGet
    BY <1>2, GetTypeStep DEF SettingsInv
<1>4. CASE GetServed
    BY <1>1, <1>3, <1>4, GetTypeStep DEF GetServed, Asking, NoGet
<1>5. CASE GetAnswered
    <2>1. getting' = NoGet /\ shown' = Rows
        BY <1>3, <1>5 DEF GetAnswered, Asking
    <2>2. ~Created'
        BY <1>1, <1>3 DEF Asking, Created, NoCreate
    <2>3. Heard' = Len(agents) /\ Len(agents) \in Nat
        BY <1>1, <2>2, AgentsDomain DEF Heard
    <2>4. \A t \in Toggles : toggling'[t].phase = "none"
        BY <1>1, <1>3 DEF SettingsInv, RequestsInv, NoToggle
    <2>5. OncePerAgent'
        BY <2>1, <2>3, RowsFacts DEF OncePerAgent
    <2>6. NewestThere'
        BY <2>1, <2>3, RowsFacts DEF NewestThere
    <2>7. \A i \in 1 .. Len(shown') : RowAgrees(i)'
        BY <1>1, <2>1, <2>3, RowsFacts DEF RowAgrees
    <2>8. (\A t \in Toggles : ToggleAgrees(t)') /\ TogglesApart'
        BY <2>4 DEF ToggleAgrees, TogglesApart
    <2> QED
        BY <2>1, <2>2, <2>3, <2>5, <2>6, <2>7, <2>8 DEF Agreeing
<1> QED
    BY <1>2, <1>4, <1>5

\* createAgent.
LEMMA CreateTypeStep ==
    ASSUME AgentsTypeOK, SettingsInv,
           \/ \E u \in Usernames : Create(u)
           \/ CreateServed \/ CreateAnswered \/ CreateFails
    PROVE  SettingsPageTypeOK' /\ RequestsInv' /\ AgentsTypeOK' /\ (raced => raced')
<1> DEFINE Post_ == [phase : {"none", "sent", "served"}, username : Usernames \cup {Blank},
                     answer : SettingsRow]
           New_ == [id |-> Len(agents) + 1, active |-> TRUE]
<1>0. posting \in Post_ /\ raced \in BOOLEAN /\ Len(agents) \in Nat
    BY AgentsDomain DEF SettingsInv, SettingsPageTypeOK
<1>1. UNCHANGED <<shownLoading, getting, toggling, others>>
    BY DEF Create, CreateServed, CreateAnswered, CreateFails
<1>2. AgentsTypeOK'
    <2>1. CASE UNCHANGED agents
        BY <2>1 DEF AgentsTypeOK
    <2>2. CASE CreateServed /\ ~Taken(posting.username)
        <3> DEFINE data == [username |-> posting.username, text |-> CHOOSE t \in Texts : TRUE]
        <3>1. data.username \in Usernames /\ data.text \in Texts
            BY <2>2, MockAssumption DEF CreateServed, SettingsInv, RequestsInv
        <3>2. agents' = PostAgent(data)
            BY <2>2 DEF CreateServed
        <3> HIDE DEF data
        <3> QED
            BY <3>1, <3>2, PostAgentFacts
    <2> QED
        BY <2>1, <2>2 DEF Create, CreateServed, CreateAnswered, CreateFails
<1>3. /\ posting' \in Post_
      /\ posting'.phase = "none" => posting' = NoCreate
      /\ posting'.phase = "sent" => posting'.answer = ErrorRow
      /\ posting'.phase # "none" => posting'.username \in Usernames
    <2>1. NoCreate \in Post_ /\ NoCreate.phase = "none" /\ NoCreate.answer = ErrorRow
        BY DEF NoCreate, ErrorRow, SettingsRow
    <2>2. New_ \in SettingsRow
        BY <1>0 DEF SettingsRow
    <2>3. ASSUME NEW u \in Usernames, Create(u) PROVE <1>3!:
        <3>1. posting' = [NoCreate EXCEPT !.phase = "sent", !.username = u]
            BY <2>3 DEF Create
        <3> QED
            BY <2>1, <3>1
    <2>4. CASE CreateServed
        <3>1. posting.username \in Usernames
            BY <2>4 DEF CreateServed, SettingsInv, RequestsInv
        <3>2. \/ posting' = [posting EXCEPT !.phase = "served"]
              \/ posting' = [posting EXCEPT !.phase = "served", !.answer = New_]
            BY <2>4 DEF CreateServed
        <3> HIDE DEF New_
        <3> QED
            BY <1>0, <2>2, <3>1, <3>2
    <2>5. CASE CreateAnswered \/ CreateFails
        BY <2>1, <2>5 DEF CreateAnswered, CreateFails
    <2> QED
        BY <2>3, <2>4, <2>5
<1>4. shown' \in Seq(SettingsRow)
    <2>1. shown' = shown \/ shown' = Append(shown, posting.answer)
        BY DEF Create, CreateServed, CreateAnswered, CreateFails
    <2>2. posting.answer \in SettingsRow /\ shown \in Seq(SettingsRow)
        BY <1>0 DEF SettingsInv, SettingsPageTypeOK
    <2> QED
        BY <2>1, <2>2, AppendProperties
<1>5. settingsSent' \in 0 .. MaxSettings
    <2>1. \/ settingsSent' = settingsSent
          \/ settingsSent < MaxSettings /\ settingsSent' = settingsSent + 1
        BY DEF Create, CreateServed, CreateAnswered, CreateFails
    <2> QED
        BY <2>1, SettingsPageAssumption DEF SettingsInv, SettingsPageTypeOK
<1>6. raced' \in BOOLEAN /\ (raced => raced')
    <2>1. \/ raced' = (raced \/ getting # NoGet)
          \/ raced' = (raced \/ posting.answer = ErrorRow)
          \/ raced' = TRUE \/ raced' = raced
        BY DEF Create, CreateServed, CreateAnswered, CreateFails
    <2> QED
        BY <1>0, <2>1, Zenon
<1>7. SettingsPageTypeOK'
    BY <1>1, <1>3, <1>4, <1>5, <1>6 DEF SettingsInv, SettingsPageTypeOK
<1>8. RequestsInv'
    BY <1>1, <1>3 DEF SettingsInv, RequestsInv
<1> QED
    BY <1>2, <1>6, <1>7, <1>8

\* What no row and no toggle looks at may change.
LEMMA AgreeingStays ==
    ASSUME Agreeing, UNCHANGED <<agents, shown, toggling>>, ~Created, ~Created'
    PROVE  Agreeing'
BY DEF Agreeing, Heard, OncePerAgent, NewestThere, RowAgrees, ToggleAgrees, TogglesApart

LEMMA CreateServedStep ==
    ASSUME AgentsTypeOK, SettingsInv, CreateServed, Agreeing, ~Taken(posting.username)
    PROVE  Agreeing'
<1> DEFINE n == Len(agents)
           data == [username |-> posting.username, text |-> CHOOSE t \in Texts : TRUE]
           new == [id |-> n + 1, active |-> TRUE]
<1>0. n \in Nat
    BY AgentsDomain
<1>1. UNCHANGED <<shown, toggling>> /\ ~Created /\ Heard = n
    BY <1>0 DEF CreateServed, Created, Heard
<1>2. data.username \in Usernames /\ data.text \in Texts
    BY MockAssumption DEF CreateServed, SettingsInv, RequestsInv
<1>3. agents' = PostAgent(data)
    BY DEF CreateServed
<1> HIDE DEF data
<1>4. /\ Len(agents') = n + 1
      /\ \A i \in 1 .. n : agents'[i] = agents[i]
      /\ agents'[n + 1].active = TRUE
    BY <1>2, <1>3, PostAgentFacts
<1>5. posting'.phase = "served" /\ posting'.answer = new
    BY DEF CreateServed, SettingsInv, SettingsPageTypeOK
<1>6. Created'
    <2>1. new.id # 0
        BY <1>0
    <2>2. new # ErrorRow
        BY <2>1 DEF ErrorRow
    <2> QED
        BY <1>5, <2>2 DEF Created
<1>7. Heard' = n
    BY <1>0, <1>4, <1>6 DEF Heard
<1>8. posting'.answer = [id |-> Len(agents'), active |-> TRUE]
      /\ agents'[Len(agents')].active = TRUE
    BY <1>4, <1>5
<1> HIDE DEF n
<1>9. OncePerAgent' /\ NewestThere' /\ TogglesApart'
    BY <1>1, <1>7 DEF Agreeing, OncePerAgent, NewestThere, TogglesApart
<1>10. \A i \in 1 .. Len(shown') : RowAgrees(i)'
    BY <1>1, <1>4, <1>7 DEF Agreeing, RowAgrees
<1>11. \A t \in Toggles : ToggleAgrees(t)'
    <2>1. ASSUME NEW t \in Toggles, toggling[t].phase # "none" PROVE toggling[t].id \in 1 .. n
        BY <1>1, <2>1 DEF Agreeing, ToggleAgrees, RowAgrees
    <2> QED
        BY <1>1, <1>4, <2>1 DEF Agreeing, ToggleAgrees
<1> QED
    BY <1>0, <1>7, <1>8, <1>9, <1>10, <1>11 DEF Agreeing

LEMMA CreateAnsweredStep ==
    ASSUME AgentsTypeOK, SettingsInv, CreateAnswered, Agreeing, Created
    PROVE  Agreeing'
<1> DEFINE n == Len(agents)
           s == Len(shown)
<1>0. n \in Nat /\ s \in Nat /\ shown \in Seq(SettingsRow) /\ posting.answer \in SettingsRow
    BY AgentsDomain, LenProperties DEF SettingsInv, SettingsPageTypeOK
<1>1. UNCHANGED <<agents, toggling>> /\ ~Created'
    BY DEF CreateAnswered, Created, NoCreate
<1>2. Heard = n - 1 /\ Heard' = n /\ n - 1 \in Nat
    BY <1>0, <1>1 DEF Heard, Agreeing
<1>3. posting.answer.id = n /\ posting.answer.active = TRUE /\ agents[n].active = TRUE
    BY DEF Agreeing
<1>4. /\ Len(shown') = s + 1 /\ shown'[s + 1] = posting.answer
      /\ \A i \in 1 .. s : shown'[i] = shown[i]
    <2>1. shown' = Append(shown, posting.answer)
        BY DEF CreateAnswered
    <2> QED
        BY <1>0, <2>1, AppendProperties
<1>5. \A i \in 1 .. s : RowAgrees(i)
    BY DEF Agreeing
<1>6. \A i \in 1 .. s : shown[i].id \in 1 .. n - 1
    BY <1>2, <1>5 DEF RowAgrees
<1> HIDE DEF n, s
<1>7. OncePerAgent'
    <2>1. \A i, j \in 1 .. s : shown[i].id = shown[j].id => i = j
        BY DEF Agreeing, OncePerAgent, s
    <2>2. \A i \in 1 .. s + 1 : i \in 1 .. s \/ i = s + 1
        BY <1>0
    <2> QED
        BY <1>0, <1>3, <1>4, <1>6, <2>1, <2>2 DEF OncePerAgent
<1>8. NewestThere'
    <2>1. SUFFICES ASSUME NEW a \in 1 .. n, a > n - AgentLimit
                   PROVE  \E i \in 1 .. s + 1 : shown'[i].id = a
        BY <1>2, <1>4 DEF NewestThere
    <2>2. CASE a = n
        BY <1>0, <1>3, <1>4, <2>2
    <2>3. CASE a # n
        <3>1. a \in 1 .. n - 1 /\ a > n - 1 - AgentLimit
            BY <1>0, <2>1, <2>3, SettingsPageAssumption
        <3>2. \E i \in 1 .. s : shown[i].id = a
            BY <1>2, <3>1 DEF Agreeing, NewestThere, s
        <3> QED
            BY <1>0, <1>4, <3>2
    <2> QED
        BY <2>2, <2>3
<1>9. \A i \in 1 .. Len(shown') : RowAgrees(i)'
    <2>1. ASSUME NEW i \in 1 .. s PROVE RowAgrees(i)'
        BY <1>0, <1>1, <1>2, <1>4, <1>5, <1>6 DEF RowAgrees
    <2>2. ASSUME NEW i, i = s + 1 PROVE RowAgrees(i)'
        <3>1. n \in 1 .. n
            BY <1>0, <1>2
        <3>2. shown'[i].id = n /\ shown'[i].active = TRUE
            BY <1>3, <1>4, <2>2
        <3> QED
            BY <1>1, <1>2, <1>3, <3>1, <3>2 DEF RowAgrees
    <2>3. \A i \in 1 .. Len(shown') : i \in 1 .. s \/ i = s + 1
        BY <1>0, <1>4
    <2> QED
        BY <2>1, <2>2, <2>3
<1>10. (\A t \in Toggles : ToggleAgrees(t)') /\ TogglesApart'
    <2>1. TogglesApart'
        BY <1>1 DEF Agreeing, TogglesApart
    <2>2. ASSUME NEW t \in Toggles PROVE ToggleAgrees(t)'
        <3>1. ToggleAgrees(t)
            BY DEF Agreeing
        <3>2. \A i \in 1 .. s : i \in 1 .. Len(shown')
            BY <1>0, <1>4
        <3> QED
            BY <1>1, <1>4, <3>1, <3>2 DEF ToggleAgrees, s
    <2> QED
        BY <2>1, <2>2
<1> QED
    BY <1>0, <1>1, <1>2, <1>7, <1>8, <1>9, <1>10 DEF Agreeing

LEMMA CreateStep ==
    ASSUME AgentsTypeOK, SettingsInv,
           \/ \E u \in Usernames : Create(u)
           \/ CreateServed \/ CreateAnswered \/ CreateFails
    PROVE  SettingsInv' /\ AgentsTypeOK'
<1> SUFFICES ASSUME ~raced' PROVE getting' = NoGet /\ Agreeing'
    BY CreateTypeStep DEF SettingsInv
<1>0. ~raced /\ UNCHANGED getting
    BY CreateTypeStep DEF Create, CreateServed, CreateAnswered, CreateFails
<1>1. getting = NoGet
    <2>1. CASE posting # NoCreate
        BY <1>0, <2>1 DEF SettingsInv, Asking
    <2>2. CASE posting = NoCreate
        <3>1. PICK u \in Usernames : Create(u)
            BY <2>2 DEF CreateServed, CreateAnswered, CreateFails, NoCreate
        <3>2. raced' = (raced \/ getting # NoGet)
            BY <3>1 DEF Create
        <3> QED
            BY <3>2, Zenon
    <2> QED
        BY <2>1, <2>2
<1> SUFFICES Agreeing'
    BY <1>0, <1>1
<1>2. Agreeing
    BY <1>0, <1>1 DEF SettingsInv
<1>3. ASSUME NEW u \in Usernames, Create(u) PROVE Agreeing'
    <2>1. UNCHANGED <<agents, shown, toggling>> /\ ~Created /\ ~Created'
        BY <1>3 DEF Create, Created, NoCreate
    <2> QED
        BY <1>2, <2>1, AgreeingStays
<1>4. CASE CreateServed
    <2>1. CASE Taken(posting.username)
        <3>1. UNCHANGED <<agents, shown, toggling>> /\ ~Created
            BY <1>4, <2>1 DEF CreateServed, Created
        <3>2. posting'.answer = ErrorRow
            BY <1>4, <2>1 DEF CreateServed, SettingsInv, RequestsInv, SettingsPageTypeOK
        <3> QED
            BY <1>2, <3>1, <3>2, AgreeingStays DEF Created
    <2> QED
        BY <1>2, <1>4, <2>1, CreateServedStep
<1>5. CASE CreateAnswered
    <2>1. posting.answer # ErrorRow
        <3>1. raced' = (raced \/ posting.answer = ErrorRow)
            BY <1>5 DEF CreateAnswered
        <3> QED
            BY <3>1, Zenon
    <2>2. Created
        BY <1>5, <2>1 DEF CreateAnswered, Created
    <2> QED
        BY <1>2, <1>5, <2>2, CreateAnsweredStep
<1>6. ~CreateFails
    BY DEF CreateFails
<1> QED
    BY <1>3, <1>4, <1>5, <1>6

\* toggleActive.
LEMMA ToggleTypeStep ==
    ASSUME AgentsTypeOK, SettingsInv, NEW t \in Toggles,
           \/ \E i \in DOMAIN shown : Toggle(t, shown[i])
           \/ ToggleServed(t) \/ ToggleAnswered(t) \/ ToggleFails(t)
    PROVE  /\ SettingsPageTypeOK' /\ RequestsInv' /\ AgentsTypeOK'
           /\ raced => raced'
           /\ getting = NoGet
<1> DEFINE Toggle_ == [phase : {"none", "sent", "served"}, id : Nat, active : BOOLEAN]
<1>0. /\ toggling \in [Toggles -> Toggle_] /\ raced \in BOOLEAN
      /\ shown \in Seq(SettingsRow)
      /\ \A i \in DOMAIN shown : shown[i] \in SettingsRow
    BY LenProperties, ElementOfSeq DEF SettingsInv, SettingsPageTypeOK
<1>1. UNCHANGED <<shownLoading, getting, posting, others>>
    BY DEF Toggle, ToggleServed, ToggleAnswered, ToggleFails
<1>2. getting = NoGet
    BY DEF Toggle, ToggleServed, ToggleAnswered, ToggleFails, NoToggle, SettingsInv,
           RequestsInv
<1>3. toggling[t].id \in Nat /\ toggling[t].active \in BOOLEAN
    BY <1>0
<1>4. AgentsTypeOK'
    <2>1. CASE UNCHANGED agents
        BY <2>1 DEF AgentsTypeOK
    <2>2. CASE ToggleServed(t) /\ toggling[t].id \in DOMAIN agents
        <3> DEFINE req == [active |-> ~toggling[t].active]
        <3>1. DOMAIN req = {"active"} /\ req.active \in BOOLEAN
            OBVIOUS
        <3>2. agents' = PatchAgent(toggling[t].id, req)
            BY <2>2 DEF ToggleServed
        <3> HIDE DEF req
        <3> QED
            BY <1>3, <3>1, <3>2, PatchAgentFacts
    <2> QED
        BY <2>1, <2>2 DEF Toggle, ToggleServed, ToggleAnswered, ToggleFails
<1>5. /\ toggling' \in [Toggles -> Toggle_]
      /\ \A s \in Toggles : toggling'[s].phase = "none" => toggling'[s] = NoToggle
    <2>1. \E r \in Toggle_ : /\ toggling' = [toggling EXCEPT ![t] = r]
                             /\ r.phase = "none" => r = NoToggle
        <3>1. ASSUME NEW i \in DOMAIN shown, Toggle(t, shown[i])
              PROVE  <2>1
            <4>1. shown[i].id \in Nat /\ shown[i].active \in BOOLEAN
                BY <1>0, <3>1 DEF SettingsRow
            <4> DEFINE r == [phase |-> "sent", id |-> shown[i].id, active |-> shown[i].active]
            <4>2. r \in Toggle_ /\ r.phase = "sent"
                BY <4>1
            <4>3. toggling' = [toggling EXCEPT ![t] = r]
                BY <3>1 DEF Toggle
            <4> QED
                BY <4>2, <4>3
        <3>2. CASE ToggleServed(t)
            <4>1. [toggling[t] EXCEPT !.phase = "served"] \in Toggle_
                BY <1>0
            <4>2. toggling' = [toggling EXCEPT ![t] = [toggling[t] EXCEPT !.phase = "served"]]
                BY <3>2 DEF ToggleServed
            <4>3. [toggling[t] EXCEPT !.phase = "served"].phase = "served"
                BY <1>0
            <4> QED
                BY <4>1, <4>2, <4>3
        <3>3. CASE ToggleAnswered(t) \/ ToggleFails(t)
            <4>1. NoToggle \in Toggle_
                BY DEF NoToggle
            <4> QED
                BY <3>3, <4>1 DEF ToggleAnswered, ToggleFails
        <3> QED
            BY <3>1, <3>2, <3>3
    <2> QED
        BY <1>0, <2>1 DEF SettingsInv, RequestsInv
<1>6. shown' \in Seq(SettingsRow)
    <2>1. shown' \in {shown, Flipped(toggling[t].id, toggling[t].active)}
        BY DEF Toggle, ToggleServed, ToggleAnswered, ToggleFails
    <2> QED
        BY <1>0, <1>3, <2>1, FlippedFacts DEF SettingsInv
<1>7. settingsSent' \in 0 .. MaxSettings
    <2>1. \/ settingsSent' = settingsSent
          \/ settingsSent < MaxSettings /\ settingsSent' = settingsSent + 1
        BY DEF Toggle, ToggleServed, ToggleAnswered, ToggleFails
    <2> QED
        BY <2>1, SettingsPageAssumption DEF SettingsInv, SettingsPageTypeOK
<1>8. raced' \in BOOLEAN /\ (raced => raced')
    <2>1. \/ \E i \in DOMAIN shown :
               raced' = (raced \/ \E s \in Toggles : /\ toggling[s] # NoToggle
                                                     /\ toggling[s].id = shown[i].id)
          \/ raced' = TRUE \/ raced' = raced
        BY DEF Toggle, ToggleServed, ToggleAnswered, ToggleFails
    <2> QED
        BY <1>0, <2>1, Zenon
<1>9. SettingsPageTypeOK'
    BY <1>1, <1>5, <1>6, <1>7, <1>8 DEF SettingsInv, SettingsPageTypeOK
<1>10. RequestsInv'
    BY <1>1, <1>2, <1>5 DEF SettingsInv, RequestsInv
<1> QED
    BY <1>2, <1>4, <1>8, <1>9, <1>10

\* A toggle in the list of requests: what its row shows, of an agent that the
\* page has heard of.
LEMMA ToggleKnows ==
    ASSUME AgentsTypeOK, SettingsPageTypeOK, Agreeing, NEW t \in Toggles,
           toggling[t].phase # "none"
    PROVE  /\ toggling[t].id \in 1 .. Heard /\ toggling[t].id \in 1 .. Len(agents)
           /\ \A i \in 1 .. Len(shown) :
                 shown[i].id = toggling[t].id => shown[i].active = toggling[t].active
<1>1. PICK i \in 1 .. Len(shown) :
         shown[i].id = toggling[t].id /\ shown[i].active = toggling[t].active
    BY DEF Agreeing, ToggleAgrees
<1>2. \A j \in 1 .. Len(shown) : shown[j].id = toggling[t].id => j = i
    BY <1>1 DEF Agreeing, OncePerAgent
<1>3. toggling[t].id \in 1 .. Heard
    BY <1>1 DEF Agreeing, RowAgrees
<1>4. \A h \in 1 .. Heard : h \in 1 .. Len(agents)
    BY AgentsDomain DEF Heard
<1> QED
    BY <1>1, <1>2, <1>3, <1>4

LEMMA ToggleSentStep ==
    ASSUME AgentsTypeOK, SettingsInv, Agreeing, ~raced', NEW t \in Toggles,
           NEW i \in DOMAIN shown, Toggle(t, shown[i])
    PROVE  Agreeing'
<1> DEFINE r == [phase |-> "sent", id |-> shown[i].id, active |-> shown[i].active]
<1>0. UNCHANGED <<agents, shown, posting>> /\ toggling[t].phase = "none"
      /\ i \in 1 .. Len(shown)
    BY LenProperties DEF Toggle, NoToggle, SettingsInv, SettingsPageTypeOK
<1>1. Created' = Created /\ Heard' = Heard
    BY <1>0 DEF Created, Heard
<1>2. \A s \in Toggles : toggling'[s] = IF s = t THEN r ELSE toggling[s]
    BY DEF Toggle, SettingsInv, SettingsPageTypeOK
<1>3. r.phase = "sent" /\ r.id = shown[i].id /\ r.active = shown[i].active
    OBVIOUS
<1> HIDE DEF r
<1>4. \A s \in Toggles : toggling[s].phase # "none" => toggling[s].id # shown[i].id
    <2>1. raced' = (raced \/ \E s \in Toggles : /\ toggling[s] # NoToggle
                                                /\ toggling[s].id = shown[i].id)
        BY DEF Toggle
    <2>2. ~\E s \in Toggles : toggling[s] # NoToggle /\ toggling[s].id = shown[i].id
        BY <2>1, Zenon
    <2> QED
        BY <2>2 DEF NoToggle
<1>5. OncePerAgent' /\ NewestThere'
    BY <1>0, <1>1 DEF Agreeing, OncePerAgent, NewestThere
<1>6. \A j \in 1 .. Len(shown') : RowAgrees(j)'
    BY <1>0, <1>1, <1>2 DEF Agreeing, RowAgrees
<1>7. \A s \in Toggles : ToggleAgrees(s)'
    <2>1. ASSUME NEW s \in Toggles, s # t PROVE ToggleAgrees(s)'
        BY <1>0, <1>2, <2>1 DEF Agreeing, ToggleAgrees
    <2>2. ToggleAgrees(t)'
        BY <1>0, <1>2, <1>3 DEF ToggleAgrees
    <2> QED
        BY <2>1, <2>2
<1>8. TogglesApart'
    BY <1>2, <1>3, <1>4 DEF Agreeing, TogglesApart
<1> QED
    BY <1>0, <1>1, <1>5, <1>6, <1>7, <1>8 DEF Agreeing

LEMMA ToggleServedStep ==
    ASSUME AgentsTypeOK, SettingsInv, Agreeing, NEW t \in Toggles, ToggleServed(t)
    PROVE  Agreeing'
<1> DEFINE r == toggling[t]
           n == Len(agents)
<1>0. /\ r \in [phase : {"none", "sent", "served"}, id : Nat, active : BOOLEAN]
      /\ r.phase = "sent" /\ UNCHANGED <<shown, posting>> /\ n \in Nat
      /\ SettingsPageTypeOK
    BY AgentsDomain DEF ToggleServed, SettingsInv, SettingsPageTypeOK
<1>1. /\ r.id \in 1 .. Heard /\ r.id \in 1 .. n
      /\ \A i \in 1 .. Len(shown) : shown[i].id = r.id => shown[i].active = r.active
    BY <1>0, ToggleKnows
<1>2. /\ Len(agents') = n
      /\ \A a \in 1 .. n : a # r.id => agents'[a] = agents[a]
      /\ agents'[r.id].active = ~r.active
    <2> DEFINE req == [active |-> ~r.active]
    <2>1. DOMAIN req = {"active"} /\ req.active \in BOOLEAN /\ req.active = ~r.active
        OBVIOUS
    <2>2. agents' = PatchAgent(r.id, req)
        BY <1>1, AgentsDomain DEF ToggleServed
    <2> HIDE DEF req
    <2>3. r.id \in Nat /\ "text" \notin DOMAIN req /\ "active" \in DOMAIN req
        BY <1>0, <2>1
    <2> HIDE DEF r
    <2>4. /\ Len(agents') = Len(agents)
          /\ \A a \in 1 .. Len(agents) :
                /\ a # r.id => agents'[a] = agents[a]
                /\ a = r.id => agents'[a].active = req.active
        <3>1. r.id \in Nat
            BY <2>3
        <3>2. ("active" \in DOMAIN req => req.active \in BOOLEAN)
              /\ ("text" \in DOMAIN req => req.text \in Texts \cup {Blank})
            BY <2>1, <2>3
        <3>3. /\ Len(agents') = Len(agents)
              /\ \A a \in 1 .. Len(agents) :
                    /\ a # r.id => agents'[a] = agents[a]
                    /\ a = r.id /\ "active" \in DOMAIN req => agents'[a].active = req.active
            BY <2>2, <3>1, <3>2, PatchAgentFacts
        <3> QED
            BY <2>3, <3>3
    <2> QED
        BY <1>1, <2>1, <2>4
<1>3. Created' = Created /\ Heard' = Heard
    BY <1>0, <1>2 DEF Created, Heard
<1>4. \A s \in Toggles :
         /\ toggling'[s].id = toggling[s].id /\ toggling'[s].active = toggling[s].active
         /\ toggling'[s].phase = IF s = t THEN "served" ELSE toggling[s].phase
    BY DEF ToggleServed, SettingsInv, SettingsPageTypeOK
<1>5. \A s \in Toggles : toggling[s].phase # "none" /\ s # t =>
         toggling[s].id # r.id /\ toggling[s].id \in 1 .. n
    <2>1. ASSUME NEW s \in Toggles, toggling[s].phase # "none", s # t
          PROVE  toggling[s].id # r.id /\ toggling[s].id \in 1 .. n
        <3>1. toggling[s].id \in 1 .. n
            BY <1>0, <2>1, ToggleKnows
        <3> QED
            BY <1>0, <2>1, <3>1 DEF Agreeing, TogglesApart
    <2> QED
        BY <2>1
<1> HIDE DEF r, n
<1>6. OncePerAgent' /\ NewestThere'
    BY <1>0, <1>3 DEF Agreeing, OncePerAgent, NewestThere
<1>7. \A i \in 1 .. Len(shown') : RowAgrees(i)'
    <2>1. ASSUME NEW i \in 1 .. Len(shown), shown[i].id = r.id PROVE RowAgrees(i)'
        BY <1>0, <1>1, <1>3, <1>4, <2>1 DEF RowAgrees, r
    <2>2. ASSUME NEW i \in 1 .. Len(shown), shown[i].id # r.id PROVE RowAgrees(i)'
        <3>1. RowAgrees(i) /\ shown[i].id \in 1 .. n
            BY <1>0 DEF Agreeing, RowAgrees, Heard, n
        <3> QED
            BY <1>0, <1>2, <1>3, <1>4, <2>2, <3>1 DEF RowAgrees
    <2> QED
        BY <1>0, <2>1, <2>2
<1>8. \A s \in Toggles : ToggleAgrees(s)'
    <2>1. ToggleAgrees(t)'
        <3>1. \E i \in 1 .. Len(shown) : shown[i].id = r.id /\ shown[i].active = r.active
            BY <1>0 DEF Agreeing, ToggleAgrees, r
        <3> QED
            BY <1>0, <1>2, <1>4, <3>1 DEF ToggleAgrees, r
    <2>2. ASSUME NEW s \in Toggles, s # t PROVE ToggleAgrees(s)'
        <3>1. /\ toggling'[s].id = toggling[s].id /\ toggling'[s].active = toggling[s].active
              /\ toggling'[s].phase = toggling[s].phase
            BY <1>4, <2>2
        <3>2. ToggleAgrees(s) /\ shown' = shown
            BY <1>0 DEF Agreeing
        <3>3. toggling[s].phase # "none" =>
                 agents'[toggling[s].id] = agents[toggling[s].id]
            BY <1>2, <1>5, <2>2
        <3> QED
            BY <3>1, <3>2, <3>3 DEF ToggleAgrees
    <2> QED
        BY <2>1, <2>2
<1>9. TogglesApart'
    BY <1>0, <1>4 DEF Agreeing, TogglesApart, r
<1>10. Created => posting'.answer = [id |-> Len(agents'), active |-> TRUE]
                  /\ agents'[Len(agents')].active = TRUE
    <2>1. ASSUME Created PROVE r.id # n /\ n \in 1 .. n
        BY <1>0, <1>1, <2>1 DEF Heard, Agreeing, n
    <2> QED
        BY <1>0, <1>2, <2>1 DEF Agreeing, n
<1> QED
    BY <1>3, <1>6, <1>7, <1>8, <1>9, <1>10 DEF Agreeing

LEMMA ToggleAnsweredStep ==
    ASSUME AgentsTypeOK, SettingsInv, Agreeing, NEW t \in Toggles, ToggleAnswered(t)
    PROVE  Agreeing'
<1> DEFINE r == toggling[t]
<1>0. /\ r \in [phase : {"none", "sent", "served"}, id : Nat, active : BOOLEAN]
      /\ r.phase = "served" /\ UNCHANGED <<agents, posting>>
      /\ SettingsPageTypeOK
    BY DEF ToggleAnswered, SettingsInv, SettingsPageTypeOK
<1>1. r.id \in 1 .. Heard /\ agents[r.id].active = ~r.active
    BY <1>0, ToggleKnows DEF Agreeing, ToggleAgrees
<1>2. Created' = Created /\ Heard' = Heard
    BY <1>0 DEF Created, Heard
<1>3. /\ Len(shown') = Len(shown)
      /\ \A i \in 1 .. Len(shown) :
            /\ shown'[i].id = shown[i].id
            /\ shown'[i].active = IF shown[i].id = r.id THEN ~r.active ELSE shown[i].active
    <2>1. shown' = Flipped(r.id, r.active)
        BY DEF ToggleAnswered
    <2>2. r.id \in Nat /\ r.active \in BOOLEAN
        BY <1>0
    <2> HIDE DEF r
    <2> QED
        BY <1>0, <2>1, <2>2, FlippedFacts
<1>4. \A s \in Toggles : toggling'[s] = IF s = t THEN NoToggle ELSE toggling[s]
    BY DEF ToggleAnswered, SettingsInv, SettingsPageTypeOK
<1>5. NoToggle.phase = "none"
    BY DEF NoToggle
<1>6. \A s \in Toggles : toggling[s].phase # "none" /\ s # t => toggling[s].id # r.id
    BY <1>0 DEF Agreeing, TogglesApart
<1> HIDE DEF r
<1>7. OncePerAgent' /\ NewestThere'
    <2>1. OncePerAgent'
        BY <1>3 DEF Agreeing, OncePerAgent
    <2>2. NewestThere'
        BY <1>2, <1>3 DEF Agreeing, NewestThere
    <2> QED
        BY <2>1, <2>2
<1>8. \A i \in 1 .. Len(shown') : RowAgrees(i)'
    <2>1. ASSUME NEW i \in 1 .. Len(shown), shown[i].id = r.id PROVE RowAgrees(i)'
        BY <1>0, <1>1, <1>2, <1>3, <2>1 DEF RowAgrees
    <2>2. ASSUME NEW i \in 1 .. Len(shown), shown[i].id # r.id PROVE RowAgrees(i)'
        <3>1. RowAgrees(i)
            BY DEF Agreeing
        <3>2. \A s \in Toggles : toggling[s].id = shown[i].id => s # t
            BY <2>2 DEF r
        <3> QED
            BY <1>0, <1>2, <1>3, <1>4, <2>2, <3>1, <3>2 DEF RowAgrees
    <2> QED
        BY <1>3, <2>1, <2>2
<1>9. \A s \in Toggles : ToggleAgrees(s)'
    <2>1. ToggleAgrees(t)'
        BY <1>4, <1>5 DEF ToggleAgrees
    <2>2. ASSUME NEW s \in Toggles, s # t PROVE ToggleAgrees(s)'
        <3>1. ToggleAgrees(s)
            BY DEF Agreeing
        <3> QED
            BY <1>0, <1>3, <1>4, <1>6, <2>2, <3>1 DEF ToggleAgrees
    <2> QED
        BY <2>1, <2>2
<1>10. TogglesApart'
    BY <1>4, <1>5 DEF Agreeing, TogglesApart
<1> QED
    BY <1>0, <1>2, <1>7, <1>8, <1>9, <1>10 DEF Agreeing

LEMMA ToggleStep ==
    ASSUME AgentsTypeOK, SettingsInv, NEW t \in Toggles,
           \/ \E i \in DOMAIN shown : Toggle(t, shown[i])
           \/ ToggleServed(t) \/ ToggleAnswered(t) \/ ToggleFails(t)
    PROVE  SettingsInv' /\ AgentsTypeOK'
<1>1. getting = NoGet /\ getting' = NoGet
    BY ToggleTypeStep DEF Toggle, ToggleServed, ToggleAnswered, ToggleFails
<1> SUFFICES ASSUME ~raced' PROVE Agreeing'
    BY <1>1, ToggleTypeStep DEF SettingsInv
<1>2. Agreeing
    BY <1>1, ToggleTypeStep DEF SettingsInv
<1>3. ~ToggleFails(t)
    BY DEF ToggleFails
<1> QED
    BY <1>2, <1>3, ToggleSentStep, ToggleServedStep, ToggleAnsweredStep

\* Others change the agents: the list on its way is then not the server's any
\* more, but one that is still to be asked for will be.
LEMMA ElsewhereStep ==
    ASSUME AgentsTypeOK, SettingsInv,
           \/ \E u \in Usernames : ElsewhereCreated(u)
           \/ \E i \in DOMAIN agents : ElsewhereToggled(i)
           \/ \E b \in BOOLEAN : ElsewhereSetAll(b)
    PROVE  AgentsTypeOK' /\ SettingsInv'
<1>1. AgentsTypeOK'
    <2>1. ASSUME NEW u \in Usernames, ElsewhereCreated(u) PROVE AgentsTypeOK'
        <3> DEFINE data == [username |-> u, text |-> CHOOSE t \in Texts : TRUE]
        <3>1. data.username \in Usernames /\ data.text \in Texts
            BY MockAssumption
        <3>2. agents' = PostAgent(data)
            BY <2>1 DEF ElsewhereCreated, Elsewhere
        <3> HIDE DEF data
        <3> QED
            BY <3>1, <3>2, PostAgentFacts
    <2>2. ASSUME NEW i \in DOMAIN agents, ElsewhereToggled(i) PROVE AgentsTypeOK'
        <3> DEFINE req == [active |-> ~agents[i].active]
        <3>1. i \in Nat /\ agents[i].active \in BOOLEAN
            BY AgentsDomain DEF AgentRow
        <3>2. DOMAIN req = {"active"} /\ req.active \in BOOLEAN
            BY <3>1
        <3>3. agents' = PatchAgent(i, req)
            BY <2>2 DEF ElsewhereToggled, Elsewhere
        <3> HIDE DEF req
        <3>4. "text" \notin DOMAIN req
            BY <3>2
        <3> QED
            BY <3>1, <3>2, <3>3, <3>4, PatchAgentFacts
    <2>3. ASSUME NEW b \in BOOLEAN, ElsewhereSetAll(b) PROVE AgentsTypeOK'
        BY <2>3, SetAllActiveFacts DEF ElsewhereSetAll, Elsewhere
    <2> QED
        BY <2>1, <2>2, <2>3
<1>2. PICK changed : Elsewhere(changed)
    BY DEF ElsewhereCreated, ElsewhereToggled, ElsewhereSetAll
<1>3. UNCHANGED <<shown, shownLoading, getting, posting, toggling, settingsSent>>
    BY <1>2 DEF Elsewhere
<1>4. raced' \in BOOLEAN /\ (~raced' => ~raced /\ getting.phase = "sent")
    <2>1. raced' = (raced \/ getting.phase # "sent") /\ raced \in BOOLEAN
        BY <1>2 DEF Elsewhere, SettingsInv, SettingsPageTypeOK
    <2> QED
        BY <2>1, Zenon
<1>5. others' \in 0 .. MaxOthers
    BY <1>2, SettingsPageAssumption DEF Elsewhere, SettingsInv, SettingsPageTypeOK
<1>6. SettingsPageTypeOK'
    BY <1>3, <1>4, <1>5 DEF SettingsInv, SettingsPageTypeOK
<1>7. RequestsInv'
    BY <1>3 DEF SettingsInv, RequestsInv
<1>8. ASSUME ~raced' PROVE getting' # NoGet /\ Asking'
    <2>1. getting.phase = "sent" /\ getting # NoGet
        BY <1>4, <1>8 DEF NoGet
    <2>2. Asking
        BY <1>4, <1>8, <2>1 DEF SettingsInv
    <2> QED
        BY <1>3, <2>1, <2>2 DEF Asking
<1> QED
    BY <1>1, <1>6, <1>7, <1>8 DEF SettingsInv

LEMMA SettingsStep ==
    ASSUME AgentsTypeOK, SettingsInv, SettingsPageNext
    PROVE  AgentsTypeOK' /\ SettingsInv'
BY GetStep, CreateStep, ToggleStep, ElsewhereStep DEF SettingsPageNext

\* What the invariant says of the list when no request is under way.
LEMMA SettingsInvGives == AgentsTypeOK /\ SettingsInv => TruthfulUnlessRaced
<1> SUFFICES ASSUME AgentsTypeOK, SettingsInv, ~raced, getting = NoGet, posting = NoCreate,
                    \A t \in Toggles : toggling[t] = NoToggle
             PROVE  /\ \A i, j \in DOMAIN shown : shown[i].id = shown[j].id => i = j
                    /\ \A i \in DOMAIN shown :
                          /\ shown[i].id \in DOMAIN agents
                          /\ shown[i].active = agents[shown[i].id].active
                    /\ \A a \in DOMAIN agents : a > Len(agents) - AgentLimit =>
                          \E i \in DOMAIN shown : shown[i].id = a
    BY DEF TruthfulUnlessRaced
<1>1. Agreeing /\ ~Created /\ \A t \in Toggles : toggling[t].phase = "none"
    BY DEF SettingsInv, Created, NoCreate, NoToggle
<1>2. DOMAIN shown = 1 .. Len(shown) /\ DOMAIN agents = 1 .. Len(agents)
      /\ Heard = Len(agents)
    BY <1>1, AgentsDomain, LenProperties DEF SettingsInv, SettingsPageTypeOK, Heard
<1> QED
    BY <1>1, <1>2 DEF Agreeing, OncePerAgent, RowAgrees, NewestThere

-----------------------------------------------------------------------------
(* The tab.                                                                *)

\* The part that is open satisfies its invariant, the others are as opened.
PagesInv ==
    /\ part \in Parts
    /\ ClientTypeOK
    /\ AgentsTypeOK
    /\ AgentDetailTypeOK
    /\ InvestigationsInv
    /\ StreamPageTypeOK
    /\ PollingInv
    /\ IF part = "agents" THEN AgentsInv ELSE AgentsPageInit
    /\ IF part = "control" THEN ControlPageTypeOK ELSE ControlPageInit
    /\ IF part = "settings" THEN SettingsInv ELSE SettingsPageInit

\* Every page is in its invariant, whether it is open or not.
LEMMA PagesParts ==
    ASSUME PagesInv
    PROVE  AgentsInv /\ ControlPageTypeOK /\ SettingsInv
BY AgentsInit, ControlInit, SettingsInit DEF PagesInv

LEMMA PagesInitInv == PagesInit => PagesInv
<1> SUFFICES ASSUME PagesInit PROVE PagesInv
    OBVIOUS
<1>1. AgentsTypeOK
    BY PagesAssumption DEF PagesInit, AgentsTypeOK
<1>2. ClientTypeOK
    BY ClientAssumption DEF PagesInit, ClientInit, ClientTypeOK
<1>3. AgentDetailTypeOK /\ InvestigationsInv /\ StreamPageTypeOK /\ PollingInv
    BY <1>1, DetailInit, InvestigationsInit, StreamInit, InitInv DEF PagesInit
<1>4. AgentsInv /\ ControlPageTypeOK /\ SettingsInv
    BY <1>1, AgentsInit, ControlInit, SettingsInit DEF PagesInit
<1> QED
    BY <1>1, <1>2, <1>3, <1>4 DEF PagesInit, PagesInv

\* No page sends more requests into failure than there are.
LEMMA ClientStep ==
    ASSUME ClientTypeOK, PagesNext
    PROVE  ClientTypeOK'
<1> USE DEF RequestThrows, RequestRefused
<1>1. UNCHANGED clientVars \/ RequestFails
    <2>1. CASE AgentsPageNext
        BY <2>1
        DEF AgentsPageNext, New, Cancel, StartEdit, Type, UnchangedByForm, SubmitNew,
            SubmitEdit, ToggleActive, MockWrites, WriteFails, Poll, MockLists, ListFails
    <2>2. CASE AgentDetailNext
        BY <2>2 DEF AgentDetailNext, PollAgent, MockAgent, AgentFails
    <2>3. CASE ControlPageNext
        BY <2>3
        DEF ControlPageNext, PauseAll, ResumeAll, Tick, Press, MockActs, ActionFails,
            Refresh, MockStatus, StatusFails
    <2>4. CASE SettingsPageNext
        BY <2>4
        DEF SettingsPageNext, GetServed, GetAnswered, GetFails, Create, CreateServed,
            CreateAnswered, CreateFails, Toggle, ToggleServed, ToggleAnswered, ToggleFails,
            ElsewhereCreated, ElsewhereToggled, ElsewhereSetAll, Elsewhere
    <2>5. CASE InvestigationPagesNext
        BY <2>5
        DEF InvestigationPagesNext, Advance, FetchServed, TriggerRead, TriggerWritten,
            Investigate, FollowLink, Go, PollInvestigations, DashboardListed, ListListed,
            ReportLoaded, FetchFails, TypeQuestion, TriggerConsensus, TriggerAnswered,
            TriggerFails, StartInvestigation, PostServed, PostRefused, PostAnswered,
            PostFails, UnchangedByPage
    <2>6. CASE StreamPageNext
        BY <2>6
        DEF StreamPageNext, FetchLatest, LoadMore, MockLatest, LatestFails, MockHasNoRoute
    <2> QED
        BY <2>1, <2>2, <2>3, <2>4, <2>5, <2>6 DEF PagesNext
<1>2. CASE UNCHANGED clientVars
    BY <1>2 DEF clientVars, ClientTypeOK
<1>3. CASE RequestFails
    BY <1>3, ClientAssumption DEF RequestFails, ClientTypeOK
<1> QED
    BY <1>1, <1>2, <1>3

\* What is not open stays as it is.
LEMMA AgentsPageStays ==
    UNCHANGED agentsPageVars /\ AgentsPageInit => AgentsPageInit'
BY DEF agentsPageVars, formVars, AgentsPageInit

LEMMA ControlPageStays ==
    UNCHANGED controlPageVars /\ ControlPageInit => ControlPageInit'
BY DEF controlPageVars, ControlPageInit

LEMMA SettingsPageStays ==
    UNCHANGED settingsPageVars /\ SettingsPageInit => SettingsPageInit'
BY DEF settingsPageVars, SettingsPageInit

LEMMA DetailStays == UNCHANGED agentDetailVars /\ AgentDetailTypeOK => AgentDetailTypeOK'
BY DEF agentDetailVars, AgentDetailTypeOK

LEMMA StreamStays == UNCHANGED streamPageVars /\ StreamPageTypeOK => StreamPageTypeOK'
BY DEF streamPageVars, StreamPageTypeOK

LEMMA InvestigationsStay ==
    UNCHANGED investigationPagesVars /\ InvestigationsInv => InvestigationsInv'
<1> SUFFICES ASSUME UNCHANGED investigationPagesVars, InvestigationsInv
             PROVE  InvestigationsInv'
    OBVIOUS
<1>1. UNCHANGED <<stage, screen, question, activeInv, recent, reportView, fetch, posts,
                  trigger, refused>>
    BY DEF investigationPagesVars, tabVars
<1>2. InvestigationPagesTypeOK'
    BY <1>1 DEF InvestigationsInv, InvestigationPagesTypeOK
<1>3. CrashOnlyAfterRefusal'
    BY <1>1, Zenon DEF InvestigationsInv, CrashOnlyAfterRefusal
<1> QED
    BY <1>1, <1>2, <1>3 DEF InvestigationsInv

LEMMA PagesNextInv == PagesInv /\ [PagesNext]_pagesVars => PagesInv'
<1> SUFFICES ASSUME PagesInv, [PagesNext]_pagesVars PROVE PagesInv'
    OBVIOUS
<1> USE DEF PagesInv
<1>1. CASE UNCHANGED pagesVars
    <2>1. /\ UNCHANGED <<part, clientVars, agents, agentsPageVars, agentDetailVars>>
          /\ UNCHANGED <<controlPageVars, settingsPageVars, investigationPagesVars,
                         streamPageVars, pollingVars>>
        BY <1>1 DEF pagesVars
    <2>2. ClientTypeOK' /\ AgentsTypeOK'
        BY <2>1 DEF clientVars, ClientTypeOK, AgentsTypeOK
    <2>3. IF part = "agents" THEN AgentsInv' ELSE AgentsPageInit'
        <3>1. AgentsInv => AgentsInv'
            BY <2>1 DEF clientVars, agentsPageVars, formVars, AgentsInv, FormInv, RowsInv,
                        WritesInv, FlagsInv, SerialInv, Reaches
        <3> QED
            BY <2>1, <3>1, AgentsPageStays
    <2>4. IF part = "control" THEN ControlPageTypeOK' ELSE ControlPageInit'
        <3>1. ControlPageTypeOK => ControlPageTypeOK'
            BY <2>1 DEF controlPageVars, ControlPageTypeOK
        <3> QED
            BY <2>1, <3>1, ControlPageStays
    <2>5. IF part = "settings" THEN SettingsInv' ELSE SettingsPageInit'
        <3>1. SettingsInv => SettingsInv'
            BY <2>1 DEF settingsPageVars, SettingsInv, SettingsPageTypeOK, RequestsInv,
                        Agreeing, Asking, Heard, OncePerAgent, NewestThere, RowAgrees,
                        ToggleAgrees, TogglesApart, Created, Rows
        <3> QED
            BY <2>1, <3>1, SettingsPageStays
    <2> QED
        BY <2>1, <2>2, <2>3, <2>4, <2>5, DetailStays, StreamStays, InvestigationsStay, NextInv
<1>2. CASE PagesNext
    <2>1. ClientTypeOK' /\ UNCHANGED part
        BY <1>2, ClientStep DEF PagesNext
    <2>2. CASE part = "agents"
        BY <1>2, <2>1, <2>2, AgentsStep, DetailStays, StreamStays, InvestigationsStay, NextInv,
           ControlPageStays, SettingsPageStays DEF PagesNext
    <2>3. CASE part = "agent"
        BY <1>2, <2>1, <2>3, DetailStep, StreamStays, InvestigationsStay, NextInv,
           AgentsPageStays, ControlPageStays, SettingsPageStays DEF PagesNext, AgentsTypeOK
    <2>4. CASE part = "control"
        BY <1>2, <2>1, <2>4, ControlStep, DetailStays, StreamStays, InvestigationsStay, NextInv,
           AgentsPageStays, SettingsPageStays DEF PagesNext
    <2>5. CASE part = "settings"
        BY <1>2, <2>1, <2>5, SettingsStep, DetailStays, StreamStays, InvestigationsStay, NextInv,
           AgentsPageStays, ControlPageStays DEF PagesNext
    <2>6. CASE part = "investigations"
        <3>1. AgentsTypeOK'
            BY <1>2, <2>6 DEF PagesNext, AgentsTypeOK
        <3> QED
            BY <1>2, <2>1, <2>6, <3>1, InvestigationsStep, DetailStays, StreamStays, NextInv,
               AgentsPageStays, ControlPageStays, SettingsPageStays DEF PagesNext
    <2>7. CASE part = "hooks"
        <3>1. AgentsTypeOK'
            BY <1>2, <2>7 DEF PagesNext, AgentsTypeOK
        <3> QED
            BY <1>2, <2>1, <2>7, <3>1, NextInv, DetailStays, StreamStays, InvestigationsStay,
               AgentsPageStays, ControlPageStays, SettingsPageStays DEF PagesNext
    <2>8. CASE part = "stream"
        <3>1. AgentsTypeOK'
            BY <1>2, <2>8 DEF PagesNext, AgentsTypeOK
        <3> QED
            BY <1>2, <2>1, <2>8, <3>1, StreamStep, NextInv, DetailStays,
               InvestigationsStay, AgentsPageStays, ControlPageStays, SettingsPageStays
            DEF PagesNext
    <2> QED
        BY <2>2, <2>3, <2>4, <2>5, <2>6, <2>7, <2>8, PagesAssumption
<1> QED
    BY <1>1, <1>2

LEMMA PagesInductive == PagesSpec => []PagesInv
<1> QED
    BY PagesInitInv, PagesNextInv, PTL DEF PagesSpec

-----------------------------------------------------------------------------
(* What holds of the web application.                                      *)

\* Every page keeps its state within its types, whatever fails.
THEOREM PagesTypeCorrect == PagesSpec => []PagesTypeOK
<1>1. PagesInv => PagesTypeOK
    BY PagesParts, AgentsInvTypeOK
    DEF PagesInv, PagesTypeOK, SettingsInv, InvestigationsInv, PollingInv
<1> QED
    BY <1>1, PagesInductive, PTL

\* An edit is of the agent whose form it was typed in: answers that reset the
\* form, polls and refreshes never put the fields of one agent on another.
THEOREM EditsReach == PagesSpec => []EditsReachTheirAgent
<1>1. PagesInv => EditsReachTheirAgent
    BY PagesParts, AgentsInvGives
<1> QED
    BY <1>1, PagesInductive, PTL

\* With the mock, whose array the state of the page holds itself, the cards
\* are right between writes as long as no two writes were under way at once.
THEOREM DrawnWithMock == PagesSpec => []DrawnUnlessOverlapped
<1>1. PagesInv => DrawnUnlessOverlapped
    BY PagesParts, AgentsInvGives
<1> QED
    BY <1>1, PagesInductive, PTL

\* The list that the settings page keeps by itself has every agent at most
\* once, as the server has it, and the newest ones, whatever the order of
\* creates and toggles, until one of the races named by `raced`; that others
\* change the agents after the list was served is one of them.
THEOREM SettingsTruthful == PagesSpec => []TruthfulUnlessRaced
<1>1. PagesInv => TruthfulUnlessRaced
    BY PagesParts, SettingsInvGives DEF PagesInv
<1> QED
    BY <1>1, PagesInductive, PTL

\* The dashboard breaks only on the body of a refused POST /investigations.
THEOREM CrashNeedsRefusal == PagesSpec => []CrashOnlyAfterRefusal
<1>1. PagesInv => CrashOnlyAfterRefusal
    BY DEF PagesInv, InvestigationsInv
<1> QED
    BY <1>1, PagesInductive, PTL

=============================================================================
