-------------------------------- MODULE Pages --------------------------------
(***************************************************************************)
(* The web application: a tab, opened on one part of it: on a page, or     *)
(* ("hooks") on any that mounts and unmounts hooks that poll.              *)
(***************************************************************************)
EXTENDS AgentsPage, ControlPage, SettingsPage, InvestigationPages, AgentDetailPage,
        StreamPage, PollingHooks

CONSTANTS
    Parts,      \* the parts that are considered
    Population  \* Population[p]: the agents when a tab is opened on part p

ASSUME PagesAssumption ==
    /\ Parts \subseteq {"agents", "agent", "control", "settings", "investigations",
                 "stream", "hooks"}
    /\ Population \in [Parts -> Seq(AgentRow)]

VARIABLE part

pagesVars ==
    <<part, clientVars, agents, agentsPageVars, agentDetailVars, controlPageVars,
      settingsPageVars, investigationPagesVars, streamPageVars, pollingVars>>

PagesTypeOK ==
    /\ part \in Parts
    /\ ClientTypeOK
    /\ AgentsTypeOK
    /\ AgentsPageTypeOK
    /\ AgentDetailTypeOK
    /\ ControlPageTypeOK
    /\ SettingsPageTypeOK
    /\ InvestigationPagesTypeOK
    /\ StreamPageTypeOK
    /\ PollingTypeOK

\* The pages of settings and investigations have no mock; the timers do not
\* depend on the mode.
PagesInit ==
    /\ part \in Parts
    /\ agents = Population[part]
    /\ ClientInit
    /\ part \in {"settings", "investigations", "hooks"} => mode = "live"
    /\ AgentsPageInit
    /\ ControlPageInit
    /\ SettingsPageInit
    /\ InvestigationPagesInit
    /\ part # "investigations" => screen = On("landing")
    /\ AgentDetailInit
    /\ part # "agent" => agentId = 0
    /\ StreamPageInit
    /\ PollingInit

PagesNext ==
    /\ UNCHANGED part
    /\ \/ /\ part = "agents" /\ AgentsPageNext
          /\ UNCHANGED <<agentDetailVars, controlPageVars, settingsPageVars,
                         investigationPagesVars, streamPageVars, pollingVars>>
       \/ /\ part = "agent" /\ AgentDetailNext
          /\ UNCHANGED <<agentsPageVars, controlPageVars, settingsPageVars,
                         investigationPagesVars, streamPageVars, pollingVars>>
       \/ /\ part = "control" /\ ControlPageNext
          /\ UNCHANGED <<agentsPageVars, agentDetailVars, settingsPageVars,
                         investigationPagesVars, streamPageVars, pollingVars>>
       \/ /\ part = "settings" /\ SettingsPageNext
          /\ UNCHANGED <<agentsPageVars, agentDetailVars, controlPageVars,
                         investigationPagesVars, streamPageVars, pollingVars>>
       \/ /\ part = "investigations" /\ InvestigationPagesNext
          /\ UNCHANGED <<agents, agentsPageVars, agentDetailVars, controlPageVars,
                         settingsPageVars, streamPageVars, pollingVars>>
       \/ /\ part = "stream" /\ StreamPageNext
          /\ UNCHANGED <<agents, agentsPageVars, agentDetailVars, controlPageVars,
                         settingsPageVars, investigationPagesVars, pollingVars>>
       \/ /\ part = "hooks" /\ PollingNext
          /\ UNCHANGED <<clientVars, agents, agentsPageVars, agentDetailVars,
                         controlPageVars, settingsPageVars, investigationPagesVars,
                         streamPageVars>>

PagesSpec == PagesInit /\ [][PagesNext]_pagesVars

ListProgress(l) ==
    /\ part = "agents"
    /\ \/ l \in Polls /\ Poll(l)
       \/ MockLists(l)
       \/ ListFails(l)

WriteProgress(w) ==
    /\ part = "agents"
    /\ MockWrites(w) \/ WriteFails(w)

ActionProgress ==
    /\ part = "control"
    /\ MockActs \/ ActionFails

\* The timer of useAgents fires, and a request is answered, refused or seen to
\* fail: fetch settles, and the mock's delay ends.  Nothing is assumed of a
\* user, or of which answer it is.
PagesFairness ==
    /\ \A l \in Lists : WF_<<agents, agentsPageVars, clientVars>>(ListProgress(l))
    /\ \A w \in Writes : WF_<<agents, agentsPageVars, clientVars>>(WriteProgress(w))
    /\ WF_<<agents, controlPageVars, clientVars>>(ActionProgress)

=============================================================================
