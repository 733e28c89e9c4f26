--------------------------- MODULE AgentDetailPage ---------------------------
(***************************************************************************)
(* app/agents/[id]/page.tsx with useAgent.  The page calls useMemo after   *)
(* two early returns; React counts the hooks of a drawing and throws when  *)
(* there are more than in the one before.                                  *)
(***************************************************************************)
EXTENDS ApiClient, MockServer

CONSTANTS
    DetailCalls   \* bound: GET /agents/:id requests under way

ASSUME AgentDetailAssumption == DetailCalls \in Nat \ {0}

VARIABLES
    agentId,      \* the id in the address: an agent, or 0 for one there is not
    agentShown,   \* `agent` of useAgent is not null
    agentError,   \* `error`
    agentLoading, \* `loading`
    agentCalls,   \* requests under way
    agentScreen   \* what React has drawn

agentDetailVars == <<agentId, agentShown, agentError, agentLoading, agentCalls, agentScreen>>

AgentDetailTypeOK ==
    /\ agentId \in Nat
    /\ agentShown \in BOOLEAN /\ agentError \in BOOLEAN /\ agentLoading \in BOOLEAN
    /\ agentCalls \in 0..DetailCalls
    /\ agentScreen \in {"skeleton", "not found", "agent", "crashed"}

AgentDetailInit ==
    /\ agentId \in DOMAIN agents \cup {0}
    /\ agentShown = FALSE /\ agentError = FALSE /\ agentLoading = TRUE
    /\ agentCalls = 1
    /\ agentScreen = "skeleton"

\* What the page returns for its state.
Page(shown, error, loading) ==
    CASE loading -> "skeleton"
      [] ~loading /\ (error \/ ~shown) -> "not found"
      [] OTHER -> "agent"

\* Hooks that the page calls on the way to what it returns: useParams,
\* useAgent and useMessages, and useMemo past the early returns.
HooksOf(page) == IF page = "agent" THEN 4 ELSE 3

DrawPage ==
    LET page == Page(agentShown', agentError', agentLoading') IN
    agentScreen' = IF HooksOf(page) > HooksOf(agentScreen) THEN "crashed" ELSE page

\* The timer of useAgent: `loading` is set again with every request.
PollAgent ==
    /\ agentScreen # "crashed" /\ agentCalls < DetailCalls
    /\ agentCalls' = agentCalls + 1
    /\ agentLoading' = TRUE
    /\ UNCHANGED <<agents, agentId, agentShown, agentError, clientVars>>
    /\ DrawPage

Found == agentId \in DOMAIN agents

\* then and finally, or catch and finally for the 404.
MockAgent ==
    /\ MockAnswers
    /\ agentScreen # "crashed" /\ agentCalls > 0
    /\ agentCalls' = agentCalls - 1
    /\ agentLoading' = FALSE
    /\ agentShown' = (agentShown \/ Found)
    /\ agentError' = ~Found
    /\ UNCHANGED <<agents, agentId, clientVars>>
    /\ DrawPage

AgentFails ==
    /\ agentScreen # "crashed" /\ agentCalls > 0
    /\ RequestThrows
    /\ agentCalls' = agentCalls - 1
    /\ agentLoading' = FALSE
    /\ agentError' = TRUE
    /\ UNCHANGED <<agents, agentId, agentShown>>
    /\ DrawPage

AgentDetailNext == PollAgent \/ MockAgent \/ AgentFails

-----------------------------------------------------------------------------
\* frontend-prompt.md, 5.4: the page shows an agent's manifest, statistics and
\* messages.  (The answer that brings the agent adds a hook to the drawing.)
AgentPageStands == agentScreen # "crashed"

=============================================================================
