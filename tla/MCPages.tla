------------------------------ MODULE MCPages ------------------------------
EXTENDS Pages

CONSTANTS health, agent, status

Agent(u, b) == [username |-> u, text |-> "s", active |-> b]

MCPopulation ==
    [p \in Parts |-> CASE p = "agents" -> <<Agent("u1", TRUE)>>
                       [] p = "agent" -> <<Agent("u1", TRUE)>>
                       [] p = "settings" -> <<Agent("u1", TRUE)>>
                       [] p \in {"investigations", "stream", "hooks"} -> <<>>
                       [] OTHER -> <<Agent("u1", TRUE), Agent("n", FALSE)>>]

MCKind ==
    [h \in Hooks |-> CASE h = health -> "afterAnswer"
                       [] h = agent -> "fixed"
                       [] OTHER -> "interval"]

LiveSpec == PagesSpec /\ PagesFairness

=============================================================================
