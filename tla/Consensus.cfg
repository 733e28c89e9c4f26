\* Two runtimes run the consensus of two investigations, one of them seeded, while tasks are worked on.
CONSTANTS
    NAgents = 1
    NInvs = 2
    MaxTasks = 1
    MaxSignals = 2
    MsgIds <- TwoIds
    TaskTypes <- MCTaskTypes
    Null = Null
    Requests <- OneResearch
    DefaultTypes <- MCDefaultTypes
    MaxPosts = 1
    Handlers = {}
    RuntimeKey = 1
    OperatorSignals = {"trigger_consensus"}
    Seeds = {1}
    Orchs = {p1, p2}
    Registry <- OneClass
    Buildable = {"research"}
    FaultKinds = {"db", "ack", "http", "llm", "crash"}
    MaxFaults = 1
SPECIFICATION Spec
SYMMETRY OrchSymmetry
INVARIANTS
    CompleteOnlyWhenSettled
    ReportGrounded
