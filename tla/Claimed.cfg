\* Neither the model nor the API server is reliable, the database and the processes are.
CONSTANTS
    NAgents = 1
    NInvs = 1
    MaxTasks = 1
    MaxSignals = 2
    MsgIds <- TwoIds
    TaskTypes <- MCTaskTypes
    Null = Null
    Requests <- OneResearch
    DefaultTypes <- MCDefaultTypes
    MaxPosts = 0
    Handlers = {}
    RuntimeKey = 1
    OperatorSignals = {}
    Seeds = {}
    Orchs = {p1, p2}
    Registry <- MCRegistry
    Buildable = {"research", "reddit"}
    FaultKinds = {"http", "llm"}
    MaxFaults = 1
SPECIFICATION LiveSpec
PROPERTIES
    ClaimedSettles
