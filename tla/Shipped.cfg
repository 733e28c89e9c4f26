\* The configuration of the repository: the runtime sends the admin key, nothing is seeded.
CONSTANTS
    NAgents = 2
    NInvs = 1
    MaxTasks = 2
    MaxSignals = 2
    MsgIds <- TwoIds
    TaskTypes <- MCTaskTypes
    Null = Null
    Requests <- AnyRequest
    DefaultTypes <- MCDefaultTypes
    MaxPosts = 2
    Handlers = {h1}
    RuntimeKey = 0
    OperatorSignals = {"start_investigation", "trigger_consensus"}
    Seeds = {}
    Orchs = {p1}
    Registry <- MCRegistry
    Buildable = {"research", "reddit"}
    FaultKinds = {"db", "ack", "http", "llm", "crash"}
    MaxFaults = 1
SPECIFICATION Spec
INVARIANTS
    ReleasedWhole
    UnregisteredStaysPending
    NonAgentKeyNeverCompletes
