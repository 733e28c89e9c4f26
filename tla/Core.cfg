\* Two runtimes, two tasks of one type or of two, two ticks, two faults of any kind.
CONSTANTS
    NAgents = 1
    NInvs = 1
    MaxTasks = 2
    MaxSignals = 2
    MsgIds <- TwoIds
    TaskTypes <- MCTaskTypes
    Null = Null
    Requests <- TwoTasks
    DefaultTypes <- MCDefaultTypes
    MaxPosts = 0
    Handlers = {}
    RuntimeKey = 1
    OperatorSignals = {}
    Seeds = {}
    Orchs = {p1, p2}
    Registry <- MCRegistry
    Buildable = {"research", "reddit"}
    FaultKinds = {"db", "ack", "http", "llm", "crash"}
    MaxFaults = 2
SPECIFICATION Spec
SYMMETRY OrchSymmetry
INVARIANTS
    TypeOK
    OneHolder
    PublishedOnce
    CompleteHasFinding
PROPERTIES
    ImplementsLifecycle
