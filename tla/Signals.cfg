\* One agent class cannot be constructed; statements fail and the process dies.
CONSTANTS
    NAgents = 1
    NInvs = 1
    MaxTasks = 2
    MaxSignals = 2
    MsgIds <- TwoIds
    TaskTypes <- MCTaskTypes
    Null = Null
    Requests <- TwoTasks
    DefaultTypes <- MCDefaultTypes
    MaxPosts = 0
    Handlers = {}
    RuntimeKey = 1
    OperatorSignals = {}
    Seeds = {}
    Orchs = {p1}
    Registry <- MCRegistry
    Buildable = {"reddit"}
    FaultKinds = {"db", "ack", "crash"}
    MaxFaults = 2
SPECIFICATION LiveSpec
PROPERTIES
    SignalsDrain
    TickServed
