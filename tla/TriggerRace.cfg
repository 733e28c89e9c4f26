\* A TriggerConsensus request that reads before and writes after the consensus.
CONSTANTS
    NAgents = 1
    NInvs = 1
    MaxTasks = 2
    MaxSignals = 2
    MsgIds <- TwoIds
    TaskTypes <- MCTaskTypes
    Null = Null
    Requests <- OneResearch
    DefaultTypes <- MCDefaultTypes
    MaxPosts = 1
    Handlers = {h1}
    RuntimeKey = 1
    OperatorSignals = {"trigger_consensus"}
    Seeds = {1}
    Orchs = {p1}
    Registry <- MCRegistry
    Buildable = {"research", "reddit"}
    FaultKinds = {}
    MaxFaults = 0
SPECIFICATION Spec
PROPERTIES
    CompleteIsFinal
