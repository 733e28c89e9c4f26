\* A runtime with the key of an agent publishes what it found.  No fault.
CONSTANTS
    NAgents = 1
    NInvs = 1
    MaxTasks = 2
    MaxSignals = 2
    MsgIds <- TwoIds
    TaskTypes <- MCTaskTypes
    Null = Null
    Requests <- OneResearch
    DefaultTypes <- MCDefaultTypes
    MaxPosts = 1
    Handlers = {}
    RuntimeKey = 1
    OperatorSignals = {}
    Seeds = {}
    Orchs = {p1}
    Registry <- MCRegistry
    Buildable = {"research", "reddit"}
    FaultKinds = {}
    MaxFaults = 0
SPECIFICATION Spec
INVARIANTS
    PublishedUnderInvestigation
