SPECIFICATION LiveSpec
CONSTANTS
    Parts = {"agents", "agent", "control", "settings", "investigations", "stream", "hooks"}
    Population <- MCPopulation
    Modes = {"live", "mock"}
    MaxFails = 1
    Nil = Nil
    Refused = Refused
    Usernames = {"u1", "n"}
    Texts = {"s"}
    Blank = Blank
    Array = Array
    Polls = {p1}
    Writes = {w1, w2}
    MaxWrites = 2
    MaxActions = 2
    MaxOthers = 1
    AgentLimit = 1
    Toggles = {t1, t2}
    MaxSettings = 3
    Ids = {1, 2}
    Posts = {q1, q2}
    DetailCalls = 2
    MockMessages = 3
    MockPage = 2
    health = health
    agent = agent
    status = status
    Hooks = {health, agent, status}
    Kind <- MCKind
    Reloading = {agent}
    MaxChanges = 2
    MaxCalls = 2
INVARIANTS
    PagesTypeOK
    EditsReachTheirAgent
    DrawnUnlessOverlapped
    TruthfulUnlessRaced
    CrashOnlyAfterRefusal
    KeepsPolling
    ChainsBounded
    LoadingMeansAsked
PROPERTIES
    SavingEnds
    ButtonsComeBack
    QuietAfterUnmount
CHECK_DEADLOCK FALSE
