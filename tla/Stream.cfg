SPECIFICATION LiveSpec
CONSTANTS
    MaxMessages = 4
    Early = 3
    board = board
    pager = pager
    reader = reader
    ada = ada
    bob = bob
    Author <- MCAuthor
    Dashboards = {board}
    Clients = {pager}
    Limit <- TwoRows
    Filter <- NoFilter
    Slots <- MCSlots
    All = All
    Nil = Nil
    RedisFails = TRUE
    MaxFails = 1
INVARIANTS
    StreamTypeOK
    
PROPERTIES
    DashboardSettles
CHECK_DEADLOCK FALSE
