SPECIFICATION StreamSpec
CONSTANTS
    MaxMessages = 3
    Early = 2
    board = board
    pager = pager
    reader = reader
    ada = ada
    bob = bob
    Author <- MCAuthor
    Dashboards = {}
    Clients = {pager, reader}
    Limit <- OneRow
    Filter <- OneFilter
    Slots <- MCSlots
    All = All
    Nil = Nil
    RedisFails = FALSE
    MaxFails = 0
INVARIANT
    FilterHonoured
CHECK_DEADLOCK FALSE
