\* Every request may fail at any step, and a commit may take effect unseen.
CONSTANTS
    r1 = r1
    r2 = r2
    r3 = r3
    other = other
    lost = lost
    k1 = k1
    k2 = k2
    k3 = k3
    Requests <- MCRequests
    Marks = {k1, k2, k3}
    Known = {k1, k2}
    Target <- MCTarget
    AckLoss = TRUE
SPECIFICATION LiveSpec
\* Every request is answered and no more arrive.
CHECK_DEADLOCK FALSE
INVARIANTS
    TypeOK
PROPERTIES
    IsAtomic
    EveryRequestAnswered
