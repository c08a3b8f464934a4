SPECIFICATION FairSpec
CONSTANTS
    Request = {r1, r2}
    Free = Free
    MaxPk = 4
    Nowait = FALSE
    Jobs = {}
INVARIANTS
    TypeOK
    SingleCurrent
    PointerIsCurrent
    LinkedBothWays
    HistoryIsRead
PROPERTIES
    ImplementsHistory
    RequestsEnd
