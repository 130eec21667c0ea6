CONSTANTS
    This = This
    Others = {p1, p2}
    MaxFailures = 1
SPECIFICATION FairRefsSpec
INVARIANTS
    AbortIsNotSent
    RefsInv
    ContextAlive
    LastFinishes
PROPERTIES
    QuitReturns
CHECK_DEADLOCK FALSE
