SPECIFICATION PoolSpec
CONSTANTS
    c1 = c1
    c2 = c2
    Client = {c1, c2}
    Program <- TwoPrograms
    Addr = {a1, a2, a3, a4}
    FileServer = FileServer
    None = None
    ClientsCrash = FALSE
    FsStarts = 1
    FsFirst = TRUE
    KnownURIs = TRUE
    MsRestarts = FALSE
    Workers = 1
SYMMETRY Addresses
INVARIANTS
    NoDanglingWrite
    AnswersTheCall
    NoOrphanSession
    SessionFound
    HasCounterpart
PROPERTY KeepsSyPromise
CHECK_DEADLOCK FALSE
