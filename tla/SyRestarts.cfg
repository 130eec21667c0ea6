SPECIFICATION PoolSpec
CONSTANTS
    c1 = c1
    c2 = c2
    Client = {c1, c2}
    Program <- ShortTransfers
    Addr = {a1, a2, a3, a4}
    FileServer = FileServer
    None = None
    ClientsCrash = TRUE
    FsStarts = 2
    FsFirst = FALSE
    KnownURIs = TRUE
    MsRestarts = TRUE
    Workers = 1
SYMMETRY Addresses
INVARIANTS
    TypeOK
    RegisteredIsFileServer
CHECK_DEADLOCK FALSE
