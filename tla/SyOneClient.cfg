SPECIFICATION FairPoolSpec
CONSTANTS
    c1 = c1
    c2 = c2
    Client = {c1}
    Program <- MainProgram
    Addr = {a1, a2, a3}
    FileServer = FileServer
    None = None
    ClientsCrash = FALSE
    FsStarts = 1
    FsFirst = TRUE
    KnownURIs = TRUE
    MsRestarts = FALSE
    Workers = 1
PROPERTY CallsAnswered
PROPERTY TransferRuns
CHECK_DEADLOCK FALSE
