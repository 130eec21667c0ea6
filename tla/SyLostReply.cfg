SPECIFICATION FairSpec
CONSTANTS
    c1 = c1
    c2 = c2
    Client = {c1, c2}
    Program <- TwoInits
    Addr = {a1, a2, a3}
    FileServer = FileServer
    None = None
    ClientsCrash = FALSE
    FsStarts = 1
    FsFirst = TRUE
    KnownURIs = TRUE
    MsRestarts = FALSE
PROPERTY CallsAnswered
CHECK_DEADLOCK FALSE
