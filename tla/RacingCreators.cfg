CONSTANTS
    Client = Client
    Server = Server
    NoChan = NoChan
    Creators <- Both
    InLoop = FALSE
    Timing = "on_connect"
    DebugSctp = FALSE
    SendMayFail = TRUE
    MaxChannels = 2
    MaxOutStream = 4
    MaxCreate = 2
    MaxData = 0
SPECIFICATION Spec
CHECK_DEADLOCK FALSE
INVARIANT IndInv
INVARIANT SidParity
INVARIANT OneChannelPerStream
INVARIANT AckIsTruthful
PROPERTY KeepsPromise
