CONSTANTS
    Client = Client
    Server = Server
    NoChan = NoChan
    Creators <- ClientOnly
    InLoop = FALSE
    Timing = "on_connect"
    DebugSctp = FALSE
    SendMayFail = TRUE
    MaxChannels = 2
    MaxOutStream = 6
    MaxCreate = 3
    MaxData = 1
SPECIFICATION Spec
CHECK_DEADLOCK FALSE
INVARIANT DataFindsAcceptor
INVARIANT OfferFindsSlot
