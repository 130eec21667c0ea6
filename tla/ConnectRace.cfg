CONSTANTS
    Client = Client
    Server = Server
    NoChan = NoChan
    Creators <- Both
    InLoop = TRUE
    Timing = "on_connect"
    DebugSctp = FALSE
    SendMayFail = FALSE
    MaxChannels = 2
    MaxOutStream = 4
    MaxCreate = 1
    MaxData = 0
SPECIFICATION FairSpec
CHECK_DEADLOCK FALSE
PROPERTY AcceptedIsOpened
