CONSTANTS
    Client = Client
    Server = Server
    NoChan = NoChan
    Creators <- Both
    InLoop = TRUE
    Timing = "settled"
    DebugSctp = TRUE
    SendMayFail = FALSE
    MaxChannels = 2
    MaxOutStream = 2
    MaxCreate = 1
    MaxData = 2
SPECIFICATION FairSpec
CHECK_DEADLOCK FALSE
INVARIANT DataFindsItsChannel
PROPERTY ChannelsStay
PROPERTY OnChannelCalled
PROPERTY AcceptedIsOpened
