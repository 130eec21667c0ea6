CONSTANTS
    Offerer = Offerer
    Answerer = Answerer
    Repeats = TRUE
    AnswerLast = TRUE
    MaxPackets = 2
SPECIFICATION FairPathSpec
INVARIANT RolesAgree
INVARIANT PipelineReady
INVARIANT NoneStranded
INVARIANT AloneTravelsAlone
PROPERTY Talks
PROPERTY RefinesSetup
PROPERTY RefinesLossyPath
PROPERTY AloneArrives
