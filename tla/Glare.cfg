CONSTANTS
    Offerer = Offerer
    Answerer = Answerer
    Repeats = FALSE
    AnswerLast = FALSE
SPECIFICATION FairSpec
PROPERTY Talks
