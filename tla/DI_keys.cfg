SPECIFICATION FairSpec
CONSTANTS
    w1 = w1  w2 = w2
    Nil = Nil  Err = Err  NoRegion = NoRegion
    Workers <- TwoWorkers
    Plans <- TwoOfAProvider
    Settings <- FlagOrEnvironment
    Custom <- OneCustom
    Unpriceable <- Placeholders
    MaxRuns = 2
CHECK_DEADLOCK FALSE
INVARIANTS
    AnswersFitTheRun
    LabelFitsTheService
    OneOfEach
PROPERTIES
    EveryAskEnds
