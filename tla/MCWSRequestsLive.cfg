SPECIFICATION FairSpec
CONSTANTS
    MaxCalls = 1
    MaxConns = 1
    MaxEvents = 2
    RandIds <- MCRandIds
    RecvChSize = 1
    ActionChSize = 1
PROPERTIES CallReturns AnswersOvertakeEvents
