SPECIFICATION Spec
CONSTANTS
    w1 = w1
    w2 = w2
    Workers <- MCWorkers
    Responses <- MCResponses
    Tokens <- MCTokens
    Scenarios <- MCScenarios
    Arrivals <- MCArrivals
    Request <- MCRequest
    kMaxSize = 3
    MaxPieces = 4
    TINYXML2_MAX_ELEMENT_DEPTH = 4
    maxInt = 31
    maxLargestInt = 127
    maxLargestUInt = 255
    rightMargin_ = 30
INVARIANTS SentAsMeant AnsweredAsMeant ConfiguredAsWritten MemoryIsAccounted ReadAsWritten
CHECK_DEADLOCK FALSE
