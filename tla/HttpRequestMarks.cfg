SPECIFICATION MCSpec
CONSTANTS
    ULLONG_MAX = 4095
    HTTP_MAX_HEADER_SIZE = 86
    MaxCuts = 2
    ULONG_MAX = 9999999
    MaxPieces = 3
    MaxSymbols = 4
    Symbols <- MCSymbols
    Urls <- MCUrls
    Streams <- MCStreams
    Requests <- MCRequests
    RouteTable <- MCRouteTable
INVARIANT
    AtMostOneMark
CHECK_DEADLOCK FALSE
