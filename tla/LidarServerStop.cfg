\* Does a stop request stop the scans?
CONSTANTS
    TokenLen = 1
    TokenChar <- MCTokenChar
    ScanSize = 3
    ValidTokens <- MCValidTokens
    Datagrams <- MCFewDatagrams
    SocketQueue = 1
    Garbage <- MCZeroes
    FreshBuffers <- MCOneBuffer
    HasStopCaller = FALSE
SPECIFICATION FairSpec
PROPERTIES
    StopHonoured
CHECK_DEADLOCK FALSE
