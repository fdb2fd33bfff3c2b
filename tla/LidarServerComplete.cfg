\* Is an accepted datagram a complete message?
CONSTANTS
    TokenLen = 1
    TokenChar <- MCTokenChar
    ScanSize = 3
    ValidTokens <- MCValidTokens
    Datagrams <- MCDatagrams
    SocketQueue = 1
    Garbage <- MCZeroes
    FreshBuffers <- MCOneBuffer
    HasStopCaller = FALSE
SPECIFICATION Spec
INVARIANTS
    AcceptedIsComplete
CHECK_DEADLOCK FALSE
