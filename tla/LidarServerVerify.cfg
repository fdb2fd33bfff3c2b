\* Is the token of an accepted request one the database knows?
CONSTANTS
    TokenLen = 1
    TokenChar <- MCTokenChar
    ScanSize = 3
    ValidTokens <- MCValidTokens
    Datagrams <- MCDatagrams
    SocketQueue = 1
    Garbage <- MCZeroes
    FreshBuffers <- MCOneBuffer
    HasStopCaller = FALSE
SPECIFICATION Spec
INVARIANTS
    AcceptedTokenIsVerified
CHECK_DEADLOCK FALSE
