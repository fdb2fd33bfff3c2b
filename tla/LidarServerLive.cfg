\* What the threads must come to, under a fair scheduler, and what they are to a client.
CONSTANTS
    TokenLen = 1
    TokenChar <- MCTokenChar
    ScanSize = 3
    ValidTokens <- MCValidTokens
    Datagrams <- MCFewDatagrams
    SocketQueue = 1
    Garbage <- MCGarbage
    FreshBuffers <- MCOneBuffer
    HasStopCaller = TRUE
SPECIFICATION FairSpec
PROPERTIES
    ImplementsSwitch
    StartHonoured
    SweepCovers
    ShutdownSilences
    QueueDrains
\* An aborted process, and one whose threads spin, does nothing more.
CHECK_DEADLOCK FALSE
