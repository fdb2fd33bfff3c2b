\* The safety of the node: every start-up order, every sequence of the usual datagrams.
CONSTANTS
    TokenLen = 1
    TokenChar <- MCTokenChar
    ScanSize = 3
    ValidTokens <- MCValidTokens
    Datagrams <- MCDatagrams
    SocketQueue = 1
    Garbage <- MCGarbage
    FreshBuffers <- MCFreshBuffers
    HasStopCaller = FALSE
SPECIFICATION Spec
INVARIANTS
    TypeOK
    MappingOnlyOnRequest
    LastCommandWins
    WholeRequestSpeaksForItself
    CommandNeedsVerifiedToken
    DeafOnlyAfterFailure
    Inductive
PROPERTIES
    TokenIsVerifiedOnce
    RunningNeverAborts
\* An aborted process, and one whose threads spin, does nothing more.
CHECK_DEADLOCK FALSE
