\* Every order of two starts, their stops, their threads and a writer, and what the calls
\* and the threads must come to.
CONSTANTS
    MaxStarts = 2
    MaxRead = 1
    Char = {a, b}
SPECIFICATION FairSpec
INVARIANTS
    TypeOK
    HandlerReadsItsOwn
    PortIsServed
    AbortsOnlyInOverlap
    Inductive
PROPERTIES
    ImplementsPort
    HandlerKeepsPort
    MutexComesBack
    ReadIsHandled
CHECK_DEADLOCK FALSE
