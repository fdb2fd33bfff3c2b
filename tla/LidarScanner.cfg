\* Polls of two points, whose reads bring up to more than a whole line.
CONSTANTS
    PollPoints = 2
    Chunk = 16
SPECIFICATION FairSpec
INVARIANTS
    TypeOK
    LineSpeaksForItself
    StraysOnlyAfterCut
    PacedLinesAreKept
PROPERTIES
    PollReturns
