\* The loops of parseRequest, on every content of its array.
CONSTANTS
    TokenLen = 2
    TokenChar <- MCTokenChar
    Given <- MCGiven
    Left <- MCLeft
    Scratch <- MCScratch
SPECIFICATION Spec
INVARIANTS
    LoopCopies
    LoopTakesToken
\* The call returns.
CHECK_DEADLOCK FALSE
