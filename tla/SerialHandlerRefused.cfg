\* Is the port of a refused start open?
CONSTANTS
    MaxStarts = 2
    MaxRead = 1
    Char = {a}
SPECIFICATION Spec
INVARIANTS
    RefusalMeansOpen
CHECK_DEADLOCK FALSE
