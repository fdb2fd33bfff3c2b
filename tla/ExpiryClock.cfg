\* The loop with the code's own constants, from every time of day.
CONSTANTS
    HourLen = 60
    DayHours = 24
    Extension = 25
SPECIFICATION Spec
INVARIANTS
    Formattable
    LoopExtends
    LiveToMidnight
\* The loop ends.
CHECK_DEADLOCK FALSE
