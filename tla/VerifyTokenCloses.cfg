\* Is every statement given back before the connection is closed?  Bounds as in
\* VerifyToken.cfg.
CONSTANTS
    HourLen = 3
    DayHours = 1
    Extension = 2
    Tokens = {"t1", "t2"}
    Users = {"u1", "u2"}
    Expirations <- MCExpirations
    LastDay = 1
    MaxRows = 2
    MaxCalls = 2
SPECIFICATION Spec
INVARIANTS
    ClosesClean
\* The bounds end every behaviour.
CHECK_DEADLOCK FALSE
