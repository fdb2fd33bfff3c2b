\* One hour of three minutes a day and two users of two tokens; sessions are extended by
\* two minutes, so that an extension can end on the same day and run past midnight.
CONSTANTS
    HourLen = 3
    DayHours = 1
    Extension = 2
    Tokens = {"t1", "t2"}
    Users = {"u1", "u2"}
    Expirations <- MCExpirations
    LastDay = 1
    MaxRows = 2
    MaxCalls = 2
SPECIFICATION Spec
INVARIANTS
    TypeOK
    LeftBehind
    Accounts
    AcceptedWasLive
    CallKnows
PROPERTIES
    KeepsPromise
\* The bounds end every behaviour.
CHECK_DEADLOCK FALSE
