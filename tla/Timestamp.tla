----------------------------- MODULE Timestamp -----------------------------
(***************************************************************************)
(* Wall-clock times as verifyToken formats them, "%Y-%m-%d %H:%M:%S", and  *)
(* as the database compares them: as strings, so the date first, then the  *)
(* time of day.  A time of day is the number of minutes in it; the seconds *)
(* play no part.  The hour of a formatted time may be 24 (see Extended).   *)
(***************************************************************************)
EXTENDS Integers

CONSTANTS
    HourLen,    \* minutes in an hour: 60
    DayHours,   \* hours in a day: 24
    Extension   \* minutes a verification adds: 25 in the code

ASSUME ClockAssumption ==
    /\ HourLen \in Nat \ {0} /\ DayHours \in Nat \ {0}
    /\ Extension \in Nat \ {0}

DayLen == HourLen * DayHours

Stamp == [day : Nat, minute : Nat]

\* "expiration > now" on the formatted strings.
Later(s, t) == s.day > t.day \/ (s.day = t.day /\ s.minute > t.minute)

\* The expiration verifyToken writes at time t: the hour counts on past
\* the end of the day, and the date stays what it was.
Extended(t) == [t EXCEPT !.minute = @ + Extension]

=============================================================================
