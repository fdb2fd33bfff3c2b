---------------------------- MODULE ExpiryClock ----------------------------
(***************************************************************************)
(* The loop of verifyToken that computes a new expiration in a struct tm:  *)
(* one step is one iteration.  tm_hour and tm_min are its two fields; the  *)
(* fields of the date are never written.                                   *)
(***************************************************************************)
EXTENDS Timestamp

VARIABLES
    tm_hour, tm_min,
    i,
    called  \* the time of day the loop started from, in minutes

vars == <<tm_hour, tm_min, i, called>>

Init ==
    /\ tm_hour \in 0 .. DayHours - 1
    /\ tm_min \in 0 .. HourLen - 1
    /\ i = 0
    /\ called = tm_hour * HourLen + tm_min

\* Mutants: a new hour is not counted; the iteration of a new hour counts its minute too.
NextHourUncounted ==
    /\ i < Extension /\ tm_min = HourLen - 1
    /\ tm_min' = 0
    /\ i' = i + 1
    /\ UNCHANGED <<tm_hour, called>>

NextHourNoContinue ==
    /\ i < Extension /\ tm_min = HourLen - 1
    /\ tm_min' = 1
    /\ tm_hour' = tm_hour + 1
    /\ i' = i + 1
    /\ UNCHANGED called

NextHour ==
    /\ i < Extension /\ tm_min = HourLen - 1
    /\ tm_min' = 0
    /\ tm_hour' = tm_hour + 1
    /\ i' = i + 1
    /\ UNCHANGED called

\* Mutant: the end of an hour is looked for at minute HourLen.
NextMinuteLate ==
    /\ i < Extension /\ tm_min # HourLen
    /\ tm_min' = tm_min + 1
    /\ i' = i + 1
    /\ UNCHANGED <<tm_hour, called>>

NextMinute ==
    /\ i < Extension /\ tm_min # HourLen - 1
    /\ tm_min' = tm_min + 1
    /\ i' = i + 1
    /\ UNCHANGED <<tm_hour, called>>

Next == NextHour \/ NextMinute

Spec == Init /\ [][Next]_vars

-----------------------------------------------------------------------------
\* The hour stays in the two digits strftime prints, and the minute is one of an hour's,
\* so that the formatted strings compare as the numbers of minutes do.
Formattable ==
    /\ tm_min \in 0 .. HourLen - 1
    /\ tm_hour \in 0 .. DayHours + Extension \div HourLen

TimeOfDay == tm_hour * HourLen + tm_min

\* When the loop ends, the time of day is Extension minutes after the one it started from,
\* for every time of day and across every change of the hour.
LoopExtends ==
    i = Extension =>
        [day |-> 0, minute |-> TimeOfDay] = Extended([day |-> 0, minute |-> called])

\* A session that is extended is live for Extension minutes or to the end of the day,
\* whichever comes first: at a clock time t it is live exactly if t is on the same day and
\* less than Extension minutes later, or on an earlier day.
LiveTime(d) ==
    \A m \in 0 .. DayLen - 1 : \A e \in d - 1 .. d + 1 :
        Later([day |-> d, minute |-> TimeOfDay], [day |-> e, minute |-> m])
            <=> e < d \/ (e = d /\ m < called + Extension)

LiveToMidnight == i = Extension => LiveTime(1)

=============================================================================
