------------------------- MODULE ExpiryClockProofs -------------------------
(***************************************************************************)
(* What the loop of verifyToken computes, for every length of an hour, of  *)
(* a day and of the extension.                                             *)
(***************************************************************************)
EXTENDS ExpiryClock, TLAPS

\* The invariant of the loop: i minutes were added to the time of day, and none got lost
\* in a carry to the hour.
Counted ==
    /\ tm_hour \in Nat /\ tm_min \in 0 .. HourLen - 1
    /\ i \in 0 .. Extension /\ called \in 0 .. DayLen - 1
    /\ TimeOfDay = called + i

\* The products of the invariant are numbers, and a carry adds an hour's minutes.
LEMMA Carry ==
    ASSUME NEW h \in Nat
    PROVE  h * HourLen \in Nat /\ (h + 1) * HourLen = h * HourLen + HourLen
  BY ClockAssumption

\* More hours have no fewer minutes.
LEMMA Products ==
    ASSUME NEW g \in Nat, NEW h \in Nat, g <= h
    PROVE  g * HourLen <= h * HourLen
<1>1. PICK d \in Nat : h = g + d
  BY h - g \in Nat, h = g + (h - g)
<1>2. g * HourLen \in Nat /\ d * HourLen \in Nat
  BY Carry
<1>3. h * HourLen = g * HourLen + d * HourLen
  BY <1>1, ClockAssumption
<1>4. QED
  BY <1>2, <1>3

\* The loop starts with nothing added.
LEMMA InitCounted == Init => Counted
<1> SUFFICES ASSUME Init
             PROVE  Counted
  OBVIOUS
<1>1. tm_hour \in Nat /\ tm_min \in 0 .. HourLen - 1 /\ i = 0 /\ tm_hour + 1 \in Nat
  BY ClockAssumption DEF Init
<1>2. /\ tm_hour * HourLen \in Nat
      /\ (tm_hour + 1) * HourLen = tm_hour * HourLen + HourLen
  BY <1>1, Carry
<1>3. (tm_hour + 1) * HourLen <= DayHours * HourLen
  BY <1>1, Products, ClockAssumption DEF Init
<1>4. DayLen \in Nat /\ DayLen = DayHours * HourLen
  BY Carry, ClockAssumption DEF DayLen
<1>5. called = tm_hour * HourLen + tm_min
  BY DEF Init
<1>6. called \in 0 .. DayLen - 1
  BY <1>1, <1>2, <1>3, <1>4, <1>5, ClockAssumption
<1>7. QED
  BY <1>1, <1>5, <1>6, ClockAssumption DEF Counted, TimeOfDay

\* Every iteration adds one minute, the ones that end an hour too.
LEMMA NextCounted == Counted /\ [Next]_vars => Counted'
<1> SUFFICES ASSUME Counted, [Next]_vars
             PROVE  Counted'
  OBVIOUS
<1>1. CASE NextHour
  <2>1. /\ tm_hour * HourLen \in Nat
        /\ tm_hour' * HourLen = tm_hour * HourLen + HourLen
    BY <1>1, Carry DEF NextHour, Counted
  <2>2. QED
    BY <1>1, <2>1, ClockAssumption DEF NextHour, Counted, TimeOfDay
<1>2. CASE NextMinute
  <2>1. tm_hour * HourLen \in Nat
    BY Carry DEF Counted
  <2>2. QED
    BY <1>2, <2>1, ClockAssumption DEF NextMinute, Counted, TimeOfDay
<1>3. CASE UNCHANGED vars
  BY <1>3 DEF vars, Counted, TimeOfDay
<1>4. QED
  BY <1>1, <1>2, <1>3 DEF Next

\* The invariant holds in every iteration.
THEOREM LoopCounts == Spec => []Counted
  BY InitCounted, NextCounted, PTL DEF Spec

\* The hour stays within what the extension can add to the hours of a day.
THEOREM StaysFormattable == Spec => []Formattable
<1>1. Counted => Formattable
  <2> SUFFICES ASSUME Counted
               PROVE  Formattable
    OBVIOUS
  <2>. DEFINE q == Extension \div HourLen
  <2>1. q \in Nat /\ Extension < q * HourLen + HourLen
    BY ClockAssumption
  <2>2. /\ tm_hour \in Nat /\ tm_min \in 0 .. HourLen - 1
        /\ called <= DayLen - 1 /\ called \in Nat /\ i \in 0 .. Extension
        /\ tm_hour * HourLen + tm_min = called + i
    BY DEF Counted, TimeOfDay
  <2>3. /\ q * HourLen \in Nat /\ DayHours * HourLen \in Nat
        /\ tm_hour * HourLen \in Nat /\ DayLen = DayHours * HourLen
    BY <2>1, <2>2, Carry, ClockAssumption DEF DayLen
  <2>4. (DayHours + q + 1) * HourLen = DayHours * HourLen + q * HourLen + HourLen
    BY <2>1, ClockAssumption
  <2>5. SUFFICES tm_hour <= DayHours + q
    BY <2>1, <2>2, ClockAssumption DEF Formattable
  <2>6. SUFFICES ASSUME DayHours + q + 1 <= tm_hour
                 PROVE  FALSE
    BY <2>1, <2>2, ClockAssumption
  <2>7. (DayHours + q + 1) * HourLen <= tm_hour * HourLen
    BY <2>1, <2>2, <2>6, Products, ClockAssumption
  <2>8. QED
    BY <2>1, <2>2, <2>3, <2>4, <2>7, ClockAssumption
<1>2. QED
  BY <1>1, LoopCounts, PTL

\* The loop ends Extension minutes after the time of day it started from.
THEOREM ExtendsByExtension == Spec => []LoopExtends
<1>1. Counted => LoopExtends
  BY DEF Counted, LoopExtends, Extended
<1>2. QED
  BY <1>1, LoopCounts, PTL

\* The session it extends is live for Extension minutes or to the end of the day.
THEOREM LiveUntilMidnight == Spec => []LiveToMidnight
<1>1. Counted => LiveToMidnight
  <2>1. SUFFICES ASSUME Counted, i = Extension,
                        NEW m \in 0 .. DayLen - 1, NEW e \in 1 - 1 .. 1 + 1
                 PROVE  Later([day |-> 1, minute |-> TimeOfDay], [day |-> e, minute |-> m])
                            <=> e < 1 \/ (e = 1 /\ m < called + Extension)
    BY DEF LiveToMidnight, LiveTime
  <2>2. TimeOfDay = called + Extension /\ called \in Nat
    BY <2>1 DEF Counted
  <2>3. DayLen \in Int
    BY ClockAssumption DEF DayLen
  <2>4. QED
    BY <2>1, <2>2, <2>3, ClockAssumption DEF Later
<1>2. QED
  BY <1>1, LoopCounts, PTL

=============================================================================
