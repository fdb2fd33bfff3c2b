----------------------------- MODULE SerialPort -----------------------------
(***************************************************************************)
(* What serialhandler is to its owner: one port at a time, and lines that  *)
(* are put together only while a port is open, out of that port's bytes.   *)
(* A line that is begun on one port may be ended on the next.              *)
(***************************************************************************)
EXTENDS Integers

VARIABLES
    made,       \* ports made so far; they are numbered
    port,       \* the port there is, or 0
    open,       \* is it open?
    line,       \* the ports whose bytes the unfinished line holds
    stray       \* has a read of one port been handled on another?

pvars == <<made, port, open, line, stray>>

Init == made = 0 /\ port = 0 /\ open = FALSE /\ line = {} /\ stray = FALSE

Make ==
    /\ port = 0
    /\ made' = made + 1 /\ port' = made + 1
    /\ UNCHANGED <<open, line, stray>>

Open ==
    /\ port # 0 /\ ~open
    /\ open' = TRUE
    /\ UNCHANGED <<made, port, line, stray>>

Remove ==
    /\ port # 0
    /\ port' = 0 /\ open' = FALSE
    /\ UNCHANGED <<made, line, stray>>

\* There is a read to go astray only if there was a port before.
Stray ==
    /\ open /\ made > 1
    /\ stray' = TRUE
    /\ UNCHANGED <<made, port, open, line>>

Hear ==
    /\ open
    /\ \E p \in 0 .. made : (p = port \/ stray) /\ line' \in {{}, line \cup {p}}
    /\ UNCHANGED <<made, port, open, stray>>

Next == Make \/ Open \/ Remove \/ Stray \/ Hear

Spec == Init /\ [][Next]_pvars

=============================================================================
