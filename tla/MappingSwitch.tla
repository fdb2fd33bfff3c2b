--------------------------- MODULE MappingSwitch ---------------------------
(***************************************************************************)
(* What the node is to its clients: a switch that starts the mapping.      *)
(* Start and stop requests say whether mapping is wanted; scanning begins  *)
(* only while it is, and comes to one position after the other, from the   *)
(* first; it ends with the node, not with a stop request.                  *)
(***************************************************************************)
EXTENDS Integers

CONSTANT ScanSize   \* positions of one sweep

VARIABLES
    wanted,     \* what the last request that was carried out asked for
    mode,       \* "off", "scanning", or "over" once ROS was shut down
    next,       \* the position to be published next, 0 unless scanning
    last        \* the position that was published last, or -1

svars == <<wanted, mode, next, last>>

Init == wanted = FALSE /\ mode = "off" /\ next = 0 /\ last = -1

Request ==
    /\ wanted' \in BOOLEAN
    /\ UNCHANGED <<mode, next, last>>

Begin ==
    /\ mode = "off" /\ wanted
    /\ mode' = "scanning"
    /\ UNCHANGED <<wanted, next, last>>

Publish ==
    /\ mode = "scanning"
    /\ last' = next
    /\ next' = IF next + 1 = ScanSize THEN 0 ELSE next + 1
    /\ UNCHANGED <<wanted, mode>>

Shutdown ==
    /\ mode' = "over"
    /\ next' = 0
    /\ UNCHANGED <<wanted, last>>

Next == Request \/ Begin \/ Publish \/ Shutdown

Spec == Init /\ [][Next]_svars

=============================================================================
