--------------------------- MODULE MCLidarServer ---------------------------
(***************************************************************************)
(* LidarServer for TLC: a token field of one cell, "k" a token with a live *)
(* row in the database and "u" one without.                                *)
(***************************************************************************)
EXTENDS LidarServer

Request(lidar, command, t) == <<lidar, command, t, "CR", "LF", "EOT">>

MCTokenChar == {"k", "u"}
MCValidTokens == {[i \in {1} |-> "k"]}

\* Whole requests: start and stop with the good token, start with the bad one, a start
\* with a wrong flag; a stop request without its rest; an empty datagram; one that is
\* longer than the buffer; ones that end before the last cell.
MCDatagrams ==
    {Request("L", "S", "k"), Request("L", "s", "k"), Request("L", "S", "u"),
     Request("u", "S", "k"), <<"L", "s">>, <<>>, Append(Request("L", "s", "u"), "k"),
     <<"L", "CR", "LF", "EOT", "u", "u">>, <<"CR", "EOT", "LF", "EOT">>}

\* For liveness: a start, a stop, and a request that is rejected.
MCFewDatagrams ==
    {Request("L", "S", "k"), Request("L", "s", "k"), Request("u", "S", "k")}

MCGarbage == BOOLEAN
MCFreshBuffers == {[i \in 0 .. 5 |-> "NUL"], [i \in 0 .. 5 |-> "u"]}

\* For liveness: memory that reads as FALSE and one content of the arrays.
MCZeroes == {FALSE}
MCOneBuffer == {[i \in 0 .. 5 |-> "NUL"]}
=============================================================================
