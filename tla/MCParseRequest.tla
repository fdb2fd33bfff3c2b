--------------------------- MODULE MCParseRequest ---------------------------
(***************************************************************************)
(* ParseRequest for TLC: every content of the given array, over an array   *)
(* and a local one of another character.                                   *)
(***************************************************************************)
EXTENDS ParseRequest

MCTokenChar == {"k", "u"}

MCGiven == [Index -> {"k", "NUL", "CR", "LF", "EOT"}]
MCLeft == {[c \in Index |-> "u"]}
MCScratch == {[c \in 0 .. TokenLen |-> "u"]}
=============================================================================
