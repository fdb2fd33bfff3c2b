--------------------------- MODULE MCVerifyToken ---------------------------
(***************************************************************************)
(* VerifyToken for TLC: a token is issued to the end of the first day or   *)
(* into the second.                                                        *)
(***************************************************************************)
EXTENDS VerifyToken

MCExpirations == {[day |-> 0, minute |-> 2], [day |-> 1, minute |-> 1]}
=============================================================================
