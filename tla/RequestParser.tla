--------------------------- MODULE RequestParser ---------------------------
(***************************************************************************)
(* The request format of the lidar server and the parsing of it:           *)
(* lidarserver::parseRequest, without its state and without the call to    *)
(* verifyToken (module LidarServer has both).                              *)
(*                                                                         *)
(* A request is laid out as                                                *)
(*                                                                         *)
(*     'L'   'S'|'s'   token (TokenLen cells)   CR   LF   EOT              *)
(*                                                                         *)
(* and the program keeps it in two arrays of READ_BUF cells: the socket    *)
(* handler's, which a datagram is received into, and the lidar server's,   *)
(* which parseRequest copies the first one to.  Neither is cleared between *)
(* two requests, so what they held before is part of this model.           *)
(***************************************************************************)
EXTENDS Integers, Sequences

CONSTANTS
    TokenLen,   \* cells of the token field: 16 in the code
    TokenChar   \* the bytes tokens are written with

Flag == {"L", "S", "s"}
Control == {"NUL", "CR", "LF", "EOT"}
Byte == Flag \cup Control \cup TokenChar

ASSUME TokenLenAssumption == TokenLen \in Nat \ {0}
ASSUME TokenCharAssumption == TokenChar \cap Control = {}

READ_BUF == TokenLen + 5
Index == 0 .. READ_BUF - 1
Buffer == [Index -> Byte]
Datagram == Seq(Byte)

\* Mutant: the last byte of a datagram is dropped.
ReceivedShort(buf, d) == [i \in Index |-> IF i + 1 < Len(d) THEN d[i + 1] ELSE buf[i]]

(***************************************************************************)
(* async_receive_from puts a datagram at the front of the buffer: a short  *)
(* one leaves the cells behind it alone, a long one is cut at READ_BUF.    *)
(***************************************************************************)
Received(buf, d) == [i \in Index |-> IF i < Len(d) THEN d[i + 1] ELSE buf[i]]

(***************************************************************************)
(* The loop of parseRequest: it copies cell by cell, notes a CR and an LF  *)
(* wherever they are, and breaks at the first EOT that comes after both.   *)
(***************************************************************************)
Terminates(buf, i) ==
    /\ buf[i] = "EOT"
    /\ \E c \in 0 .. i : buf[c] = "CR"
    /\ \E l \in 0 .. i : buf[l] = "LF"

Complete(buf) == \E i \in Index : Terminates(buf, i)

Copied(buf) == {i \in Index : \A j \in 0 .. i - 1 : ~Terminates(buf, j)}

Copy(read_buf, buf) ==
    [i \in Index |-> IF i \in Copied(buf) THEN buf[i] ELSE read_buf[i]]

(***************************************************************************)
(* The token is the C string in the token field: what follows a NUL is not *)
(* part of it.  Strings shorter than the field are padded with NULs here.  *)
(***************************************************************************)
TokenString == [1 .. TokenLen -> Byte]
EmptyToken == [i \in 1 .. TokenLen |-> "NUL"]

TokenOf(read_buf) ==
    [i \in 1 .. TokenLen |->
        IF \E j \in 1 .. i : read_buf[j + 1] = "NUL" THEN "NUL" ELSE read_buf[i + 1]]

(***************************************************************************)
(* The two flags, and the value parseRequest returns for them.             *)
(***************************************************************************)
Start == 0
Stop == 1
Rejected == -1

Command(read_buf) ==
    CASE read_buf[0] = "L" /\ read_buf[1] = "S" -> Start
      [] read_buf[0] = "L" /\ read_buf[1] = "s" -> Stop
      [] OTHER -> Rejected

-----------------------------------------------------------------------------
(***************************************************************************)
(* What a sender means by a datagram, whatever the buffers held before.    *)
(* A datagram is whole when it carries a complete request that the parser  *)
(* has to read to its last cell.                                           *)
(***************************************************************************)
Cells(d) == [i \in Index |-> d[i + 1]]

Whole(d) ==
    /\ Len(d) >= READ_BUF
    /\ Complete(Cells(d))
    /\ Copied(Cells(d)) = Index

=============================================================================
