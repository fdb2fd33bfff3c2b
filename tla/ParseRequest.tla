---------------------------- MODULE ParseRequest ----------------------------
(***************************************************************************)
(* The two loops of lidarserver::parseRequest, cell by cell: the one that  *)
(* copies the socket handler's array into the server's and looks for the   *)
(* end of the request, and the one that takes the token out of the copy.   *)
(* Module RequestParser says what they come to, and LidarServer relies on  *)
(* it; here each call is shown to come to that.                            *)
(***************************************************************************)
EXTENDS RequestParser

CONSTANTS
    Given,      \* what the socket handler's array may hold at the call
    Left,       \* what earlier calls, or the constructor, may have left in read_buf
    Scratch     \* what the local array tmp may hold before it is set

ASSUME ArraysAssumption == Given \subseteq Buffer /\ Left \subseteq Buffer
ASSUME ScratchAssumption == Scratch \subseteq [0 .. TokenLen -> Byte]

VARIABLES
    pc,
    buf, read_buf,  \* the parameter and the member
    i, cr, lf, r,   \* locals; cr and lf only matter for being zero or not
    tmp,
    old             \* history: what read_buf held at the call

vars == <<pc, buf, read_buf, i, cr, lf, r, tmp, old>>

-----------------------------------------------------------------------------
Init ==
    /\ pc = "copy"
    /\ buf \in Given /\ read_buf \in Left /\ old = read_buf
    /\ i = 0 /\ cr = FALSE /\ lf = FALSE /\ r = FALSE
    /\ tmp \in Scratch

\* Mutant: one control character before the EOT will do.
EndSeenEarly == (cr' \/ lf') /\ buf[i] = "EOT"

EndSeen == cr' /\ lf' /\ buf[i] = "EOT"

\* A round of the first loop; it breaks at the end of the request, after the cell was copied.
CopyCell ==
    /\ pc = "copy" /\ i < READ_BUF
    /\ read_buf' = [read_buf EXCEPT ![i] = buf[i]]
    /\ cr' = (cr \/ buf[i] = "CR")
    /\ lf' = (lf \/ buf[i] = "LF")
    /\ r' = EndSeen
    /\ IF EndSeen THEN pc' = "check" /\ i' = i ELSE pc' = pc /\ i' = i + 1
    /\ UNCHANGED <<buf, tmp, old>>

\* The only caller passes the size of the array as len, however long the datagram was.
CopyEnds ==
    /\ pc = "copy" /\ pc' = "check"
    /\ i >= READ_BUF
    /\ UNCHANGED <<buf, read_buf, i, cr, lf, r, tmp, old>>

MessageError ==
    /\ pc = "check" /\ pc' = "rejected"
    /\ ~r
    /\ UNCHANGED <<buf, read_buf, i, cr, lf, r, tmp, old>>

MessageComplete ==
    /\ pc = "check" /\ pc' = "token"
    /\ r
    /\ i' = 2
    /\ UNCHANGED <<buf, read_buf, cr, lf, r, tmp, old>>

\* Mutant: the last cell of the token is left out.
TokenEndShort == TokenLen + 1

TokenEnd == TokenLen + 2

\* A round of the second loop.
TokenCell ==
    /\ pc = "token" /\ i < TokenEnd
    /\ tmp' = [tmp EXCEPT ![i - 2] = read_buf[i]]
    /\ i' = i + 1
    /\ UNCHANGED <<pc, buf, read_buf, cr, lf, r, old>>

TokenEnds ==
    /\ pc = "token" /\ pc' = "verify"
    /\ i >= TokenEnd
    /\ tmp' = [tmp EXCEPT ![TokenLen] = "NUL"]
    /\ UNCHANGED <<buf, read_buf, i, cr, lf, r, old>>

Next ==
    \/ CopyCell \/ CopyEnds \/ MessageError \/ MessageComplete
    \/ TokenCell \/ TokenEnds

Spec == Init /\ [][Next]_vars

-----------------------------------------------------------------------------
\* The C string in an array, padded with NULs as TokenOf pads it.
CString(t) ==
    [k \in 1 .. TokenLen |-> IF \E j \in 0 .. k - 1 : t[j] = "NUL" THEN "NUL" ELSE t[k - 1]]

\* The first loop leaves behind what Copy says, over whatever the array held before, and
\* r says whether the array it was given is complete.
LoopCopies ==
    pc # "copy" => read_buf = Copy(old, buf) /\ (r <=> Complete(buf))

\* What is verified, and kept, is the token of the copied request; nothing that tmp held
\* before gets into it, also where the token is shorter than its field.
LoopTakesToken ==
    pc = "verify" => CString(tmp) = TokenOf(Copy(old, buf)) /\ tmp[TokenLen] = "NUL"

=============================================================================
