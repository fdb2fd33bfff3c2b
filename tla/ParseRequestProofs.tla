------------------------- MODULE ParseRequestProofs -------------------------
(***************************************************************************)
(* The loops of parseRequest compute Copy, Complete and TokenOf, for every *)
(* length of the token field and every content of the arrays.              *)
(***************************************************************************)
EXTENDS ParseRequest, TLAPS

\* The variables the loops work on.
Types ==
    /\ pc \in {"copy", "check", "rejected", "token", "verify"}
    /\ buf \in Buffer /\ read_buf \in Buffer /\ old \in Buffer
    /\ i \in 0 .. READ_BUF
    /\ cr \in BOOLEAN /\ lf \in BOOLEAN /\ r \in BOOLEAN
    /\ tmp \in [0 .. TokenLen -> Byte]

\* What the copy loop has done when it comes to cell i.
CopiedSoFar ==
    /\ ~r
    /\ cr <=> \E c \in 0 .. i - 1 : buf[c] = "CR"
    /\ lf <=> \E c \in 0 .. i - 1 : buf[c] = "LF"
    /\ \A j \in 0 .. i - 1 : ~Terminates(buf, j)
    /\ read_buf = [k \in Index |-> IF k < i THEN buf[k] ELSE old[k]]

\* The cells of the token field that are in tmp when the other loop comes to cell i.
TakenUpTo(n) == \A k \in 2 .. n - 1 : tmp[k - 2] = read_buf[k]

Inductive ==
    /\ Types
    /\ pc = "copy" => CopiedSoFar
    /\ LoopCopies
    /\ pc = "token" => i \in 2 .. TokenEnd /\ TakenUpTo(i)
    /\ pc = "verify" => TakenUpTo(TokenEnd) /\ tmp[TokenLen] = "NUL"

-----------------------------------------------------------------------------
(***************************************************************************)
(* What Copy and Complete are where a loop may stop.                       *)
(***************************************************************************)

\* At the first cell that ends the request the copy stops behind it,
LEMMA CopyToEnd ==
    ASSUME NEW b \in Buffer, NEW a \in Buffer, NEW n \in Index, Terminates(b, n),
           \A j \in 0 .. n - 1 : ~Terminates(b, j)
    PROVE  /\ Complete(b)
           /\ Copy(a, b) = [k \in Index |-> IF k < n + 1 THEN b[k] ELSE a[k]]
<1>1. n \in Nat /\ \A k \in Index : k \in Nat
  BY DEF Index
<1>2. ASSUME NEW k \in Index
      PROVE  k \in Copied(b) <=> k < n + 1
  <2>1. CASE k < n + 1
    <3>1. \A j \in 0 .. k - 1 : j \in 0 .. n - 1
      BY <1>1, <2>1
    <3>2. QED
      BY <2>1, <3>1 DEF Copied
  <2>2. CASE ~(k < n + 1)
    <3>1. n \in 0 .. k - 1
      BY <1>1, <2>2
    <3>2. QED
      BY <2>2, <3>1 DEF Copied
  <2>3. QED
    BY <2>1, <2>2
<1>3. QED
  BY <1>2 DEF Complete, Copy

\* and where no cell ends it, it takes the whole array.
LEMMA CopyWhole ==
    ASSUME NEW b \in Buffer, NEW a \in Buffer, \A j \in Index : ~Terminates(b, j)
    PROVE  ~Complete(b) /\ Copy(a, b) = [k \in Index |-> b[k]]
<1>1. ASSUME NEW k \in Index
      PROVE  k \in Copied(b)
  <2>1. \A j \in 0 .. k - 1 : j \in Index
    BY TokenLenAssumption DEF Index, READ_BUF
  <2>2. QED
    BY <2>1 DEF Copied
<1>2. QED
  BY <1>1 DEF Complete, Copy

\* The cells below n + 1 are those below n and n itself.
LEMMA OneMore ==
    ASSUME NEW n \in Nat
    PROVE  \A k \in 0 .. (n + 1) - 1 : k \in 0 .. n - 1 \/ k = n
  OBVIOUS

-----------------------------------------------------------------------------
(***************************************************************************)
(* The invariant.                                                          *)
(***************************************************************************)

\* Before the first cell.
LEMMA InitInductive == Init => Inductive
<1> SUFFICES ASSUME Init
             PROVE  Inductive
  OBVIOUS
<1>1. Types
  <2>1. buf \in Buffer /\ read_buf \in Buffer /\ old \in Buffer
    BY ArraysAssumption DEF Init
  <2>2. tmp \in [0 .. TokenLen -> Byte]
    BY ScratchAssumption DEF Init
  <2>3. 0 \in 0 .. READ_BUF
    BY TokenLenAssumption DEF READ_BUF
  <2>4. QED
    BY <2>1, <2>2, <2>3 DEF Init, Types
<1>2. CopiedSoFar
  <2>1. read_buf = [k \in Index |-> old[k]] /\ \A k \in Index : ~(k < 0)
    BY <1>1 DEF Init, Types, Buffer, Index
  <2>2. QED
    BY <2>1 DEF Init, CopiedSoFar
<1>3. QED
  BY <1>1, <1>2 DEF Init, Inductive, LoopCopies

\* A round of the copy loop.
LEMMA CopyCellStep == ASSUME Inductive, CopyCell PROVE Inductive'
<1>1. /\ pc = "copy" /\ i \in Index /\ i \in Nat
      /\ read_buf' = [read_buf EXCEPT ![i] = buf[i]]
      /\ cr' = (cr \/ buf[i] = "CR") /\ lf' = (lf \/ buf[i] = "LF")
      /\ r' = EndSeen
      /\ UNCHANGED <<buf, tmp, old>>
  BY TokenLenAssumption DEF CopyCell, Inductive, Types, Index, READ_BUF
<1>2. buf \in Buffer /\ old \in Buffer /\ read_buf \in Buffer /\ CopiedSoFar
  BY <1>1 DEF Inductive, Types
<1>3. /\ cr' <=> \E c \in 0 .. i : buf[c] = "CR"
      /\ lf' <=> \E c \in 0 .. i : buf[c] = "LF"
  <2>1. \A c \in 0 .. i : c \in 0 .. i - 1 \/ c = i
    BY <1>1
  <2>2. i \in 0 .. i /\ \A c \in 0 .. i - 1 : c \in 0 .. i
    BY <1>1
  <2>3. QED
    BY <1>1, <1>2, <2>1, <2>2 DEF CopiedSoFar
<1>4. EndSeen <=> Terminates(buf, i)
  BY <1>3 DEF EndSeen, Terminates
<1>5. read_buf' = [k \in Index |-> IF k < i + 1 THEN buf[k] ELSE old[k]]
  <2>1. \A k \in Index : k < i + 1 <=> k < i \/ k = i
    BY <1>1 DEF Index
  <2>2. QED
    BY <1>1, <1>2, <2>1 DEF CopiedSoFar
<1>6. CASE EndSeen
  <2>1. pc' = "check" /\ i' = i /\ r'
    BY <1>1, <1>6 DEF CopyCell
  <2>2. Complete(buf) /\ Copy(old, buf) = read_buf'
    BY <1>1, <1>2, <1>4, <1>5, <1>6, CopyToEnd DEF CopiedSoFar
  <2>3. LoopCopies'
    BY <1>1, <2>1, <2>2 DEF LoopCopies, Copy, Copied, Complete, Terminates
  <2>4. Types'
    BY <1>1, <2>1 DEF Inductive, Types, Buffer
  <2>5. QED
    BY <2>1, <2>3, <2>4 DEF Inductive
<1>7. CASE ~EndSeen
  <2>1. pc' = "copy" /\ i' = i + 1 /\ r' = FALSE
    BY <1>1, <1>7 DEF CopyCell
  <2>2. i + 1 \in 0 .. READ_BUF /\ (i + 1) - 1 = i
    BY <1>1, TokenLenAssumption DEF Index, READ_BUF
  <2>3. Types'
    <3>1. read_buf' \in Buffer
      BY <1>1, <1>2 DEF Buffer
    <3>2. cr' \in BOOLEAN /\ lf' \in BOOLEAN
      BY <1>1
    <3>3. QED
      BY <1>1, <2>1, <2>2, <3>1, <3>2 DEF Inductive, Types
  <2>4. \A j \in 0 .. i : ~Terminates(buf, j)
    BY <1>1, <1>2, <1>4, <1>7 DEF CopiedSoFar
  <2>5. CopiedSoFar'
    <3>1. /\ cr' <=> \E c \in 0 .. i' - 1 : buf'[c] = "CR"
          /\ lf' <=> \E c \in 0 .. i' - 1 : buf'[c] = "LF"
      BY <1>1, <1>3, <2>1, <2>2
    <3>2. \A j \in 0 .. i' - 1 : ~Terminates(buf, j)'
      BY <1>1, <2>1, <2>2, <2>4 DEF Terminates
    <3>3. read_buf' = [k \in Index |-> IF k < i' THEN buf'[k] ELSE old'[k]]
      BY <1>1, <1>5, <2>1
    <3>4. QED
      BY <2>1, <3>1, <3>2, <3>3 DEF CopiedSoFar
  <2>6. QED
    BY <2>1, <2>3, <2>5 DEF Inductive, LoopCopies
<1>8. QED
  BY <1>6, <1>7

\* The copy loop ends without having seen the end of a request.
LEMMA CopyEndsStep == ASSUME Inductive, CopyEnds PROVE Inductive'
<1>1. /\ pc = "copy" /\ pc' = "check" /\ i = READ_BUF
      /\ UNCHANGED <<buf, read_buf, i, cr, lf, r, tmp, old>>
  BY TokenLenAssumption DEF CopyEnds, Inductive, Types, READ_BUF
<1>2. buf \in Buffer /\ old \in Buffer /\ CopiedSoFar
  BY <1>1 DEF Inductive, Types
<1>3. 0 .. i - 1 = Index /\ \A k \in Index : k < i
  BY <1>1, TokenLenAssumption DEF Index, READ_BUF
<1>4. ~Complete(buf) /\ Copy(old, buf) = [k \in Index |-> buf[k]]
  BY <1>2, <1>3, CopyWhole DEF CopiedSoFar
<1>5. read_buf = Copy(old, buf) /\ ~r
  BY <1>2, <1>3, <1>4 DEF CopiedSoFar
<1>6. LoopCopies'
  BY <1>1, <1>4, <1>5 DEF LoopCopies, Copy, Copied, Complete, Terminates
<1>7. QED
  BY <1>1, <1>6 DEF Inductive, Types

\* A round of the token loop.
LEMMA TokenCellStep == ASSUME Inductive, TokenCell PROVE Inductive'
<1>1. /\ pc = "token" /\ i \in 2 .. TokenLen + 1
      /\ tmp' = [tmp EXCEPT ![i - 2] = read_buf[i]] /\ i' = i + 1
      /\ UNCHANGED <<pc, buf, read_buf, cr, lf, r, old>>
  BY TokenLenAssumption DEF TokenCell, TokenEnd, Inductive
<1>2. /\ i \in Index /\ i - 2 \in 0 .. TokenLen
      /\ i + 1 \in 0 .. READ_BUF /\ i + 1 \in 2 .. TokenEnd
  BY <1>1, TokenLenAssumption DEF Index, READ_BUF, TokenEnd
<1>3. tmp \in [0 .. TokenLen -> Byte] /\ read_buf \in [Index -> Byte] /\ TakenUpTo(i)
  BY <1>1 DEF Inductive, Types, Buffer
<1>4. Types'
  BY <1>1, <1>2, <1>3 DEF Inductive, Types
<1>5. \A k \in 2 .. (i + 1) - 1 : tmp'[k - 2] = read_buf[k]
  <2>1. \A k \in 2 .. (i + 1) - 1 : k = i \/ (k \in 2 .. i - 1 /\ k - 2 # i - 2)
    BY <1>1
  <2>2. QED
    BY <1>1, <1>2, <1>3, <2>1 DEF TakenUpTo
<1>6. TakenUpTo(i)'
  BY <1>1, <1>5 DEF TakenUpTo
<1>7. LoopCopies'
  BY <1>1 DEF Inductive, LoopCopies, Copy, Copied, Complete, Terminates
<1>8. QED
  BY <1>1, <1>2, <1>4, <1>6, <1>7 DEF Inductive

\* The NUL that ends tmp lies behind the token.
LEMMA TokenEndsStep == ASSUME Inductive, TokenEnds PROVE Inductive'
<1>1. /\ pc = "token" /\ pc' = "verify" /\ i = TokenEnd
      /\ tmp' = [tmp EXCEPT ![TokenLen] = "NUL"]
      /\ UNCHANGED <<buf, read_buf, i, cr, lf, r, old>>
  BY TokenLenAssumption DEF TokenEnds, TokenEnd, Inductive
<1>2. tmp \in [0 .. TokenLen -> Byte] /\ TakenUpTo(TokenEnd)
  BY <1>1 DEF Inductive, Types
<1>3. Types'
  BY <1>1, TokenLenAssumption DEF Inductive, Types, Byte, Control
<1>4. TakenUpTo(TokenEnd)' /\ tmp'[TokenLen] = "NUL"
  <2>1. \A k \in 2 .. TokenEnd - 1 : k - 2 \in 0 .. TokenLen /\ k - 2 # TokenLen
    BY TokenLenAssumption DEF TokenEnd
  <2>2. TokenLen \in 0 .. TokenLen
    BY TokenLenAssumption
  <2>3. QED
    BY <1>1, <1>2, <2>1, <2>2 DEF TakenUpTo, TokenEnd
<1>5. LoopCopies'
  BY <1>1 DEF Inductive, LoopCopies, Copy, Copied, Complete, Terminates
<1>6. QED
  BY <1>1, <1>3, <1>4, <1>5 DEF Inductive

LEMMA NextInductive == Inductive /\ [Next]_vars => Inductive'
<1> SUFFICES ASSUME Inductive, [Next]_vars
             PROVE  Inductive'
  OBVIOUS
<1>. USE DEF Inductive, Types, LoopCopies, Copy, Copied, Complete, Terminates
<1>1. CASE MessageError
  BY <1>1 DEF MessageError
<1>2. CASE MessageComplete
  BY <1>2, TokenLenAssumption DEF MessageComplete, TokenEnd, TakenUpTo, READ_BUF
<1>3. CASE UNCHANGED vars
  BY <1>3 DEF vars, CopiedSoFar, TakenUpTo
<1>4. QED
  BY <1>1, <1>2, <1>3, CopyCellStep, CopyEndsStep, TokenCellStep, TokenEndsStep DEF Next

THEOREM InductiveHolds == Spec => []Inductive
BY InitInductive, NextInductive, PTL DEF Spec

-----------------------------------------------------------------------------
\* The copy loop leaves Copy of the two arrays in read_buf, and r tells whether the request
\* was complete: for every length of the token field and every content of the arrays.
THEOREM Copies == Spec => []LoopCopies
<1>1. Inductive => LoopCopies
  BY DEF Inductive
<1>2. QED
  BY <1>1, InductiveHolds, PTL

\* The C string that is looked up and kept is the token of the copied request, whatever the
\* local array held before.
THEOREM TakesToken == Spec => []LoopTakesToken
<1>1. Inductive => LoopTakesToken
  <2> SUFFICES ASSUME Inductive, pc = "verify"
               PROVE  CString(tmp) = TokenOf(read_buf)
    BY DEF Inductive, LoopTakesToken, LoopCopies
  <2>1. \A k \in 1 .. TokenLen : tmp[k - 1] = read_buf[k + 1]
    <3>1. \A k \in 1 .. TokenLen : k + 1 \in 2 .. TokenEnd - 1 /\ (k + 1) - 2 = k - 1
      BY TokenLenAssumption DEF TokenEnd
    <3>2. QED
      BY <3>1 DEF Inductive, TakenUpTo
  <2>2. ASSUME NEW k \in 1 .. TokenLen
        PROVE  (\E j \in 0 .. k - 1 : tmp[j] = "NUL")
                   <=> (\E j \in 1 .. k : read_buf[j + 1] = "NUL")
    <3>1. \A j \in 1 .. k : j - 1 \in 0 .. k - 1 /\ j \in 1 .. TokenLen
      BY TokenLenAssumption
    <3>2. \A j \in 0 .. k - 1 : j + 1 \in 1 .. k /\ (j + 1) - 1 = j /\ j + 1 \in 1 .. TokenLen
      BY TokenLenAssumption
    <3>3. QED
      BY <2>1, <3>1, <3>2
  <2>3. QED
    BY <2>1, <2>2 DEF CString, TokenOf
<1>2. QED
  BY <1>1, InductiveHolds, PTL

=============================================================================
