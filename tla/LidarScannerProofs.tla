------------------------- MODULE LidarScannerProofs -------------------------
(***************************************************************************)
(* Which lines the rounds of a poll get, for every number of points and    *)
(* however much a read of the port may bring.                              *)
(***************************************************************************)
EXTENDS LidarScanner, TLAPS

\* Where the lines of the stream end.
LEMMA LineEnds ==
    /\ Len(Line) = 14
    /\ \A c \in Nat \ {0} : (Cell(c) = "CR" <=> c % 14 = 13) /\ (Cell(c) = "LF" <=> c % 14 = 0)
<1>1. Len(Line) = 14
  BY DEF Line
<1>2. \A j \in 1 .. 14 : (Line[j] = "CR" <=> j = 13) /\ (Line[j] = "LF" <=> j = 14)
  <2>1. /\ Line[1] = "digit" /\ Line[2] = "digit" /\ Line[3] = "," /\ Line[4] = "digit"
        /\ Line[5] = "digit" /\ Line[6] = "," /\ Line[7] = "digit" /\ Line[8] = "."
        /\ Line[9] = "digit" /\ Line[10] = "," /\ Line[11] = "digit" /\ Line[12] = "digit"
        /\ Line[13] = "CR" /\ Line[14] = "LF"
    BY DEF Line
  <2>2. TAKE j \in 1 .. 14
  <2>3. \/ j = 1 \/ j = 2 \/ j = 3 \/ j = 4 \/ j = 5 \/ j = 6 \/ j = 7
        \/ j = 8 \/ j = 9 \/ j = 10 \/ j = 11 \/ j = 12 \/ j = 13 \/ j = 14
    OBVIOUS
  <2>4. QED
    BY <2>1, <2>3
<1>3. ASSUME NEW c \in Nat \ {0}
      PROVE  (Cell(c) = "CR" <=> c % 14 = 13) /\ (Cell(c) = "LF" <=> c % 14 = 0)
  <2>. DEFINE j == ((c - 1) % 14) + 1
  <2>1. /\ j \in 1 .. 14
        /\ j = 13 <=> c % 14 = 13
        /\ j = 14 <=> c % 14 = 0
    OBVIOUS
  <2>2. Cell(c) = Line[j]
    BY <1>1 DEF Cell
  <2>3. QED
    BY <1>2, <2>1, <2>2
<1>4. QED
  BY <1>1, <1>3

\* A buffer after cell a that ends with its first line ends where the first CR LF after a does.
LEMMA FirstLine ==
    ASSUME NEW a \in Nat, NEW b \in Nat, HasLine(a, b), ~HasLine(a, b - 1)
    PROVE  /\ b % 14 = 0
           /\ \A k \in Nat : k % 14 = 0 /\ a < k - 1 => b <= k
<1>1. PICK c \in a + 1 .. b - 1 : Cell(c) = "CR" /\ Cell(c + 1) = "LF"
  BY DEF HasLine
<1>2. ~(c \in a + 1 .. (b - 1) - 1)
  BY <1>1 DEF HasLine
<1>3. c + 1 = b
  BY <1>1, <1>2
<1>4. b % 14 = 0
  BY <1>1, <1>3, LineEnds
<1>5. ASSUME NEW k \in Nat, k % 14 = 0, a < k - 1, k < b
      PROVE  FALSE
  <2>1. k - 1 \in a + 1 .. (b - 1) - 1 /\ k - 1 \in Nat \ {0} /\ k \in Nat \ {0}
    BY <1>5
  <2>2. (k - 1) % 14 = 13
    BY <1>5, <2>1
  <2>3. Cell(k - 1) = "CR" /\ Cell((k - 1) + 1) = "LF"
    BY <1>5, <2>1, <2>2, LineEnds
  <2>4. QED
    BY <2>1, <2>3 DEF HasLine
<1>6. QED
  BY <1>4, <1>5

-----------------------------------------------------------------------------
(***************************************************************************)
(* What the extractions take from a buffer.  Two cells of a line that are  *)
(* blank follow each other, and at most three that belong to one number.   *)
(***************************************************************************)

\* The cells of a line, by their place in it.
LEMMA CellAt ==
    ASSUME NEW c \in Nat \ {0}
    PROVE  /\ c % 14 \in {1, 2, 4, 5, 7, 9, 11, 12} => Cell(c) = "digit"
           /\ c % 14 \in {3, 6, 10} => Cell(c) = ","
           /\ c % 14 = 8 => Cell(c) = "."
<1>. DEFINE j == ((c - 1) % 14) + 1
<1>1. Cell(c) = Line[j]
  BY LineEnds DEF Cell
<1>2. /\ Line[1] = "digit" /\ Line[2] = "digit" /\ Line[3] = "," /\ Line[4] = "digit"
      /\ Line[5] = "digit" /\ Line[6] = "," /\ Line[7] = "digit" /\ Line[8] = "."
      /\ Line[9] = "digit" /\ Line[10] = "," /\ Line[11] = "digit" /\ Line[12] = "digit"
  BY DEF Line
<1>3. j \in 1 .. 14 /\ (c % 14 # 0 => j = c % 14)
  OBVIOUS
<1>4. /\ j \in {1, 2, 4, 5, 7, 9, 11, 12} => Line[j] = "digit"
      /\ j \in {3, 6, 10} => Line[j] = ","
      /\ j = 8 => Line[j] = "."
  <2>. HIDE DEF j
  <2>1. QED
    BY <1>2
<1>5. /\ c % 14 \in {1, 2, 4, 5, 7, 9, 11, 12} => Cell(c) = "digit"
      /\ c % 14 \in {3, 6, 10} => Cell(c) = ","
      /\ c % 14 = 8 => Cell(c) = "."
  <2>. HIDE DEF j
  <2>1. c % 14 \in {1, 2, 3, 4, 5, 6, 7, 8, 9, 10, 11, 12} => j = c % 14
    BY <1>3
  <2>2. QED
    BY <1>1, <1>4, <2>1
<1>6. QED
  BY <1>5

\* The first cell that is not blank is the one Skip chooses.
LEMMA SkipIs ==
    ASSUME NEW a \in Nat, NEW b \in Nat, NEW c \in a + 1 .. b + 1,
           c > b \/ ~Blank(c), \A d \in a + 1 .. c - 1 : Blank(d)
    PROVE  Skip(a, b) = c
<1>. DEFINE First(x) == (x > b \/ ~Blank(x)) /\ \A d \in a + 1 .. x - 1 : Blank(d)
<1>1. ASSUME NEW x \in a + 1 .. b + 1, First(x)
      PROVE  x = c
  <2>1. CASE x < c
    BY <1>1, <2>1
  <2>2. CASE c < x
    BY <1>1, <2>2
  <2>3. QED
    BY <2>1, <2>2
<1>2. First(c)
  OBVIOUS
<1>3. (CHOOSE x \in a + 1 .. b + 1 : First(x)) = c
  <2>. HIDE DEF First
  <2>1. QED
    BY <1>1, <1>2
<1>4. QED
  BY <1>3 DEF Skip

\* The end of a number is the one NumberEnd chooses.
LEMMA NumberEndIs ==
    ASSUME NEW c \in Nat, NEW b \in Nat, NEW kinds, NEW e \in c .. b,
           \A d \in c .. e : Cell(d) \in kinds, e = b \/ Cell(e + 1) \notin kinds
    PROVE  NumberEnd(c, b, kinds) = e
<1>. DEFINE Ends(x) == (\A d \in c .. x : Cell(d) \in kinds) /\ (x = b \/ Cell(x + 1) \notin kinds)
<1>1. ASSUME NEW x \in c .. b, Ends(x)
      PROVE  x = e
  <2>1. CASE x < e
    <3>1. x + 1 \in c .. e /\ x # b
      BY <2>1
    <3>2. QED
      BY <1>1, <3>1
  <2>2. CASE e < x
    <3>1. e + 1 \in c .. x /\ e # b
      BY <2>2
    <3>2. QED
      BY <1>1, <3>1
  <2>3. QED
    BY <2>1, <2>2
<1>2. Ends(e)
  OBVIOUS
<1>3. (CHOOSE x \in c .. b : Ends(x)) = e
  <2>. HIDE DEF Ends
  <2>1. QED
    BY <1>1, <1>2
<1>4. QED
  BY <1>3 DEF NumberEnd

\* There is such a cell in every buffer,
LEMMA SkipExists ==
    ASSUME NEW a \in Nat, NEW b \in Nat, a <= b
    PROVE  Skip(a, b) \in a + 1 .. b + 1
<1>. DEFINE Ends(c) == c > b \/ ~Blank(c)
<1>1. PICK c \in a + 1 .. b + 1 : Ends(c) /\ \A d \in a + 1 .. c - 1 : Blank(d)
  <2>1. CASE Ends(a + 1)
    BY <2>1
  <2>2. CASE ~Ends(a + 1) /\ Ends(a + 2)
    BY <2>2
  <2>3. CASE ~Ends(a + 1) /\ ~Ends(a + 2)
    <3>. a + 1 \in Nat \ {0} /\ a + 2 \in Nat \ {0} /\ a + 3 \in Nat \ {0}
      OBVIOUS
    <3>1. (a + 1) % 14 \in {13, 0} /\ (a + 2) % 14 \in {13, 0} /\ a + 2 <= b
      BY <2>3, LineEnds DEF Blank
    <3>2. (a + 3) % 14 = 1
      BY <3>1
    <3>3. ~Blank(a + 3)
      BY <3>2, LineEnds DEF Blank
    <3>4. \A d \in a + 1 .. (a + 3) - 1 : Blank(d)
      BY <2>3
    <3>5. QED
      BY <3>1, <3>3, <3>4
  <2>4. QED
    BY <2>1, <2>2, <2>3
<1>2. Skip(a, b) = c
  BY <1>1, SkipIs
<1>3. QED
  BY <1>1, <1>2

\* and an end to every number.
Kinds == {{"digit"}, {"digit", "."}}

LEMMA NumberEndExists ==
    ASSUME NEW c \in Nat \ {0}, NEW b \in Nat, c <= b, NEW kinds \in Kinds, Cell(c) \in kinds
    PROVE  NumberEnd(c, b, kinds) \in c .. b
<1>. DEFINE Ends(e) == e = b \/ Cell(e + 1) \notin kinds
<1>1. PICK e \in c .. b : Ends(e) /\ \A d \in c .. e : Cell(d) \in kinds
  <2>1. CASE Ends(c)
    BY <2>1
  <2>2. CASE ~Ends(c) /\ Ends(c + 1)
    BY <2>2
  <2>3. CASE ~Ends(c) /\ ~Ends(c + 1)
    <3>. c + 1 \in Nat \ {0} /\ c + 2 \in Nat \ {0} /\ c + 3 \in Nat \ {0}
      OBVIOUS
    <3>1. Cell(c + 1) \in kinds /\ Cell(c + 2) \in kinds /\ c + 2 <= b
      BY <2>3
    <3>2. \A d \in Nat \ {0} : d % 14 \in {3, 6, 10, 13, 0} => Cell(d) \notin {"digit", "."}
      BY CellAt, LineEnds
    <3>3. kinds \subseteq {"digit", "."}
      BY DEF Kinds
    <3>4. /\ c % 14 \notin {3, 6, 10, 13, 0}
          /\ (c + 1) % 14 \notin {3, 6, 10, 13, 0}
          /\ (c + 2) % 14 \notin {3, 6, 10, 13, 0}
      BY <3>1, <3>2, <3>3
    <3>5. (c + 3) % 14 = 10
      BY <3>4
    <3>6. Cell(c + 3) \notin kinds
      BY <3>2, <3>3, <3>5
    <3>7. \A d \in c .. c + 2 : Cell(d) \in kinds
      BY <3>1
    <3>8. QED
      BY <3>1, <3>6, <3>7
  <2>4. QED
    BY <2>1, <2>2, <2>3
<1>2. NumberEnd(c, b, kinds) = e
  BY <1>1, NumberEndIs
<1>3. QED
  BY <1>2

\* A reader of a buffer that ends with cell b, and what it has put into the variables.
Reader(b) == [at : 0 .. b, ok : BOOLEAN, values : [DOMAIN Field -> Cells \X Cells]]

LEMMA NumberType ==
    ASSUME NEW b \in 0 .. MaxCells, MaxCells \in Nat, NEW r \in Reader(b), NEW f \in DOMAIN Field,
           NEW kinds \in Kinds
    PROVE  Number(r, b, f, kinds) \in Reader(b)
<1>. DEFINE c == Skip(r.at, b)
            e == NumberEnd(c, b, kinds)
<1>1. r.at \in 0 .. b /\ r.ok \in BOOLEAN /\ r.values \in [DOMAIN Field -> Cells \X Cells]
  BY DEF Reader
<1>2. c \in r.at + 1 .. b + 1
  <2>1. b \in Nat /\ r.at \in Nat /\ r.at <= b
    BY <1>1
  <2>2. QED
    BY <2>1, SkipExists
<1>3. [r EXCEPT !.ok = FALSE] \in Reader(b)
  BY DEF Reader
<1>4. [r EXCEPT !.ok = FALSE, !.values[f] = Zero] \in Reader(b)
  <2>1. Zero \in Cells \X Cells
    BY DEF Zero, Cells
  <2>2. QED
    BY <2>1 DEF Reader
<1>5. ASSUME c <= b, Cell(c) \in kinds
      PROVE  [r EXCEPT !.at = e, !.values[f] = <<c, e>>] \in Reader(b)
  <2>1. e \in c .. b
    BY <1>1, <1>2, <1>5, NumberEndExists
  <2>2. <<c, e>> \in Cells \X Cells /\ e \in 0 .. b
    BY <1>1, <1>2, <2>1 DEF Cells
  <2>. HIDE DEF c, e
  <2>3. QED
    BY <2>2 DEF Reader
<1>6. ASSUME c <= b, Cell(c) \notin kinds
      PROVE  \A d \in c .. c : Cell(d) # "digit"
  BY <1>1, <1>2, <1>6 DEF Kinds
<1>7. CASE ~r.ok \/ c > b
  BY <1>3, <1>7 DEF Number
<1>8. CASE r.ok /\ c <= b /\ Cell(c) \notin kinds
  <2>1. Number(r, b, f, kinds) = [r EXCEPT !.ok = FALSE, !.values[f] = Zero]
    BY <1>1, <1>2, <1>6, <1>8 DEF Number
  <2>2. QED
    BY <1>4, <2>1
<1>9. CASE r.ok /\ c <= b /\ Cell(c) \in kinds
  <2>1. Number(r, b, f, kinds) \in {[r EXCEPT !.ok = FALSE, !.values[f] = Zero],
                                   [r EXCEPT !.at = e, !.values[f] = <<c, e>>]}
    BY <1>1, <1>2, <1>9 DEF Number
  <2>2. QED
    BY <1>4, <1>5, <1>9, <2>1
<1>10. QED
  <2>1. c <= b \/ c > b
    BY <1>1, <1>2
  <2>2. QED
    BY <1>7, <1>8, <1>9, <2>1

LEMMA DummyType ==
    ASSUME NEW b \in 0 .. MaxCells, MaxCells \in Nat, NEW r \in Reader(b)
    PROVE  Dummy(r, b) \in Reader(b)
<1>1. r.at \in 0 .. b
  BY DEF Reader
<1>2. Skip(r.at, b) \in r.at + 1 .. b + 1
  <2>1. b \in Nat /\ r.at \in Nat /\ r.at <= b
    BY <1>1
  <2>2. QED
    BY <2>1, SkipExists
<1>3. ~(Skip(r.at, b) > b) => Skip(r.at, b) \in 0 .. b
  BY <1>1, <1>2
<1>4. QED
  BY <1>3 DEF Dummy, Reader

\* Whatever a buffer holds, the four values become numbers of it, or stay as they are.
LEMMA ExtractType ==
    ASSUME NEW b \in 0 .. MaxCells, MaxCells \in Nat, NEW a \in 0 .. b,
           values \in [DOMAIN Field -> Cells \X Cells], Extract(a, b)
    PROVE  values' \in [DOMAIN Field -> Cells \X Cells]
<1>. USE DEF Integer, Double
<1>1. {"digit"} \in Kinds /\ {"digit", "."} \in Kinds
  BY DEF Kinds
<1>2. "position" \in DOMAIN Field /\ "distance" \in DOMAIN Field
      /\ "degrees" \in DOMAIN Field /\ "time" \in DOMAIN Field
  BY DEF Field
<1>. DEFINE position == Integer([at |-> a, ok |-> TRUE, values |-> values], b, "position")
            distance == Integer(Dummy(position, b), b, "distance")
            degrees == Double(Dummy(distance, b), b, "degrees")
            time == Integer(Dummy(degrees, b), b, "time")
<1>3. [at |-> a, ok |-> TRUE, values |-> values] \in Reader(b)
  BY DEF Reader
<1>4. position \in Reader(b)
  BY <1>1, <1>2, <1>3, NumberType
<1>5. distance \in Reader(b)
  BY <1>1, <1>2, <1>4, NumberType, DummyType
<1>6. degrees \in Reader(b)
  BY <1>1, <1>2, <1>5, NumberType, DummyType
<1>7. time \in Reader(b)
  BY <1>1, <1>2, <1>6, NumberType, DummyType
<1>8. values' = time.values
  BY DEF Extract
<1>9. QED
  BY <1>7, <1>8 DEF Reader

-----------------------------------------------------------------------------
(***************************************************************************)
(* What they take from a buffer that begins with a line.                   *)
(***************************************************************************)
At(a, v) == [at |-> a, ok |-> TRUE, values |-> v]
With(v, f, x) == [v EXCEPT ![f] = x]

\* After cell a comes, behind blanks, a number: its first and last cell are c and e.
Comes(a, b, c, e, kinds) ==
    /\ a \in Nat /\ b \in Nat /\ c \in Nat /\ e \in Nat
    /\ a < c /\ c <= e /\ e < b
    /\ \A d \in a + 1 .. c - 1 : Blank(d)
    /\ Cell(c) = "digit"
    /\ \A d \in c .. e : Cell(d) \in kinds
    /\ Cell(e + 1) \notin kinds

\* A number that comes is taken, from its first cell to its last.
LEMMA NumberTakes ==
    ASSUME NEW a, NEW b, NEW c, NEW e, NEW v, NEW f, NEW kinds, Comes(a, b, c, e, kinds)
    PROVE  Number(At(a, v), b, f, kinds) = At(e, With(v, f, <<c, e>>))
<1>. USE DEF Comes
<1>1. Skip(a, b) = c
  <2>1. ~Blank(c)
    BY DEF Blank
  <2>2. c \in a + 1 .. b + 1
    OBVIOUS
  <2>3. QED
    BY <2>1, <2>2, SkipIs
<1>2. NumberEnd(c, b, kinds) = e
  <2>1. e \in c .. b
    OBVIOUS
  <2>2. QED
    BY <2>1, NumberEndIs
<1>3. ~(\A d \in c .. IF Cell(c) \in kinds THEN e ELSE c : Cell(d) # "digit")
  OBVIOUS
<1>4. ~(c > b)
  OBVIOUS
<1>5. Number(At(a, v), b, f, kinds) = [At(a, v) EXCEPT !.at = e, !.values[f] = <<c, e>>]
  BY <1>1, <1>2, <1>3, <1>4 DEF Number, At
<1>6. QED
  BY <1>5 DEF At, With

\* A separator is passed.
Separator(c) == Cell(c) = ","

LEMMA DummyPasses ==
    ASSUME NEW a \in Nat, NEW b \in Nat, NEW v, a < b, Separator(a + 1)
    PROVE  Dummy(At(a, v), b) = At(a + 1, v)
<1>1. Skip(a, b) = a + 1
  <2>1. ~Blank(a + 1)
    BY DEF Blank, Separator
  <2>2. a + 1 \in a + 1 .. b + 1 /\ \A d \in a + 1 .. (a + 1) - 1 : Blank(d)
    OBVIOUS
  <2>3. QED
    BY <2>1, <2>2, SkipIs
<1>2. ~(a + 1 > b)
  OBVIOUS
<1>3. Dummy(At(a, v), b) = [At(a, v) EXCEPT !.at = a + 1]
  BY <1>1, <1>2 DEF Dummy, At
<1>4. QED
  BY <1>3 DEF At

\* A buffer that begins with line n, or with the LF before it, and holds it to its end, has
\* the four values of line n, whatever comes after it.
LEMMA WholeLine ==
    ASSUME NEW n \in Nat, NEW a \in Nat, NEW b \in Nat, a \in {14 * n, 14 * n - 1},
           14 * n + 14 <= b, NEW S, values \in [DOMAIN Field -> S], Extract(a, b)
    PROVE  values' = ValuesOf(n)
<1>. DEFINE s == 14 * n
<1>1. /\ s \in Nat /\ s % 14 = 0
  OBVIOUS
<1>2. /\ Cell(s + 1) = "digit" /\ Cell(s + 2) = "digit" /\ Cell(s + 3) = ","
      /\ Cell(s + 4) = "digit" /\ Cell(s + 5) = "digit" /\ Cell(s + 6) = ","
      /\ Cell(s + 7) = "digit" /\ Cell(s + 8) = "." /\ Cell(s + 9) = "digit"
      /\ Cell(s + 10) = "," /\ Cell(s + 11) = "digit" /\ Cell(s + 12) = "digit"
      /\ Cell(s + 13) = "CR"
  <2>. HIDE DEF s
  <2>1. ASSUME NEW d \in s + 1 .. s + 14
        PROVE  Cell(d) = Line[d - s]
    <3>1. ((d - 1) % 14) + 1 = d - s
      BY <1>1
    <3>2. QED
      BY <3>1, LineEnds DEF Cell
  <2>2. /\ Line[1] = "digit" /\ Line[2] = "digit" /\ Line[3] = "," /\ Line[4] = "digit"
        /\ Line[5] = "digit" /\ Line[6] = "," /\ Line[7] = "digit" /\ Line[8] = "."
        /\ Line[9] = "digit" /\ Line[10] = "," /\ Line[11] = "digit" /\ Line[12] = "digit"
        /\ Line[13] = "CR"
    BY DEF Line
  <2>3. ASSUME NEW k \in 1 .. 14
        PROVE  Cell(s + k) = Line[k]
    <3>1. s + k \in s + 1 .. s + 14 /\ (s + k) - s = k
      BY <1>1
    <3>2. QED
      BY <2>1, <3>1
  <2>4. /\ Cell(s + 1) = Line[1] /\ Cell(s + 2) = Line[2] /\ Cell(s + 3) = Line[3]
        /\ Cell(s + 4) = Line[4] /\ Cell(s + 5) = Line[5] /\ Cell(s + 6) = Line[6]
        /\ Cell(s + 7) = Line[7] /\ Cell(s + 8) = Line[8] /\ Cell(s + 9) = Line[9]
        /\ Cell(s + 10) = Line[10] /\ Cell(s + 11) = Line[11] /\ Cell(s + 12) = Line[12]
        /\ Cell(s + 13) = Line[13]
    <3>1. \A k \in 1 .. 14 : Cell(s + k) = Line[k]
      BY <2>3
    <3>2. /\ 1 \in 1 .. 14 /\ 2 \in 1 .. 14 /\ 3 \in 1 .. 14 /\ 4 \in 1 .. 14
          /\ 5 \in 1 .. 14 /\ 6 \in 1 .. 14 /\ 7 \in 1 .. 14 /\ 8 \in 1 .. 14
          /\ 9 \in 1 .. 14 /\ 10 \in 1 .. 14 /\ 11 \in 1 .. 14 /\ 12 \in 1 .. 14
          /\ 13 \in 1 .. 14
      OBVIOUS
    <3>3. QED
      BY <3>1, <3>2, Zenon
  <2>5. QED
    BY <2>2, <2>4
<1>3. \A d \in a + 1 .. s : Blank(d)
  BY <1>1, LineEnds DEF Blank
<1>4. a < s + 1 /\ s + 14 <= b
  BY <1>1
<1>. HIDE DEF s
<1>5. Comes(a, b, s + 1, s + 2, {"digit"})
  <2>1. /\ \A d \in s + 1 .. s + 2 : d = s + 1 \/ d = s + 2
        /\ (s + 2) + 1 = s + 3
        /\ (s + 1) - 1 = s
    BY <1>1
  <2>2. /\ \A d \in s + 1 .. s + 2 : Cell(d) \in {"digit"}
        /\ Cell((s + 2) + 1) \notin {"digit"}
    BY <1>2, <2>1
  <2>3. \A d \in a + 1 .. (s + 1) - 1 : Blank(d)
    BY <1>3, <2>1
  <2>4. /\ a \in Nat /\ s + 1 \in Nat /\ s + 2 \in Nat
        /\ a < s + 1 /\ s + 1 <= s + 2 /\ s + 2 < b
    BY <1>1, <1>4
  <2>5. QED
    BY <1>2, <2>2, <2>3, <2>4 DEF Comes
<1>6. Comes(s + 3, b, s + 4, s + 5, {"digit"})
  <2>1. /\ \A d \in s + 4 .. s + 5 : d = s + 4 \/ d = s + 5
        /\ (s + 5) + 1 = s + 6
        /\ \A d \in (s + 3) + 1 .. (s + 4) - 1 : FALSE
    BY <1>1
  <2>2. /\ \A d \in s + 4 .. s + 5 : Cell(d) \in {"digit"}
        /\ Cell((s + 5) + 1) \notin {"digit"}
    BY <1>2, <2>1
  <2>3. \A d \in (s + 3) + 1 .. (s + 4) - 1 : Blank(d)
    BY <2>1
  <2>4. /\ s + 3 \in Nat /\ s + 4 \in Nat /\ s + 5 \in Nat
        /\ s + 3 < s + 4 /\ s + 4 <= s + 5 /\ s + 5 < b
    BY <1>1, <1>4
  <2>5. QED
    BY <1>2, <2>2, <2>3, <2>4 DEF Comes
<1>7. Comes(s + 6, b, s + 7, s + 9, {"digit", "."})
  <2>1. /\ \A d \in s + 7 .. s + 9 : d = s + 7 \/ d = s + 8 \/ d = s + 9
        /\ (s + 9) + 1 = s + 10
        /\ \A d \in (s + 6) + 1 .. (s + 7) - 1 : FALSE
    BY <1>1
  <2>2. /\ \A d \in s + 7 .. s + 9 : Cell(d) \in {"digit", "."}
        /\ Cell((s + 9) + 1) \notin {"digit", "."}
    BY <1>2, <2>1
  <2>3. \A d \in (s + 6) + 1 .. (s + 7) - 1 : Blank(d)
    BY <2>1
  <2>4. /\ s + 6 \in Nat /\ s + 7 \in Nat /\ s + 9 \in Nat
        /\ s + 6 < s + 7 /\ s + 7 <= s + 9 /\ s + 9 < b
    BY <1>1, <1>4
  <2>5. QED
    BY <1>2, <2>2, <2>3, <2>4 DEF Comes
<1>8. Comes(s + 10, b, s + 11, s + 12, {"digit"})
  <2>1. /\ \A d \in s + 11 .. s + 12 : d = s + 11 \/ d = s + 12
        /\ (s + 12) + 1 = s + 13
        /\ \A d \in (s + 10) + 1 .. (s + 11) - 1 : FALSE
    BY <1>1
  <2>2. /\ \A d \in s + 11 .. s + 12 : Cell(d) \in {"digit"}
        /\ Cell((s + 12) + 1) \notin {"digit"}
    BY <1>2, <2>1
  <2>3. \A d \in (s + 10) + 1 .. (s + 11) - 1 : Blank(d)
    BY <2>1
  <2>4. /\ s + 10 \in Nat /\ s + 11 \in Nat /\ s + 12 \in Nat
        /\ s + 10 < s + 11 /\ s + 11 <= s + 12 /\ s + 12 < b
    BY <1>1, <1>4
  <2>5. QED
    BY <1>2, <2>2, <2>3, <2>4 DEF Comes
<1>. DEFINE v1 == With(values, "position", <<s + 1, s + 2>>)
            v2 == With(v1, "distance", <<s + 4, s + 5>>)
            v3 == With(v2, "degrees", <<s + 7, s + 9>>)
            v4 == With(v3, "time", <<s + 11, s + 12>>)
<1>9. /\ Integer(At(a, values), b, "position") = At(s + 2, v1)
      /\ Integer(At(s + 3, v1), b, "distance") = At(s + 5, v2)
      /\ Double(At(s + 6, v2), b, "degrees") = At(s + 9, v3)
      /\ Integer(At(s + 10, v3), b, "time") = At(s + 12, v4)
  <2>1. Number(At(a, values), b, "position", {"digit"}) = At(s + 2, v1)
    BY <1>5, NumberTakes
  <2>2. Number(At(s + 3, v1), b, "distance", {"digit"}) = At(s + 5, v2)
    BY <1>6, NumberTakes
  <2>3. Number(At(s + 6, v2), b, "degrees", {"digit", "."}) = At(s + 9, v3)
    BY <1>7, NumberTakes
  <2>4. Number(At(s + 10, v3), b, "time", {"digit"}) = At(s + 12, v4)
    BY <1>8, NumberTakes
  <2>5. QED
    BY <2>1, <2>2, <2>3, <2>4 DEF Integer, Double
<1>10. /\ (s + 2) + 1 = s + 3 /\ (s + 5) + 1 = s + 6 /\ (s + 9) + 1 = s + 10
       /\ s + 2 \in Nat /\ s + 5 \in Nat /\ s + 9 \in Nat
       /\ s + 2 < b /\ s + 5 < b /\ s + 9 < b
  BY <1>1, <1>4
<1>11. /\ Dummy(At(s + 2, v1), b) = At(s + 3, v1)
       /\ Dummy(At(s + 5, v2), b) = At(s + 6, v2)
       /\ Dummy(At(s + 9, v3), b) = At(s + 10, v3)
  <2>1. /\ Separator((s + 2) + 1) /\ Separator((s + 5) + 1) /\ Separator((s + 9) + 1)
    BY <1>2, <1>10 DEF Separator
  <2>2. \A v : Dummy(At(s + 2, v), b) = At((s + 2) + 1, v)
    BY <1>10, <2>1, DummyPasses
  <2>3. \A v : Dummy(At(s + 5, v), b) = At((s + 5) + 1, v)
    BY <1>10, <2>1, DummyPasses
  <2>4. \A v : Dummy(At(s + 9, v), b) = At((s + 9) + 1, v)
    BY <1>10, <2>1, DummyPasses
  <2>. HIDE DEF v1, v2, v3
  <2>5. QED
    BY <1>10, <2>2, <2>3, <2>4
<1>12. values' = v4
  <2>1. values' = At(s + 12, v4).values
    <3>. HIDE DEF v1, v2, v3, v4
    <3>1. QED
      BY <1>9, <1>11 DEF Extract, At
  <2>2. QED
    BY <2>1 DEF At
<1>13. v4 = ValuesOf(n)
  <2>1. DOMAIN Field = {"position", "distance", "degrees", "time"}
    BY DEF Field
  <2>2. /\ v4["position"] = <<s + 1, s + 2>> /\ v4["distance"] = <<s + 4, s + 5>>
        /\ v4["degrees"] = <<s + 7, s + 9>> /\ v4["time"] = <<s + 11, s + 12>>
    BY <2>1 DEF With
  <2>3. /\ ValuesOf(n)["position"] = <<s + 1, s + 2>>
        /\ ValuesOf(n)["distance"] = <<s + 4, s + 5>>
        /\ ValuesOf(n)["degrees"] = <<s + 7, s + 9>>
        /\ ValuesOf(n)["time"] = <<s + 11, s + 12>>
    BY LineEnds DEF ValuesOf, FieldOf, Field, s
  <2>4. /\ v4 = [f \in DOMAIN Field |-> v4[f]]
        /\ ValuesOf(n) = [f \in DOMAIN Field |-> ValuesOf(n)[f]]
    BY DEF ValuesOf, With
  <2>. HIDE DEF v4
  <2>5. \A f \in DOMAIN Field : v4[f] = ValuesOf(n)[f]
    BY <2>1, <2>2, <2>3
  <2>6. QED
    BY <2>4, <2>5
<1>14. QED
  BY <1>12, <1>13

-----------------------------------------------------------------------------
\* The invariant: where the rounds of a poll begin.
RoundsBegin ==
    /\ pc \in {"idle", "loop", "read"} /\ dropped \in BOOLEAN
    /\ from \in Nat /\ taken \in Nat /\ points \in Nat
    /\ pc = "loop" => taken = from
    /\ pc # "idle" /\ points = 0 => from < 14
    /\ pc # "idle" /\ points > 0 /\ ~dropped => from \in {points * 14, (points + 1) * 14}
    /\ pc = "loop" /\ points > 0 /\ ~dropped =>
        /\ taken \in {points * 14, (points + 1) * 14}
        /\ points > 1 => began = taken - 14

\* Before the first poll.
LEMMA InitRounds == Init => RoundsBegin
<1> SUFFICES ASSUME Init
             PROVE  RoundsBegin
  OBVIOUS
<1>1. pc = "idle" /\ dropped \in BOOLEAN /\ points = 0
  BY DEF Init
<1>2. from \in 0 .. 13 /\ taken = from
  BY LineEnds DEF Init
<1>3. QED
  BY <1>1, <1>2 DEF RoundsBegin

\* A round moves the beginning of the next one by a line, unless it drops one.
LEMMA PointRounds == ASSUME RoundsBegin, Point PROVE RoundsBegin'
<1>1. /\ pc = "read" /\ pc' = "loop" /\ HasLine(from, taken)
      /\ points' = points + 1 /\ from' = taken /\ taken' = taken /\ began' = from
      /\ dropped' = (dropped \/ HasLine(from, taken - 1))
  BY DEF Point, Counted
<1>2. from \in Nat /\ taken \in Nat /\ points \in Nat /\ dropped \in BOOLEAN
  BY DEF RoundsBegin
<1>3. dropped' \in BOOLEAN
  BY <1>1, <1>2 DEF HasLine
<1>4. ASSUME ~dropped'
      PROVE  /\ taken \in {(points + 1) * 14, (points + 2) * 14}
             /\ points > 0 => from = taken - 14
  <2>1. /\ taken % 14 = 0
        /\ \A k \in Nat : k % 14 = 0 /\ from < k - 1 => taken <= k
    BY <1>1, <1>2, <1>4, FirstLine
  <2>2. from < taken - 1
    BY <1>1, <1>2 DEF HasLine
  <2>3. CASE points = 0
    <3>1. from < 14
      BY <1>1, <2>3 DEF RoundsBegin
    <3>2. taken <= 28
      BY <1>2, <2>1, <3>1
    <3>3. QED
      BY <1>2, <2>1, <2>2, <2>3, <3>2
  <2>4. CASE points > 0
    <3>1. from \in {points * 14, (points + 1) * 14}
      BY <1>1, <1>4, <2>4 DEF RoundsBegin
    <3>2. from + 14 \in Nat /\ (from + 14) % 14 = 0 /\ from < (from + 14) - 1
      BY <1>2, <3>1
    <3>3. taken <= from + 14
      BY <2>1, <3>2
    <3>4. QED
      BY <1>2, <2>1, <2>2, <3>1, <3>3
  <2>5. QED
    BY <1>2, <2>3, <2>4
<1>5. QED
  BY <1>1, <1>2, <1>3, <1>4, LineEnds DEF RoundsBegin

\* The other steps leave the beginning of a round alone, or begin a new poll.
LEMMA NextRounds == RoundsBegin /\ [Next]_vars => RoundsBegin'
<1> SUFFICES ASSUME RoundsBegin, [Next]_vars
             PROVE  RoundsBegin'
  OBVIOUS
<1>. USE DEF RoundsBegin, history
<1>1. CASE poll
  <2>1. pc' = "loop" /\ points' = 0 /\ dropped' \in BOOLEAN
    BY <1>1 DEF poll
  <2>2. from' \in 0 .. 13 /\ taken' = from'
    <3>1. from' = from % 14 /\ taken' = from'
      BY <1>1, LineEnds DEF poll
    <3>2. QED
      BY <3>1
  <2>3. QED
    BY <2>1, <2>2
<1>2. CASE Return
  BY <1>2 DEF Return
<1>3. CASE BeginRound
  BY <1>3 DEF BeginRound
<1>4. CASE ReadSome
  BY <1>4, ChunkAssumption DEF ReadSome
<1>5. CASE Point
  BY <1>5, PointRounds
<1>6. CASE ReadFails
  BY <1>6 DEF ReadFails
<1>7. CASE close
  BY <1>7 DEF close
<1>8. CASE UNCHANGED vars
  BY <1>8 DEF vars
<1>9. QED
  BY <1>1, <1>2, <1>3, <1>4, <1>5, <1>6, <1>7, <1>8 DEF Next, Poll

-----------------------------------------------------------------------------
(***************************************************************************)
(* The types of a poll, and what its rounds take.                          *)
(***************************************************************************)
\* A buffer that begins with a line, or with the LF of one, and holds the end of a line
\* holds that line.
LEMMA AtLineHoldsLine ==
    ASSUME NEW a \in Nat, NEW b \in Nat, AtLine(a), HasLine(a, b)
    PROVE  LET n == (a + 1) \div 14
           IN  n \in Nat /\ a \in {14 * n, 14 * n - 1} /\ 14 * n + 14 <= b
<1>. DEFINE n == (a + 1) \div 14
<1>1. a % 14 \in {0, 13}
  BY LineEnds DEF AtLine
<1>2. n \in Nat /\ a \in {14 * n, 14 * n - 1}
  BY <1>1
<1>3. PICK c \in a + 1 .. b - 1 : Cell(c) = "CR"
  BY DEF HasLine
<1>4. c \in Nat \ {0}
  BY <1>3
<1>5. c % 14 = 13
  BY <1>3, <1>4, LineEnds
<1>. HIDE DEF n
<1>6. 14 * n + 14 <= b
  BY <1>2, <1>3, <1>5
<1>7. QED
  BY <1>2, <1>6 DEF n

\* It then gives the four values of that line.
LEMMA ExtractsLine ==
    ASSUME NEW a \in Nat, NEW b \in Nat, AtLine(a), HasLine(a, b),
           NEW S, values \in [DOMAIN Field -> S], Extract(a, b)
    PROVE  values' = ValuesOf((a + 1) \div 14)
BY AtLineHoldsLine, WholeLine

\* The position of a line is an index.
LEMMA PositionIsIndex ==
    ASSUME NEW n \in Nat
    PROVE  IsIndex(ValuesOf(n).position)
<1>1. ValuesOf(n).position = <<1 + n * 14, 2 + n * 14>>
  BY LineEnds DEF ValuesOf, FieldOf, Field
<1>2. Field.position[1] = 1
  BY DEF Field
<1>3. 1 + n * 14 > 0 /\ (((1 + n * 14) - 1) % 14) + 1 = 1
  OBVIOUS
<1>4. QED
  BY <1>1, <1>2, <1>3, LineEnds DEF IsIndex

\* The bound leaves room for a line.
LEMMA Room == MaxCells \in Nat /\ MaxCells >= 28
<1>1. \A p \in Nat \ {0}, k \in Nat \ {0} : (p + 1) * (14 + k) \in Nat /\ (p + 1) * (14 + k) >= 28
  <2>1. TAKE p \in Nat \ {0}, k \in Nat \ {0}
  <2>2. (p + 1) * (14 + k) = p * (14 + k) + (14 + k)
    OBVIOUS
  <2>3. p * (14 + k) = (p - 1) * (14 + k) + (14 + k)
    OBVIOUS
  <2>4. p - 1 \in Nat /\ 14 + k \in Nat
    OBVIOUS
  <2>5. \A x, y \in Nat : x * y \in Nat
    OBVIOUS
  <2>6. (p - 1) * (14 + k) \in Nat
    BY <2>4, <2>5
  <2>7. QED
    BY <2>2, <2>3, <2>6
<1>2. QED
  BY <1>1, LineEnds, PointsAssumption, ChunkAssumption DEF MaxCells

\* The inductive invariant: a round is only begun for a point that is missing.
Inductive ==
    /\ TypeOK
    /\ RoundsBegin
    /\ pc = "read" => points < PollPoints
    /\ LineSpeaksForItself
    /\ StraysOnlyAfterCut

\* Before the first poll.
LEMMA InitInductive == Init => Inductive
<1> SUFFICES ASSUME Init
             PROVE  Inductive
  OBVIOUS
<1>1. \A v \in {-1, 0} : <<v, v>> \in Cells \X Cells
  BY Room DEF Cells
<1>2. Garbage \in Cells \X Cells /\ Uninitialised \in [DOMAIN Field -> Cells \X Cells]
  BY <1>1 DEF Garbage, Uninitialised
<1>3. from \in Cells /\ taken \in Cells /\ began \in Cells /\ from <= taken
  BY LineEnds, Room DEF Init, Cells
<1>4. 0 \in 0 .. PollPoints
  BY PointsAssumption
<1>5. TypeOK
  BY <1>2, <1>3, <1>4 DEF Init, TypeOK
<1>6. QED
  BY <1>5, InitRounds DEF Init, Inductive, LineSpeaksForItself, StraysOnlyAfterCut

\* A round that takes a line apart.
LEMMA PointInductive == ASSUME Inductive, Point PROVE Inductive'
<1>1. /\ pc = "read" /\ pc' = "loop" /\ HasLine(from, taken) /\ Extract(from, taken)
      /\ points' = points + 1 /\ from' = taken /\ taken' = taken /\ began' = from
      /\ dropped' = (dropped \/ HasLine(from, taken - 1))
      /\ UNCHANGED shutting_down
  BY DEF Point, Counted
<1>2. /\ point' = <<values'.position, values'.distance>>
      /\ time_increment' = values'.degrees /\ rpms' = values'.degrees
      /\ strayed' = (strayed \/ ~IsIndex(values'.position))
      /\ cut' = (cut \/ ~AtLine(from))
  BY DEF Point
<1>3. /\ from \in Nat /\ taken \in Nat /\ from \in Cells /\ taken \in Cells
      /\ from \in 0 .. taken /\ taken \in 0 .. MaxCells
      /\ points \in 0 .. PollPoints /\ points < PollPoints
      /\ values \in [DOMAIN Field -> Cells \X Cells]
  BY <1>1, Room DEF Inductive, TypeOK, RoundsBegin, Cells
<1>4. RoundsBegin'
  BY PointRounds DEF Inductive
<1>5. values' \in [DOMAIN Field -> Cells \X Cells]
  BY <1>1, <1>3, Room, ExtractType
<1>6. /\ values'.position \in Cells \X Cells /\ values'.distance \in Cells \X Cells
      /\ values'.degrees \in Cells \X Cells
  BY <1>5 DEF Field
<1>7. TypeOK'
  <2>1. dropped' \in BOOLEAN /\ strayed' \in BOOLEAN /\ cut' \in BOOLEAN
    BY <1>1, <1>2 DEF Inductive, TypeOK, HasLine, IsIndex, AtLine
  <2>2. points' \in 0 .. PollPoints
    BY <1>1, <1>3, PointsAssumption
  <2>3. point' \in (Cells \X Cells) \X (Cells \X Cells)
        /\ time_increment' \in Cells \X Cells /\ rpms' \in Cells \X Cells
    BY <1>2, <1>6
  <2>4. /\ pc' \in {"idle", "loop", "read"} /\ shutting_down' \in BOOLEAN
        /\ from' \in Cells /\ taken' \in Cells /\ from' <= taken' /\ began' \in Cells
    BY <1>1, <1>3 DEF Inductive, TypeOK
  <2>5. QED
    BY <1>5, <2>1, <2>2, <2>3, <2>4 DEF TypeOK
<1>8. ASSUME AtLine(from)
      PROVE  /\ values' = ValuesOf((from + 1) \div 14)
             /\ (from + 1) \div 14 \in Nat
  BY <1>1, <1>3, <1>8, ExtractsLine, AtLineHoldsLine
<1>9. LineSpeaksForItself'
  <2>1. AtLine(began)' => AtLine(from)
    BY <1>1 DEF AtLine
  <2>2. ValuesOf((began + 1) \div Len(Line))' = ValuesOf((from + 1) \div 14)
    BY <1>1, LineEnds DEF ValuesOf
  <2>3. QED
    BY <1>8, <2>1, <2>2 DEF LineSpeaksForItself
<1>10. StraysOnlyAfterCut'
  <2>1. AtLine(from) => IsIndex(values'.position)
    BY <1>8, PositionIsIndex
  <2>2. QED
    BY <1>2, <2>1 DEF Inductive, StraysOnlyAfterCut
<1>11. QED
  BY <1>1, <1>4, <1>7, <1>9, <1>10 DEF Inductive

\* The other steps write no point; a new poll has its values to read yet.
LEMMA NextInductive == Inductive /\ [Next]_vars => Inductive'
<1> SUFFICES ASSUME Inductive, [Next]_vars
             PROVE  Inductive'
  OBVIOUS
<1>1. RoundsBegin'
  BY NextRounds DEF Inductive
<1>. USE DEF Inductive, TypeOK, LineSpeaksForItself, StraysOnlyAfterCut, scan, history
<1>2. CASE poll
  <2>1. from' = from % 14 /\ taken' = from' /\ began' = from' /\ from \in Nat
    BY <1>2, LineEnds DEF poll, RoundsBegin
  <2>2. from' \in Cells /\ taken' \in Cells /\ began' \in Cells /\ from' <= taken'
    BY <2>1, Room DEF Cells
  <2>3. <<-1, -1>> \in Cells \X Cells /\ <<0, 0>> \in Cells \X Cells
    BY Room DEF Cells
  <2>4. values' \in [DOMAIN Field -> Cells \X Cells] /\ rpms' \in Cells \X Cells
    BY <1>2, <2>3 DEF poll, Uninitialised, Garbage, Zero
  <2>5. points' = 0 /\ points' \in 0 .. PollPoints
    BY <1>2, PointsAssumption DEF poll
  <2>6. /\ pc' = "loop" /\ dropped' = FALSE
        /\ UNCHANGED <<shutting_down, point, time_increment, strayed, cut>>
    BY <1>2 DEF poll
  <2>7. TypeOK'
    BY <2>2, <2>4, <2>5, <2>6
  <2>8. LineSpeaksForItself' /\ StraysOnlyAfterCut'
    BY <2>5, <2>6
  <2>9. QED
    BY <1>1, <2>6, <2>7, <2>8
<1>3. CASE Return
  BY <1>1, <1>3 DEF Return
<1>4. CASE BeginRound
  <2>1. points < PollPoints
    BY <1>4, PointsAssumption DEF BeginRound, ScanReady
  <2>2. QED
    BY <1>1, <1>4, <2>1 DEF BeginRound
<1>5. CASE ReadSome
  <2>1. taken' \in Cells /\ from <= taken'
    BY <1>5, Room, ChunkAssumption DEF ReadSome, Cells, RoundsBegin
  <2>2. QED
    BY <1>1, <1>5, <2>1 DEF ReadSome
<1>6. CASE Point
  BY <1>6, PointInductive
<1>7. CASE ReadFails
  <2>1. from' = taken /\ taken' = taken /\ taken \in Cells /\ taken <= taken
    BY <1>7 DEF ReadFails, RoundsBegin
  <2>2. QED
    BY <1>1, <1>7, <2>1 DEF ReadFails
<1>8. CASE close
  BY <1>1, <1>8 DEF close
<1>9. CASE UNCHANGED vars
  BY <1>1, <1>9 DEF vars
<1>10. QED
  BY <1>2, <1>3, <1>4, <1>5, <1>6, <1>7, <1>8, <1>9 DEF Next, Poll

THEOREM InductiveHolds == Spec => []Inductive
BY InitInductive, NextInductive, PTL DEF Spec

-----------------------------------------------------------------------------
\* Every variable keeps its type: the cells a round takes its numbers from are cells of the
\* stream, and a poll never writes more than PollPoints points.
THEOREM TypeCorrect == Spec => []TypeOK
<1>1. Inductive => TypeOK
  BY DEF Inductive
<1>2. QED
  BY <1>1, InductiveHolds, PTL

\* A round whose buffer begins with a line takes that line's four values and no others:
\* for every amount a read may bring beyond it.
THEOREM LineSpeaks == Spec => []LineSpeaksForItself
<1>1. Inductive => LineSpeaksForItself
  BY DEF Inductive
<1>2. QED
  BY <1>1, InductiveHolds, PTL

\* Nothing but a position, or a part of one, is an index into the 360 cells until a buffer
\* begins inside a line.
THEOREM StraysAfterCut == Spec => []StraysOnlyAfterCut
<1>1. Inductive => StraysOnlyAfterCut
  BY DEF Inductive
<1>2. QED
  BY <1>1, InductiveHolds, PTL

\* A poll whose reads bring no more than the rest of their line loses no line, and takes each
\* whole: for every number of points and however its reads cut the lines.
THEOREM PacedLinesKept == Spec => []PacedLinesAreKept
<1>1. Inductive => PacedLinesAreKept
  <2> SUFFICES ASSUME Inductive, pc = "loop", points > 0, ~dropped
               PROVE  /\ taken \in {points * 14, (points + 1) * 14}
                      /\ points > 1 => began = taken - 14 /\ values = ValuesOf(began \div 14)
    BY LineEnds DEF PacedLinesAreKept
  <2>1. /\ taken \in {points * 14, (points + 1) * 14}
        /\ points > 1 => began = taken - 14
        /\ points \in Nat
    BY DEF Inductive, RoundsBegin
  <2>2. ASSUME points > 1
        PROVE  values = ValuesOf(began \div 14)
    <3>1. began \in {(points - 1) * 14, points * 14}
      BY <2>1, <2>2
    <3>2. began % 14 = 0 /\ (began + 1) \div 14 = began \div 14
      BY <2>1, <3>1
    <3>3. QED
      BY <3>2, LineEnds DEF Inductive, LineSpeaksForItself, AtLine
  <2>3. QED
    BY <2>1, <2>2
<1>2. QED
  BY <1>1, InductiveHolds, PTL

=============================================================================
