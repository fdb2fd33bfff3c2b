---------------------------- MODULE LidarScanner ----------------------------
(***************************************************************************)
(* lidarScanner: poll() reads lines "position,distance,degrees per         *)
(* second,milliseconds" CR LF from the serial port, PollPoints of them.    *)
(*                                                                         *)
(* Every round of its loop reads into a streambuf of its own up to the     *)
(* first CR LF, and whatever the last read brought beyond it is gone with  *)
(* the streambuf.  The next round may so begin inside a line.              *)
(*                                                                         *)
(* The stream is an endless repetition of Line; its cells are numbered,    *)
(* and a number that was read is the pair of its first and last cell.      *)
(* Every number has two digits, enough for it to be cut; the double has    *)
(* its point between them.  At the start of a poll the numbering is moved  *)
(* so that the stream goes on in the first line.                           *)
(***************************************************************************)
EXTENDS Integers, Sequences

CONSTANTS
    PollPoints, \* points of one scan: 10 in the code
    Chunk       \* bound: cells one read of the port may bring

ASSUME PointsAssumption == PollPoints \in Nat \ {0}
ASSUME ChunkAssumption == Chunk \in Nat \ {0}

VARIABLES
    pc,
    shutting_down,
    \* the buffer of the round is cells from + 1 .. taken of the stream
    from, taken,
    \* locals of poll; values is [position, distance, degrees, time]
    points, values,
    \* the last point poll() wrote into the scan, and what it set there
    point, time_increment, rpms,
    \* history: did a round of this poll drop cells, did any index that was not a
    \* position, or a part of one, go into the 360 cells, did any buffer begin inside
    \* a line; the cell before the last round's buffer
    dropped, strayed, cut, began

scan == <<point, time_increment, rpms>>
history == <<dropped, strayed, cut, began>>
vars == <<pc, shutting_down, from, taken, points, values, scan, history>>

-----------------------------------------------------------------------------
Line == <<"digit", "digit", ",", "digit", "digit", ",", "digit", ".", "digit", ",",
          "digit", "digit", "CR", "LF">>

Cell(c) == Line[((c - 1) % Len(Line)) + 1]

\* The cells of the four numbers of line n, counted from 0.
Field == [position |-> <<1, 2>>, distance |-> <<4, 5>>, degrees |-> <<7, 9>>, time |-> <<11, 12>>]
FieldOf(n, f) == <<Field[f][1] + n * Len(Line), Field[f][2] + n * Len(Line)>>
ValuesOf(n) == [f \in DOMAIN Field |-> FieldOf(n, f)]

Zero == <<0, 0>>
Garbage == <<-1, -1>>
Uninitialised == [f \in DOMAIN Field |-> Garbage]

\* Mutant: a line ends with its CR.
EndsAtCR(a, b) == \E c \in a + 1 .. b : Cell(c) = "CR"

\* Does the buffer of cells a + 1 .. b hold the end of a line?
HasLine(a, b) == \E c \in a + 1 .. b - 1 : Cell(c) = "CR" /\ Cell(c + 1) = "LF"

\* A buffer that begins after cell a begins with a line, or with the LF of one.
AtLine(a) == a % Len(Line) \in {0, Len(Line) - 1}

-----------------------------------------------------------------------------
(***************************************************************************)
(* istream's operator>>.  A reader is [at, ok, values]: it has used the    *)
(* cells up to at, and nothing works any more when ok is FALSE.  Blanks    *)
(* are skipped; at the end of the buffer the variable stays as it is, and  *)
(* at a cell that is no part of a number it becomes 0.                     *)
(***************************************************************************)
Blank(c) == Cell(c) \in {"CR", "LF"}

\* The first cell after a that is not blank, up to b + 1.
Skip(a, b) == CHOOSE c \in a + 1 .. b + 1 :
                  (c > b \/ ~Blank(c)) /\ \A d \in a + 1 .. c - 1 : Blank(d)

\* The last cell of the number of the given cells that begins with cell c.
NumberEnd(c, b, kinds) == CHOOSE e \in c .. b :
                              /\ \A d \in c .. e : Cell(d) \in kinds
                              /\ e = b \/ Cell(e + 1) \notin kinds

Number(r, b, f, kinds) ==
    LET c == Skip(r.at, b)
        e == NumberEnd(c, b, kinds)
    IN  IF ~r.ok \/ c > b THEN [r EXCEPT !.ok = FALSE]
        ELSE IF \A d \in c .. IF Cell(c) \in kinds THEN e ELSE c : Cell(d) # "digit"
        THEN [r EXCEPT !.ok = FALSE, !.values[f] = Zero]
        ELSE [r EXCEPT !.at = e, !.values[f] = <<c, e>>]

Integer(r, b, f) == Number(r, b, f, {"digit"})
Double(r, b, f) == Number(r, b, f, {"digit", "."})

Dummy(r, b) ==
    LET c == Skip(r.at, b)
    IN  IF ~r.ok \/ c > b THEN [r EXCEPT !.ok = FALSE] ELSE [r EXCEPT !.at = c]

\* Mutant: distance and position are taken in the other order.
ExtractSwapped(a, b) ==
    \E distance \in {Integer([at |-> a, ok |-> TRUE, values |-> values], b, "distance")} :
    \E position \in {Integer(Dummy(distance, b), b, "position")} :
    \E degrees \in {Double(Dummy(position, b), b, "degrees")} :
    \E time \in {Integer(Dummy(degrees, b), b, "time")} : values' = time.values

\* The seven extractions from the buffer a + 1 .. b, over the values of the round before.
Extract(a, b) ==
    \E position \in {Integer([at |-> a, ok |-> TRUE, values |-> values], b, "position")} :
    \E distance \in {Integer(Dummy(position, b), b, "distance")} :
    \E degrees \in {Double(Dummy(distance, b), b, "degrees")} :
    \E time \in {Integer(Dummy(degrees, b), b, "time")} : values' = time.values

-----------------------------------------------------------------------------
\* Bound: cells the numbering of one poll reaches, more than its rounds come to.
MaxCells == (PollPoints + 1) * (Len(Line) + Chunk)

Init ==
    /\ pc = "idle" /\ shutting_down = FALSE
    /\ from \in 0 .. Len(Line) - 1 /\ taken = from
    /\ points = 0 /\ values = Uninitialised
    /\ point = <<Garbage, Garbage>> /\ time_increment = Garbage /\ rpms = Garbage
    /\ dropped = FALSE /\ strayed = FALSE /\ cut = FALSE /\ began = from

\* A caller begins a poll; the locals are uninitialised.
poll ==
    /\ pc = "idle" /\ pc' = "loop"
    /\ from' = from % Len(Line) /\ taken' = from' /\ began' = from'
    /\ points' = 0 /\ values' = Uninitialised
    /\ rpms' = Zero
    /\ dropped' = FALSE
    /\ UNCHANGED <<shutting_down, point, time_increment, strayed, cut>>

\* Mutant: one point more.
ScanReadyLate == points > PollPoints

ScanReady == points >= PollPoints

Return ==
    /\ pc = "loop" /\ pc' = "idle"
    /\ shutting_down \/ ScanReady
    /\ UNCHANGED <<shutting_down, from, taken, points, values, scan, history>>

BeginRound ==
    /\ pc = "loop" /\ pc' = "read"
    /\ ~shutting_down /\ ~ScanReady
    /\ UNCHANGED <<shutting_down, from, taken, points, values, scan, history>>

\* read_until reads again and again, as much as there is, until there is a CR LF.
ReadSome ==
    /\ pc = "read" /\ ~HasLine(from, taken) /\ taken + Chunk <= MaxCells
    /\ taken' \in taken + 1 .. taken + Chunk
    /\ UNCHANGED <<pc, shutting_down, from, points, values, scan, history>>

\* read_until throws, out of poll(); what it has read is gone.
ReadFails ==
    /\ pc = "read" /\ pc' = "idle"
    /\ ~HasLine(from, taken)
    /\ from' = taken
    /\ UNCHANGED <<shutting_down, taken, points, values, scan, history>>

\* A number below 360: a position or a part of one.  The code does not ask; that every
\* position the device sends is below 360 is taken from the size of its scans.
IsIndex(v) ==
    \/ v = Zero
    \/ v[1] > 0 /\ ((v[1] - 1) % Len(Line)) + 1 \in {Field.position[1], Field.position[2]}

\* Mutant: the point is not counted.
CountedNot == points' = points

Counted == points' = points + 1

\* The rest of the round: the line is taken apart and the point written.
Point ==
    /\ pc = "read" /\ pc' = "loop"
    /\ HasLine(from, taken)
    /\ Extract(from, taken)
    /\ point' = <<values'.position, values'.distance>>
    /\ time_increment' = values'.degrees /\ rpms' = values'.degrees
    /\ Counted
    /\ from' = taken
    /\ dropped' = (dropped \/ HasLine(from, taken - 1))
    /\ strayed' = (strayed \/ ~IsIndex(values'.position))
    /\ cut' = (cut \/ ~AtLine(from))
    /\ began' = from
    /\ UNCHANGED <<shutting_down, taken>>

\* Another thread closes the scanner; the flag is looked at before every round.
close ==
    /\ ~shutting_down /\ shutting_down' = TRUE
    /\ UNCHANGED <<pc, from, taken, points, values, scan, history>>

Poll == Return \/ BeginRound \/ ReadSome \/ Point

Next == poll \/ Poll \/ ReadFails \/ close

Spec == Init /\ [][Next]_vars

\* The thread that polls runs, and the device goes on sending.  Nobody has to poll or close.
FairSpec == Spec /\ WF_vars(Poll)

-----------------------------------------------------------------------------
(***************************************************************************)
(* Properties.                                                             *)
(***************************************************************************)
Cells == -1 .. MaxCells

\* Every variable has a value of its type.
TypeOK ==
    /\ pc \in {"idle", "loop", "read"} /\ shutting_down \in BOOLEAN
    /\ from \in Cells /\ taken \in Cells /\ from <= taken
    /\ points \in 0 .. PollPoints
    /\ values \in [DOMAIN Field -> Cells \X Cells]
    /\ point \in (Cells \X Cells) \X (Cells \X Cells)
    /\ time_increment \in Cells \X Cells /\ rpms \in Cells \X Cells
    /\ dropped \in BOOLEAN /\ strayed \in BOOLEAN /\ cut \in BOOLEAN /\ began \in Cells

\* A round whose buffer begins with a line takes the four values from that line, whatever
\* the buffer holds beyond it and wherever that breaks off.
LineSpeaksForItself ==
    pc = "loop" /\ points > 0 /\ AtLine(began) =>
        values = ValuesOf((began + 1) \div Len(Line))

\* The index into the 360 cells is a position of the device, or a part of one, as long as
\* no buffer began inside a line.
StraysOnlyAfterCut == strayed => cut

\* As long as no read brings more than the rest of its line, none is lost: every round after
\* the first has the line that follows the one of the round before, and nothing else, and its
\* four values are those of that line.
PacedLinesAreKept ==
    pc = "loop" /\ points > 0 /\ ~dropped =>
        /\ taken \in {points * Len(Line), (points + 1) * Len(Line)}
        /\ points > 1 => /\ began = taken - Len(Line)
                         /\ values = ValuesOf(began \div Len(Line))

\* A poll returns when the device goes on sending, also one that is closed in its middle.
PollReturns == pc # "idle" ~> pc = "idle"

=============================================================================
