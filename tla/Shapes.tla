------------------------------- MODULE Shapes -------------------------------
(***************************************************************************)
(* What callers draw, and what each shape is: a set of points of the       *)
(* unbounded plane, defined by what it looks like and not by how it is     *)
(* drawn.  An operation is a record of its arguments.                      *)
(***************************************************************************)
EXTENDS Integers, Sequences, FiniteSets

CONSTANTS
    Ops,         \* what callers draw
    CELL,        \* 8, the side of a character's cell
    LINE,        \* 10, the distance of two lines of text
    Glyph(_),    \* the points of a character in its cell
    NewLine,
    Transparent  \* 0xFFFFFFFF, the background that is not painted

Abs(i) == IF i < 0 THEN -i ELSE i
Box(x, y, w, h) == (x .. x + w - 1) \X (y .. y + h - 1)
----------------------------------------------------------------------------
Filled(op) == Box(op.x, op.y, op.w, op.h)
Inner(op) == Box(op.x + 1, op.y + 1, op.w - 2, op.h - 2)

\* A rounded rectangle looks the same from all four corners: the image of
\* the point in the upper left quarter is outside the corner's square, or
\* inside the circle around the square's inner corner.
Rounded(op) ==
    LET Fold(i, from, len) == IF 2 * (i - from) < len THEN i - from ELSE len - 1 - (i - from)
        InCircle(i, j) == (op.r - i) * (op.r - i) + (op.r - j) * (op.r - j) <= op.r * op.r
    IN  {p \in Filled(op) : LET i == Fold(p[1], op.x, op.w)
                                j == Fold(p[2], op.y, op.h)
                            IN  i >= op.r \/ j >= op.r \/ InCircle(i, j)}

\* The straight lines between two points: along the longer axis one point
\* per step, each of them as near to the line as a point can be.
Lines(op) ==
    LET dx    == op.x1 - op.x0
        dy    == op.y1 - op.y0
        n     == IF Abs(dx) >= Abs(dy) THEN Abs(dx) ELSE Abs(dy)
        Cross(p) == Abs(dx * (p[2] - op.y0) - dy * (p[1] - op.x0))
        Step(p) == IF Abs(dx) >= Abs(dy) THEN Abs(p[1] - op.x0) ELSE Abs(p[2] - op.y0)
        Lo(a, b) == IF a < b THEN a ELSE b
        near  == {p \in Box(Lo(op.x0, op.x1), Lo(op.y0, op.y1), Abs(dx) + 1, Abs(dy) + 1) :
                      2 * Cross(p) <= n}
    IN  {S \in SUBSET near : \A k \in 0 .. n : Cardinality({p \in S : Step(p) = k}) = 1}

\* The cell of the k-th character of a text: its row counts the new lines
\* before it, its column the characters since the last of them.
Cell(op, k) ==
    LET breaks == {j \in 1 .. k - 1 : op.text[j] = NewLine}
        last   == CHOOSE j \in breaks \cup {0} : \A i \in breaks : i <= j
    IN  <<op.x + CELL * (k - 1 - last), op.y + LINE * Cardinality(breaks)>>

Printed(op) == {k \in DOMAIN op.text : op.text[k] # NewLine}
Ink(op, k) == {<<Cell(op, k)[1] + g[1], Cell(op, k)[2] + g[2]>> : g \in Glyph(op.text[k])}
Paper(op, k) == IF op.bg = Transparent THEN Ink(op, k)
                ELSE Box(Cell(op, k)[1], Cell(op, k)[2], CELL, CELL)

\* The paintings an operation may amount to: functions from points to
\* colours.  Only a line leaves a choice.
One(S, colour) == [p \in S |-> colour]

Paintings(op) ==
    CASE op.kind \in {"fill", "clear"} -> {One(Filled(op), op.colour)}
      [] op.kind = "frame" -> {One(Filled(op) \ Inner(op), op.colour)}
      [] op.kind = "round" -> {One(Rounded(op), op.colour)}
      [] op.kind = "line"  -> {One(S, op.colour) : S \in Lines(op)}
      [] op.kind = "image" ->
            {[p \in Filled(op) |-> op.image[<<p[1] - op.x, p[2] - op.y>>]]}
      [] op.kind = "text"  ->
            {[p \in UNION {Paper(op, k) : k \in Printed(op)} |->
                 IF \E k \in Printed(op) : p \in Ink(op, k) THEN op.colour ELSE op.bg]}

Painting == [op \in Ops |-> Paintings(op)]
=============================================================================
