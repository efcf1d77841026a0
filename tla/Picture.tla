------------------------------ MODULE Picture ------------------------------
(***************************************************************************)
(* What the drawing functions of src/epmw_firmware/display.c promise their *)
(* callers: a picture of pixels that is drawn on, and the picture that can *)
(* be seen, which follows page by page.  Display implements it with bytes  *)
(* of eight pixels and one dirty bit per page.                             *)
(***************************************************************************)
EXTENDS Integers

CONSTANTS
    Width, Height,  \* of the picture, in pixels
    PageRows,       \* rows the controller is sent at once
    Cell,           \* columns of a character cell; it has PageRows rows
    Glyphs          \* sets of pixels <<column, row>> of a cell

VARIABLES
    drawn,          \* the pixels the program has lit
    visible         \* the pixels lit on the panel

vars == <<drawn, visible>>

Columns == 0..(Width - 1)
Rows == 0..(Height - 1)
Page(pg) == {p \in Columns \X Rows : p[2] \div PageRows = pg}

Init == drawn = {} /\ visible \in SUBSET (Columns \X Rows)

(* The cell of a character drawn at x, y, and its pixels.                  *)
At(x, y, pixels) == {<<x + p[1], y + p[2]>> : p \in pixels}
WholeCell == (0..(Cell - 1)) \X (0..(PageRows - 1))

(* A character that does not fit is not drawn at all.                      *)
DrawGlyph ==
    /\ \E x \in 0..(Width - Cell), y \in 0..(Height - PageRows), g \in Glyphs :
        drawn' = (drawn \ At(x, y, WholeCell)) \cup At(x, y, g)
    /\ UNCHANGED visible

(* Pixels in one row or one column.                                        *)
DrawLine ==
    /\ \E x1, x2 \in Columns, y1, y2 \in Rows :
        LET line == (x1..x2) \X (y1..y2) IN
        /\ x1 = x2 \/ y1 = y2
        /\ drawn' = drawn \cup line \/ drawn' = drawn \ line
    /\ UNCHANGED visible

Erase ==
    /\ drawn' = {}
    /\ UNCHANGED visible

Show ==
    /\ \E pg \in 0..(Height \div PageRows - 1) :
        visible' = (visible \ Page(pg)) \cup (drawn \cap Page(pg))
    /\ UNCHANGED drawn

Next == DrawGlyph \/ DrawLine \/ Erase \/ Show

Spec == Init /\ [][Next]_vars
=============================================================================
