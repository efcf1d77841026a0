------------------------------ MODULE Display ------------------------------
(***************************************************************************)
(* The display buffer and its dirty bits, src/epmw_firmware/display.c.     *)
(* A byte of the buffer holds the pixels of one column of one page, the    *)
(* lowest bit on top; drawing marks the pages it touched, and a refresh    *)
(* sends the marked pages to the panel and then clears all marks.          *)
(*                                                                         *)
(* Only ui_task draws (main calls display_init before it starts), so a     *)
(* refresh is never interleaved with drawing.  The I2C transfer of a page  *)
(* is one step.                                                            *)
(***************************************************************************)
EXTENDS Integers, Bits

CONSTANTS
    Width,          \* columns (128)
    Pages,          \* pages (8)
    PageRows,       \* bits of a byte, rows of a page (8)
    Cell,           \* bytes of a character in the font (8)
    Font,           \* the characters: [0..Cell - 1 -> byte]
    PowerUpPanels,  \* what the panel may hold before display_init
    MaxDraws        \* bound: drawing calls in a behaviour

ASSUME PanelAssumption ==
    /\ Width \in Nat /\ Cell \in 1..Width
    /\ Pages \in Nat \ {0}
    /\ PageRows \in Nat \ {0}
    /\ MaxDraws \in Nat

VARIABLES
    display_buffer, \* [page -> [column -> byte]]
    dirty,          \* dirty_bit_like_cache: the set of marked pages
    panel,          \* what the controller's memory holds, external
    refresh,        \* -1: not refreshing; pg: display_buffer_display's loop at pg
    draws           \* counts drawing calls for the bound

displayVars == <<display_buffer, dirty, panel, refresh, draws>>

PageSet == 0..(Pages - 1)
ColumnSet == 0..(Width - 1)
Height == Pages * PageRows
Byte == 0..(Shifted(PageRows) - 1)

Buffer == [PageSet -> [ColumnSet -> Byte]]

(* font_bytes is an array of uint8_t, Cell of them for a character.        *)
ASSUME FontAssumption == Font \subseteq [0..(Cell - 1) -> Byte]
ASSUME PowerUpAssumption == PowerUpPanels \subseteq Buffer

BlankBuffer == [pg \in PageSet |-> [x \in ColumnSet |-> 0]]

(* Before display_init the panel shows anything.                           *)
DisplayInit ==
    /\ display_buffer = BlankBuffer
    /\ dirty = {}
    /\ panel \in PowerUpPanels
    /\ refresh = -1
    /\ draws = -1

-----------------------------------------------------------------------------
(* Bytes                                                                   *)

(* Mutant: the lower part is cut with the wrong shift.                     *)
ReplaceBitsShifted(save_to_upper_part, amount, original, replacement) ==
    LET rest == PageRows - amount IN
    IF save_to_upper_part
    THEN (original \div Shifted(amount)) * Shifted(amount) + (replacement \div Shifted(amount))
    ELSE (replacement % Shifted(amount)) * Shifted(rest) + (original % Shifted(rest))

(* replace_bits: the lowest amount bits of the byte become the highest of  *)
(* the replacement, or its highest the lowest of the replacement.          *)
ReplaceBits(save_to_upper_part, amount, original, replacement) ==
    LET rest == PageRows - amount IN
    IF save_to_upper_part
    THEN (original \div Shifted(amount)) * Shifted(amount) + (replacement \div Shifted(rest))
    ELSE (replacement % Shifted(amount)) * Shifted(rest) + (original % Shifted(rest))

BitOf(byte, i) == (byte \div Shifted(i)) % 2

WithBit(byte, i, value) == byte + (value - BitOf(byte, i)) * Shifted(i)

-----------------------------------------------------------------------------
(* Drawing                                                                 *)

(* The bytes of a page under a character cell replaced by new[i].          *)
Overwrite(buffer, pg, x, new) ==
    [buffer EXCEPT ![pg] = [c \in ColumnSet |->
        IF c \in x..(x + Cell - 1) THEN new[c - x] ELSE buffer[pg][c]]]

CellBytes(pg, x) == [i \in 0..(Cell - 1) |-> display_buffer[pg][x + i]]

(* display_putc at a row that is a multiple of eight, and at any other.    *)
PutAligned(x, pg, glyph) ==
    /\ display_buffer' = Overwrite(display_buffer, pg, x, glyph)
    /\ dirty' = dirty \cup {pg}

(* Mutant: only the upper of the two pages is marked.                      *)
PutAcrossMarksOne(x, pg, shift, glyph) ==
    LET old(p) == CellBytes(p, x)
        upper == [i \in 0..(Cell - 1) |-> ReplaceBits(FALSE, PageRows - shift, old(pg)[i], glyph[i])]
        lower == [i \in 0..(Cell - 1) |-> ReplaceBits(TRUE, shift, old(pg + 1)[i], glyph[i])]
    IN /\ display_buffer' = Overwrite(Overwrite(display_buffer, pg, x, upper), pg + 1, x, lower)
       /\ dirty' = dirty \cup {pg}

PutAcross(x, pg, shift, glyph) ==
    LET old(p) == CellBytes(p, x)
        upper == [i \in 0..(Cell - 1) |-> ReplaceBits(FALSE, PageRows - shift, old(pg)[i], glyph[i])]
        lower == [i \in 0..(Cell - 1) |-> ReplaceBits(TRUE, shift, old(pg + 1)[i], glyph[i])]
    IN /\ display_buffer' = Overwrite(Overwrite(display_buffer, pg, x, upper), pg + 1, x, lower)
       /\ dirty' = dirty \cup {pg, pg + 1}

Inverted(glyph) == [i \in 0..(Cell - 1) |-> Shifted(PageRows) - 1 - glyph[i]]

(* display_putc and display_putc_inverted; outside the screen nothing is   *)
(* drawn.                                                                  *)
Draw(x, y, glyph) ==
    IF x > Width - Cell \/ y > Height - PageRows
    THEN UNCHANGED <<display_buffer, dirty>>
    ELSE IF y % PageRows = 0
    THEN PutAligned(x, y \div PageRows, glyph)
    ELSE PutAcross(x, y \div PageRows, y % PageRows, glyph)

CanDraw == refresh = -1 /\ draws \in 0..(MaxDraws - 1)

Drew == draws' = draws + 1 /\ UNCHANGED <<panel, refresh>>

Putc ==
    /\ CanDraw
    /\ \E x \in 0..Width, y \in 0..Height, glyph \in Font :
        Draw(x, y, glyph) \/ Draw(x, y, Inverted(glyph))
    /\ Drew

(* The rows y1..y2 of a byte of page pg set to value, one display_set_pixel *)
(* after the other.                                                        *)
Painted(byte, pg, y1, y2, value) ==
    LET after[i \in 0..PageRows] ==
          IF i = 0 THEN byte
          ELSE IF pg * PageRows + i - 1 \in y1..y2
          THEN WithBit(after[i - 1], i - 1, value) ELSE after[i - 1]
    IN after[PageRows]

(* display_set_pixel, display_draw_hline and display_draw_vline.           *)
DrawLine ==
    /\ CanDraw
    /\ \E x1, x2 \in ColumnSet, y1, y2 \in 0..(Height - 1), value \in {0, 1} :
        LET touched == {y \div PageRows : y \in y1..y2} IN
        /\ x1 <= x2 /\ y1 <= y2 /\ (x1 = x2 \/ y1 = y2)
        /\ display_buffer' = [pg \in PageSet |->
              IF pg \notin touched THEN display_buffer[pg]
              ELSE [c \in ColumnSet |->
                IF c \in x1..x2 THEN Painted(display_buffer[pg][c], pg, y1, y2, value)
                ELSE display_buffer[pg][c]]]
        /\ dirty' = dirty \cup touched
    /\ Drew

(* display_clear: at the end of display_init, and by every screen.         *)
Clear ==
    /\ refresh = -1
    /\ draws < MaxDraws
    /\ display_buffer' = BlankBuffer
    /\ dirty' = PageSet
    /\ refresh' = 0
    /\ draws' = draws + 1
    /\ UNCHANGED panel

-----------------------------------------------------------------------------
(* display_buffer_display, called by the screens, display_puts and         *)
(* display_clear                                                           *)

Refresh ==
    /\ refresh = -1
    /\ draws >= 0
    /\ refresh' = 0
    /\ UNCHANGED <<display_buffer, dirty, panel, draws>>

(* One turn of its loop.                                                   *)
SendPage ==
    /\ refresh \in PageSet
    /\ panel' = IF refresh \in dirty
                THEN [panel EXCEPT ![refresh] = display_buffer[refresh]] ELSE panel
    /\ refresh' = refresh + 1
    /\ UNCHANGED <<display_buffer, dirty, draws>>

ResetDirty ==
    /\ refresh = Pages
    /\ dirty' = {}
    /\ refresh' = -1
    /\ UNCHANGED <<display_buffer, panel, draws>>

Drawing == Putc \/ DrawLine \/ Clear

DisplayNext == Drawing \/ Refresh \/ SendPage \/ ResetDirty

DisplaySpec == DisplayInit /\ [][DisplayNext]_displayVars

-----------------------------------------------------------------------------
(* Properties                                                              *)

DisplayTypeOK ==
    /\ display_buffer \in Buffer
    /\ dirty \subseteq PageSet
    /\ panel \in Buffer
    /\ refresh \in -1..Pages
    /\ draws \in -1..MaxDraws

(* After display_init a page without its dirty bit looks on the panel as   *)
(* it does in the buffer: no refresh can leave a drawing unseen, whichever *)
(* pages were touched before it.                                           *)
UnmarkedIsShown ==
    draws >= 0 => \A pg \in PageSet \ dirty : panel[pg] = display_buffer[pg]

(* While a refresh runs, the pages behind it are shown already.            *)
RefreshProgress ==
    \A pg \in PageSet : pg < refresh => panel[pg] = display_buffer[pg]

(* The characters and lines drawn through bytes and dirty bits are the     *)
(* pixels asked for (display_putc with its bits split over two pages,      *)
(* display_putc_inverted with what display_putc leaves out of the cell,    *)
(* display_set_pixel, the lines), and nothing else on the screen moves.    *)
LitPixels(buffer) ==
    {p \in ColumnSet \X (0..(Height - 1)) :
        BitOf(buffer[p[2] \div PageRows][p[1]], p[2] % PageRows) = 1}

CellPixels == (0..(Cell - 1)) \X (0..(PageRows - 1))

GlyphPixels(glyph) ==
    {p \in CellPixels : BitOf(glyph[p[1]], p[2]) = 1}

Pic == INSTANCE Picture WITH
    Glyphs <- {GlyphPixels(g) : g \in Font} \cup {CellPixels \ GlyphPixels(g) : g \in Font},
    drawn <- LitPixels(display_buffer),
    visible <- LitPixels(panel)

ImplementsPicture == Pic!Spec
=============================================================================
