------------------------------ MODULE Terminal ------------------------------
(***************************************************************************)
(* The text-mode terminal: class framebuffer_terminal of                   *)
(* lib/io/BIOSVideoIO.cpp and include/devices/BIOSVideoIO.hpp.             *)
(*                                                                         *)
(* A terminal is a record of the members _row, _column, _color, _fullLine  *)
(* and of the framebuffer cells (character and colour) row by row.  Each   *)
(* method is an operator from a terminal to the terminal it leaves, so     *)
(* that a caller that prints a whole string can compose them.              *)
(***************************************************************************)
EXTENDS Integers

CONSTANTS
    vga_height,  \* 25 in the code
    vga_width,   \* 80 in the code
    Glyphs,      \* characters putchar accepts: codes 20 to 126
    Newline,     \* '\n'
    Controls,    \* characters putchar rejects
    Blank,       \* ' ' as clear and scroll write it
    Colors,      \* values of _color
    LightGrey    \* 0x07, the colour of the constructor and of reset

ASSUME TerminalAssumption ==
    /\ vga_height \in Nat \ {0, 1}
    /\ vga_width \in Nat \ {0}
    /\ Newline \notin Glyphs \cup Controls
    /\ Glyphs \cap Controls = {}
    /\ LightGrey \in Colors

VARIABLES
    term,        \* the terminal
    ret          \* value the last method returned

vars == <<term, ret>>

Cells == 0 .. vga_height * vga_width - 1

vga_entry(c, color) == [ch |-> c, color |-> color]

(***************************************************************************)
(* memmove of the rows from lines on to the top, then blanks in the        *)
(* current colour below.                                                   *)
(***************************************************************************)
Scrolled(t, lines) ==
    [t EXCEPT !.buffer =
        [i \in Cells |->
            IF i < vga_width * (vga_height - lines)
            THEN t.buffer[i + vga_width * lines]
            ELSE vga_entry(Blank, t.color)]]

\* Mutant of NextRow: _row is not decremented after the scroll.
NextRowNoDecrement(t) ==
    IF t.row + 1 = vga_height
    THEN [Scrolled(t, 1) EXCEPT !.row = t.row + 1]
    ELSE [t EXCEPT !.row = t.row + 1]

\* if (++_row == vga_height) { scroll(1); _row--; }
NextRow(t) ==
    IF t.row + 1 = vga_height
    THEN Scrolled(t, 1)
    ELSE [t EXCEPT !.row = t.row + 1]

\* Mutant of NewlineOn: no newline is swallowed.
NewlineAlways(t) == NextRow([t EXCEPT !.column = 0, !.fullLine = FALSE])

\* '\n': a newline right after a full line is swallowed, the wrap has
\* already moved to the next row.
NewlineOn(t) ==
    IF t.fullLine
    THEN [t EXCEPT !.fullLine = FALSE]
    ELSE NextRow([t EXCEPT !.column = 0])

\* _buffer[index] = vga_entry(c, _color); a store past the last cell goes to
\* memory the screen does not show.
Store(t, index, c) ==
    IF index \in Cells
    THEN [t EXCEPT !.buffer[index] = vga_entry(c, t.color)]
    ELSE t

\* if (++_column == vga_width) { _column = 0; _fullLine = true; next row }
Advance(t) ==
    IF t.column + 1 = vga_width
    THEN NextRow([t EXCEPT !.column = 0, !.fullLine = TRUE])
    ELSE [t EXCEPT !.column = t.column + 1]

CursorIndex(t) == t.row * vga_width + t.column

\* putchar of an accepted character.
GlyphOn(t, c) ==
    Advance(Store([t EXCEPT !.fullLine = FALSE], CursorIndex(t), c))

\* putchar of any character; the rejection comes after _fullLine is cleared.
PutChar(t, c) ==
    CASE c = Newline -> NewlineOn(t)
      [] c \in Glyphs -> GlyphOn(t, c)
      [] OTHER -> [t EXCEPT !.fullLine = FALSE]

-----------------------------------------------------------------------------
Constructed(buffer) ==
    [row |-> 0, column |-> 0, color |-> LightGrey, fullLine |-> FALSE, buffer |-> buffer]

\* The constructor leaves on the screen what was there.
Init ==
    /\ \E c \in Glyphs \cup {Blank}, color \in Colors :
          term = Constructed([i \in Cells |-> vga_entry(c, color)])
    /\ ret = 0

putchar(c) ==
    /\ term' = PutChar(term, c)
    /\ ret' = IF c \in Controls THEN 1 ELSE 0

scroll(lines) ==
    /\ lines < vga_height
    /\ term' = Scrolled(term, lines)
    /\ ret' = 0

scrollRejected(lines) ==
    /\ lines >= vga_height
    /\ ret' = 1
    /\ UNCHANGED term

Outside(r, c) == r >= vga_height \/ c >= vga_width

setCursor(r, c) ==
    /\ ~Outside(r, c)
    /\ term' = [term EXCEPT !.row = r, !.column = c]
    /\ ret' = 1

setCursorRejected(r, c) ==
    /\ Outside(r, c)
    /\ ret' = 0
    /\ UNCHANGED term

setColor(color) ==
    /\ term' = [term EXCEPT !.color = color]
    /\ UNCHANGED ret

clear ==
    /\ term' = [term EXCEPT !.buffer = [i \in Cells |-> vga_entry(Blank, term.color)]]
    /\ UNCHANGED ret

reset ==
    /\ term' = Constructed(term.buffer)
    /\ UNCHANGED ret

Next ==
    \/ \E c \in Glyphs \cup Controls \cup {Newline} : putchar(c)
    \/ \E lines \in 0 .. vga_height : scroll(lines)
    \/ \E lines \in 0 .. vga_height : scrollRejected(lines)
    \/ \E r \in 0 .. vga_height, c \in 0 .. vga_width : setCursor(r, c)
    \/ \E r \in 0 .. vga_height, c \in 0 .. vga_width : setCursorRejected(r, c)
    \/ \E color \in Colors : setColor(color)
    \/ clear
    \/ reset

Spec == Init /\ [][Next]_vars

-----------------------------------------------------------------------------
TypeOK ==
    /\ term.row \in Nat
    /\ term.column \in Nat
    /\ term.color \in Colors
    /\ term.fullLine \in BOOLEAN
    /\ term.buffer \in [Cells -> [ch : Glyphs \cup {Blank}, color : Colors]]
    /\ ret \in {0, 1}

\* The cursor stands on a cell of the screen after every sequence of calls,
\* so putchar's store (BIOSVideoIO.cpp:65) never leaves the framebuffer and
\* the == tests of lines 47 and 72 cannot be stepped over.
CursorInBounds ==
    /\ term.row < vga_height
    /\ term.column < vga_width
=============================================================================
