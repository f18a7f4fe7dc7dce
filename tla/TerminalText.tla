---------------------------- MODULE TerminalText ----------------------------
(***************************************************************************)
(* A program that prints through the output stream (operator<< and         *)
(* writeString of include/klib/io.hpp hand every character to putchar) and *)
(* calls the terminal's other methods at will, against the layout a reader *)
(* expects of the text printed on a cleared terminal.                      *)
(*                                                                         *)
(* The layout is defined on the whole text at once: lines are paragraphs   *)
(* cut every vga_width characters, a paragraph that exactly fills its last *)
(* line takes no further line, and the screen shows the last lines.        *)
(***************************************************************************)
EXTENDS Terminal, Sequences

CONSTANT MaxText     \* bound on the length of the printed text

VARIABLES
    text,        \* accepted characters printed since `known' became TRUE
    known        \* whether the screen is to show that text and nothing else

textVars == <<term, ret, text, known>>

\* framebuffer_terminal(true), on whatever the BIOS left.
TextInit ==
    /\ term = Constructed([i \in Cells |-> vga_entry(Blank, LightGrey)])
    /\ ret = 0
    /\ text = <<>>
    /\ known = TRUE

\* One character of a string given to operator<<; the value putchar returns
\* is not looked at, so a rejected character is no part of the text.  A
\* rejected character clears _fullLine too: after a full line it changes where
\* a newline goes, and the layout is given up.
writeString(c) ==
    /\ Len(text) < MaxText
    /\ putchar(c)
    /\ known' = (known /\ ~(c \in Controls /\ term.fullLine))
    /\ text' = IF ~known' THEN <<>>
               ELSE IF c \in Controls THEN text
               ELSE Append(text, vga_entry(c, term.color))

recolor(color) ==
    /\ setColor(color)
    /\ UNCHANGED <<text, known>>

\* The cursor or the cells move under the text.
Moved ==
    /\ known' = FALSE
    /\ text' = <<>>

\* A refused call changes nothing.
Refused ==
    \/ \E lines \in 0 .. vga_height : scrollRejected(lines)
    \/ \E r \in 0 .. vga_height, c \in 0 .. vga_width : setCursorRejected(r, c)

\* clear with the cursor at the start, after reset say, is a new beginning.
cleared ==
    /\ clear
    /\ known' = (term.row = 0 /\ term.column = 0 /\ ~term.fullLine)
    /\ text' = <<>>

TextNext ==
    \/ \E c \in Glyphs \cup Controls \cup {Newline} : writeString(c)
    \/ \E color \in Colors : recolor(color)
    \/ \E lines \in 0 .. vga_height : scroll(lines) /\ Moved
    \/ \E r \in 0 .. vga_height, c \in 0 .. vga_width : setCursor(r, c) /\ Moved
    \/ reset /\ Moved
    \/ Refused /\ UNCHANGED <<text, known>>
    \/ cleared

TextSpec == TextInit /\ [][TextNext]_textVars

-----------------------------------------------------------------------------
\* Lines a paragraph of n characters takes.
RowsOf(n) == IF n = 0 THEN 1 ELSE (n + vga_width - 1) \div vga_width

\* The start of the k-th character's paragraph in text s, and the lines above it.
Paragraphs(s) ==
    LET par[k \in 1 .. Len(s) + 1] ==
            IF k = 1 THEN [start |-> 1, above |-> 0]
            ELSE LET p == par[k - 1]
                 IN IF s[k - 1].ch = Newline
                    THEN [start |-> k, above |-> p.above + RowsOf(k - 1 - p.start)]
                    ELSE p
    IN par

\* Line and column, from 0, of the k-th character, or of the cursor when k is
\* one past the end.
LineOf(s, k) == Paragraphs(s)[k].above + (k - Paragraphs(s)[k].start) \div vga_width

ColumnOf(s, k) == (k - Paragraphs(s)[k].start) % vga_width

LastLine == LineOf(text, Len(text) + 1)

TopLine == IF LastLine < vga_height THEN 0 ELSE LastLine - vga_height + 1

Shown == {k \in 1 .. Len(text) : text[k].ch # Newline /\ LineOf(text, k) >= TopLine}

CellOf(k) == (LineOf(text, k) - TopLine) * vga_width + ColumnOf(text, k)

\* The screen shows the last lines of the text, each character where the layout
\* puts it and in the colour it was printed in, nothing but blanks elsewhere, and
\* the cursor after the last one (BIOSVideoIO.cpp:35-107): the newline after a
\* full line is swallowed, and no other is ("prevents problem with full line and a
\* '\\n'", BIOSVideoIO.hpp:112).
ScreenShowsText ==
    known =>
    /\ term.row = LastLine - TopLine
    /\ term.column = ColumnOf(text, Len(text) + 1)
    /\ \A k \in Shown : CellOf(k) \in Cells /\ term.buffer[CellOf(k)] = text[k]
    /\ \A i \in Cells \ {CellOf(k) : k \in Shown} : term.buffer[i].ch = Blank
=============================================================================
