--------------------------- MODULE TerminalProofs ---------------------------
(***************************************************************************)
(* The cursor of the terminal and the text on its screen, for every screen *)
(* size, and putchar access by access.                                     *)
(*                                                                         *)
(* CursorInBounds is inductive together with TypeOK: the tests of lines 47 *)
(* and 72 compare with ==, which is enough because the row and the column  *)
(* grow by one from inside the screen.  AccessInv says, for every place in *)
(* putchar, what its accesses have made of the terminal it was called on.  *)
(* TextInv relates the terminal to the layout of the text printed so far:  *)
(* _fullLine says that the last character filled its line, every character *)
(* still on the screen is in its cell, and all of them lie before the      *)
(* cursor, so that what putchar stores next overwrites none.               *)
(***************************************************************************)
EXTENDS TerminalIrq, TerminalText, WellFoundedInduction, TLAPS

\* The shape of a terminal record, the cursor on the screen.
Term == [row : 0 .. vga_height - 1, column : 0 .. vga_width - 1, color : Colors,
         fullLine : BOOLEAN,
         buffer : [Cells -> [ch : Glyphs \cup {Blank}, color : Colors]]]

-----------------------------------------------------------------------------
\* Multiplication by a fixed factor keeps an order.
LEMMA TimesMonotone ==
    ASSUME NEW k \in Nat, NEW m \in Nat, NEW w \in Nat, k <= m
    PROVE  k * w <= m * w
  <1>1. PICK d \in Nat : m = k + d
    <2>1. m - k \in Nat /\ m = k + (m - k)
      OBVIOUS
    <2> QED
      BY <2>1
  <1>2. m * w = k * w + d * w
    BY <1>1
  <1>3. d * w \in Nat /\ k * w \in Nat
    OBVIOUS
  <1> QED
    BY <1>2, <1>3

\* The cell under an in-bounds cursor exists, so putchar's store
\* (BIOSVideoIO.cpp:65) hits the framebuffer.
LEMMA CursorCell ==
    ASSUME NEW t \in Term PROVE CursorIndex(t) \in Cells
  <1> USE TerminalAssumption
  <1>1. t.row \in 0 .. vga_height - 1 /\ t.column \in 0 .. vga_width - 1
    BY DEF Term
  <1>2. (t.row + 1) * vga_width <= vga_height * vga_width
    BY <1>1, TimesMonotone
  <1>3. (t.row + 1) * vga_width = t.row * vga_width + vga_width
    BY <1>1
  <1>4. t.row * vga_width \in Nat /\ vga_height * vga_width \in Nat
    BY <1>1
  <1> QED
    BY <1>1, <1>2, <1>3, <1>4 DEF CursorIndex, Cells

\* scroll copies cells of the framebuffer only.
LEMMA ScrollSource ==
    ASSUME NEW lines \in 0 .. vga_height - 1, NEW i \in Cells,
           i < vga_width * (vga_height - lines)
    PROVE  i + vga_width * lines \in Cells
  <1> USE TerminalAssumption
  <1>1. vga_width * (vga_height - lines) + vga_width * lines = vga_height * vga_width
    OBVIOUS
  <1>2. vga_width * (vga_height - lines) \in Int /\ vga_width * lines \in Nat
        /\ vga_height * vga_width \in Nat
    OBVIOUS
  <1> QED
    BY <1>1, <1>2 DEF Cells

\* Moving the cursor of a terminal within the screen gives a terminal.
LEMMA MovedTerm ==
    ASSUME NEW t \in Term, NEW r \in 0 .. vga_height - 1, NEW c \in 0 .. vga_width - 1
    PROVE  /\ [t EXCEPT !.row = r, !.column = c] \in Term
           /\ [t EXCEPT !.column = c] \in Term
           /\ \A f \in BOOLEAN : [t EXCEPT !.column = c, !.fullLine = f] \in Term
  <1>1. [t EXCEPT !.column = c] \in Term
    BY DEF Term
  <1>2. \A u \in Term : [u EXCEPT !.row = r] \in Term
    BY DEF Term
  <1>3. \A u \in Term, f \in BOOLEAN : [u EXCEPT !.fullLine = f] \in Term
    BY DEF Term
  <1>4. [t EXCEPT !.row = r, !.column = c] = [[t EXCEPT !.column = c] EXCEPT !.row = r]
    BY DEF Term
  <1>5. \A f \in BOOLEAN : [t EXCEPT !.column = c, !.fullLine = f]
             = [[t EXCEPT !.column = c] EXCEPT !.fullLine = f]
    BY DEF Term
  <1> QED
    BY <1>1, <1>2, <1>3, <1>4, <1>5

LEMMA ScrolledTerm ==
    ASSUME NEW t \in Term, NEW lines \in 0 .. vga_height - 1
    PROVE  /\ Scrolled(t, lines) \in Term
           /\ Scrolled(t, lines).row = t.row
  <1> DEFINE b == [i \in Cells |->
                     IF i < vga_width * (vga_height - lines)
                     THEN t.buffer[i + vga_width * lines]
                     ELSE vga_entry(Blank, t.color)]
  <1>1. vga_entry(Blank, t.color) \in [ch : Glyphs \cup {Blank}, color : Colors]
    BY DEF vga_entry, Term
  <1>2. \A i \in Cells : i < vga_width * (vga_height - lines) =>
            t.buffer[i + vga_width * lines] \in [ch : Glyphs \cup {Blank}, color : Colors]
    BY ScrollSource DEF Term
  <1>3. b \in [Cells -> [ch : Glyphs \cup {Blank}, color : Colors]]
    BY <1>1, <1>2
  <1>4. Scrolled(t, lines) = [t EXCEPT !.buffer = b]
    BY DEF Scrolled
  <1> HIDE DEF b
  <1> QED
    BY <1>3, <1>4 DEF Term

LEMMA NextRowTerm ==
    ASSUME NEW t \in Term PROVE NextRow(t) \in Term
  <1> USE TerminalAssumption
  <1>1. CASE t.row + 1 = vga_height
    BY <1>1, ScrolledTerm DEF NextRow
  <1>2. CASE t.row + 1 # vga_height
    BY <1>2 DEF NextRow, Term
  <1> QED
    BY <1>1, <1>2

LEMMA StoreTerm ==
    ASSUME NEW t \in Term, NEW i, NEW c \in Glyphs PROVE Store(t, i, c) \in Term
  <1>1. vga_entry(c, t.color) \in [ch : Glyphs \cup {Blank}, color : Colors]
    BY DEF vga_entry, Term
  <1>2. CASE i \in Cells
    <2>1. [t.buffer EXCEPT ![i] = vga_entry(c, t.color)]
             \in [Cells -> [ch : Glyphs \cup {Blank}, color : Colors]]
      BY <1>1 DEF Term
    <2> QED
      BY <1>2, <2>1 DEF Store, Term
  <1>3. CASE i \notin Cells
    BY <1>3 DEF Store
  <1> QED
    BY <1>2, <1>3

LEMMA PutCharTerm ==
    ASSUME NEW t \in Term, NEW c PROVE PutChar(t, c) \in Term
  <1> USE TerminalAssumption
  <1>1. [t EXCEPT !.fullLine = FALSE] \in Term
    BY DEF Term
  <1>2. CASE c = Newline
    <2>1. [t EXCEPT !.column = 0] \in Term
      BY DEF Term
    <2>2. NewlineOn(t) \in Term
      BY <1>1, <2>1, NextRowTerm DEF NewlineOn
    <2> QED
      BY <1>2, <2>2 DEF PutChar
  <1>3. CASE c # Newline /\ c \in Glyphs
    <2> DEFINE u == Store([t EXCEPT !.fullLine = FALSE], CursorIndex(t), c)
    <2>1. u \in Term
      BY <1>1, <1>3, StoreTerm
    <2>2. Advance(u) \in Term
      <3> HIDE DEF u
      <3>1. CASE u.column + 1 = vga_width
        <4>0. 0 \in 0 .. vga_width - 1 /\ u.row \in 0 .. vga_height - 1
          BY <2>1 DEF Term
        <4>1. [u EXCEPT !.column = 0, !.fullLine = TRUE] \in Term
          BY <2>1, <4>0, MovedTerm
        <4> QED
          BY <3>1, <4>1, NextRowTerm DEF Advance
      <3>2. CASE u.column + 1 # vga_width
        <4>1. u.column + 1 \in 0 .. vga_width - 1
          BY <2>1, <3>2 DEF Term
        <4> QED
          BY <2>1, <3>2, <4>1, MovedTerm DEF Advance, Term
      <3> QED
        BY <3>1, <3>2
    <2> QED
      BY <1>3, <2>2 DEF PutChar, GlyphOn
  <1>4. CASE c # Newline /\ c \notin Glyphs
    BY <1>1, <1>4 DEF PutChar
  <1> QED
    BY <1>2, <1>3, <1>4

LEMMA InitTerm == Init => term \in Term /\ ret \in {0, 1}
  <1> SUFFICES ASSUME Init PROVE term \in Term
    BY DEF Init
  <1> USE TerminalAssumption
  <1>1. PICK c \in Glyphs \cup {Blank}, color \in Colors :
           term = Constructed([i \in Cells |-> vga_entry(c, color)])
    BY DEF Init
  <1>2. [i \in Cells |-> vga_entry(c, color)]
           \in [Cells -> [ch : Glyphs \cup {Blank}, color : Colors]]
    BY DEF vga_entry
  <1> QED
    BY <1>1, <1>2 DEF Constructed, Term

LEMMA StepTerm ==
    term \in Term /\ ret \in {0, 1} /\ [Next]_vars => (term \in Term /\ ret \in {0, 1})'
  <1> SUFFICES ASSUME term \in Term, ret \in {0, 1}, [Next]_vars
               PROVE  term' \in Term /\ ret' \in {0, 1}
    OBVIOUS
  <1> USE TerminalAssumption
  <1>1. ASSUME NEW c, putchar(c) PROVE term' \in Term /\ ret' \in {0, 1}
    BY <1>1, PutCharTerm DEF putchar
  <1>2. ASSUME NEW lines \in 0 .. vga_height, scroll(lines)
        PROVE  term' \in Term /\ ret' \in {0, 1}
    BY <1>2, ScrolledTerm DEF scroll
  <1>3. ASSUME NEW r \in 0 .. vga_height, NEW c \in 0 .. vga_width, setCursor(r, c)
        PROVE  term' \in Term /\ ret' \in {0, 1}
    <2>1. r \in 0 .. vga_height - 1 /\ c \in 0 .. vga_width - 1
      BY <1>3 DEF setCursor, Outside
    <2> QED
      BY <1>3, <2>1, MovedTerm DEF setCursor
  <1>4. ASSUME NEW color \in Colors, setColor(color)
        PROVE  term' \in Term /\ ret' \in {0, 1}
    BY <1>4 DEF setColor, Term
  <1>5. ASSUME clear PROVE term' \in Term /\ ret' \in {0, 1}
    <2>1. [i \in Cells |-> vga_entry(Blank, term.color)]
             \in [Cells -> [ch : Glyphs \cup {Blank}, color : Colors]]
      BY DEF vga_entry, Term
    <2> QED
      BY <1>5, <2>1 DEF clear, Term
  <1>6. ASSUME reset PROVE term' \in Term /\ ret' \in {0, 1}
    BY <1>6 DEF reset, Constructed, Term
  <1>7. ASSUME term' = term, ret' \in {0, 1} PROVE term' \in Term /\ ret' \in {0, 1}
    BY <1>7
  <1> QED
    BY <1>1, <1>2, <1>3, <1>4, <1>5, <1>6, <1>7
    DEF Next, scrollRejected, setCursorRejected, vars

LEMMA TermMeaning == term \in Term /\ ret \in {0, 1} => TypeOK /\ CursorInBounds
  BY TerminalAssumption DEF Term, TypeOK, CursorInBounds

\* After every sequence of calls the terminal is well typed and its cursor on
\* the screen, whatever the size of the screen.
THEOREM CursorAlwaysInBounds == Spec => [](TypeOK /\ CursorInBounds)
  BY InitTerm, StepTerm, TermMeaning, PTL DEF Spec

\* putchar only ever stores into the framebuffer: its index is a cell of the
\* screen in every reachable state.
THEOREM StoresStayOnScreen == Spec => [](CursorIndex(term) \in Cells)
  <1>1. Spec => [](term \in Term /\ ret \in {0, 1})
    BY InitTerm, StepTerm, PTL DEF Spec
  <1>2. term \in Term /\ ret \in {0, 1} => CursorIndex(term) \in Cells
    BY CursorCell
  <1> QED
    BY <1>1, <1>2, PTL

-----------------------------------------------------------------------------
(***************************************************************************)
(* putchar, access by access, until the first interrupt.                   *)
(***************************************************************************)
\* What becomes of a terminal t on the way of character c.
Cleared(t) == [t EXCEPT !.fullLine = FALSE]

Stored(t, c) == Store(Cleared(t), CursorIndex(t), c)

\* The terminal on which the row is to be incremented: after a newline, or
\* after the character that filled the line.
Base(t, c) ==
    IF c = Newline THEN [t EXCEPT !.column = 0]
    ELSE [Stored(t, c) EXCEPT !.column = 0, !.fullLine = TRUE]

RowAdded(t) == [t EXCEPT !.row = t.row + 1]

ColumnAdded(t) == [t EXCEPT !.column = t.column + 1]

Characters == Glyphs \cup Controls \cup {Newline}

\* Places on the way of a character, and of a newline or a filled line.
CharacterPlaces ==
    {"clearFull", "indexRow", "indexColumn", "storeCell", "loadColumn", "storeColumn",
     "testColumn", "wrap", "setFull"}

RowPlaces == {"loadRow", "storeRow", "testRow", "scroll", "loadRowDown", "storeRowDown"}

CharacterInv ==
    /\ arg # Newline
    /\ pc = "clearFull" => term = started
    /\ pc \in {"indexRow", "indexColumn", "storeCell"} => term = Cleared(started)
    /\ pc = "indexColumn" => reg = started.row * vga_width
    /\ pc \in CharacterPlaces \ {"clearFull", "indexRow", "indexColumn"} => arg \in Glyphs
    /\ pc = "storeCell" => index = CursorIndex(started)
    /\ pc \in {"loadColumn", "storeColumn"} => term = Stored(started, arg)
    /\ pc = "storeColumn" => reg = started.column
    /\ pc \in {"testColumn", "wrap"} => term = ColumnAdded(Stored(started, arg))
    /\ pc \in {"wrap", "setFull"} => started.column + 1 = vga_width
    /\ pc = "setFull" => term = [Stored(started, arg) EXCEPT !.column = 0]

RowInv ==
    /\ \/ arg = Newline /\ ~started.fullLine
       \/ arg \in Glyphs /\ arg # Newline /\ started.column + 1 = vga_width
    /\ pc \in {"loadRow", "storeRow"} => term = Base(started, arg)
    /\ pc = "storeRow" => reg = started.row
    /\ pc \in {"testRow", "scroll"} => term = RowAdded(Base(started, arg))
    /\ pc \in {"scroll", "loadRowDown", "storeRowDown"} => started.row + 1 = vga_height
    /\ pc \in {"loadRowDown", "storeRowDown"} =>
          term = Scrolled(RowAdded(Base(started, arg)), 1)
    /\ pc = "storeRowDown" => reg = started.row + 1

NewlineInv ==
    /\ arg = Newline
    /\ term = started
    /\ pc = "swallow" => started.fullLine
    /\ pc = "columnZero" => ~started.fullLine

NewlinePlaces == {"testFull", "swallow", "columnZero"}

AccessInv ==
    /\ irqs \in Nat
    /\ irqs = 0 =>
          /\ pc \in {"idle"} \cup NewlinePlaces \cup CharacterPlaces \cup RowPlaces
          /\ pc = "idle" => term \in Term
          /\ pc # "idle" => started \in Term /\ arg \in Characters
          /\ pc \in NewlinePlaces => NewlineInv
          /\ pc \in CharacterPlaces => CharacterInv
          /\ pc \in RowPlaces => RowInv

-----------------------------------------------------------------------------
LEMMA ClearedIs ==
    ASSUME NEW t \in Term
    PROVE  /\ Cleared(t) \in Term
           /\ Cleared(t).row = t.row
           /\ Cleared(t).column = t.column
  BY DEF Term, Cleared

LEMMA StoredIs ==
    ASSUME NEW t \in Term, NEW c \in Glyphs
    PROVE  /\ Stored(t, c) \in Term
           /\ Stored(t, c).row = t.row
           /\ Stored(t, c).column = t.column
  <1> DEFINE u == Cleared(t)
             i == CursorIndex(t)
  <1>1. u \in Term /\ u.row = t.row /\ u.column = t.column
    BY ClearedIs
  <1>2. Stored(t, c) = Store(u, i, c)
    BY DEF Stored
  <1> HIDE DEF u, i
  <1>3. Store(u, i, c) \in Term
    BY <1>1, StoreTerm
  <1>4. Store(u, i, c).row = u.row /\ Store(u, i, c).column = u.column
    BY <1>1 DEF Store, Term
  <1> QED
    BY <1>1, <1>2, <1>3, <1>4

\* Assignments to members that a later one overwrites, or that touch another.
LEMMA MembersApart ==
    ASSUME NEW u \in Term
    PROVE  /\ ColumnAdded(u).column = u.column + 1
           /\ [ColumnAdded(u) EXCEPT !.column = 0] = [u EXCEPT !.column = 0]
           /\ [[u EXCEPT !.column = 0] EXCEPT !.fullLine = TRUE]
                  = [u EXCEPT !.column = 0, !.fullLine = TRUE]
           /\ [u EXCEPT !.column = 0].row = u.row
           /\ [u EXCEPT !.column = 0, !.fullLine = TRUE].row = u.row
           /\ RowAdded(u).row = u.row + 1
  BY DEF Term, ColumnAdded, RowAdded

\* scroll moves cells only, so the row may be put back after it.
LEMMA ScrollThenRow ==
    ASSUME NEW u \in Term
    PROVE  /\ Scrolled(RowAdded(u), 1).row = u.row + 1
           /\ [Scrolled(RowAdded(u), 1) EXCEPT !.row = u.row] = Scrolled(u, 1)
  <1> DEFINE b == [i \in Cells |->
                     IF i < vga_width * (vga_height - 1)
                     THEN u.buffer[i + vga_width * 1]
                     ELSE vga_entry(Blank, u.color)]
  <1>1. RowAdded(u).buffer = u.buffer /\ RowAdded(u).color = u.color
    BY DEF RowAdded, Term
  <1>2. Scrolled(RowAdded(u), 1) = [RowAdded(u) EXCEPT !.buffer = b]
    BY <1>1, Zenon DEF Scrolled
  <1>3. Scrolled(u, 1) = [u EXCEPT !.buffer = b]
    BY Zenon DEF Scrolled
  <1> HIDE DEF b
  <1>4. [[RowAdded(u) EXCEPT !.buffer = b] EXCEPT !.row = u.row] = [u EXCEPT !.buffer = b]
    BY DEF RowAdded, Term
  <1>5. [RowAdded(u) EXCEPT !.buffer = b].row = u.row + 1
    BY DEF RowAdded, Term
  <1> QED
    BY <1>2, <1>3, <1>4, <1>5

LEMMA BaseIs ==
    ASSUME NEW t \in Term, NEW c \in Glyphs \cup {Newline}
    PROVE  Base(t, c) \in Term /\ Base(t, c).row = t.row
  <1>0. 0 \in 0 .. vga_width - 1 /\ t.row \in 0 .. vga_height - 1
    BY TerminalAssumption DEF Term
  <1>1. CASE c = Newline
    BY <1>0, <1>1, MovedTerm, MembersApart DEF Base
  <1>2. CASE c # Newline
    <2>1. c \in Glyphs
      BY <1>2
    <2>2. Stored(t, c) \in Term /\ Stored(t, c).row = t.row
      BY <2>1, StoredIs
    <2> QED
      BY <1>0, <1>2, <2>2, MovedTerm, MembersApart DEF Base
  <1> QED
    BY <1>1, <1>2

\* What putchar makes of a terminal, by the way it takes.
LEMMA PutCharIs ==
    ASSUME NEW t \in Term, NEW c \in Characters
    PROVE  /\ c = Newline /\ t.fullLine => PutChar(t, c) = Cleared(t)
           /\ c = Newline /\ ~t.fullLine => PutChar(t, c) = NextRow(Base(t, c))
           /\ c # Newline /\ c \notin Glyphs => PutChar(t, c) = Cleared(t)
           /\ c # Newline /\ c \in Glyphs /\ t.column + 1 # vga_width =>
                 PutChar(t, c) = ColumnAdded(Stored(t, c))
           /\ c # Newline /\ c \in Glyphs /\ t.column + 1 = vga_width =>
                 PutChar(t, c) = NextRow(Base(t, c))
  <1>1. CASE c = Newline
    <2>1. PutChar(t, c) = NewlineOn(t)
      <3>1. c \notin Glyphs
        BY <1>1, TerminalAssumption
      <3> QED
        BY <1>1, <3>1 DEF PutChar
    <2> QED
      BY <1>1, <2>1 DEF NewlineOn, Base, Cleared
  <1>2. CASE c # Newline /\ c \notin Glyphs
    BY <1>2 DEF PutChar, Cleared
  <1>3. CASE c # Newline /\ c \in Glyphs
    <2>1. PutChar(t, c) = Advance(Stored(t, c))
      BY <1>3 DEF PutChar, GlyphOn, Stored, Cleared
    <2>2. Stored(t, c).column = t.column
      BY <1>3, StoredIs
    <2> QED
      BY <1>3, <2>1, <2>2 DEF Advance, Base, ColumnAdded
  <1> QED
    BY <1>1, <1>2, <1>3

\* A step inside putchar: either it returns what the method does to the
\* terminal it was called on, or its caller sees nothing.
AddsUp ==
    /\ AccessInv'
    /\ pc' = "idle" =>
          /\ term' = PutChar(started, arg)
          /\ ret' = IF arg \in Controls THEN 1 ELSE 0
    /\ pc' # "idle" => ret' = ret /\ started' = started

LEMMA NewlineWay ==
    ASSUME AccessInv, irqs = 0, testFull \/ swallow \/ columnZero
    PROVE  AddsUp
  <1> USE DEF AccessInv, Access, Returns, NewlinePlaces, CharacterPlaces, RowPlaces
  <1>0. /\ pc \in NewlinePlaces /\ started \in Term /\ arg \in Characters /\ NewlineInv
        /\ irqs' = 0 /\ arg' = arg /\ started' = started
    BY DEF testFull, swallow, columnZero
  <1>1. Newline \notin Controls
    BY TerminalAssumption
  <1>2. CASE testFull
    BY <1>0, <1>2 DEF testFull, NewlineInv, AddsUp
  <1>3. CASE swallow
    <2>1. term' = PutChar(started, arg) /\ pc' = "idle" /\ ret' = 0
      BY <1>0, <1>3, PutCharIs DEF swallow, NewlineInv, Cleared
    <2>2. PutChar(started, arg) \in Term
      BY <1>0, PutCharTerm
    <2> QED
      BY <1>0, <1>1, <2>1, <2>2 DEF AddsUp, NewlineInv
  <1>4. CASE columnZero
    <2>1. term' = Base(started, arg) /\ pc' = "loadRow" /\ ret' = ret
      BY <1>0, <1>4 DEF columnZero, NewlineInv, Base
    <2> QED
      BY <1>0, <1>4, <2>1 DEF AddsUp, NewlineInv, RowInv, columnZero
  <1> QED
    BY <1>2, <1>3, <1>4

LEMMA RowWay ==
    ASSUME AccessInv, irqs = 0,
           loadRow \/ storeRow \/ testRow \/ scrollOne \/ loadRowDown \/ storeRowDown
    PROVE  AddsUp
  <1> DEFINE b == Base(started, arg)
  <1> USE DEF AccessInv, Access, Returns
  <1>0. /\ started \in Term /\ arg \in Characters /\ RowInv
        /\ irqs' = 0 /\ arg' = arg /\ started' = started
    BY DEF loadRow, storeRow, testRow, scrollOne, loadRowDown, storeRowDown, RowPlaces
  <1>1. arg \in Glyphs \cup {Newline} /\ arg \notin Controls
    BY <1>0, TerminalAssumption DEF RowInv
  <1>2. b \in Term /\ b.row = started.row /\ b.row \in Nat
    <2>1. b \in Term /\ b.row = started.row
      BY <1>0, <1>1, BaseIs
    <2> QED
      BY <1>0, <2>1 DEF Term
  <1>3. PutChar(started, arg) = NextRow(b) /\ PutChar(started, arg) \in Term
    BY <1>0, PutCharIs, PutCharTerm DEF RowInv
  <1> HIDE DEF b
  <1>4. CASE loadRow
    BY <1>0, <1>2, <1>4 DEF loadRow, AddsUp, RowInv, RowPlaces, NewlinePlaces, CharacterPlaces, b
  <1>5. CASE storeRow
    <2>1. term' = RowAdded(b) /\ pc' = "testRow" /\ ret' = ret
      BY <1>0, <1>2, <1>5 DEF storeRow, RowAdded, RowInv, RowPlaces, b
    <2> QED
      BY <1>0, <2>1 DEF AddsUp, RowInv, RowPlaces, NewlinePlaces, CharacterPlaces, b
  <1>6. CASE testRow
    <2>1. term = RowAdded(b) /\ term.row = started.row + 1
      BY <1>0, <1>2, <1>6, MembersApart DEF testRow, RowInv, b
    <2>2. CASE BottomPassed(term.row)
      <3>1. term' = term /\ pc' = "scroll" /\ ret' = ret /\ started.row + 1 = vga_height
        BY <1>6, <2>1, <2>2 DEF testRow, BottomPassed
      <3> QED
        BY <1>0, <2>1, <3>1 DEF AddsUp, RowInv, RowPlaces, NewlinePlaces, CharacterPlaces, b
    <2>3. CASE ~BottomPassed(term.row)
      <3>1. term' = term /\ pc' = "idle" /\ ret' = 0
        BY <1>6, <2>3 DEF testRow
      <3>2. NextRow(b) = RowAdded(b)
        BY <1>2, <2>1, <2>3 DEF BottomPassed, NextRow, RowAdded
      <3> QED
        BY <1>0, <1>1, <1>3, <2>1, <3>1, <3>2 DEF AddsUp, RowPlaces, NewlinePlaces, CharacterPlaces
    <2> QED
      BY <2>2, <2>3
  <1>7. CASE scrollOne
    <2>1. /\ term' = Scrolled(RowAdded(b), 1) /\ pc' = "loadRowDown" /\ ret' = ret
          /\ started.row + 1 = vga_height
      BY <1>0, <1>7 DEF scrollOne, RowInv, RowPlaces, b
    <2> QED
      BY <1>0, <2>1 DEF AddsUp, RowInv, RowPlaces, NewlinePlaces, CharacterPlaces, b
  <1>8. CASE loadRowDown
    <2>1. /\ term = Scrolled(RowAdded(b), 1) /\ term' = term /\ reg' = term.row
          /\ pc' = "storeRowDown" /\ ret' = ret
          /\ started.row + 1 = vga_height
      BY <1>0, <1>8 DEF loadRowDown, RowInv, RowPlaces, b
    <2>2. reg' = started.row + 1
      BY <1>2, <2>1, ScrollThenRow
    <2> QED
      BY <1>0, <2>1, <2>2 DEF AddsUp, RowInv, RowPlaces, NewlinePlaces, CharacterPlaces, b
  <1>9. CASE storeRowDown
    <2>1. /\ term = Scrolled(RowAdded(b), 1) /\ term' = [term EXCEPT !.row = reg - 1]
          /\ reg = b.row + 1 /\ b.row + 1 = vga_height
          /\ pc' = "idle" /\ ret' = 0
      BY <1>0, <1>2, <1>9 DEF storeRowDown, RowInv, RowPlaces, b
    <2>2. reg - 1 = b.row
      BY <1>2, <2>1
    <2>3. term' = Scrolled(b, 1)
      BY <1>2, <2>1, <2>2, ScrollThenRow
    <2>4. NextRow(b) = Scrolled(b, 1)
      BY <2>1 DEF NextRow
    <2> QED
      BY <1>0, <1>1, <1>3, <2>1, <2>3, <2>4 DEF AddsUp, RowPlaces, NewlinePlaces, CharacterPlaces
  <1> QED
    BY <1>4, <1>5, <1>6, <1>7, <1>8, <1>9

LEMMA CharacterWay ==
    ASSUME AccessInv, irqs = 0,
           \/ clearFull \/ indexRow \/ indexColumn \/ storeCell
           \/ loadColumn \/ storeColumn \/ testColumn \/ wrapColumn \/ setFull
    PROVE  AddsUp
  <1> DEFINE s == Stored(started, arg)
  <1> USE DEF AccessInv, Access, Returns
  <1>0. /\ started \in Term /\ arg \in Characters /\ CharacterInv /\ arg # Newline
        /\ irqs' = 0 /\ arg' = arg /\ started' = started
    BY DEF clearFull, indexRow, indexColumn, storeCell, loadColumn, storeColumn, testColumn,
           wrapColumn, setFull, CharacterPlaces, CharacterInv
  <1>1. started.row \in Nat /\ started.column \in Nat
    BY <1>0 DEF Term
  <1>2. PutChar(started, arg) \in Term
    BY <1>0, PutCharTerm
  <1>3. arg \in Glyphs => /\ s \in Term /\ s.row = started.row /\ s.column = started.column
                          /\ arg \notin Controls
    BY <1>0, StoredIs, TerminalAssumption
  <1> USE DEF CharacterInv, CharacterPlaces, RowPlaces, NewlinePlaces
  <1> HIDE DEF s
  <1>4. CASE clearFull
    <2>1. term' = Cleared(started) /\ pc' = "indexRow" /\ ret' = ret
      BY <1>0, <1>4 DEF clearFull, Cleared
    <2> QED
      BY <1>0, <2>1 DEF AddsUp
  <1>5. CASE indexRow
    <2>1. /\ term' = Cleared(started) /\ pc' = "indexColumn" /\ ret' = ret
          /\ reg' = started.row * vga_width
      BY <1>0, <1>5, ClearedIs DEF indexRow
    <2> QED
      BY <1>0, <2>1 DEF AddsUp
  <1>6. CASE indexColumn
    <2>1. /\ term = Cleared(started) /\ term' = term
          /\ index' = CursorIndex(started)
      BY <1>0, <1>6, ClearedIs DEF indexColumn, CursorIndex
    <2>2. CASE arg \in Glyphs
      BY <1>0, <1>6, <2>1, <2>2 DEF AddsUp, indexColumn
    <2>3. CASE arg \notin Glyphs
      <3>1. pc' = "idle" /\ ret' = 1 /\ arg \in Controls
        BY <1>0, <1>6, <2>3 DEF indexColumn, Characters
      <3>2. PutChar(started, arg) = Cleared(started)
        BY <1>0, <2>3, PutCharIs
      <3> QED
        BY <1>0, <1>2, <1>6, <2>1, <3>1, <3>2 DEF AddsUp
    <2> QED
      BY <2>2, <2>3
  <1>7. CASE storeCell
    <2>1. term' = s /\ pc' = "loadColumn" /\ ret' = ret /\ arg \in Glyphs
      BY <1>0, <1>7 DEF storeCell, Stored, s
    <2> QED
      BY <1>0, <2>1 DEF AddsUp, s
  <1>8. CASE loadColumn
    <2>1. /\ term' = s /\ pc' = "storeColumn" /\ ret' = ret /\ arg \in Glyphs
          /\ reg' = started.column
      BY <1>0, <1>3, <1>8 DEF loadColumn, s
    <2> QED
      BY <1>0, <2>1 DEF AddsUp, s
  <1>9. CASE storeColumn
    <2>1. term' = ColumnAdded(s) /\ pc' = "testColumn" /\ ret' = ret /\ arg \in Glyphs
      BY <1>0, <1>3, <1>9 DEF storeColumn, ColumnAdded, s
    <2> QED
      BY <1>0, <2>1 DEF AddsUp, s
  <1>10. CASE testColumn
    <2>1. /\ term = ColumnAdded(s) /\ arg \in Glyphs /\ term' = term
          /\ term.column = started.column + 1
      BY <1>0, <1>3, <1>10, MembersApart DEF testColumn, s
    <2>2. CASE LineFull(term.column)
      <3>1. pc' = "wrap" /\ ret' = ret /\ started.column + 1 = vga_width
        BY <1>10, <2>1, <2>2 DEF testColumn, LineFull
      <3> QED
        BY <1>0, <2>1, <3>1 DEF AddsUp, s
    <2>3. CASE ~LineFull(term.column)
      <3>1. pc' = "idle" /\ ret' = 0 /\ started.column + 1 # vga_width
        BY <1>10, <2>1, <2>3 DEF testColumn, LineFull
      <3>2. PutChar(started, arg) = ColumnAdded(s)
        BY <1>0, <2>1, <3>1, PutCharIs DEF s
      <3> QED
        BY <1>0, <1>2, <1>3, <2>1, <3>1, <3>2 DEF AddsUp
    <2> QED
      BY <2>2, <2>3
  <1>11. CASE wrapColumn
    <2>1. /\ arg \in Glyphs /\ started.column + 1 = vga_width
          /\ term = ColumnAdded(s) /\ term' = [term EXCEPT !.column = 0]
          /\ pc' = "setFull" /\ ret' = ret
      BY <1>0, <1>11 DEF wrapColumn, s
    <2>2. term' = [s EXCEPT !.column = 0]
      BY <1>3, <2>1, MembersApart
    <2> QED
      BY <1>0, <2>1, <2>2 DEF AddsUp, s
  <1>12. CASE setFull
    <2>1. /\ arg \in Glyphs /\ started.column + 1 = vga_width
          /\ term = [s EXCEPT !.column = 0] /\ term' = [term EXCEPT !.fullLine = TRUE]
          /\ pc' = "loadRow" /\ ret' = ret
      BY <1>0, <1>12 DEF setFull, s
    <2>2. term' = Base(started, arg)
      BY <1>0, <1>3, <2>1, MembersApart DEF Base, s
    <2> QED
      BY <1>0, <2>1, <2>2 DEF AddsUp, RowInv
  <1> QED
    BY <1>4, <1>5, <1>6, <1>7, <1>8, <1>9, <1>10, <1>11, <1>12

LEMMA CallWay ==
    ASSUME AccessInv, irqs = 0, NEW c \in Characters, call(c)
    PROVE  AccessInv' /\ started' = term /\ ret' = ret /\ pc = "idle" /\ pc' # "idle"
  <1>1. /\ irqs' = 0 /\ arg' = c /\ started' = term /\ term' = term /\ ret' = ret
        /\ pc = "idle" /\ term \in Term
        /\ pc' = IF c = Newline THEN "testFull" ELSE "clearFull"
    BY DEF AccessInv, call
  <1> QED
    BY <1>1 DEF AccessInv, NewlinePlaces, CharacterPlaces, RowPlaces, NewlineInv, CharacterInv

\* Until the first interrupt, every step of putchar adds up.
LEMMA AccessStep ==
    AccessInv /\ [IrqNext]_irqVars => AccessInv' /\ [irqs' = 0 => Whole!Next]_(Whole!vars)
  <1> SUFFICES ASSUME AccessInv, [IrqNext]_irqVars
               PROVE  AccessInv' /\ [irqs' = 0 => Whole!Next]_(Whole!vars)
    OBVIOUS
  <1>1. CASE irqs = 0 /\ \E c \in Characters : call(c)
    <2>1. PICK c \in Characters : call(c)
      BY <1>1
    <2>2. AccessInv' /\ started' = term /\ ret' = ret /\ pc = "idle" /\ pc' # "idle"
      BY <1>1, <2>1, CallWay
    <2> QED
      BY <2>2 DEF Whole!vars
  <1>2. CASE irqs = 0 /\ AddsUp /\ pc # "idle"
    <2>1. CASE pc' = "idle"
      <3>1. arg \in Characters
        BY <1>2 DEF AccessInv
      <3>2. Whole!PutChar(started, arg) = PutChar(started, arg)
        BY Zenon DEF Whole!PutChar, PutChar, Whole!NewlineOn, NewlineOn, Whole!NextRow, NextRow,
           Whole!Scrolled, Scrolled, Whole!Cells, Cells, Whole!vga_entry, vga_entry,
           Whole!GlyphOn, GlyphOn, Whole!Advance, Advance, Whole!Store, Store,
           Whole!CursorIndex, CursorIndex
      <3>3. Whole!putchar(arg)
        BY <1>2, <2>1, <3>2 DEF AddsUp, Whole!putchar
      <3>4. Whole!Next
        BY <3>1, <3>3 DEF Whole!Next, Characters
      <3> QED
        BY <1>2, <3>4 DEF AddsUp
    <2>2. CASE pc' # "idle"
      BY <1>2, <2>2 DEF AddsUp, Whole!vars
    <2> QED
      BY <2>1, <2>2
  <1>3. CASE irqs' # 0 /\ irqs' \in Nat
    BY <1>3 DEF AccessInv
  <1>4. CASE UNCHANGED irqVars
    <2>1. AccessInv'
      BY <1>4 DEF AccessInv, NewlineInv, CharacterInv, RowInv, irqVars
    <2> QED
      BY <1>4, <2>1 DEF irqVars, Whole!vars
  <1>5. CASE irqs = 0 /\ IrqNext
    <2>1. CASE testFull \/ swallow \/ columnZero
      <3>1. pc # "idle"
        BY <2>1 DEF testFull, swallow, columnZero, Access, Returns
      <3> QED
        BY <1>2, <1>5, <2>1, <3>1, NewlineWay
    <2>2. CASE loadRow \/ storeRow \/ testRow \/ scrollOne \/ loadRowDown \/ storeRowDown
      <3>1. pc # "idle"
        BY <2>2 DEF loadRow, storeRow, testRow, scrollOne, loadRowDown, storeRowDown, Access, Returns
      <3> QED
        BY <1>2, <1>5, <2>2, <3>1, RowWay
    <2>3. CASE \/ clearFull \/ indexRow \/ indexColumn \/ storeCell
               \/ loadColumn \/ storeColumn \/ testColumn \/ wrapColumn \/ setFull
      <3>1. pc # "idle"
        BY <2>3 DEF clearFull, indexRow, indexColumn, storeCell, loadColumn, storeColumn,
              testColumn, wrapColumn, setFull, Access, Returns
      <3> QED
        BY <1>2, <1>5, <2>3, <3>1, CharacterWay
    <2>4. CASE spuriousInterrupt
      <3>1. irqs' = 1
        BY <1>5, <2>4 DEF spuriousInterrupt
      <3> QED
        BY <1>3, <3>1
    <2>5. CASE \E c \in Characters : call(c)
      BY <1>1, <1>5, <2>5
    <2> QED
      BY <1>5, <2>1, <2>2, <2>3, <2>4, <2>5 DEF IrqNext, Characters
  <1>6. CASE irqs # 0 /\ IrqNext
    <2>1. irqs \in Nat /\ (irqs' = irqs \/ irqs' = irqs + 1)
      BY <1>6 DEF AccessInv, IrqNext, call, testFull, swallow, columnZero, loadRow, storeRow,
            testRow, scrollOne, loadRowDown, storeRowDown, clearFull, indexRow, indexColumn,
            storeCell, loadColumn, storeColumn, testColumn, wrapColumn, setFull,
            spuriousInterrupt, Access, Returns
    <2> QED
      BY <1>3, <1>6, <2>1
  <1> QED
    BY <1>4, <1>5, <1>6

LEMMA AccessStarts == IrqInit => AccessInv /\ Whole!Init
  <1> SUFFICES ASSUME IrqInit PROVE AccessInv /\ Whole!Init
    OBVIOUS
  <1>1. /\ term = Constructed([i \in Cells |-> vga_entry(Blank, LightGrey)])
        /\ ret = 0 /\ pc = "idle" /\ irqs = 0
    BY DEF IrqInit
  <1>2. LightGrey \in Colors /\ Blank \in Glyphs \cup {Blank}
    BY TerminalAssumption
  <1>3. Init
    BY <1>1, <1>2, Zenon DEF Init
  <1>4. AccessInv
    BY <1>1, <1>3, InitTerm DEF AccessInv, NewlinePlaces, CharacterPlaces, RowPlaces
  <1>5. Whole!Init
    BY <1>1, <1>2, Zenon DEF Whole!Init, Whole!Constructed, Constructed, Whole!Cells, Cells,
          Whole!vga_entry, vga_entry
  <1> QED
    BY <1>4, <1>5

\* On every screen size, until the first interrupt the loads and stores of
\* putchar amount to the method as one step (BIOSVideoIO.cpp:35-82).
THEOREM AccessesAlwaysAddUp == IrqSpec => AccessesAddUp
  BY AccessStarts, AccessStep, PTL DEF IrqSpec, AccessesAddUp

-----------------------------------------------------------------------------
(***************************************************************************)
(* The column under any number of interrupts.                              *)
(***************************************************************************)
\* What every character leaves true of a terminal, wherever putchar was
\* interrupted: a line is marked full only with the column back at 0.
Sound(t) ==
    /\ DOMAIN t = {"row", "column", "color", "fullLine", "buffer"}
    /\ t.column \in Nat
    /\ t.fullLine \in BOOLEAN
    /\ t.fullLine => t.column = 0

AfterClear ==
    {"indexRow", "indexColumn", "storeCell", "loadColumn", "storeColumn", "testColumn", "wrap",
     "setFull"}

ColumnInv ==
    /\ Sound(term)
    /\ term.column <= vga_width
    /\ pc \notin {"testColumn", "wrap"} => term.column < vga_width
    /\ pc \in AfterClear => ~term.fullLine
    /\ pc = "storeColumn" => reg \in 0 .. vga_width - 1
    /\ pc = "setFull" => term.column = 0

-----------------------------------------------------------------------------
LEMMA SoundIf ==
    ASSUME NEW t, DOMAIN t = {"row", "column", "color", "fullLine", "buffer"},
           t.column \in Nat, t.fullLine = FALSE \/ (t.fullLine = TRUE /\ t.column = 0)
    PROVE  Sound(t)
  BY Zenon DEF Sound

LEMMA SoundIfNot ==
    ASSUME NEW t, DOMAIN t = {"row", "column", "color", "fullLine", "buffer"},
           t.column \in Nat, t.fullLine = FALSE
    PROVE  Sound(t)
  <1>1. ~t.fullLine
    BY Zenon
  <1> QED
    BY <1>1, Zenon DEF Sound

LEMMA PutCharSound ==
    ASSUME NEW t, NEW c \in Glyphs \cup {Newline}, Sound(t)
    PROVE  /\ Sound(PutChar(t, c))
           /\ c = Newline => PutChar(t, c).column = 0 /\ ~PutChar(t, c).fullLine
  <1> DEFINE Members == {"row", "column", "color", "fullLine", "buffer"}
  <1>1. ASSUME NEW u, DOMAIN u = Members
        PROVE  /\ DOMAIN NextRow(u) = Members
               /\ NextRow(u).column = u.column
               /\ NextRow(u).fullLine = u.fullLine
    BY <1>1 DEF NextRow, Scrolled
  <1>2. CASE c = Newline
    <2>0. c \notin Glyphs
      BY <1>2, TerminalAssumption
    <2>1. PutChar(t, c) = NewlineOn(t)
      BY <1>2, <2>0 DEF PutChar
    <2>2. CASE t.fullLine
      BY <1>2, <2>1, <2>2 DEF NewlineOn, Sound
    <2>3. CASE ~t.fullLine
      <3> DEFINE u == [t EXCEPT !.column = 0]
      <3>1. DOMAIN u = Members /\ u.column = 0 /\ u.fullLine = FALSE
        BY <2>3 DEF Sound
      <3>2. PutChar(t, c) = NextRow(u)
        BY <2>1, <2>3 DEF NewlineOn
      <3> HIDE DEF u
      <3>3. /\ DOMAIN PutChar(t, c) = Members
            /\ PutChar(t, c).column = 0 /\ PutChar(t, c).fullLine = FALSE
        BY <1>1, <3>1, <3>2, Zenon
      <3>4. Sound(PutChar(t, c))
        <4>1. PutChar(t, c).column \in Nat
          BY <3>3
        <4> QED
          BY <3>3, <4>1, SoundIf, Zenon
      <3> QED
        BY <3>3, <3>4, Zenon
    <2> QED
      BY <2>2, <2>3
  <1>3. CASE c # Newline
    <2> DEFINE u == Store([t EXCEPT !.fullLine = FALSE], CursorIndex(t), c)
               w == [u EXCEPT !.column = 0, !.fullLine = TRUE]
    <2>1. PutChar(t, c) = Advance(u)
      BY <1>3 DEF PutChar, GlyphOn
    <2>2. DOMAIN u = Members /\ u.column = t.column /\ u.fullLine = FALSE
      BY DEF Sound, Store
    <2> HIDE DEF u
    <2>3. CASE u.column + 1 = vga_width
      <3>1. DOMAIN w = Members /\ w.column = 0 /\ w.fullLine = TRUE
        BY <2>2
      <3>2. PutChar(t, c) = NextRow(w)
        BY <2>1, <2>3 DEF Advance
      <3> HIDE DEF w
      <3>3. /\ DOMAIN PutChar(t, c) = Members
            /\ PutChar(t, c).column = 0 /\ PutChar(t, c).fullLine = TRUE
        BY <1>1, <3>1, <3>2, Zenon
      <3>4. Sound(PutChar(t, c))
        <4>1. PutChar(t, c).column \in Nat
          BY <3>3
        <4> QED
          BY <3>3, <4>1, SoundIf, Zenon
      <3> QED
        BY <1>3, <3>4
    <2>4. CASE u.column + 1 # vga_width
      <3>1. PutChar(t, c) = [u EXCEPT !.column = u.column + 1]
        BY <2>1, <2>4 DEF Advance
      <3> QED
        <4>1. t.column \in Nat
          BY DEF Sound
        <4>2. /\ DOMAIN PutChar(t, c) = Members
              /\ PutChar(t, c).column \in Nat
          BY <2>2, <3>1, <4>1
        <4>a. \A v : DOMAIN u = Members => [u EXCEPT !.column = v].fullLine = u.fullLine
          OBVIOUS
        <4>3. PutChar(t, c).fullLine = FALSE
          BY <2>2, <3>1, <4>a, Zenon
        <4>4. Sound(PutChar(t, c))
          BY <4>2, <4>3, SoundIfNot, Zenon
        <4> QED
          BY <1>3, <4>4
    <2> QED
      BY <2>3, <2>4
  <1> QED
    BY <1>2, <1>3

\* A set of numbers has a least one.
LEMMA LeastIs ==
    ASSUME NEW S, S \subseteq Nat, S # {}
    PROVE  \E m \in S : \A x \in S : m <= x
  <1>1. PICK m \in S : \A x \in S : ~(<<x, m>> \in OpToRel(<, Nat))
    BY NatLessThanWellFounded, WFMin, Zenon
  <1>2. \A x \in S : ~(x < m)
    BY <1>1 DEF OpToRel
  <1> QED
    BY <1>2

\* Printed is what its definition says.
LEMMA PrintedIs ==
    \A n \in 0 .. Len(Warning) :
        Printed[n] = IF n = 0 THEN term ELSE PutChar(Printed[n - 1], Warning[n])
  <1> DEFINE N == Len(Warning)
             Prints(g, n) ==
                 g = [m \in 0 .. n |-> IF m = 0 THEN term ELSE PutChar(g[m - 1], Warning[m])]
             Bad == {n \in 0 .. N : ~\E g : Prints(g, n)}
  <1>0. N \in Nat
    BY WarningAssumption
  <1> HIDE DEF N
  <1>1. Bad = {}
    <2> SUFFICES ASSUME Bad # {} PROVE FALSE
      OBVIOUS
    <2>1. Bad \subseteq Nat
      BY <1>0
    <2>2. PICK n \in Bad : \A x \in Bad : n <= x
      <3> HIDE DEF Bad
      <3> QED
        BY <2>1, LeastIs
    <2>3. n \in 0 .. N /\ ~\E g : Prints(g, n)
      OBVIOUS
    <2>4. CASE n = 0
      <3> DEFINE g == [m \in 0 .. 0 |-> term]
      <3>1. Prints(g, 0)
        OBVIOUS
      <3> QED
        BY <2>3, <2>4, <3>1
    <2>5. CASE n # 0
      <3>1. n - 1 \in 0 .. N /\ n - 1 \notin Bad /\ n \in Nat
        BY <1>0, <2>2, <2>3, <2>5
      <3>2. PICK g : Prints(g, n - 1)
        BY <3>1
      <3> DEFINE h == [m \in 0 .. n |-> IF m < n THEN g[m] ELSE PutChar(g[n - 1], Warning[n])]
                 k == [m \in 0 .. n |-> IF m = 0 THEN term ELSE PutChar(h[m - 1], Warning[m])]
      <3>3. \A m \in 0 .. n - 1 :
               g[m] = IF m = 0 THEN term ELSE PutChar(g[m - 1], Warning[m])
        BY <3>2
      <3>4. ASSUME NEW m \in 0 .. n PROVE h[m] = k[m]
        <4>1. CASE m = 0
          <5>1. h[m] = g[m]
            BY <2>5, <3>1, <4>1
          <5> QED
            BY <2>5, <3>1, <3>3, <4>1, <5>1
        <4>2. CASE m # 0 /\ m < n
          <5>1. h[m] = g[m] /\ h[m - 1] = g[m - 1]
            BY <3>1, <4>2
          <5>2. g[m] = PutChar(g[m - 1], Warning[m])
            BY <3>1, <3>3, <4>2
          <5> QED
            BY <4>2, <5>1, <5>2
        <4>3. CASE m = n
          <5>1. h[m] = PutChar(g[n - 1], Warning[n]) /\ h[n - 1] = g[n - 1]
            BY <2>5, <3>1, <4>3
          <5>2. k[m] = PutChar(h[m - 1], Warning[m])
            BY <2>5, <4>3
          <5> QED
            BY <4>3, <5>1, <5>2
        <4> QED
          BY <3>1, <4>1, <4>2, <4>3
      <3>5. h = k
        BY <3>4
      <3> QED
        BY <2>3, <3>5
    <2> QED
      BY <2>4, <2>5
  <1>2. \E g : Prints(g, N)
    <2>1. N \in 0 .. N
      BY <1>0
    <2> QED
      BY <1>1, <2>1, Zenon
  <1>3. Prints(Printed, N)
    BY <1>2 DEF Printed, N
  <1> QED
    BY <1>3 DEF N

\* Whatever the terminal was, the warning's newline leaves the column at 0.
LEMMA WarningSound ==
    ASSUME Sound(term)
    PROVE  LET t == Printed[Len(Warning)] IN Sound(t) /\ t.column = 0 /\ ~t.fullLine
  <1> DEFINE N == Len(Warning)
             Bad == {n \in 0 .. N : ~Sound(Printed[n])}
  <1>0. N \in Nat /\ N > 0 /\ Warning[N] = Newline
        /\ \A n \in 1 .. N : Warning[n] \in Glyphs \cup {Newline}
    BY WarningAssumption
  <1>1. \A n \in 0 .. N :
            Printed[n] = IF n = 0 THEN term ELSE PutChar(Printed[n - 1], Warning[n])
    BY PrintedIs
  <1> HIDE DEF N
  <1>2. Bad = {}
    <2> SUFFICES ASSUME Bad # {} PROVE FALSE
      OBVIOUS
    <2>1. Bad \subseteq Nat
      BY <1>0
    <2>2. PICK n \in Bad : \A x \in Bad : n <= x
      <3> HIDE DEF Bad
      <3> QED
        BY <2>1, LeastIs
    <2>3. n \in 0 .. N /\ ~Sound(Printed[n])
      OBVIOUS
    <2>4. CASE n = 0
      BY <1>1, <2>3, <2>4
    <2>5. CASE n # 0
      <3>1. n - 1 \in 0 .. N /\ n - 1 \notin Bad /\ n \in 1 .. N
        BY <1>0, <2>2, <2>3, <2>5
      <3>2. Sound(Printed[n - 1])
        BY <3>1
      <3>3. Printed[n] = PutChar(Printed[n - 1], Warning[n])
        BY <1>1, <2>3, <2>5
      <3> QED
        BY <1>0, <2>3, <3>1, <3>2, <3>3, PutCharSound
    <2> QED
      BY <2>4, <2>5
  <1>3. N - 1 \in 0 .. N /\ N \in 0 .. N /\ N # 0 /\ N \in 1 .. N
    BY <1>0
  <1>4. Sound(Printed[N - 1])
    BY <1>2, <1>3, Zenon
  <1>5. Printed[N] = PutChar(Printed[N - 1], Newline)
    BY <1>0, <1>1, <1>3
  <1>6. Sound(Printed[N]) /\ Printed[N].column = 0 /\ ~Printed[N].fullLine
    <2>1. Newline \in Glyphs \cup {Newline}
      OBVIOUS
    <2> QED
      BY <1>4, <1>5, <2>1, PutCharSound, Zenon
  <1> QED
    BY <1>6 DEF N

\* u differs from t in cells, colour and row at most.
SameLine(t, u) ==
    DOMAIN u = DOMAIN t /\ u.column = t.column /\ u.fullLine = t.fullLine

LEMMA SameLineSound ==
    ASSUME NEW t, NEW u, Sound(t), SameLine(t, u)
    PROVE  Sound(u)
  BY Zenon DEF Sound, SameLine

LEMMA KeepsLine ==
    ASSUME NEW t, Sound(t)
    PROVE  /\ SameLine(t, t)
           /\ \A r : SameLine(t, [t EXCEPT !.row = r])
           /\ SameLine(t, Scrolled(t, 1))
           /\ \A i, c : SameLine(t, Store(t, i, c))
  BY DEF Sound, SameLine, Scrolled, Store

LEMMA ChangesLine ==
    ASSUME NEW t, Sound(t)
    PROVE  /\ LET u == [t EXCEPT !.fullLine = FALSE]
              IN  Sound(u) /\ u.column = t.column /\ ~u.fullLine
           /\ LET u == [t EXCEPT !.column = 0]
              IN  Sound(u) /\ u.column = 0 /\ u.fullLine = t.fullLine
           /\ \A k \in Nat : ~t.fullLine =>
                 LET u == [t EXCEPT !.column = k]
                 IN  Sound(u) /\ u.column = k /\ u.fullLine = t.fullLine
           /\ t.column = 0 =>
                 LET u == [t EXCEPT !.fullLine = TRUE]
                 IN  Sound(u) /\ u.column = 0
  <1> DEFINE M == {"row", "column", "color", "fullLine", "buffer"}
  <1>0. DOMAIN t = M /\ t.column \in Nat /\ t.fullLine \in BOOLEAN
    BY Zenon DEF Sound
  <1>1. LET u == [t EXCEPT !.fullLine = FALSE]
        IN  DOMAIN u = M /\ u.column = t.column /\ u.fullLine = FALSE
    BY <1>0
  <1>2. \A k : LET u == [t EXCEPT !.column = k]
               IN  DOMAIN u = M /\ u.column = k /\ u.fullLine = t.fullLine
    BY <1>0
  <1>3. LET u == [t EXCEPT !.fullLine = TRUE]
        IN  DOMAIN u = M /\ u.column = t.column /\ u.fullLine = TRUE
    BY <1>0
  <1>4. 0 \in Nat
    OBVIOUS
  <1>5. Sound([t EXCEPT !.fullLine = FALSE]) /\ ~[t EXCEPT !.fullLine = FALSE].fullLine
    BY <1>0, <1>1, SoundIfNot, Zenon
  <1>6. Sound([t EXCEPT !.column = 0])
    BY <1>0, <1>2, <1>4, Zenon DEF Sound
  <1>7. \A k \in Nat : ~t.fullLine => Sound([t EXCEPT !.column = k])
    BY <1>0, <1>2, Zenon DEF Sound
  <1>8. t.column = 0 => Sound([t EXCEPT !.fullLine = TRUE])
    BY <1>0, <1>3, SoundIf, Zenon
  <1> QED
    BY <1>1, <1>2, <1>3, <1>5, <1>6, <1>7, <1>8, Zenon

\* The accesses that leave the column and the mark alone.
LEMMA OtherAccess ==
    ASSUME ColumnInv,
           \/ \E c \in Characters : call(c)
           \/ testFull \/ loadRow \/ storeRow \/ testRow \/ scrollOne \/ loadRowDown
           \/ storeRowDown \/ indexRow \/ indexColumn \/ storeCell \/ loadColumn \/ testColumn
    PROVE  ColumnInv'
  <1>1. Sound(term)
    BY DEF ColumnInv
  <1>2. SameLine(term, term')
    BY <1>1, KeepsLine
       DEF call, testFull, loadRow, storeRow, testRow, scrollOne, loadRowDown, storeRowDown,
           indexRow, indexColumn, storeCell, loadColumn, testColumn, Access, Returns
  <1>3. Sound(term')
    BY <1>1, <1>2, SameLineSound
  <1>4. term'.column = term.column /\ term'.fullLine = term.fullLine
    BY <1>2 DEF SameLine
  <1>5. term.column \in Nat /\ vga_width \in Nat
    BY <1>1, TerminalAssumption DEF Sound
  <1>6. /\ pc' \notin {"testColumn", "wrap"} => term'.column < vga_width
        /\ pc' = "storeColumn" => reg' \in 0 .. vga_width - 1
        /\ pc' \in AfterClear => pc \in AfterClear
        /\ pc' # "setFull"
    <2>1. CASE \E c \in Characters : call(c)
      BY <1>4, <1>5, <2>1 DEF call, ColumnInv, AfterClear
    <2>2. CASE testColumn
      BY <1>4, <1>5, <2>2 DEF testColumn, LineFull, ColumnInv, Access, Returns, AfterClear
    <2>3. CASE loadColumn
      BY <1>4, <1>5, <2>3 DEF loadColumn, ColumnInv, Access, AfterClear
    <2>4. CASE indexRow \/ indexColumn \/ storeCell
      BY <1>4, <1>5, <2>4 DEF indexRow, indexColumn, storeCell, ColumnInv, Access, AfterClear
    <2>5. CASE \/ testFull \/ loadRow \/ storeRow \/ testRow \/ scrollOne \/ loadRowDown
               \/ storeRowDown
      BY <1>4, <1>5, <2>5 DEF testFull, loadRow, storeRow, testRow, scrollOne, loadRowDown,
           storeRowDown, ColumnInv, Access, Returns, AfterClear
    <2> QED
      BY <2>1, <2>2, <2>3, <2>4, <2>5
  <1>7. term'.column <= vga_width
    BY <1>4 DEF ColumnInv
  <1>8. pc' \in AfterClear => ~term'.fullLine
    BY <1>4, <1>6, Zenon DEF ColumnInv
  <1> QED
    BY <1>3, <1>6, <1>7, <1>8 DEF ColumnInv

LEMMA ColumnStep == ColumnInv /\ [IrqNext]_irqVars => ColumnInv'
  <1> SUFFICES ASSUME ColumnInv, [IrqNext]_irqVars PROVE ColumnInv'
    OBVIOUS
  <1>0. /\ Sound(term) /\ vga_width \in Nat \ {0} /\ term.column \in Nat
        /\ term.column <= vga_width
    BY TerminalAssumption DEF ColumnInv, Sound
  <1>1. CASE \/ \E c \in Characters : call(c)
             \/ testFull \/ loadRow \/ storeRow \/ testRow \/ scrollOne \/ loadRowDown
             \/ storeRowDown \/ indexRow \/ indexColumn \/ storeCell \/ loadColumn \/ testColumn
    BY <1>1, OtherAccess
  <1>2. CASE swallow \/ clearFull
    <2>1. /\ term' = [term EXCEPT !.fullLine = FALSE] /\ term.column < vga_width
          /\ pc' \in {"idle", "indexRow"}
      BY <1>2 DEF swallow, clearFull, Access, Returns, ColumnInv
    <2>2. Sound(term') /\ term'.column = term.column /\ ~term'.fullLine
      BY <1>0, <2>1, ChangesLine, Zenon
    <2> QED
      BY <1>0, <2>1, <2>2 DEF ColumnInv
  <1>3. CASE columnZero \/ wrapColumn
    <2>1. /\ term' = [term EXCEPT !.column = 0]
          /\ \/ pc' = "loadRow"
             \/ pc' = "setFull" /\ pc = "wrap"
      BY <1>3 DEF columnZero, wrapColumn, Access
    <2>2. Sound(term') /\ term'.column = 0 /\ term'.fullLine = term.fullLine
      BY <1>0, <2>1, ChangesLine, Zenon
    <2>3. pc' \in AfterClear => ~term'.fullLine
      <3>1. CASE pc' = "loadRow"
        BY <3>1 DEF AfterClear
      <3>2. CASE pc = "wrap"
        <4>1. pc \in AfterClear
          BY <3>2 DEF AfterClear
        <4> QED
          BY <2>2, <4>1, Zenon DEF ColumnInv
      <3> QED
        BY <2>1, <3>1, <3>2
    <2> QED
      BY <1>0, <2>1, <2>2, <2>3 DEF ColumnInv
  <1>4. CASE storeColumn
    <2>1. /\ term' = [term EXCEPT !.column = reg + 1] /\ pc' = "testColumn"
          /\ reg + 1 \in Nat /\ reg + 1 <= vga_width
      BY <1>0, <1>4 DEF storeColumn, Access, ColumnInv
    <2>2. ~term.fullLine
      <3>1. pc \in AfterClear
        BY <1>4 DEF storeColumn, Access, AfterClear
      <3> QED
        BY <3>1, Zenon DEF ColumnInv
    <2>3. Sound(term') /\ term'.column = reg + 1 /\ term'.fullLine = term.fullLine
      BY <1>0, <2>1, <2>2, ChangesLine, Zenon
    <2>4. ~term'.fullLine
      BY <2>2, <2>3, Zenon
    <2> QED
      BY <1>0, <2>1, <2>3, <2>4 DEF ColumnInv
  <1>5. CASE setFull
    <2>1. term' = [term EXCEPT !.fullLine = TRUE] /\ pc' = "loadRow" /\ term.column = 0
      BY <1>5 DEF setFull, Access, ColumnInv
    <2>2. Sound(term') /\ term'.column = 0
      BY <1>0, <2>1, ChangesLine, Zenon
    <2> QED
      BY <1>0, <2>1, <2>2 DEF ColumnInv, AfterClear
  <1>6. CASE spuriousInterrupt
    <2>1. term' = Printed[Len(Warning)] /\ pc' = pc /\ reg' = reg
      BY <1>6 DEF spuriousInterrupt
    <2>2. Sound(term') /\ term'.column = 0 /\ ~term'.fullLine
      BY <1>0, <2>1, WarningSound, Zenon
    <2> QED
      BY <1>0, <2>1, <2>2 DEF ColumnInv
  <1>7. CASE UNCHANGED irqVars
    BY <1>7 DEF ColumnInv, irqVars
  <1> QED
    BY <1>1, <1>2, <1>3, <1>4, <1>5, <1>6, <1>7 DEF IrqNext, Characters

\* However often and wherever the spurious-interrupt handler prints over an
\* interrupted putchar, on every screen size the column is on the screen when
\* putchar returns (BIOSVideoIO.cpp:68-77).
THEOREM ColumnAlwaysInBoundsAtRest == IrqSpec => []ColumnInBoundsAtRest
  <1>1. IrqInit => ColumnInv
    <2> SUFFICES ASSUME IrqInit PROVE ColumnInv
      OBVIOUS
    <2>1. term = Constructed([i \in Cells |-> vga_entry(Blank, LightGrey)]) /\ pc = "idle"
      BY DEF IrqInit
    <2>2. /\ DOMAIN term = {"row", "column", "color", "fullLine", "buffer"}
          /\ term.column = 0 /\ term.fullLine = FALSE
      BY <2>1 DEF Constructed
    <2>3. term.column \in Nat /\ vga_width \in Nat \ {0}
      BY <2>2, TerminalAssumption
    <2>4. Sound(term)
      BY <2>2, <2>3, SoundIfNot, Zenon
    <2> QED
      BY <2>1, <2>2, <2>3, <2>4 DEF ColumnInv, AfterClear
  <1>2. ColumnInv => ColumnInBoundsAtRest
    BY DEF ColumnInv, ColumnInBoundsAtRest
  <1> QED
    BY <1>1, <1>2, ColumnStep, PTL DEF IrqSpec

-----------------------------------------------------------------------------
(***************************************************************************)
(* The text on the screen.                                                 *)
(*                                                                         *)
(* A character's position is the number of cells from the start of the     *)
(* text.  TextOn says what the screen shows in terms of positions, where   *)
(* appending a character, wrapping a line and scrolling are additions.     *)
(***************************************************************************)
\* An accepted character in its colour.
Entries == [ch : Glyphs \cup {Newline}, color : Colors]

\* Cells from the start of the text to the k-th character, or to the cursor.
Position(s, k) == Paragraphs(s)[k].above * vga_width + (k - Paragraphs(s)[k].start)

\* The printed characters of a text, each with its position.
MarksOf(s) ==
    {[at |-> Position(s, k), entry |-> s[k]] : k \in {j \in 1 .. Len(s) : s[j].ch # Newline}}

\* First line shown when the cursor is on line l.
Top(l) == IF l < vga_height THEN 0 ELSE l - vga_height + 1

\* With the cursor on line l, buffer b shows the characters M and nothing else.
CellsShow(b, M, l) ==
    /\ \A m \in M : m.at < (l + 1) * vga_width
    /\ \A m \in M : m.at >= Top(l) * vga_width => b[m.at - Top(l) * vga_width] = m.entry
    /\ \A i \in Cells : (\A m \in M : m.at # Top(l) * vga_width + i) => b[i].ch = Blank

\* Terminal t stands after text s and shows it: every character lies before the
\* cursor, and _fullLine is set if and only if the last one filled its line.
TextOn(t, s) ==
    LET n == Len(s) + 1
        l == LineOf(s, n)
    IN  /\ t.row = l - Top(l)
        /\ t.column = ColumnOf(s, n)
        /\ t.fullLine <=> ColumnOf(s, n) = 0 /\ Paragraphs(s)[n].start < n
        /\ \A m \in MarksOf(s) : m.at < Position(s, n)
        /\ CellsShow(t.buffer, MarksOf(s), l)

TextInv ==
    /\ term \in Term
    /\ ret \in {0, 1}
    /\ text \in Seq(Entries)
    /\ known \in BOOLEAN
    /\ known => TextOn(term, text)

-----------------------------------------------------------------------------
LEMMA DivMod ==
    ASSUME NEW m \in Nat
    PROVE  /\ m \div vga_width \in Nat
           /\ m % vga_width \in 0 .. vga_width - 1
           /\ m = (m \div vga_width) * vga_width + (m % vga_width)
  BY TerminalAssumption

LEMMA DivModUnique ==
    ASSUME NEW m \in Nat, NEW q \in Nat, NEW r \in 0 .. vga_width - 1, m = q * vga_width + r
    PROVE  m \div vga_width = q /\ m % vga_width = r
  BY TerminalAssumption

\* The function Paragraphs defines is what its definition says.
LEMMA ParagraphsAre ==
    ASSUME NEW s, Len(s) \in Nat
    PROVE  \A k \in 1 .. Len(s) + 1 :
              Paragraphs(s)[k] =
                IF k = 1 THEN [start |-> 1, above |-> 0]
                ELSE IF s[k - 1].ch = Newline
                     THEN [start |-> k,
                           above |-> Paragraphs(s)[k - 1].above
                                       + RowsOf(k - 1 - Paragraphs(s)[k - 1].start)]
                     ELSE Paragraphs(s)[k - 1]
  <1> DEFINE N == Len(s) + 1
             Step(g, k) ==
                 IF k = 1 THEN [start |-> 1, above |-> 0]
                 ELSE IF s[k - 1].ch = Newline
                      THEN [start |-> k, above |-> g[k - 1].above + RowsOf(k - 1 - g[k - 1].start)]
                      ELSE g[k - 1]
             Pars(g, n) == g = [k \in 1 .. n |-> Step(g, k)]
             Bad == {n \in 1 .. N : ~\E g : Pars(g, n)}
  <1>0. N \in Nat \ {0}
    OBVIOUS
  <1> HIDE DEF N
  <1>1. Bad = {}
    <2> SUFFICES ASSUME Bad # {} PROVE FALSE
      OBVIOUS
    <2>1. Bad \subseteq Nat
      BY <1>0
    <2>2. PICK n \in Bad : \A x \in Bad : n <= x
      <3> HIDE DEF Bad
      <3> QED
        BY <2>1, LeastIs
    <2>3. n \in 1 .. N /\ ~\E g : Pars(g, n)
      OBVIOUS
    <2>4. CASE n = 1
      <3> DEFINE g == [k \in 1 .. 1 |-> [start |-> 1, above |-> 0]]
      <3>1. Pars(g, 1)
        OBVIOUS
      <3> QED
        BY <2>3, <2>4, <3>1
    <2>5. CASE n # 1
      <3>1. n - 1 \in 1 .. N /\ n \in Nat /\ ~(n <= n - 1)
        BY <1>0, <2>3, <2>5
      <3>2. PICK g : Pars(g, n - 1)
        BY <2>2, <3>1, Zenon
      <3> DEFINE h == [k \in 1 .. n |-> IF k < n THEN g[k] ELSE Step(g, n)]
      <3>3. \A k \in 1 .. n - 1 : g[k] = Step(g, k)
        <4> HIDE DEF Step
        <4> QED
          BY <3>2
      <3>4. ASSUME NEW k \in 1 .. n PROVE h[k] = Step(h, k)
        <4>1. CASE k = 1
          <5>1. h[k] = g[k] /\ k \in 1 .. n - 1
            BY <2>5, <3>1, <4>1
          <5> QED
            BY <3>3, <4>1, <5>1
        <4>2. CASE k # 1
          <5>1. k - 1 \in 1 .. n /\ k - 1 < n /\ h[k - 1] = g[k - 1]
            BY <3>1, <4>2
          <5>2. Step(h, k) = Step(g, k)
            <6> HIDE DEF h
            <6> QED
              BY <4>2, <5>1
          <5>3. h[k] = Step(g, k)
            <6>1. CASE k < n
              <7>1. h[k] = g[k] /\ k \in 1 .. n - 1
                BY <3>1, <6>1
              <7> HIDE DEF h, Step
              <7> QED
                BY <3>3, <7>1
            <6>2. CASE k = n
              <7> HIDE DEF Step
              <7> QED
                BY <3>1, <6>2
            <6> QED
              BY <3>1, <6>1, <6>2
          <5> HIDE DEF h, Step
          <5> QED
            BY <5>2, <5>3
        <4> QED
          BY <4>1, <4>2
      <3>5. h = [k \in 1 .. n |-> Step(h, k)]
        <4>1. h = [k \in 1 .. n |-> h[k]]
          OBVIOUS
        <4> HIDE DEF h, Step
        <4> QED
          BY <3>4, <4>1
      <3> HIDE DEF h, Step
      <3> QED
        BY <2>3, <3>5
    <2> QED
      BY <2>4, <2>5
  <1>2. \E g : Pars(g, N)
    <2>1. N \in 1 .. N
      BY <1>0
    <2> QED
      BY <1>1, <2>1, Zenon
  <1>3. Paragraphs(s) = CHOOSE g : Pars(g, N)
    BY Zenon DEF Paragraphs, N
  <1>4. Pars(Paragraphs(s), N)
    <2> HIDE DEF Pars
    <2> QED
      BY <1>2, <1>3, Zenon
  <1>5. \A k \in 1 .. N : Paragraphs(s)[k] = Step(Paragraphs(s), k)
    <2> HIDE DEF Step
    <2> QED
      BY <1>4
  <1> QED
    BY <1>5, Zenon DEF N

\* A paragraph takes one line more than it fills, unless it fills its last line.
LEMMA RowsAre ==
    ASSUME NEW m \in Nat
    PROVE  RowsOf(m) = IF m > 0 /\ m % vga_width = 0 THEN m \div vga_width
                                                     ELSE (m \div vga_width) + 1
  <1> DEFINE w == vga_width
             q == m \div w
             r == m % w
  <1>1. w \in Nat /\ w > 0 /\ q \in Nat /\ r \in 0 .. w - 1 /\ m = q * w + r
    BY DivMod, TerminalAssumption
  <1>2. CASE m = 0
    <2>1. q = 0
      BY <1>1, <1>2, DivModUnique
    <2> QED
      BY <1>2, <2>1 DEF RowsOf
  <1>3. CASE m > 0 /\ r = 0
    <2> HIDE DEF q, r
    <2>1. m + w - 1 = q * w + (w - 1) /\ w - 1 \in 0 .. w - 1 /\ m + w - 1 \in Nat
      BY <1>1, <1>3
    <2>2. (m + w - 1) \div w = q
      BY <1>1, <2>1, DivModUnique
    <2> QED
      BY <1>3, <2>2 DEF RowsOf, q, r
  <1>4. CASE r > 0
    <2> HIDE DEF q, r
    <2>1. (q + 1) * w = q * w + w
      BY <1>1
    <2>2. m + w - 1 = (q + 1) * w + (r - 1) /\ r - 1 \in 0 .. w - 1 /\ m + w - 1 \in Nat /\ q + 1 \in Nat
      BY <1>1, <1>4, <2>1
    <2>3. (m + w - 1) \div w = q + 1
      BY <1>1, <2>2, DivModUnique
    <2>4. m # 0
      BY <1>1, <1>4
    <2> QED
      BY <1>4, <2>3, <2>4 DEF RowsOf, q, r
  <1> QED
    BY <1>1, <1>2, <1>3, <1>4

LEMMA RowsType ==
    ASSUME NEW m \in Nat PROVE RowsOf(m) \in Nat
  BY RowsAre, DivMod

\* A paragraph starts at its characters or before them.
LEMMA ParagraphsType ==
    ASSUME NEW s, Len(s) \in Nat
    PROVE  \A k \in 1 .. Len(s) + 1 :
              Paragraphs(s)[k].start \in 1 .. k /\ Paragraphs(s)[k].above \in Nat
  <1> DEFINE N == Len(s) + 1
             P == Paragraphs(s)
             Typed(k) == P[k].start \in 1 .. k /\ P[k].above \in Nat
             Bad == {k \in 1 .. N : ~Typed(k)}
  <1>0. N \in Nat
    OBVIOUS
  <1>1. \A k \in 1 .. N :
           P[k] = IF k = 1 THEN [start |-> 1, above |-> 0]
                  ELSE IF s[k - 1].ch = Newline
                       THEN [start |-> k, above |-> P[k - 1].above + RowsOf(k - 1 - P[k - 1].start)]
                       ELSE P[k - 1]
    BY ParagraphsAre, Zenon
  <1> HIDE DEF N, P
  <1>2. Bad = {}
    <2> SUFFICES ASSUME Bad # {} PROVE FALSE
      OBVIOUS
    <2>1. Bad \subseteq Nat
      BY <1>0
    <2>2. PICK k \in Bad : \A x \in Bad : k <= x
      <3> HIDE DEF Bad
      <3> QED
        BY <2>1, LeastIs
    <2>3. k \in 1 .. N /\ ~Typed(k) /\ k \in Nat
      BY <1>0
    <2>4. CASE k = 1
      <3>1. P[k] = [start |-> 1, above |-> 0]
        BY <1>1, <2>3, <2>4, Zenon
      <3> QED
        BY <2>3, <2>4, <3>1
    <2>5. CASE k # 1
      <3>1. k - 1 \in 1 .. N /\ ~(k <= k - 1)
        BY <1>0, <2>3, <2>5
      <3>2. Typed(k - 1)
        BY <2>2, <3>1
      <3>3. k - 1 - P[k - 1].start \in Nat
        BY <2>3, <3>1, <3>2
      <3>4. RowsOf(k - 1 - P[k - 1].start) \in Nat
        BY <3>3, RowsType
      <3>5. P[k] = IF s[k - 1].ch = Newline
                   THEN [start |-> k, above |-> P[k - 1].above + RowsOf(k - 1 - P[k - 1].start)]
                   ELSE P[k - 1]
        BY <1>1, <2>3, <2>5, Zenon
      <3>6. P[k - 1].start \in 1 .. k /\ P[k - 1].above \in Nat
        BY <2>3, <3>2
      <3> QED
        BY <2>3, <3>4, <3>5, <3>6
    <2> QED
      BY <2>4, <2>5
  <1> QED
    BY <1>2 DEF N, P

\* The layout of a text's beginning does not depend on what follows.
LEMMA ParagraphsAppend ==
    ASSUME NEW s \in Seq(Entries), NEW x \in Entries
    PROVE  LET t == Append(s, x)
               n == Len(s) + 1
               p == Paragraphs(s)[n]
           IN  /\ \A k \in 1 .. n : Paragraphs(t)[k] = Paragraphs(s)[k]
               /\ Paragraphs(t)[n + 1] =
                     IF x.ch = Newline THEN [start |-> n + 1, above |-> p.above + RowsOf(n - p.start)]
                                       ELSE p
  <1> DEFINE t == Append(s, x)
             n == Len(s) + 1
             P == Paragraphs(s)
             Q == Paragraphs(t)
             Bad == {k \in 1 .. n : Q[k] # P[k]}
  <1>0. n \in Nat /\ Len(t) \in Nat /\ Len(s) \in Nat /\ Len(t) = n
    OBVIOUS
  <1>1. \A k \in 1 .. Len(s) : t[k] = s[k]
    OBVIOUS
  <1>2. t[n] = x
    OBVIOUS
  <1>3. \A k \in 1 .. n :
           P[k] = IF k = 1 THEN [start |-> 1, above |-> 0]
                  ELSE IF s[k - 1].ch = Newline
                       THEN [start |-> k, above |-> P[k - 1].above + RowsOf(k - 1 - P[k - 1].start)]
                       ELSE P[k - 1]
    BY <1>0, ParagraphsAre, Zenon
  <1> HIDE DEF t
  <1>4. \A k \in 1 .. n + 1 :
           Q[k] = IF k = 1 THEN [start |-> 1, above |-> 0]
                  ELSE IF t[k - 1].ch = Newline
                       THEN [start |-> k, above |-> Q[k - 1].above + RowsOf(k - 1 - Q[k - 1].start)]
                       ELSE Q[k - 1]
    <2>1. \A k \in 1 .. Len(t) + 1 :
             Q[k] = IF k = 1 THEN [start |-> 1, above |-> 0]
                    ELSE IF t[k - 1].ch = Newline
                         THEN [start |-> k, above |-> Q[k - 1].above + RowsOf(k - 1 - Q[k - 1].start)]
                         ELSE Q[k - 1]
      BY <1>0, ParagraphsAre, Zenon
    <2> HIDE DEF Q, n
    <2> QED
      BY <1>0, <2>1, Zenon
  <1> HIDE DEF P, Q
  <1>5. Bad = {}
    <2> SUFFICES ASSUME Bad # {} PROVE FALSE
      OBVIOUS
    <2>1. Bad \subseteq Nat
      BY <1>0
    <2>2. PICK k \in Bad : \A y \in Bad : k <= y
      <3> HIDE DEF Bad
      <3> QED
        BY <2>1, LeastIs
    <2>3. k \in 1 .. n /\ Q[k] # P[k] /\ k \in Nat /\ k \in 1 .. n + 1
      BY <1>0
    <2>4. CASE k = 1
      BY <1>3, <1>4, <2>3, <2>4
    <2>5. CASE k # 1
      <3>1. k - 1 \in 1 .. n /\ ~(k <= k - 1) /\ k - 1 \in 1 .. Len(s)
        BY <1>0, <2>3, <2>5 DEF n
      <3>2. Q[k - 1] = P[k - 1]
        BY <2>2, <3>1
      <3>3. t[k - 1] = s[k - 1]
        BY <1>1, <3>1
      <3> HIDE DEF n
      <3>4. P[k] = IF s[k - 1].ch = Newline
                   THEN [start |-> k, above |-> P[k - 1].above + RowsOf(k - 1 - P[k - 1].start)]
                   ELSE P[k - 1]
        BY <1>3, <2>3, <2>5, Zenon
      <3>5. Q[k] = IF t[k - 1].ch = Newline
                   THEN [start |-> k, above |-> Q[k - 1].above + RowsOf(k - 1 - Q[k - 1].start)]
                   ELSE Q[k - 1]
        BY <1>4, <2>3, <2>5, Zenon
      <3>6. Q[k] = P[k]
        BY <3>2, <3>3, <3>4, <3>5
      <3> QED
        BY <2>3, <3>6
    <2> QED
      BY <2>4, <2>5
  <1>6. \A k \in 1 .. n : Q[k] = P[k]
    BY <1>5
  <1> HIDE DEF n
  <1>7. Q[n + 1] = IF x.ch = Newline THEN [start |-> n + 1, above |-> P[n].above + RowsOf(n - P[n].start)]
                                     ELSE P[n]
    <2>1. n + 1 \in 1 .. n + 1 /\ n + 1 # 1 /\ n + 1 - 1 = n /\ n \in 1 .. n
      BY <1>0 DEF n
    <2>2. Q[n] = P[n]
      BY <1>6, <2>1
    <2> QED
      BY <1>2, <1>4, <2>1, <2>2
  <1> QED
    BY <1>6, <1>7, Zenon DEF t, n, P, Q

-----------------------------------------------------------------------------
LEMMA PlaceOf ==
    ASSUME NEW s, Len(s) \in Nat, NEW k \in 1 .. Len(s) + 1
    PROVE  /\ LineOf(s, k) \in Nat
           /\ ColumnOf(s, k) \in 0 .. vga_width - 1
           /\ Position(s, k) \in Nat
           /\ Position(s, k) = LineOf(s, k) * vga_width + ColumnOf(s, k)
  <1> DEFINE p == Paragraphs(s)[k]
             m == k - p.start
             w == vga_width
             a == p.above
             q == m \div w
             r == m % w
  <1>1. p.start \in 1 .. k /\ a \in Nat /\ k \in Nat
    BY ParagraphsType
  <1>2. m \in Nat
    BY <1>1
  <1>3. q \in Nat /\ r \in 0 .. w - 1 /\ m = q * w + r /\ w \in Nat
    BY <1>2, DivMod, TerminalAssumption
  <1>4. LineOf(s, k) = a + q /\ ColumnOf(s, k) = r /\ Position(s, k) = a * w + m
    BY DEF LineOf, ColumnOf, Position
  <1> HIDE DEF a, q, r, m, p
  <1>5. (a + q) * w = a * w + q * w /\ a * w \in Nat /\ q * w \in Nat
    BY <1>1, <1>3
  <1>6. a * w + m = (a + q) * w + r
    BY <1>1, <1>3, <1>5
  <1>7. a + q \in Nat /\ a * w + m \in Nat
    BY <1>1, <1>2, <1>3, <1>5
  <1> QED
    BY <1>3, <1>4, <1>6, <1>7 DEF w

\* What appending a character does to the places of the text.
LEMMA PlacesAppend ==
    ASSUME NEW s \in Seq(Entries), NEW x \in Entries
    PROVE  LET t == Append(s, x)
               n == Len(s) + 1
           IN  /\ \A k \in 1 .. n : Position(t, k) = Position(s, k)
               /\ x.ch # Newline =>
                     /\ Paragraphs(t)[n + 1].start = Paragraphs(s)[n].start
                     /\ Position(t, n + 1) = Position(s, n) + 1
                     /\ ColumnOf(t, n + 1) =
                           IF ColumnOf(s, n) + 1 = vga_width THEN 0 ELSE ColumnOf(s, n) + 1
                     /\ LineOf(t, n + 1) =
                           IF ColumnOf(s, n) + 1 = vga_width THEN LineOf(s, n) + 1 ELSE LineOf(s, n)
               /\ x.ch = Newline =>
                     /\ Paragraphs(t)[n + 1].start = n + 1
                     /\ ColumnOf(t, n + 1) = 0
                     /\ LineOf(t, n + 1) =
                           IF ColumnOf(s, n) = 0 /\ Paragraphs(s)[n].start < n
                           THEN LineOf(s, n) ELSE LineOf(s, n) + 1
                     /\ Position(t, n + 1) >= Position(s, n)
  <1> DEFINE t == Append(s, x)
             n == Len(s) + 1
             p == Paragraphs(s)[n]
             w == vga_width
             m == n - p.start
             q == m \div w
             r == m % w
  <1>0. n \in Nat /\ n \in 1 .. n /\ Len(s) \in Nat /\ Len(t) \in Nat /\ n + 1 \in 1 .. Len(t) + 1
    OBVIOUS
  <1>1. /\ \A k \in 1 .. n : Paragraphs(t)[k] = Paragraphs(s)[k]
        /\ Paragraphs(t)[n + 1] =
              IF x.ch = Newline THEN [start |-> n + 1, above |-> p.above + RowsOf(n - p.start)] ELSE p
    BY ParagraphsAppend, Zenon
  <1>2. p.start \in 1 .. n /\ p.above \in Nat
    BY <1>0, ParagraphsType
  <1>3. m \in Nat
    BY <1>0, <1>2
  <1>4. q \in Nat /\ r \in 0 .. w - 1 /\ m = q * w + r /\ w \in Nat /\ w > 0
    <2>1. w \in Nat /\ w > 0
      BY TerminalAssumption
    <2>2. q \in Nat /\ r \in 0 .. w - 1 /\ m = q * w + r
      <3> HIDE DEF m
      <3> QED
        BY <1>3, DivMod, Zenon
    <2> QED
      BY <2>1, <2>2, Zenon
  <1>5. LineOf(s, n) = p.above + q /\ ColumnOf(s, n) = r /\ Position(s, n) = p.above * w + m
    BY DEF LineOf, ColumnOf, Position
  <1>6. \A k \in 1 .. n : Position(t, k) = Position(s, k)
    <2> HIDE DEF t, n
    <2> QED
      BY <1>1 DEF Position
  <1>7. ASSUME x.ch # Newline
        PROVE  /\ Paragraphs(t)[n + 1].start = p.start
               /\ Position(t, n + 1) = Position(s, n) + 1
               /\ ColumnOf(t, n + 1) = IF r + 1 = w THEN 0 ELSE r + 1
               /\ LineOf(t, n + 1) = p.above + (IF r + 1 = w THEN q + 1 ELSE q)
    <2>1. Paragraphs(t)[n + 1] = p
      BY <1>1, <1>7, Zenon
    <2>2. /\ LineOf(t, n + 1) = p.above + (((n + 1) - p.start) \div w)
          /\ ColumnOf(t, n + 1) = ((n + 1) - p.start) % w
          /\ Position(t, n + 1) = p.above * w + ((n + 1) - p.start)
      <3> DEFINE pt == Paragraphs(t)[n + 1]
      <3> HIDE DEF t, n, p
      <3>1. /\ LineOf(t, n + 1) = pt.above + (((n + 1) - pt.start) \div w)
            /\ ColumnOf(t, n + 1) = ((n + 1) - pt.start) % w
            /\ Position(t, n + 1) = pt.above * w + ((n + 1) - pt.start)
        BY DEF LineOf, ColumnOf, Position
      <3> HIDE DEF pt
      <3> QED
        BY <2>1, <3>1, Zenon DEF pt
    <2>3. (n + 1) - p.start = m + 1
      BY <1>0, <1>2
    <2> HIDE DEF t, n, p, q, r, m
    <2>4. /\ (m + 1) \div w = IF r + 1 = w THEN q + 1 ELSE q
          /\ (m + 1) % w = IF r + 1 = w THEN 0 ELSE r + 1
      <3>1. CASE r + 1 = w
        <4>1. m + 1 = (q + 1) * w + 0 /\ 0 \in 0 .. w - 1 /\ q + 1 \in Nat /\ m + 1 \in Nat
          BY <1>3, <1>4, <3>1
        <4>2. (m + 1) \div w = q + 1 /\ (m + 1) % w = 0
          BY <4>1, DivModUnique
        <4> QED
          BY <3>1, <4>2
      <3>2. CASE r + 1 # w
        <4>1. m + 1 = q * w + (r + 1) /\ r + 1 \in 0 .. w - 1 /\ m + 1 \in Nat
          BY <1>3, <1>4, <3>2
        <4>2. (m + 1) \div w = q /\ (m + 1) % w = r + 1
          BY <1>4, <4>1, DivModUnique
        <4> QED
          BY <3>2, <4>2
      <3> QED
        BY <3>1, <3>2
    <2>5. p.above * w \in Nat
      BY <1>2, <1>4
    <2> QED
      BY <1>3, <1>5, <2>1, <2>2, <2>3, <2>4, <2>5
  <1>8. ASSUME x.ch = Newline
        PROVE  /\ Paragraphs(t)[n + 1].start = n + 1
               /\ ColumnOf(t, n + 1) = 0
               /\ LineOf(t, n + 1) = p.above + (IF r = 0 /\ p.start < n THEN q ELSE q + 1)
    <2>1. Paragraphs(t)[n + 1] = [start |-> n + 1, above |-> p.above + RowsOf(m)]
      BY <1>1, <1>8, Zenon
    <2> HIDE DEF t, n, p, q, r, m
    <2>2. Paragraphs(t)[n + 1].start = n + 1 /\ Paragraphs(t)[n + 1].above = p.above + RowsOf(m)
      BY <2>1
    <2>3. (n + 1) - (n + 1) = 0 /\ 0 \div w = 0 /\ 0 % w = 0
      BY <1>0, <1>4
    <2>4. LineOf(t, n + 1) = p.above + RowsOf(m) + 0 /\ ColumnOf(t, n + 1) = 0
      <3> DEFINE pt == Paragraphs(t)[n + 1]
      <3>1. /\ LineOf(t, n + 1) = pt.above + (((n + 1) - pt.start) \div w)
            /\ ColumnOf(t, n + 1) = ((n + 1) - pt.start) % w
        BY DEF LineOf, ColumnOf
      <3>2. pt.start = n + 1 /\ pt.above = p.above + RowsOf(m)
        BY <2>2
      <3> HIDE DEF pt, w
      <3> QED
        BY <2>3, <3>1, <3>2, Zenon
    <2>5. RowsOf(m) = IF m > 0 /\ r = 0 THEN q ELSE q + 1
      BY <1>3, RowsAre DEF q, r, w
    <2>6. m > 0 <=> p.start < n
      BY <1>0, <1>2 DEF m
    <2> QED
      BY <1>2, <1>4, <2>2, <2>4, <2>5, <2>6
  <1>9. ASSUME x.ch = Newline PROVE Position(t, n + 1) >= Position(s, n)
    <2>1. Position(t, n + 1) = LineOf(t, n + 1) * w + 0
      BY <1>0, <1>8, <1>9, PlaceOf
    <2>2. Position(s, n) = (p.above + q) * w + r
      BY <1>0, <1>5, PlaceOf
    <2>3. LineOf(t, n + 1) = p.above + (IF r = 0 /\ p.start < n THEN q ELSE q + 1)
      BY <1>8, <1>9
    <2> HIDE DEF t, n, p, q, r, m
    <2>4. (p.above + q + 1) * w = (p.above + q) * w + w /\ (p.above + q) * w \in Nat
      BY <1>2, <1>4
    <2>5. CASE r = 0 /\ p.start < n
      BY <1>2, <1>4, <2>1, <2>2, <2>3, <2>4, <2>5
    <2>6. CASE ~(r = 0 /\ p.start < n)
      <3>1. LineOf(t, n + 1) = p.above + q + 1
        BY <1>2, <1>4, <2>3, <2>6
      <3> QED
        BY <1>4, <2>1, <2>2, <2>4, <3>1
    <2> QED
      BY <2>5, <2>6
  <1> HIDE DEF t, n, p, q, r, m
  <1>10. p.above + (q + 1) = p.above + q + 1
    BY <1>2, <1>4
  <1> QED
    BY <1>5, <1>6, <1>7, <1>8, <1>9, <1>10 DEF t, n, p, w

LEMMA MarksAppend ==
    ASSUME NEW s \in Seq(Entries), NEW x \in Entries
    PROVE  MarksOf(Append(s, x)) =
              IF x.ch = Newline THEN MarksOf(s)
              ELSE MarksOf(s) \cup {[at |-> Position(s, Len(s) + 1), entry |-> x]}
  <1> DEFINE t == Append(s, x)
             n == Len(s) + 1
             K == {j \in 1 .. Len(s) : s[j].ch # Newline}
             J == {j \in 1 .. Len(t) : t[j].ch # Newline}
             Mark(k) == [at |-> Position(s, k), entry |-> s[k]]
  <1>0. n \in Nat /\ n \in 1 .. n /\ Len(t) = n /\ \A k \in 1 .. Len(s) : k \in 1 .. n
    OBVIOUS
  <1>1. \A k \in 1 .. Len(s) : t[k] = s[k]
    OBVIOUS
  <1>2. t[n] = x
    OBVIOUS
  <1>3. \A k \in 1 .. n : Position(t, k) = Position(s, k)
    BY PlacesAppend, Zenon
  <1>4. \A k \in 1 .. n : k \in 1 .. Len(s) \/ k = n
    OBVIOUS
  <1>5. MarksOf(s) = {[at |-> Position(s, k), entry |-> s[k]] : k \in K}
    BY Zenon DEF MarksOf
  <1>6. MarksOf(t) = {[at |-> Position(t, k), entry |-> t[k]] : k \in J}
    BY Zenon DEF MarksOf
  <1> HIDE DEF t
  <1>7. J = IF x.ch = Newline THEN K ELSE K \cup {n}
    <2>1. \A k : k \in J => k \in K \/ (k = n /\ x.ch # Newline)
      BY <1>0, <1>1, <1>2, <1>4
    <2>2. \A k \in K : k \in J
      BY <1>0, <1>1
    <2>3. x.ch # Newline => n \in J
      BY <1>0, <1>2
    <2> HIDE DEF J, K, n
    <2> QED
      BY <2>1, <2>2, <2>3
  <1>8. \A k \in K : t[k] = s[k] /\ Position(t, k) = Position(s, k)
    BY <1>0, <1>1, <1>3
  <1>9. Position(t, n) = Position(s, n)
    BY <1>0, <1>3
  <1> HIDE DEF n, J, K
  <1>10. CASE x.ch = Newline
    <2>1. MarksOf(t) = MarksOf(s)
      BY <1>5, <1>6, <1>7, <1>8, <1>10
    <2> QED
      BY <1>10, <2>1 DEF t
  <1>11. CASE x.ch # Newline
    <2>1. MarksOf(t) = MarksOf(s) \cup {[at |-> Position(s, n), entry |-> x]}
      BY <1>2, <1>5, <1>6, <1>7, <1>8, <1>9, <1>11
    <2> QED
      BY <1>11, <2>1 DEF t, n
  <1> QED
    BY <1>10, <1>11

-----------------------------------------------------------------------------
LEMMA TopIs ==
    ASSUME NEW l \in Nat
    PROVE  /\ Top(l) \in 0 .. l
           /\ l - Top(l) \in 0 .. vga_height - 1
           /\ Top(l + 1) = IF l - Top(l) + 1 = vga_height THEN Top(l) + 1 ELSE Top(l)
  BY TerminalAssumption DEF Top

\* The cursor's next line comes into the screen's last, empty one.
LEMMA NextLineShows ==
    ASSUME NEW b, NEW M, NEW l \in Nat, \A m \in M : m.at \in Nat,
           CellsShow(b, M, l), l - Top(l) + 1 # vga_height
    PROVE  CellsShow(b, M, l + 1)
  <1> DEFINE w == vga_width
             z == Top(l)
             y == (l + 1) * w
  <1>1. w \in Nat /\ Top(l + 1) = z
    BY TopIs, TerminalAssumption
  <1>2. (l + 1 + 1) * w = y + w /\ y \in Nat
    BY <1>1
  <1>3. /\ \A m \in M : m.at < y
        /\ \A m \in M : m.at >= z * w => b[m.at - z * w] = m.entry
        /\ \A i \in Cells : (\A m \in M : m.at # z * w + i) => b[i].ch = Blank
    BY DEF CellsShow
  <1> HIDE DEF y, z
  <1>4. \A m \in M : m.at < (l + 1 + 1) * w
    BY <1>1, <1>2, <1>3
  <1> QED
    BY <1>1, <1>3, <1>4 DEF CellsShow

\* scroll(1) shows the text one line down.
LEMMA ScrollShows ==
    ASSUME NEW b, NEW M, NEW l \in Nat, \A m \in M : m.at \in Nat,
           CellsShow(b, M, l), l - Top(l) + 1 = vga_height,
           NEW d,
           \A i \in Cells : IF i < vga_width * (vga_height - 1)
                            THEN d[i] = b[i + vga_width]
                            ELSE d[i].ch = Blank
    PROVE  CellsShow(d, M, l + 1)
  <1> DEFINE w == vga_width
             h == vga_height
             z == Top(l)
             o == z * w
             y == w * (h - 1)
  <1>1. w \in Nat /\ h \in Nat /\ h > 1 /\ z \in Nat /\ l = z + h - 1 /\ Top(l + 1) = z + 1
    BY TopIs, TerminalAssumption
  <1>2. /\ o \in Nat /\ y \in Nat
        /\ (z + 1) * w = o + w
        /\ h * w = y + w
        /\ (l + 1) * w = o + y + w
        /\ (l + 1 + 1) * w = o + y + w + w
    <2>1. o \in Nat /\ y \in Nat
      BY <1>1
    <2>2. (z + 1) * w = o + w /\ h * w = y + w
      BY <1>1
    <2>3. l + 1 = z + h
      BY <1>1
    <2>4. (z + h) * w = o + h * w
      BY <1>1
    <2>5. (l + 1) * w = o + h * w
      BY <2>3, <2>4, Zenon
    <2>6. (l + 1 + 1) * w = (l + 1) * w + w
      BY <1>1
    <2> HIDE DEF o, y
    <2> QED
      BY <1>1, <2>1, <2>2, <2>5, <2>6
  <1>3. /\ \A m \in M : m.at < (l + 1) * w
        /\ \A m \in M : m.at >= o => b[m.at - o] = m.entry
        /\ \A i \in Cells : (\A m \in M : m.at # o + i) => b[i].ch = Blank
    BY DEF CellsShow
  <1>4. Cells = 0 .. y + w - 1
    <2>1. vga_height * vga_width = y + w
      BY <1>2
    <2>2. y + w - 1 = (y + w) - 1
      BY <1>1, <1>2
    <2> HIDE DEF y, w
    <2> QED
      BY <2>1, <2>2 DEF Cells
  <1>5. \A i \in Cells : IF i < y THEN d[i] = b[i + w] ELSE d[i].ch = Blank
    OBVIOUS
  <1> HIDE DEF z, o, y, w, h
  <1>6. \A m \in M : m.at < (l + 1 + 1) * w
    BY <1>1, <1>2, <1>3
  <1>7. ASSUME NEW m \in M, m.at >= o + w PROVE d[m.at - (o + w)] = m.entry
    <2> DEFINE i == m.at - (o + w)
    <2>1. i \in Cells /\ i < y /\ i + w = m.at - o /\ m.at >= o
      BY <1>1, <1>2, <1>3, <1>4, <1>7
    <2>2. d[i] = b[i + w]
      BY <1>5, <2>1
    <2>3. b[m.at - o] = m.entry
      BY <1>3, <2>1
    <2> HIDE DEF i
    <2>4. d[i] = m.entry
      BY <2>1, <2>2, <2>3
    <2> QED
      BY <2>4 DEF i
  <1>8. ASSUME NEW i \in Cells, \A m \in M : m.at # o + w + i PROVE d[i].ch = Blank
    <2>1. CASE i < y
      <3>1. i + w \in Cells /\ \A m \in M : m.at # o + (i + w)
        BY <1>1, <1>2, <1>4, <1>8, <2>1
      <3>2. b[i + w].ch = Blank
        BY <1>3, <3>1
      <3> QED
        BY <1>5, <2>1, <3>2
    <2>2. CASE ~(i < y)
      BY <1>5, <2>2
    <2> QED
      BY <2>1, <2>2
  <1>9. Top(l + 1) * vga_width = o + w
    BY <1>1, <1>2 DEF w
  <1>10. (l + 1 + 1) * vga_width = (l + 1 + 1) * w
    BY DEF w
  <1> QED
    BY <1>6, <1>7, <1>8, <1>9, <1>10 DEF CellsShow

\* putchar's store adds one character, where nothing is shown.
LEMMA StoreShows ==
    ASSUME NEW V, NEW b \in [Cells -> V], NEW M, NEW l \in Nat, \A m \in M : m.at \in Nat,
           CellsShow(b, M, l), NEW c \in 0 .. vga_width - 1, NEW e,
           \A m \in M : m.at # l * vga_width + c
    PROVE  LET i == (l - Top(l)) * vga_width + c
           IN  /\ i \in Cells
               /\ CellsShow([b EXCEPT ![i] = e], M \cup {[at |-> l * vga_width + c, entry |-> e]}, l)
  <1> DEFINE w == vga_width
             z == Top(l)
             o == z * w
             lw == l * w
             rw == (l - z) * w
             i == rw + c
             d == [b EXCEPT ![i] = e]
             new == [at |-> lw + c, entry |-> e]
  <1>1. w \in Nat /\ vga_height \in Nat /\ w > 0 /\ z \in 0 .. l /\ l - z \in 0 .. vga_height - 1
    BY TopIs, TerminalAssumption
  <1>2. o \in Nat /\ rw \in Nat /\ lw \in Nat /\ vga_height * w \in Nat
    BY <1>1
  <1>3. rw = lw - o
    BY <1>1
  <1>4. (l + 1) * w = lw + w
    BY <1>1
  <1>5. rw + w <= vga_height * w
    <2>1. l - z + 1 \in Nat /\ l - z + 1 <= vga_height
      BY <1>1
    <2>2. (l - z + 1) * w <= vga_height * w
      BY <1>1, <2>1, TimesMonotone
    <2>3. (l - z + 1) * w = (l - z) * w + w
      BY <1>1
    <2> QED
      BY <2>2, <2>3
  <1>6. /\ \A m \in M : m.at \in Nat /\ m.at # lw + c /\ m.at < lw + w
        /\ \A m \in M : m.at >= o => b[m.at - o] = m.entry
        /\ \A j \in Cells : (\A m \in M : m.at # o + j) => b[j].ch = Blank
    BY <1>4 DEF CellsShow
  <1>7. \A x \in Int : x \in Cells <=> 0 <= x /\ x < vga_height * w
    BY <1>2 DEF Cells
  <1>8. new.at = lw + c /\ new.entry = e
    OBVIOUS
  <1>9. c \in Nat /\ c < w
    BY <1>1
  <1> HIDE DEF lw, rw, o, z
  <1>10. i \in Cells
    BY <1>1, <1>2, <1>5, <1>7, <1>9
  <1>11. d[i] = e /\ \A j \in Cells : j # i => d[j] = b[j]
    BY <1>10
  <1>12. i \in Int /\ lw + c = o + i
    BY <1>2, <1>3, <1>9
  <1> HIDE DEF i, d, new
  <1>13. \A m \in M \cup {new} : m.at < lw + w
    BY <1>1, <1>2, <1>6, <1>8, <1>9
  <1>14. ASSUME NEW m \in M \cup {new}, m.at >= o PROVE d[m.at - o] = m.entry
    <2>1. CASE m = new
      <3>1. m.at - o = i
        BY <1>2, <1>8, <1>12, <2>1
      <3> QED
        BY <1>8, <1>11, <2>1, <3>1
    <2>2. CASE m \in M
      <3> DEFINE j == m.at - o
      <3>1. m.at \in Nat /\ m.at # o + i /\ m.at < lw + w
        BY <1>6, <1>12, <2>2
      <3>2. j \in Int /\ j # i /\ j >= 0 /\ j < rw + w
        BY <1>1, <1>2, <1>3, <1>12, <1>14, <3>1
      <3>3. j \in Cells
        BY <1>1, <1>2, <1>5, <1>7, <3>2
      <3>4. b[j] = m.entry
        BY <1>6, <1>14, <2>2
      <3> HIDE DEF j
      <3>5. d[j] = m.entry
        BY <1>11, <3>2, <3>3, <3>4
      <3> QED
        BY <3>5 DEF j
    <2> QED
      BY <2>1, <2>2
  <1>15. ASSUME NEW j \in Cells, \A m \in M \cup {new} : m.at # o + j PROVE d[j].ch = Blank
    <2>1. j # i
      BY <1>8, <1>12, <1>15
    <2>2. b[j].ch = Blank
      BY <1>6, <1>15
    <2> QED
      BY <1>11, <2>1, <2>2
  <1>16. CellsShow(d, M \cup {new}, l)
    BY <1>4, <1>13, <1>14, <1>15 DEF CellsShow, o, z
  <1> QED
    BY <1>10, <1>16 DEF i, d, new, z, lw, rw

-----------------------------------------------------------------------------
LEMMA MarksAreNumbers ==
    ASSUME NEW s \in Seq(Entries) PROVE \A m \in MarksOf(s) : m.at \in Nat
  <1> SUFFICES ASSUME NEW k \in 1 .. Len(s) PROVE Position(s, k) \in Nat
    BY DEF MarksOf
  <1>1. Len(s) \in Nat /\ k \in 1 .. Len(s) + 1
    OBVIOUS
  <1> QED
    BY <1>1, PlaceOf

\* if (++_row == vga_height) { scroll(1); _row--; } goes to the next line.
LEMMA NextRowText ==
    ASSUME NEW t \in Term, NEW M, NEW l \in Nat, \A m \in M : m.at \in Nat,
           t.row = l - Top(l), CellsShow(t.buffer, M, l)
    PROVE  LET u == NextRow(t)
           IN  /\ u.row = (l + 1) - Top(l + 1)
               /\ u.column = t.column /\ u.fullLine = t.fullLine
               /\ CellsShow(u.buffer, M, l + 1)
  <1> DEFINE u == NextRow(t)
  <1>1. Top(l) \in 0 .. l /\ Top(l + 1) = IF l - Top(l) + 1 = vga_height THEN Top(l) + 1 ELSE Top(l)
    BY TopIs
  <1>2. CASE t.row + 1 = vga_height
    <2> DEFINE d == [i \in Cells |->
                       IF i < vga_width * (vga_height - 1)
                       THEN t.buffer[i + vga_width * 1]
                       ELSE vga_entry(Blank, t.color)]
    <2>1. u = [t EXCEPT !.buffer = d]
      BY <1>2, Zenon DEF NextRow, Scrolled
    <2>2. \A i \in Cells : IF i < vga_width * (vga_height - 1)
                           THEN d[i] = t.buffer[i + vga_width]
                           ELSE d[i].ch = Blank
      <3>1. vga_width * 1 = vga_width
        BY TerminalAssumption
      <3>2. vga_entry(Blank, t.color).ch = Blank
        BY DEF vga_entry
      <3> QED
        BY <3>1, <3>2
    <2> HIDE DEF d
    <2>3. u.row = t.row /\ u.column = t.column /\ u.fullLine = t.fullLine /\ u.buffer = d
      BY <2>1 DEF Term
    <2> HIDE DEF u
    <2>4. l - Top(l) + 1 = vga_height
      BY <1>2
    <2>5. CellsShow(d, M, l + 1)
      BY <2>2, <2>4, ScrollShows
    <2>6. u.row = (l + 1) - Top(l + 1)
      BY <1>1, <2>3, <2>4
    <2> QED
      BY <2>3, <2>5, <2>6 DEF u
  <1>3. CASE t.row + 1 # vga_height
    <2>1. u = [t EXCEPT !.row = t.row + 1]
      BY <1>3 DEF NextRow
    <2>2. u.row = t.row + 1 /\ u.column = t.column /\ u.fullLine = t.fullLine /\ u.buffer = t.buffer
      BY <2>1 DEF Term
    <2> HIDE DEF u
    <2>3. l - Top(l) + 1 # vga_height
      BY <1>3
    <2>4. CellsShow(t.buffer, M, l + 1)
      BY <2>3, NextLineShows
    <2>5. u.row = (l + 1) - Top(l + 1)
      BY <1>1, <2>2, <2>3
    <2> QED
      BY <2>2, <2>4, <2>5 DEF u
  <1> QED
    BY <1>2, <1>3

LEMMA NewlineText ==
    ASSUME NEW t \in Term, NEW s \in Seq(Entries), NEW x \in Entries, x.ch = Newline,
           TextOn(t, s)
    PROVE  TextOn(PutChar(t, Newline), Append(s, x))
  <1> DEFINE n == Len(s) + 1
             l == LineOf(s, n)
             y == Append(s, x)
             u == PutChar(t, Newline)
             k == LineOf(y, n + 1)
             M == MarksOf(s)
  <1>1. n \in Nat /\ Len(s) \in Nat /\ n \in 1 .. n /\ Len(y) + 1 = n + 1 /\ n + 1 \in Nat
    OBVIOUS
  <1>2. /\ t.row = l - Top(l)
        /\ t.column = ColumnOf(s, n)
        /\ t.fullLine <=> ColumnOf(s, n) = 0 /\ Paragraphs(s)[n].start < n
        /\ \A m \in M : m.at < Position(s, n)
        /\ CellsShow(t.buffer, M, l)
    BY Zenon DEF TextOn
  <1>3. /\ Paragraphs(y)[n + 1].start = n + 1
        /\ ColumnOf(y, n + 1) = 0
        /\ k = IF ColumnOf(s, n) = 0 /\ Paragraphs(s)[n].start < n THEN l ELSE l + 1
        /\ Position(y, n + 1) >= Position(s, n)
    BY PlacesAppend, Zenon
  <1>4. MarksOf(y) = M /\ \A m \in M : m.at \in Nat
    BY MarksAppend, MarksAreNumbers
  <1>5. l \in Nat /\ Position(s, n) \in Nat
    BY <1>1, PlaceOf
  <1>6. Position(y, n + 1) \in Nat
    <2>1. Len(y) \in Nat /\ n + 1 \in 1 .. Len(y) + 1
      BY <1>1
    <2> QED
      BY <2>1, PlaceOf
  <1>7. \A m \in MarksOf(y) : m.at < Position(y, n + 1)
    <2> HIDE DEF n, y, M
    <2> QED
      BY <1>2, <1>3, <1>4, <1>5, <1>6
  <1>8. u.row = k - Top(k) /\ u.column = 0 /\ ~u.fullLine /\ CellsShow(u.buffer, M, k)
    <2> HIDE DEF n, y, M, l, k
    <2>0. Newline \in Characters
      BY DEF Characters
    <2>1. CASE t.fullLine
      <3>1. u = [t EXCEPT !.fullLine = FALSE]
        BY <2>0, <2>1, PutCharIs DEF Cleared
      <3>2. u.row = t.row /\ u.column = t.column /\ ~u.fullLine /\ u.buffer = t.buffer
        BY <3>1 DEF Term
      <3> HIDE DEF u
      <3>3. k = l
        BY <1>2, <1>3, <2>1
      <3> QED
        BY <1>2, <2>1, <3>2, <3>3
    <2>2. CASE ~t.fullLine
      <3> DEFINE v == [t EXCEPT !.column = 0]
      <3>1. u = NextRow(v)
        BY <2>0, <2>2, PutCharIs DEF Base
      <3>2. v.row = t.row /\ v.column = 0 /\ v.fullLine = t.fullLine /\ v.buffer = t.buffer
        BY DEF Term
      <3>3. v \in Term
        <4>1. 0 \in 0 .. vga_width - 1
          BY TerminalAssumption
        <4> QED
          BY <4>1 DEF Term
      <3> HIDE DEF u, v
      <3>4. /\ NextRow(v).row = (l + 1) - Top(l + 1)
            /\ NextRow(v).column = v.column /\ NextRow(v).fullLine = v.fullLine
            /\ CellsShow(NextRow(v).buffer, M, l + 1)
        <4>1. v.row = l - Top(l) /\ CellsShow(v.buffer, M, l)
          BY <1>2, <3>2
        <4> QED
          BY <1>4, <1>5, <3>3, <4>1, NextRowText
      <3>5. k = l + 1
        BY <1>2, <1>3, <2>2
      <3>6. u.row = k - Top(k)
        BY <1>5, <3>1, <3>4, <3>5
      <3> QED
        BY <2>2, <3>1, <3>2, <3>4, <3>5, <3>6
    <2> QED
      BY <2>1, <2>2
  <1> HIDE DEF u
  <1>9. ~(Paragraphs(y)[n + 1].start < n + 1)
    <2> HIDE DEF n, y
    <2> QED
      BY <1>1, <1>3
  <1> HIDE DEF n, l, y, k, M
  <1>10. LET j == Len(y) + 1
         IN  /\ u.row = LineOf(y, j) - Top(LineOf(y, j))
             /\ u.column = ColumnOf(y, j)
             /\ u.fullLine <=> ColumnOf(y, j) = 0 /\ Paragraphs(y)[j].start < j
             /\ \A m \in MarksOf(y) : m.at < Position(y, j)
             /\ CellsShow(u.buffer, MarksOf(y), LineOf(y, j))
    BY <1>1, <1>3, <1>4, <1>7, <1>8, <1>9 DEF k
  <1> QED
    BY <1>10, Zenon DEF TextOn, u, y

LEMMA GlyphText ==
    ASSUME NEW t \in Term, NEW s \in Seq(Entries), NEW c \in Glyphs, TextOn(t, s)
    PROVE  TextOn(PutChar(t, c), Append(s, vga_entry(c, t.color)))
  <1> DEFINE x == vga_entry(c, t.color)
             n == Len(s) + 1
             l == LineOf(s, n)
             y == Append(s, x)
             u == PutChar(t, c)
             k == LineOf(y, n + 1)
             new == [at |-> Position(s, n), entry |-> x]
             M == MarksOf(s)
             N == M \cup {new}
             v == Stored(t, c)
  <1>0. x \in Entries /\ x.ch # Newline /\ c # Newline /\ c \in Characters
    BY TerminalAssumption DEF vga_entry, Entries, Term, Characters
  <1> HIDE DEF x
  <1>1. n \in Nat /\ Len(s) \in Nat /\ n \in 1 .. n /\ Len(y) + 1 = n + 1 /\ n + 1 \in Nat
    BY <1>0
  <1>2. /\ t.row = l - Top(l)
        /\ t.column = ColumnOf(s, n)
        /\ t.fullLine <=> ColumnOf(s, n) = 0 /\ Paragraphs(s)[n].start < n
        /\ \A m \in M : m.at < Position(s, n)
        /\ CellsShow(t.buffer, M, l)
    BY Zenon DEF TextOn
  <1>3. /\ Paragraphs(y)[n + 1].start = Paragraphs(s)[n].start
        /\ Position(y, n + 1) = Position(s, n) + 1
        /\ ColumnOf(y, n + 1) = IF ColumnOf(s, n) + 1 = vga_width THEN 0 ELSE ColumnOf(s, n) + 1
        /\ k = IF ColumnOf(s, n) + 1 = vga_width THEN l + 1 ELSE l
    BY <1>0, PlacesAppend, Zenon
  <1>4. MarksOf(y) = N
    BY <1>0, MarksAppend
  <1>5. /\ l \in Nat /\ Position(s, n) \in Nat /\ ColumnOf(s, n) \in 0 .. vga_width - 1
        /\ Position(s, n) = l * vga_width + ColumnOf(s, n)
        /\ Paragraphs(s)[n].start \in 1 .. n
    BY <1>1, PlaceOf, ParagraphsType
  <1>6. \A m \in M : m.at \in Nat
    BY MarksAreNumbers
  <1> HIDE DEF n, y, M, l, k
  <1>7. \A m \in N : m.at \in Nat /\ m.at < Position(y, n + 1)
    BY <1>2, <1>3, <1>5, <1>6
  <1>8. /\ v \in Term /\ v.row = t.row /\ v.column = t.column /\ ~v.fullLine
        /\ CellsShow(v.buffer, N, l)
    <2> DEFINE i == CursorIndex(t)
               z == [t EXCEPT !.fullLine = FALSE]
    <2>1. v \in Term /\ v.row = t.row /\ v.column = t.column
      BY StoredIs
    <2>2. i \in Cells /\ i = (l - Top(l)) * vga_width + ColumnOf(s, n)
      BY <1>2, CursorCell DEF CursorIndex
    <2>3. z \in Term /\ z.buffer = t.buffer /\ z.color = t.color /\ ~z.fullLine
      BY DEF Term
    <2>4. v = [z EXCEPT !.buffer[i] = x]
      BY <2>2, <2>3 DEF Stored, Cleared, Store, x
    <2> HIDE DEF v, i, z
    <2>5. v.buffer = [t.buffer EXCEPT ![i] = x] /\ ~v.fullLine
      BY <2>3, <2>4 DEF Term
    <2>6. t.buffer \in [Cells -> [ch : Glyphs \cup {Blank}, color : Colors]]
      BY DEF Term
    <2>7. \A m \in M : m.at # l * vga_width + ColumnOf(s, n)
      BY <1>2, <1>5, <1>6
    <2>8. CellsShow([t.buffer EXCEPT ![(l - Top(l)) * vga_width + ColumnOf(s, n)] = x],
                    M \cup {[at |-> l * vga_width + ColumnOf(s, n), entry |-> x]}, l)
      BY <1>2, <1>5, <1>6, <2>6, <2>7, StoreShows, Zenon
    <2>9. CellsShow(v.buffer, N, l)
      BY <1>5, <2>2, <2>5, <2>8, Zenon
    <2> QED
      BY <2>1, <2>5, <2>9
  <1>9. /\ u.row = k - Top(k)
        /\ u.column = ColumnOf(y, n + 1)
        /\ u.fullLine <=> ColumnOf(s, n) + 1 = vga_width
        /\ CellsShow(u.buffer, N, k)
    <2>1. CASE ColumnOf(s, n) + 1 # vga_width
      <3>1. u = [v EXCEPT !.column = v.column + 1]
        BY <1>0, <1>2, <2>1, PutCharIs DEF ColumnAdded
      <3> HIDE DEF u, v
      <3>2. u.row = v.row /\ u.column = v.column + 1 /\ ~u.fullLine /\ u.buffer = v.buffer
        BY <1>8, <3>1 DEF Term
      <3> HIDE DEF N
      <3> QED
        BY <1>2, <1>3, <1>8, <2>1, <3>2
    <2>2. CASE ColumnOf(s, n) + 1 = vga_width
      <3> DEFINE f == [v EXCEPT !.column = 0, !.fullLine = TRUE]
      <3>1. u = NextRow(f)
        BY <1>0, <1>2, <2>2, PutCharIs DEF Base
      <3> HIDE DEF u, v
      <3>2. f.row = v.row /\ f.column = 0 /\ f.fullLine = TRUE /\ f.buffer = v.buffer
        BY <1>8 DEF Term
      <3>3. f \in Term
        <4>1. 0 \in 0 .. vga_width - 1 /\ v.row \in 0 .. vga_height - 1
          BY <1>8, TerminalAssumption DEF Term
        <4> QED
          BY <1>8, <4>1, MovedTerm
      <3> HIDE DEF f, N
      <3>4. /\ NextRow(f).row = (l + 1) - Top(l + 1)
            /\ NextRow(f).column = f.column /\ NextRow(f).fullLine = f.fullLine
            /\ CellsShow(NextRow(f).buffer, N, l + 1)
        <4>1. f.row = l - Top(l) /\ CellsShow(f.buffer, N, l)
          BY <1>2, <1>8, <3>2
        <4> QED
          BY <1>5, <1>7, <3>3, <4>1, NextRowText
      <3>5. k = l + 1 /\ ColumnOf(y, n + 1) = 0
        BY <1>3, <2>2
      <3> QED
        BY <2>2, <3>1, <3>2, <3>4, <3>5
    <2> QED
      BY <2>1, <2>2
  <1>10. ColumnOf(s, n) + 1 = vga_width <=>
            ColumnOf(y, n + 1) = 0 /\ Paragraphs(y)[n + 1].start < n + 1
    BY <1>1, <1>3, <1>5
  <1> HIDE DEF u, N
  <1>11. LET j == Len(y) + 1
         IN  /\ u.row = LineOf(y, j) - Top(LineOf(y, j))
             /\ u.column = ColumnOf(y, j)
             /\ u.fullLine <=> ColumnOf(y, j) = 0 /\ Paragraphs(y)[j].start < j
             /\ \A m \in MarksOf(y) : m.at < Position(y, j)
             /\ CellsShow(u.buffer, MarksOf(y), LineOf(y, j))
    BY <1>1, <1>4, <1>7, <1>9, <1>10 DEF k
  <1> QED
    BY <1>11, Zenon DEF TextOn, u, y, x

\* A blank screen with the cursor at its start shows the empty text.
LEMMA EmptyText ==
    ASSUME NEW t \in Term, t.row = 0, t.column = 0, ~t.fullLine,
           \A i \in Cells : t.buffer[i].ch = Blank
    PROVE  TextOn(t, <<>>)
  <1> DEFINE s == <<>>
  <1>1. Len(s) = 0 /\ Len(s) \in Nat /\ 1 \in 1 .. Len(s) + 1
    OBVIOUS
  <1> HIDE DEF s
  <1>2. Paragraphs(s)[1] = [start |-> 1, above |-> 0]
    BY <1>1, ParagraphsAre
  <1>3. Paragraphs(s)[1].start = 1 /\ Paragraphs(s)[1].above = 0
    BY <1>2
  <1>4. LineOf(s, 1) = 0 /\ ColumnOf(s, 1) = 0
    BY <1>3, TerminalAssumption DEF LineOf, ColumnOf
  <1>5. MarksOf(s) = {}
    BY <1>1 DEF MarksOf
  <1>6. Top(0) = 0
    BY TerminalAssumption DEF Top
  <1>7. CellsShow(t.buffer, {}, 0)
    BY DEF CellsShow
  <1>8. LET j == Len(s) + 1
        IN  /\ t.row = LineOf(s, j) - Top(LineOf(s, j))
            /\ t.column = ColumnOf(s, j)
            /\ t.fullLine <=> ColumnOf(s, j) = 0 /\ Paragraphs(s)[j].start < j
            /\ \A m \in MarksOf(s) : m.at < Position(s, j)
            /\ CellsShow(t.buffer, MarksOf(s), LineOf(s, j))
    BY <1>1, <1>3, <1>4, <1>5, <1>6, <1>7
  <1> QED
    BY <1>8, Zenon DEF TextOn, s

-----------------------------------------------------------------------------
LEMMA TextStarts == TextInit => TextInv
  <1> SUFFICES ASSUME TextInit PROVE TextInv
    OBVIOUS
  <1> DEFINE b == [i \in Cells |-> vga_entry(Blank, LightGrey)]
  <1>1. term = Constructed(b) /\ ret = 0 /\ text = <<>> /\ known = TRUE
    BY Zenon DEF TextInit
  <1>2. Init
    <2>1. Blank \in Glyphs \cup {Blank} /\ LightGrey \in Colors
      BY TerminalAssumption
    <2> QED
      BY <1>1, <2>1, Zenon DEF Init
  <1>3. term \in Term /\ ret \in {0, 1}
    BY <1>2, InitTerm
  <1>4. \A i \in Cells : b[i].ch = Blank
    BY DEF vga_entry
  <1> HIDE DEF b
  <1>5. term.row = 0 /\ term.column = 0 /\ ~term.fullLine /\ term.buffer = b
    BY <1>1 DEF Constructed
  <1>6. TextOn(term, <<>>)
    BY <1>3, <1>4, <1>5, EmptyText
  <1>7. text \in Seq(Entries)
    BY <1>1
  <1> QED
    BY <1>1, <1>3, <1>6, <1>7 DEF TextInv

\* The program's steps are calls of the terminal's methods.
LEMMA TextCalls == TextNext => Next
  BY DEF TextNext, Next, writeString, recolor, Refused, cleared

\* What the text says of the screen does not depend on the current colour.
LEMMA TextOnMembers ==
    ASSUME NEW t, NEW u, NEW s, TextOn(t, s),
           u.row = t.row, u.column = t.column, u.fullLine = t.fullLine, u.buffer = t.buffer
    PROVE  TextOn(u, s)
  BY DEF TextOn

LEMMA TextSteps == TextInv /\ [TextNext]_textVars => TextInv'
  <1> SUFFICES ASSUME TextInv, [TextNext]_textVars PROVE TextInv'
    OBVIOUS
  <1>1. /\ term \in Term /\ ret \in {0, 1} /\ text \in Seq(Entries) /\ known \in BOOLEAN
        /\ known => TextOn(term, text)
    BY DEF TextInv
  <1>2. term' \in Term /\ ret' \in {0, 1}
    <2>1. [Next]_vars
      BY TextCalls DEF textVars, vars
    <2> QED
      BY <1>1, <2>1, StepTerm
  <1>3. <<>> \in Seq(Entries)
    OBVIOUS
  <1>4. ASSUME NEW c \in Glyphs \cup Controls \cup {Newline}, writeString(c)
        PROVE  text' \in Seq(Entries) /\ known' \in BOOLEAN /\ (known' => TextOn(term', text'))
    <2>1. /\ term' = PutChar(term, c)
          /\ known' = (known /\ ~(c \in Controls /\ term.fullLine))
          /\ text' = IF ~known' THEN <<>>
                     ELSE IF c \in Controls THEN text
                     ELSE Append(text, vga_entry(c, term.color))
      BY <1>4 DEF writeString, putchar
    <2>a. known' \in BOOLEAN
      BY <1>1, <2>1
    <2>2. CASE ~known'
      BY <1>3, <2>a, <2>1, <2>2
    <2>3. CASE known' /\ c \in Controls
      <3>1. known /\ ~term.fullLine /\ text' = text
        BY <2>1, <2>3
      <3>2. c \notin Glyphs /\ c # Newline /\ c \in Characters
        BY <2>3, TerminalAssumption DEF Characters
      <3>3. term' = [term EXCEPT !.fullLine = FALSE]
        BY <1>1, <2>1, <3>2, PutCharIs DEF Cleared
      <3>4. /\ term'.row = term.row /\ term'.column = term.column
            /\ term'.fullLine = term.fullLine /\ term'.buffer = term.buffer
        BY <1>1, <3>1, <3>3 DEF Term
      <3>5. TextOn(term', text)
        BY <1>1, <3>1, <3>4, TextOnMembers
      <3> QED
        BY <1>1, <2>3, <3>1, <3>5
    <2>4. CASE known' /\ c \notin Controls
      <3> DEFINE x == vga_entry(c, term.color)
      <3>1. known /\ text' = Append(text, x)
        BY <2>1, <2>4
      <3>2. x \in Entries /\ x.ch = c
        BY <1>1, <2>4 DEF vga_entry, Entries, Term
      <3>3. text' \in Seq(Entries)
        <4> HIDE DEF x
        <4> QED
          BY <1>1, <3>1, <3>2
      <3>4. CASE c = Newline
        <4>1. TextOn(PutChar(term, Newline), Append(text, x))
          <5> HIDE DEF x
          <5> QED
            BY <1>1, <3>1, <3>2, <3>4, NewlineText
        <4> QED
          BY <2>1, <2>4, <3>1, <3>3, <3>4, <4>1
      <3>5. CASE c \in Glyphs
        <4>1. TextOn(PutChar(term, c), Append(text, x))
          BY <1>1, <3>1, <3>5, GlyphText
        <4> QED
          BY <2>1, <2>4, <3>1, <3>3, <4>1
      <3> QED
        BY <2>4, <3>4, <3>5
    <2> QED
      BY <2>1, <2>2, <2>3, <2>4
  <1>5. ASSUME NEW color \in Colors, recolor(color)
        PROVE  text' \in Seq(Entries) /\ known' \in BOOLEAN /\ (known' => TextOn(term', text'))
    <2>1. term' = [term EXCEPT !.color = color] /\ text' = text /\ known' = known
      BY <1>5 DEF recolor, setColor
    <2>2. /\ term'.row = term.row /\ term'.column = term.column
          /\ term'.fullLine = term.fullLine /\ term'.buffer = term.buffer
      BY <1>1, <2>1 DEF Term
    <2> QED
      BY <1>1, <2>1, <2>2, TextOnMembers
  <1>6. ASSUME Moved
        PROVE  text' \in Seq(Entries) /\ known' \in BOOLEAN /\ (known' => TextOn(term', text'))
    BY <1>3, <1>6 DEF Moved
  <1>7. ASSUME UNCHANGED <<term, text, known>>
        PROVE  text' \in Seq(Entries) /\ known' \in BOOLEAN /\ (known' => TextOn(term', text'))
    BY <1>1, <1>7
  <1>8. ASSUME cleared
        PROVE  text' \in Seq(Entries) /\ known' \in BOOLEAN /\ (known' => TextOn(term', text'))
    <2> DEFINE b == [i \in Cells |-> vga_entry(Blank, term.color)]
    <2>1. /\ term' = [term EXCEPT !.buffer = b]
          /\ known' = (term.row = 0 /\ term.column = 0 /\ ~term.fullLine)
          /\ text' = <<>>
      BY <1>8, Zenon DEF cleared, clear
    <2>2. \A i \in Cells : b[i].ch = Blank
      BY DEF vga_entry
    <2> HIDE DEF b
    <2>3. /\ term'.row = term.row /\ term'.column = term.column
          /\ term'.fullLine = term.fullLine /\ term'.buffer = b
      BY <1>1, <2>1 DEF Term
    <2>4. known' => TextOn(term', <<>>)
      BY <1>2, <2>1, <2>2, <2>3, EmptyText
    <2> QED
      BY <1>3, <2>1, <2>4
  <1>9. text' \in Seq(Entries) /\ known' \in BOOLEAN /\ (known' => TextOn(term', text'))
    BY <1>4, <1>5, <1>6, <1>7, <1>8
    DEF TextNext, textVars, Refused, scrollRejected, setCursorRejected
  <1> QED
    BY <1>2, <1>9 DEF TextInv

\* Positions and cells say the same as lines and columns.
LEMMA TextMeaning == TextInv => ScreenShowsText
  <1> SUFFICES ASSUME TextInv, known PROVE ScreenShowsText
    BY DEF ScreenShowsText
  <1> DEFINE n == Len(text) + 1
             l == LastLine
             w == vga_width
             o == TopLine * w
             K == {j \in 1 .. Len(text) : text[j].ch # Newline}
             M == MarksOf(text)
  <1>1. text \in Seq(Entries) /\ TextOn(term, text)
    BY DEF TextInv
  <1>2. Len(text) \in Nat /\ n \in 1 .. Len(text) + 1 /\ \A k \in K : k \in 1 .. Len(text) + 1
    BY <1>1
  <1>3. l = LineOf(text, n) /\ TopLine = Top(l)
    BY DEF LastLine, TopLine, Top
  <1>4. l \in Nat /\ TopLine \in 0 .. l /\ l - TopLine \in 0 .. vga_height - 1
        /\ w \in Nat /\ w > 0 /\ vga_height \in Nat
    <2>1. l \in Nat
      BY <1>2, <1>3, PlaceOf
    <2> HIDE DEF l
    <2> QED
      BY <1>3, <2>1, TopIs, TerminalAssumption
  <1>5. term.row = l - TopLine /\ term.column = ColumnOf(text, n) /\ CellsShow(term.buffer, M, l)
    BY <1>1, <1>3, Zenon DEF TextOn
  <1>6. /\ \A m \in M : m.at < (l + 1) * w
        /\ \A m \in M : m.at >= o => term.buffer[m.at - o] = m.entry
        /\ \A i \in Cells : (\A m \in M : m.at # o + i) => term.buffer[i].ch = Blank
    BY <1>3, <1>5 DEF CellsShow
  <1>7. M = {[at |-> Position(text, k), entry |-> text[k]] : k \in K}
    BY Zenon DEF MarksOf
  <1>8. o \in Nat /\ vga_height * w \in Nat /\ (l + 1) * w <= o + vga_height * w
    <2>1. o \in Nat /\ vga_height * w \in Nat
      BY <1>4
    <2>2. l + 1 \in Nat /\ TopLine + vga_height \in Nat /\ l + 1 <= TopLine + vga_height
      BY <1>4
    <2>3. (l + 1) * w <= (TopLine + vga_height) * w
      BY <1>4, <2>2, TimesMonotone
    <2>4. (TopLine + vga_height) * w = o + vga_height * w
      BY <1>4
    <2> QED
      BY <2>1, <2>3, <2>4
  <1> HIDE DEF n, M
  <1>9. ASSUME NEW k \in K
        PROVE  /\ LineOf(text, k) >= TopLine <=> Position(text, k) >= o
               /\ CellOf(k) = Position(text, k) - o
               /\ Position(text, k) \in Nat
    <2> DEFINE a == LineOf(text, k)
               c == ColumnOf(text, k)
    <2>1. a \in Nat /\ c \in 0 .. w - 1 /\ Position(text, k) \in Nat /\ Position(text, k) = a * w + c
      BY <1>2, PlaceOf
    <2>2. (a - TopLine) * w = a * w - o /\ a * w \in Nat
      BY <1>4, <2>1
    <2>3. CellOf(k) = (a - TopLine) * w + c
      BY DEF CellOf
    <2> HIDE DEF a, c
    <2>4. CellOf(k) = Position(text, k) - o
      BY <1>4, <1>8, <2>1, <2>2, <2>3
    <2>5. CASE a >= TopLine
      <3>1. o <= a * w
        BY <1>4, <2>1, <2>5, TimesMonotone
      <3> QED
        BY <1>4, <1>8, <2>1, <2>2, <2>4, <2>5, <3>1 DEF a
    <2>6. CASE ~(a >= TopLine)
      <3>1. a + 1 \in Nat /\ a + 1 <= TopLine
        BY <1>4, <2>1, <2>6
      <3>2. (a + 1) * w <= o
        BY <1>4, <3>1, TimesMonotone
      <3>3. (a + 1) * w = a * w + w
        BY <1>4, <2>1
      <3> HIDE DEF o
      <3>4. ~(Position(text, k) >= o)
        BY <1>4, <1>8, <2>1, <2>2, <3>2, <3>3
      <3> QED
        BY <2>1, <2>4, <2>6, <3>4 DEF a
    <2> QED
      BY <2>5, <2>6
  <1>10. Shown = {k \in K : Position(text, k) >= o}
    BY <1>9 DEF Shown
  <1> HIDE DEF o, K
  <1>11. ASSUME NEW k \in Shown
         PROVE  CellOf(k) \in Cells /\ term.buffer[CellOf(k)] = text[k]
    <2> DEFINE m == [at |-> Position(text, k), entry |-> text[k]]
    <2>1. k \in K /\ Position(text, k) >= o
      BY <1>10
    <2>2. m \in M /\ m.at = Position(text, k) /\ m.entry = text[k]
      BY <1>7, <2>1
    <2> HIDE DEF m
    <2>3. Position(text, k) < (l + 1) * w
      BY <1>6, <2>2
    <2>4. CellOf(k) = Position(text, k) - o /\ Position(text, k) \in Nat
      BY <1>9, <2>1
    <2>5. (l + 1) * w \in Nat
      BY <1>4
    <2>6. CellOf(k) \in 0 .. vga_height * w - 1
      BY <1>8, <2>1, <2>3, <2>4, <2>5
    <2>7. term.buffer[Position(text, k) - o] = text[k]
      BY <1>6, <2>1, <2>2
    <2> QED
      BY <2>4, <2>6, <2>7 DEF Cells
  <1>12. ASSUME NEW i \in Cells \ {CellOf(k) : k \in Shown}
         PROVE  term.buffer[i].ch = Blank
    <2>1. ASSUME NEW m \in M, m.at = o + i PROVE FALSE
      <3>1. PICK k \in K : m = [at |-> Position(text, k), entry |-> text[k]]
        BY <1>7
      <3>2. Position(text, k) = o + i /\ i \in Int /\ i >= 0
        BY <2>1, <3>1 DEF Cells
      <3>3. k \in Shown /\ CellOf(k) = i
        BY <1>8, <1>9, <1>10, <3>2
      <3> QED
        BY <3>3
    <2> QED
      BY <1>6, <2>1
  <1> QED
    BY <1>5, <1>11, <1>12 DEF ScreenShowsText, n

\* However text is printed on a cleared terminal, in whatever colours, the screen
\* shows its last lines in their layout, for every screen size and every text.
THEOREM ScreenAlwaysShowsText == TextSpec => []ScreenShowsText
  BY TextStarts, TextSteps, TextMeaning, PTL DEF TextSpec
=============================================================================
