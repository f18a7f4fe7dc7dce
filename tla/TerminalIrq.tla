----------------------------- MODULE TerminalIrq ----------------------------
(***************************************************************************)
(* putchar interrupted by the spurious-interrupt handler.                  *)
(*                                                                         *)
(* The kernel prints with interrupts enabled after loadIDT                 *)
(* (kernel/system/interrupts.cpp:43-52), and interruptHandler answers      *)
(* vector 0xff by printing on the same terminal and returning (lines       *)
(* 114-118).  Vectors are interrupt gates, so the handler itself runs with *)
(* interrupts off: it is one step here.  putchar is cut at every load and  *)
(* store of a member, as the debug build compiles it (each ++ loads,       *)
(* stores, and loads again for the comparison).                            *)
(***************************************************************************)
EXTENDS Terminal, Sequences

CONSTANTS
    Warning,     \* what the handler prints, ending with Newline
    MaxIrqs,     \* bound on the number of spurious interrupts
    MaxRow       \* bound on _row, which the hardware's 16 bits give the code

ASSUME WarningAssumption ==
    /\ Warning \in Seq(Glyphs \cup {Newline})
    /\ Len(Warning) > 0
    /\ Warning[Len(Warning)] = Newline

VARIABLES
    pc,          \* next access of the interrupted putchar, "idle" outside it
    arg,         \* its argument
    reg,         \* the register that holds a loaded member
    index,       \* its local variable index
    started,     \* the terminal when it was called
    irqs         \* spurious interrupts so far

irqVars == <<term, ret, pc, arg, reg, index, started, irqs>>

IrqInit ==
    /\ term = Constructed([i \in Cells |-> vga_entry(Blank, LightGrey)])
    /\ ret = 0
    /\ pc = "idle"
    /\ arg = Newline
    /\ reg = 0
    /\ index = 0
    /\ started = term
    /\ irqs = 0

call(c) ==
    /\ pc = "idle"
    /\ term.row < MaxRow
    /\ arg' = c
    /\ started' = term
    /\ pc' = IF c = Newline THEN "testFull" ELSE "clearFull"
    /\ UNCHANGED <<term, ret, reg, index, irqs>>

\* One access: at `from` memory becomes t and the register r; then `to`.
Access(from, to, t, r) ==
    /\ pc = from
    /\ pc' = to
    /\ term' = t
    /\ reg' = r
    /\ UNCHANGED <<arg, index, started, irqs>>

Returns(from, t, value) ==
    /\ Access(from, "idle", t, reg)
    /\ ret' = value

(***************************************************************************)
(* The newline path.                                                       *)
(***************************************************************************)
testFull ==
    /\ Access("testFull", IF term.fullLine THEN "swallow" ELSE "columnZero", term, reg)
    /\ UNCHANGED ret

swallow == Returns("swallow", [term EXCEPT !.fullLine = FALSE], 0)

columnZero ==
    /\ Access("columnZero", "loadRow", [term EXCEPT !.column = 0], reg)
    /\ UNCHANGED ret

(***************************************************************************)
(* if (++_row == vga_height) { scroll(1); _row--; }, on both paths.        *)
(***************************************************************************)
loadRow ==
    /\ Access("loadRow", "storeRow", term, term.row)
    /\ UNCHANGED ret

storeRow ==
    /\ Access("storeRow", "testRow", [term EXCEPT !.row = reg + 1], reg)
    /\ UNCHANGED ret

\* Mutant of BottomPassed: off by one.
BottomPassedEarly(row) == row = vga_height - 1

BottomPassed(row) == row = vga_height

testRow ==
    \/ /\ BottomPassed(term.row)
       /\ Access("testRow", "scroll", term, reg)
       /\ UNCHANGED ret
    \/ /\ ~BottomPassed(term.row)
       /\ Returns("testRow", term, 0)

scrollOne ==
    /\ Access("scroll", "loadRowDown", Scrolled(term, 1), reg)
    /\ UNCHANGED ret

loadRowDown ==
    /\ Access("loadRowDown", "storeRowDown", term, term.row)
    /\ UNCHANGED ret

storeRowDown == Returns("storeRowDown", [term EXCEPT !.row = reg - 1], 0)

(***************************************************************************)
(* The character path.                                                     *)
(***************************************************************************)
clearFull ==
    /\ Access("clearFull", "indexRow", [term EXCEPT !.fullLine = FALSE], reg)
    /\ UNCHANGED ret

indexRow ==
    /\ Access("indexRow", "indexColumn", term, term.row * vga_width)
    /\ UNCHANGED ret

indexColumn ==
    /\ pc = "indexColumn"
    /\ index' = reg + term.column
    /\ IF arg \in Glyphs
       THEN pc' = "storeCell" /\ UNCHANGED ret
       ELSE pc' = "idle" /\ ret' = 1
    /\ UNCHANGED <<term, arg, reg, started, irqs>>

storeCell ==
    /\ Access("storeCell", "loadColumn", Store(term, index, arg), reg)
    /\ UNCHANGED ret

loadColumn ==
    /\ Access("loadColumn", "storeColumn", term, term.column)
    /\ UNCHANGED ret

storeColumn ==
    /\ Access("storeColumn", "testColumn", [term EXCEPT !.column = reg + 1], reg)
    /\ UNCHANGED ret

\* Mutant of LineFull: the test of a post-increment.
LineFullLate(column) == column = vga_width + 1

LineFull(column) == column = vga_width

testColumn ==
    \/ /\ LineFull(term.column)
       /\ Access("testColumn", "wrap", term, reg)
       /\ UNCHANGED ret
    \/ /\ ~LineFull(term.column)
       /\ Returns("testColumn", term, 0)

wrapColumn ==
    /\ Access("wrap", "setFull", [term EXCEPT !.column = 0], reg)
    /\ UNCHANGED ret

setFull ==
    /\ Access("setFull", "loadRow", [term EXCEPT !.fullLine = TRUE], reg)
    /\ UNCHANGED ret

(***************************************************************************)
(* interruptHandler with vector 0xff, between any two accesses.            *)
(***************************************************************************)
\* The terminal after n characters of the warning.
Printed[n \in 0 .. Len(Warning)] ==
    IF n = 0 THEN term ELSE PutChar(Printed[n - 1], Warning[n])

spuriousInterrupt ==
    /\ irqs < MaxIrqs
    /\ irqs' = irqs + 1
    /\ term' = Printed[Len(Warning)]
    /\ UNCHANGED <<ret, pc, arg, reg, index, started>>

IrqNext ==
    \/ \E c \in Glyphs \cup Controls \cup {Newline} : call(c)
    \/ testFull \/ swallow \/ columnZero
    \/ loadRow \/ storeRow \/ testRow \/ scrollOne \/ loadRowDown \/ storeRowDown
    \/ clearFull \/ indexRow \/ indexColumn \/ storeCell
    \/ loadColumn \/ storeColumn \/ testColumn \/ wrapColumn \/ setFull
    \/ spuriousInterrupt

IrqSpec == IrqInit /\ [][IrqNext]_irqVars

-----------------------------------------------------------------------------
\* The terminal as a caller of putchar sees it, between its calls.
Whole == INSTANCE Terminal WITH
    term <- IF pc = "idle" THEN term ELSE started,
    ret <- ret

\* Until the first interrupt the accesses add up to the method: every putchar,
\* seen from its call to its return, is the one step of Terminal
\* (BIOSVideoIO.cpp:35-82).
AccessesAddUp == Whole!Init /\ [][irqs' = 0 => Whole!Next]_(Whole!vars)

\* Whatever interrupts come, the column is back on the screen when putchar
\* returns: the handler's newline leaves column 0, which the test of line 68
\* then accepts.
ColumnInBoundsAtRest == pc = "idle" => term.column < vga_width

\* "Increment column, check if we need to change lines, or scroll"
\* (BIOSVideoIO.cpp:67): after a putchar the cursor is on the screen again.
RowInBoundsAtRest == pc = "idle" => term.row < vga_height
=============================================================================
