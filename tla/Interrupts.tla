----------------------------- MODULE Interrupts -----------------------------
(***************************************************************************)
(* The kernel's interrupt handling: interruptDescriptorTable::init and     *)
(* interruptHandler of kernel/system/interrupts.cpp, and the stubs of      *)
(* kernel/system/interruptHandler.S and interruptAutoGen.inc.              *)
(*                                                                         *)
(* The program it interrupts is only a place, "kmain", that the processor  *)
(* can be at.  Around it stand the two 8259 controllers (external), which  *)
(* take their words in the middle of whatever their lines do, and the      *)
(* exceptions and non-maskable interrupts of the processor, which come     *)
(* whether or not interrupts are on.                                       *)
(***************************************************************************)
EXTENDS Integers, Sequences, FiniteSetsExt

CONSTANTS
    Lines,       \* interrupt lines of a controller that devices use
    Faults,      \* vectors of exceptions and of the NMI that may happen
    MaxEvents    \* bound on requests, spurious interrupts and faults

IDT_SIZE == 256
Controllers == {"master", "slave"}
AllLines == 0 .. 7

ASSUME InterruptsAssumption ==
    /\ Lines \subseteq AllLines \ {2}
    /\ Faults \subseteq 0 .. 31
    /\ MaxEvents \in Nat

VARIABLES
    pic,         \* each controller: vector base, masked lines, requests, and
                 \* the initialisation word it expects (0: none)
    flagIF,      \* interrupts are on
    step,        \* next step of init
    outs,        \* words disablePIC has written
    installed,   \* gates installAll has filled: vectors below it
    idtr,        \* lidt has been executed
    run,         \* where the processor is: "kmain", or in a handler
    number,      \* vector the stub running was written for
    stack,       \* words pushed since kmain was interrupted, the top last
    taken,       \* the interrupts being handled and what they interrupted
    shown,       \* digits of the vector in the panic message
    events       \* events so far

intVars == <<pic, flagIF, step, outs, installed, idtr, run, number, stack, taken, shown, events>>

\* As the BIOS set the controllers up; boot.S has executed cli.
IntInit ==
    /\ pic = [c \in Controllers |->
                 [base |-> IF c = "master" THEN 8 ELSE 112, mask |-> {}, irr |-> {}, icw |-> 0]]
    /\ flagIF = FALSE
    /\ step = "disablePIC"
    /\ outs = 0
    /\ installed = 0
    /\ idtr = FALSE
    /\ run = "kmain"
    /\ number = 0
    /\ stack = <<>>
    /\ taken = <<>>
    /\ shown = <<>>
    /\ events = 0

-----------------------------------------------------------------------------
(***************************************************************************)
(* disablePIC: the words it writes, in order, and what a controller does   *)
(* with one.  Only the upper five bits of a vector offset count.           *)
(***************************************************************************)
MASTER_PIC_VECTOR_OFFSET == 254    \* 0xfe
SLAVE_PIC_VECTOR_OFFSET == 254
ICW1 == 17                         \* ICW1_INIT | ICW1_ICW4
ICW4_8086 == 1
PIC_MASK_INTERRUPTS == 255

Out(controller, port, word) == [to |-> controller, port |-> port, word |-> word]

\* Mutant of PicWords: the controllers are masked first, then initialised.
PicWordsMaskFirst ==
    << Out("master", "data", PIC_MASK_INTERRUPTS), Out("slave", "data", PIC_MASK_INTERRUPTS),
       Out("master", "command", ICW1), Out("slave", "command", ICW1),
       Out("master", "data", MASTER_PIC_VECTOR_OFFSET),
       Out("slave", "data", SLAVE_PIC_VECTOR_OFFSET),
       Out("master", "data", 4), Out("slave", "data", 2),
       Out("master", "data", ICW4_8086), Out("slave", "data", ICW4_8086) >>

PicWords ==
    << Out("master", "command", ICW1), Out("slave", "command", ICW1),
       Out("master", "data", MASTER_PIC_VECTOR_OFFSET),
       Out("slave", "data", SLAVE_PIC_VECTOR_OFFSET),
       Out("master", "data", 4), Out("slave", "data", 2),
       Out("master", "data", ICW4_8086), Out("slave", "data", ICW4_8086),
       Out("master", "data", PIC_MASK_INTERRUPTS), Out("slave", "data", PIC_MASK_INTERRUPTS) >>

Accepted(c, o) ==
    CASE o.port = "command" -> [c EXCEPT !.mask = {}, !.irr = {}, !.icw = 2]
      [] o.port = "data" /\ c.icw = 2 -> [c EXCEPT !.base = o.word - (o.word % 8), !.icw = 3]
      [] o.port = "data" /\ c.icw = 3 -> [c EXCEPT !.icw = 4]
      [] o.port = "data" /\ c.icw = 4 -> [c EXCEPT !.icw = 0]
      [] OTHER -> [c EXCEPT !.mask = {l \in AllLines : (o.word \div 2^l) % 2 = 1}]

disablePIC ==
    /\ step = "disablePIC"
    /\ run = "kmain"
    /\ LET o == PicWords[outs + 1] IN pic' = [pic EXCEPT ![o.to] = Accepted(@, o)]
    /\ outs' = outs + 1
    /\ step' = IF outs' = Len(PicWords) THEN "installAll" ELSE step
    /\ UNCHANGED <<flagIF, installed, idtr, run, number, stack, taken, shown, events>>

(***************************************************************************)
(* installAll, one step because nobody reads the table before lidt; then   *)
(* loadIDT: cli, lidt, sti.                                                *)
(***************************************************************************)
\* installInterrupt for i = 0 to 255.
Gates == IDT_SIZE

installAll ==
    /\ step = "installAll"
    /\ run = "kmain"
    /\ installed' = Gates
    /\ step' = "loadIDT"
    /\ UNCHANGED <<pic, flagIF, outs, idtr, run, number, stack, taken, shown, events>>

\* Mutant of LoadSteps: interrupts are on before lidt.
LoadStepsEarly ==
    << [step |-> "loadIDT", flagIF |-> TRUE, idtr |-> FALSE],
       [step |-> "lidt", flagIF |-> TRUE, idtr |-> TRUE],
       [step |-> "sti", flagIF |-> TRUE, idtr |-> TRUE] >>

LoadSteps ==
    << [step |-> "loadIDT", flagIF |-> FALSE, idtr |-> FALSE],
       [step |-> "lidt", flagIF |-> FALSE, idtr |-> TRUE],
       [step |-> "sti", flagIF |-> TRUE, idtr |-> TRUE] >>

loadIDT ==
    /\ run = "kmain"
    /\ \E k \in 1 .. Len(LoadSteps) :
          /\ step = LoadSteps[k].step
          /\ flagIF' = LoadSteps[k].flagIF
          /\ idtr' = LoadSteps[k].idtr
          /\ step' = IF k = Len(LoadSteps) THEN "enabled" ELSE LoadSteps[k + 1].step
    /\ UNCHANGED <<pic, outs, installed, run, number, stack, taken, shown, events>>

init == disablePIC \/ installAll \/ loadIDT

-----------------------------------------------------------------------------
(***************************************************************************)
(* An interrupt is taken: the processor pushes flags and return address,   *)
(* and an error code with some exceptions, and enters the gate's stub.     *)
(* Without a table, or without a gate in it, the machine resets.           *)
(***************************************************************************)
ErrorCode == {8, 10, 11, 12, 13, 14, 17, 21, 29, 30}

\* installInterrupt(i, _handler_stub_table[i], 0)
GateOf(v) == v

\* Mutant of IFInGate: trap gates (type 0xf) leave the flag alone.
IFInGateTrap == flagIF

\* Gates of type 0xe, 32-bit interrupt, clear it.
IFInGate == FALSE

take(v, source) ==
    \/ /\ idtr /\ v < installed
       /\ stack' = stack \o << <<"eflags", flagIF>>, <<"cs", "kernel">>, <<"eip", run>> >>
                         \o (IF source = "fault" /\ v \in ErrorCode THEN << <<"error", v>> >> ELSE <<>>)
       /\ taken' = Append(taken, [vector |-> v, source |-> source, run |-> run,
                                  flagIF |-> flagIF, stack |-> stack, number |-> number])
       /\ flagIF' = IFInGate
       /\ run' = "stub"
       /\ number' = GateOf(v)
    \/ /\ ~(idtr /\ v < installed)
       /\ run' = "reset"
       /\ UNCHANGED <<flagIF, number, stack, taken>>

(***************************************************************************)
(* The stub: a dummy error code where the processor pushes none, the       *)
(* number, pushal (one word here), the call.                               *)
(***************************************************************************)
\* Mutant of CREATE_HANDLER_ERR: the general protection fault is left out.
CREATE_HANDLER_ERRShort == {8, 10, 11, 12, 14, 17, 21, 29, 30}

\* Numbers whose stub expects an error code on the stack.
CREATE_HANDLER_ERR == {8, 10, 11, 12, 13, 14, 17, 21, 29, 30}

stub ==
    /\ run = "stub"
    /\ stack' = stack \o (IF number \in CREATE_HANDLER_ERR THEN <<>> ELSE << <<"error", 0>> >>)
                      \o << <<"number", number>>, <<"pushal", number>>, <<"return", 0>> >>
    /\ run' = "interruptHandler"
    /\ UNCHANGED <<pic, flagIF, step, outs, installed, idtr, number, taken, shown, events>>

(***************************************************************************)
(* xtoa with base 16, of a vector: the digits from the lowest up, then     *)
(* inverted by swapping position i with its mirror for i = 0 to index / 2. *)
(***************************************************************************)
LowestFirst[n \in 0 .. IDT_SIZE - 1] ==
    IF n = 0 THEN <<>> ELSE <<n % 16>> \o LowestFirst[n \div 16]

\* Mutant of Swapped: one turn of the loop less.
SwappedShort(i, last) == i < last \div 2

Swapped(i, last) == i < last \div 2 + 1

xtoa(value) ==
    LET digits == LowestFirst[value]
        last == Len(digits) - 1
    IN  IF value = 0 THEN <<0>>
        ELSE [k \in 1 .. Len(digits) |->
                 IF Swapped(k - 1, last) \/ Swapped(last - (k - 1), last)
                 THEN digits[Len(digits) - k + 1] ELSE digits[k]]

(***************************************************************************)
(* interruptHandler.  Its argument isr_frame is what lies above the return *)
(* address: pushal's registers, intNumber, errorCode, eip, cs, eflags.     *)
(* The first three characters of xtoa's answer go into the message, whose  *)
(* text ends at the terminating zero.                                      *)
(***************************************************************************)
isr_frame(k) == stack[Len(stack) - k]
intNumber == isr_frame(2)[2]

Spurious == 255

IsSpurious(vector) == vector = Spurious

interruptHandler ==
    /\ run = "interruptHandler"
    /\ \/ /\ IsSpurious(intNumber)
          /\ run' = "popal"
          /\ UNCHANGED shown
       \/ /\ ~IsSpurious(intNumber)
          /\ shown' = SubSeq(xtoa(intNumber), 1, Min({3, Len(xtoa(intNumber))}))
          /\ run' = "panic"
    /\ UNCHANGED <<pic, flagIF, step, outs, installed, idtr, number, stack, taken, events>>

\* Mutant of Discarded: the error code stays on the stack.
DiscardedShort == 1

\* add $8, %esp, in words
Discarded == 2

\* ret, popal, add, iret.
iret ==
    /\ run = "popal"
    /\ LET top == Len(stack) - 2 - Discarded IN
       /\ run' = IF stack[top][1] = "eip" THEN stack[top][2] ELSE "lost"
       /\ flagIF' = IF stack[top - 2][1] = "eflags" THEN stack[top - 2][2] ELSE flagIF
       /\ stack' = SubSeq(stack, 1, top - 3)
    /\ number' = taken[Len(taken)].number
    /\ taken' = SubSeq(taken, 1, Len(taken) - 1)
    /\ UNCHANGED <<pic, step, outs, installed, idtr, shown, events>>

handler == stub \/ interruptHandler \/ iret

-----------------------------------------------------------------------------
(***************************************************************************)
(* Events.  A controller that expects an initialisation word is quiet; the *)
(* slave speaks through line 2 of the master.                              *)
(***************************************************************************)
Running == run \notin {"panic", "reset", "lost"}

Happens ==
    /\ Running
    /\ events < MaxEvents
    /\ events' = events + 1

request(c, l) ==
    /\ Happens
    /\ pic' = [pic EXCEPT ![c].irr = @ \cup {l}]
    /\ UNCHANGED <<flagIF, step, outs, installed, idtr, run, number, stack, taken, shown>>

Pending(c) ==
    IF pic[c].icw = 0 /\ (c = "slave" => pic["master"].icw = 0 /\ 2 \notin pic["master"].mask)
    THEN pic[c].irr \ pic[c].mask ELSE {}

irq(c) ==
    /\ Running
    /\ flagIF
    /\ Pending(c) # {}
    /\ take(pic[c].base + Min(Pending(c)), "line")
    /\ pic' = [pic EXCEPT ![c].irr = @ \ {Min(Pending(c))}]
    /\ UNCHANGED <<step, outs, installed, idtr, shown, events>>

\* A request that went away before it was acknowledged: the master answers
\* with its line 7, masked or not.
spuriousIrq ==
    /\ Happens
    /\ flagIF
    /\ pic["master"].icw = 0
    /\ take(pic["master"].base + 7, "line")
    /\ UNCHANGED <<pic, step, outs, installed, idtr, shown>>

fault(v) ==
    /\ Happens
    /\ take(v, "fault")
    /\ UNCHANGED <<pic, step, outs, installed, idtr, shown>>

Event ==
    \/ \E c \in Controllers, l \in Lines : request(c, l)
    \/ \E c \in Controllers : irq(c)
    \/ spuriousIrq
    \/ \E v \in Faults : fault(v)

-----------------------------------------------------------------------------
\* Whatever the devices do while the controllers are remapped and masked, the
\* only interrupt line the processor ever answers is the spurious one, and it
\* comes in on vector 0xff, which interruptHandler returns from: offset 0xfe
\* puts line 7 there, on both controllers (interrupts.cpp:79-105, 114-118).
OnlySpuriousLine == \A k \in 1 .. Len(taken) : taken[k].source = "line" => taken[k].vector = Spurious

\* From sti on every interrupt finds its gate: the machine resets only by an
\* exception or NMI that comes before lidt, with interrupts still off
\* (interrupts.cpp:62-77).
ResetsOnlyBeforeIdt == [][run # "reset" /\ run' = "reset" => ~idtr /\ ~flagIF]_intVars

\* interruptHandler finds in its argument the vector that was taken, the place
\* it interrupted and its flags, whichever vectors come with an error code and
\* however the handlers nest (interruptHandler.S:16-36, interrupts.hpp:85-90).
FrameIsOfInterrupt ==
    run = "interruptHandler" =>
        LET t == taken[Len(taken)] IN
        /\ intNumber = t.vector
        /\ isr_frame(4) = <<"eip", t.run>>
        /\ isr_frame(6) = <<"eflags", t.flagIF>>

\* A handler that returns leaves the processor as the interrupt found it:
\* place, interrupt flag, stack (interruptHandler.S:50-54, 69-73).
ReturnsAsInterrupted ==
    [][Len(taken') < Len(taken) =>
          LET t == taken[Len(taken)] IN
          run' = t.run /\ flagIF' = t.flagIF /\ stack' = t.stack /\ number' = t.number]_intVars

\* The handler of a line is not interrupted by another: a spurious interrupt
\* cannot enter the terminal twice, nor grow the stack without bound.
LinesDoNotNest == \A k \in 2 .. Len(taken) : taken[k].source # "line"

\* The number that hexadecimal digits, the highest first, stand for.
NumberOf(digits) ==
    LET upTo[n \in 0 .. Len(digits)] == IF n = 0 THEN 0 ELSE 16 * upTo[n - 1] + digits[n]
    IN  upTo[Len(digits)]

\* The panic message names the vector: its digits are those of the interrupt
\* that was taken last (interrupts.cpp:123-132).
PanicNamesVector ==
    run = "panic" /\ shown # <<>> => NumberOf(shown) = taken[Len(taken)].vector
=============================================================================
