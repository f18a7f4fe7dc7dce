----------------------------- MODULE EnableA20 ------------------------------
(***************************************************************************)
(* The entry code of stage 1, bootloader/stage1.S: from _start, in real    *)
(* mode with interrupts on, to protected mode.  It makes sure of address   *)
(* line 20, by the BIOS, the keyboard controller and the fast gate in      *)
(* turn.                                                                   *)
(*                                                                         *)
(* Three parties run concurrently: the processor, the keyboard controller  *)
(* (external: it takes bytes from its input buffer and fills its output    *)
(* buffer) and, while interrupts are on, the BIOS's keyboard handler,      *)
(* which empties the output buffer.  A busy wait on the status port is the *)
(* guard of the step after it.  check_a20 runs with interrupts off and is  *)
(* one step.                                                               *)
(***************************************************************************)
EXTENDS Integers

CONSTANTS
    Bytes,       \* contents of the memory check_a20 writes to
    MaxKeys      \* bound on the keys pressed

None == "none"

ASSUME EnableA20Assumption ==
    /\ Bytes \subseteq 0 .. 255
    /\ MaxKeys \in Nat

VARIABLES
    pc,          \* next step of the processor, after the labels of the code
    flagIF,      \* interrupts are on
    al,          \* byte read from port 0x60
    memory,      \* the words at 0x500 (low) and 0x100500 (high), by bytes
    before,      \* the same at _start
    a20,         \* the line is enabled
    fastBit,     \* bit 1 of port 0x92
    kbWired,     \* the line obeys the controller on this machine
    kbc,         \* controller: input buffer, output buffer, whether the
                 \* keyboard is enabled, whether a data byte is due, whether
                 \* the other bits of the output port are what they were
    keys,        \* keys pressed so far
    stale        \* a key was in the output buffer with interrupts off

machine == <<fastBit, kbWired, before>>
vars == <<pc, flagIF, al, memory, before, a20, fastBit, kbWired, kbc, keys, stale>>

Words == [{"low", "high"} -> Bytes \X Bytes]

Init ==
    /\ pc = "a20_stuff"
    /\ flagIF = TRUE
    /\ al = None
    /\ memory \in Words
    /\ before = memory
    /\ a20 \in BOOLEAN
    /\ fastBit \in BOOLEAN
    /\ kbWired \in BOOLEAN
    /\ kbc = [input |-> None, output |-> None, enabled |-> TRUE, due |-> FALSE, kept |-> TRUE]
    /\ keys = 0
    /\ stale = FALSE

-----------------------------------------------------------------------------
(***************************************************************************)
(* check_a20.  With the line disabled the high address is the low one.     *)
(***************************************************************************)
High == IF a20 THEN "high" ELSE "low"

\* The two words as the test leaves them: movw $0 low, movw $0xff high.
Written == [[memory EXCEPT !["low"] = <<0, 0>>] EXCEPT ![High] = <<255, 0>>]

\* Mutant of WrapsAround: a test of the upper byte.
WrapsAroundUpper == Written["low"][2] = 255

\* cmpw $0xff, %es:(%di)
WrapsAround == Written["low"] = <<255, 0>>

\* Mutant of Restored: the pops in the order of the pushes.
RestoredSwapped ==
    [[Written EXCEPT ![High][1] = memory["low"][1]] EXCEPT !["low"][1] = memory[High][1]]

\* One byte of each word is put back, the high one first.
Restored ==
    [[Written EXCEPT ![High][1] = memory[High][1]] EXCEPT !["low"][1] = memory["low"][1]]

check_a20(from, enabled, disabled) ==
    /\ pc = from
    /\ memory' = Restored
    /\ pc' = IF WrapsAround THEN disabled ELSE enabled
    /\ UNCHANGED <<flagIF, al, a20, machine, kbc, keys, stale>>

(***************************************************************************)
(* int 15h, ax = 2403h asks for support, ax = 2401h enables; the BIOS may  *)
(* refuse either, or report success without effect.                        *)
(***************************************************************************)
int15_test ==
    /\ pc = "int15_test"
    /\ pc' \in {"int15_enable", "keyboard_enable"}
    /\ UNCHANGED <<flagIF, al, memory, a20, machine, kbc, keys, stale>>

int15_enable ==
    /\ pc = "int15_enable"
    /\ \/ /\ pc' = "int15 check"
          /\ a20' \in {a20, TRUE}
       \/ /\ pc' = "keyboard_enable"
          /\ UNCHANGED a20
    /\ UNCHANGED <<flagIF, al, memory, machine, kbc, keys, stale>>

(***************************************************************************)
(* The keyboard controller, as the processor drives it.                    *)
(***************************************************************************)
\* Mutant of AfterCli: interrupts stay on.
AfterCliOn == TRUE

AfterCli == FALSE

keyboard_enable ==
    /\ pc = "keyboard_enable"
    /\ flagIF' = AfterCli
    /\ stale' = (kbc.output # None)
    /\ pc' = "out 0xad"
    /\ UNCHANGED <<al, memory, a20, machine, kbc, keys>>

\* Mutant of a20_wait: no wait.
a20_waitNot == TRUE

a20_wait == kbc.input = None

\* Mutant of a20_wait_2: no wait.
a20_wait_2Not == TRUE

a20_wait_2 == kbc.output # None

out(from, byte, to) ==
    /\ pc = from
    /\ a20_wait
    /\ kbc' = [kbc EXCEPT !.input = byte]
    /\ pc' = to
    /\ UNCHANGED <<flagIF, al, memory, a20, machine, keys, stale>>

in ==
    /\ pc = "in 0x60"
    /\ a20_wait_2
    /\ al' = kbc.output
    /\ kbc' = [kbc EXCEPT !.output = None]
    /\ pc' = "out 0xd1"
    /\ UNCHANGED <<flagIF, memory, a20, machine, keys, stale>>

sti ==
    /\ pc = "sti"
    /\ a20_wait
    /\ flagIF' = TRUE
    /\ pc' = "keyboard check"
    /\ UNCHANGED <<al, memory, a20, machine, kbc, keys, stale>>

\* What was read goes back with bit 1 set; its other bits are al's.
commands ==
    \/ out("out 0xad", "0xad", "out 0xd0")
    \/ out("out 0xd0", "0xd0", "in 0x60")
    \/ out("out 0xd1", "0xd1", "out 0x60")
    \/ out("out 0x60", al, "out 0xae")
    \/ out("out 0xae", "0xae", "sti")

(***************************************************************************)
(* The fast gate, then giving up; protected mode.                          *)
(***************************************************************************)
fast_a20_enable ==
    /\ pc = "fast_a20_enable"
    /\ IF fastBit
       THEN /\ pc' = "error"
            /\ UNCHANGED <<a20, fastBit>>
       ELSE /\ pc' = "fast check"
            /\ fastBit' = TRUE
            /\ a20' \in {a20, TRUE}
    /\ UNCHANGED <<flagIF, al, memory, before, kbWired, kbc, keys, stale>>

error ==
    /\ pc = "error"
    /\ pc' = "halted"
    /\ flagIF' = FALSE
    /\ UNCHANGED <<al, memory, a20, machine, kbc, keys, stale>>

pmEntry ==
    /\ pc = "a20_done"
    /\ pc' = "protected"
    /\ flagIF' = FALSE
    /\ UNCHANGED <<al, memory, a20, machine, kbc, keys, stale>>

Processor ==
    \/ check_a20("a20_stuff", "a20_done", "int15_test")
    \/ int15_test
    \/ int15_enable
    \/ check_a20("int15 check", "a20_done", "keyboard_enable")
    \/ keyboard_enable
    \/ commands
    \/ in
    \/ sti
    \/ check_a20("keyboard check", "a20_done", "fast_a20_enable")
    \/ fast_a20_enable
    \/ check_a20("fast check", "a20_done", "error")
    \/ error
    \/ pmEntry

-----------------------------------------------------------------------------
(***************************************************************************)
(* The controller and its neighbours.  The byte that follows 0xd1 goes to  *)
(* the output port: "port" is the port's own value, anything else changes  *)
(* its other bits, and with bit 0 clear resets the machine.                *)
(***************************************************************************)
Taken == [kbc EXCEPT !.input = None]

command ==
    /\ kbc.input # None
    /\ ~kbc.due
    /\ kbc' = CASE kbc.input = "0xad" -> [Taken EXCEPT !.enabled = FALSE]
                [] kbc.input = "0xae" -> [Taken EXCEPT !.enabled = TRUE]
                [] kbc.input = "0xd0" -> [Taken EXCEPT !.output = "port"]
                [] kbc.input = "0xd1" -> [Taken EXCEPT !.due = TRUE]
                [] OTHER -> Taken
    /\ UNCHANGED <<pc, flagIF, al, memory, a20, machine, keys, stale>>

outputPort ==
    /\ kbc.input # None
    /\ kbc.due
    /\ kbc' = [Taken EXCEPT !.due = FALSE, !.kept = kbc.kept /\ kbc.input = "port"]
    /\ a20' = (a20 \/ kbWired)
    /\ pc' \in {pc} \cup (IF kbc.input = "port" THEN {} ELSE {"reset"})
    /\ UNCHANGED <<flagIF, al, memory, machine, keys, stale>>

keyPressed ==
    /\ keys < MaxKeys
    /\ kbc.enabled
    /\ kbc.output = None
    /\ kbc' = [kbc EXCEPT !.output = "key"]
    /\ keys' = keys + 1
    /\ stale' = (stale \/ ~flagIF)
    /\ UNCHANGED <<pc, flagIF, al, memory, a20, machine>>

\* The BIOS's handler of the keyboard interrupt.
irq1 ==
    /\ flagIF
    /\ kbc.output # None
    /\ kbc' = [kbc EXCEPT !.output = None]
    /\ UNCHANGED <<pc, flagIF, al, memory, a20, machine, keys, stale>>

Running == pc \notin {"protected", "halted", "reset"}

Next ==
    /\ Running
    /\ Processor \/ command \/ outputPort \/ keyPressed \/ irq1

-----------------------------------------------------------------------------
\* Protected mode is entered only with the line enabled, whichever of the
\* three methods did it and whatever the BIOS claimed (stage1.S:33-50,
\* "%ax == 1 if A20 is enabled", line 133).
ProtectedMeansEnabled == pc = "protected" => a20

\* However often check_a20 runs, with the line enabled or not, the byte at
\* each tested address is what it was (stage1.S:155-173, "Restore locations").
\* The byte after it, which movw overwrites, comes back as 0 or untouched.
TestedBytesRestored ==
    \A w \in {"low", "high"} :
        /\ memory[w][1] = before[w][1]
        /\ memory[w][2] \in {before[w][2], 0}

\* Outside of its conversation with the controller the processor leaves the
\* keyboard as it found it: every command was taken for what it was, so the
\* last one, 0xae, has enabled the keyboard again and no data byte is due, even
\* when a key was read in place of the answer (.a20_wait before every byte and
\* before sti, stage1.S:219-247).
KeyboardBack ==
    pc \notin {"out 0xad", "out 0xd0", "in 0x60", "out 0xd1", "out 0x60", "out 0xae", "sti", "reset"}
        => kbc.enabled /\ ~kbc.due /\ kbc.input = None

\* The value written back to the output port is the one read from it, so that
\* only the A20 bit changes (stage1.S:228-240), unless a key was waiting in the
\* output buffer when interrupts went off, or came in before the keyboard did:
\* .a20_wait_2 cannot tell a key from the answer.
OutputPortKept == ~stale => kbc.kept /\ pc # "reset"
=============================================================================
