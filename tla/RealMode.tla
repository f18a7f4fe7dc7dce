------------------------------ MODULE RealMode ------------------------------
(***************************************************************************)
(* realModeCall of lib/earlyLib/realModeCall.S: from 32-bit protected mode *)
(* to a 16-bit function in real mode and back.                             *)
(*                                                                         *)
(* cr0 is the set of bits set in its low byte; bit 0 is PE.  Of the        *)
(* registers env has those that a C++ caller expects back and the return   *)
(* address; asmCall_int13 is the function called.  A far jump with         *)
(* selector 0 in protected mode faults, and without an interrupt table     *)
(* that resets the machine.                                                *)
(***************************************************************************)
EXTENDS Integers

CONSTANT InitialBytes    \* values of the byte at 0xFFFE, which nothing initialises

ASSUME RealModeAssumption == InitialBytes \subseteq 0 .. 255

PE == 0

\* The 12 bytes of _temp: the return address and the stack pointers.
Saved == {"return", "ebp", "esp"}

\* What the calling convention leaves with the callee to keep.
Environment == Saved \cup {"ebx", "esi", "edi"}

\* The caller's values, each named by its register.
Callers == [r \in Environment |-> r]

VARIABLES
    rm,          \* next step, "idle" outside the call
    cr0,         \* bits set in the low byte of cr0
    segments,    \* what the segment registers hold
    env,         \* the return address and the registers
    temp,        \* _temp
    byteFFFE     \* the byte at 0xFFFE

rmVars == <<rm, cr0, segments, env, temp, byteFFFE>>

RealModeInit ==
    /\ rm = "idle"
    /\ cr0 = {PE, 4}
    /\ segments = "data32"
    /\ env = Callers
    /\ temp = [r \in Saved |-> "zero"]
    /\ byteFFFE \in InitialBytes

\* pop, mov to _temp, cli, ljmp $CODE16_SEGMENT
realModeCall ==
    /\ rm = "idle"
    /\ temp' = [r \in Saved |-> env[r]]
    /\ rm' = "pm16Entry"
    /\ UNCHANGED <<cr0, segments, env, byteFFFE>>

\* Mutant of Masked: the bit after PE.
MaskedWrong(bits) == bits \ {1}

\* and ~0x01, %al: without a $ the operand is memory, at 0xFFFE.
Masked(bits) == {b \in bits : (byteFFFE \div 2^b) % 2 = 1}

pm16Entry ==
    /\ rm = "pm16Entry"
    /\ cr0' = Masked(cr0)
    /\ segments' = "data16"
    /\ rm' = IF PE \in cr0' THEN "fault" ELSE "realEntry"
    /\ UNCHANGED <<env, temp, byteFFFE>>

\* mov %sp, %bp and the segments
realEntry ==
    /\ rm = "realEntry"
    /\ segments' = "zero"
    /\ env' = [env EXCEPT !["ebp"] = "16-bit"]
    /\ rm' = "function"
    /\ UNCHANGED <<cr0, temp, byteFFFE>>

\* The function returns: its pops and calls moved esp and wrote over the return
\* address below it, asmCall_int13 used di and si, and the BIOS may have used
\* bx.
functionReturns ==
    /\ rm = "function"
    /\ \E bx \in {env["ebx"], "16-bit"} :
          env' = [r \in Environment |-> IF r = "ebx" THEN bx ELSE "16-bit"]
    /\ rm' = "or $1"
    /\ UNCHANGED <<cr0, segments, temp, byteFFFE>>

\* cli, or $1, ljmp $CODE32_SEGMENT
enterProtected ==
    /\ rm = "or $1"
    /\ cr0' = cr0 \cup {PE}
    /\ rm' = "pm32Entry"
    /\ UNCHANGED <<segments, env, temp, byteFFFE>>

\* Mutant of Restored: the stack pointers the other way round.
RestoredSwapped ==
    [r \in Environment |->
        CASE r = "ebp" -> temp["esp"] [] r = "esp" -> temp["ebp"]
          [] r = "return" -> temp[r] [] OTHER -> env[r]]

Restored == [r \in Environment |-> IF r \in Saved THEN temp[r] ELSE env[r]]

pm32Entry ==
    /\ rm = "pm32Entry"
    /\ segments' = "data32"
    /\ env' = Restored
    /\ rm' = "idle"
    /\ UNCHANGED <<cr0, temp, byteFFFE>>
=============================================================================
