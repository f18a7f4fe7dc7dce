------------------------------ MODULE BiosRead ------------------------------
(***************************************************************************)
(* A disk read with its trips to real mode: DiskRead and RealMode          *)
(* together.  Each BIOS request is a realModeCall with asmCall_int13 as    *)
(* its function.                                                           *)
(*                                                                         *)
(* They also meet in memory.  The heap reaches over 0xFFFE, so that        *)
(* the byte realModeCall uses as its mask can be one that an earlier       *)
(* request of the same read has brought in.                                *)
(***************************************************************************)
EXTENDS DiskRead, RealMode

CONSTANTS
    BytePlaces,      \* positions in the buffer whose sector covers 0xFFFE
    OddSectors       \* sectors whose byte there is odd

ASSUME BiosReadAssumption ==
    /\ BytePlaces \subseteq Nat
    /\ OddSectors \subseteq Nat

VARIABLES
    place            \* the position that covers 0xFFFE, past the buffer if none does

biosVars == <<vars, rmVars, place>>

BiosInit ==
    /\ Init
    /\ RealModeInit
    /\ place \in BytePlaces

\* What the byte at 0xFFFE is, once the buffer's content is b.
ByteIn(b) ==
    IF place \in DOMAIN b THEN IF b[place] \in OddSectors THEN 17 ELSE 16
    ELSE byteFFFE

InProtectedMode ==
    /\ rm = "idle"
    /\ fillDAP \/ earlyPanic \/ moveOut \/ return
    /\ byteFFFE' = ByteIn(buffer')
    /\ UNCHANGED <<rm, cr0, segments, env, temp>>

ToRealMode ==
    /\ pc = "int13"
    /\ realModeCall \/ pm16Entry \/ realEntry
    /\ UNCHANGED vars

asmCall_int13 == Call /\ functionReturns

BackToProtectedMode ==
    /\ enterProtected \/ pm32Entry
    /\ UNCHANGED vars

BiosNext ==
    /\ InProtectedMode \/ ToRealMode \/ asmCall_int13 \/ BackToProtectedMode
    /\ UNCHANGED place

\* The processor and the BIOS make progress.
BiosSpec == BiosInit /\ [][BiosNext]_biosVars /\ WF_biosVars(BiosNext)

-----------------------------------------------------------------------------
\* Whenever diskRead16 runs, PE and the data segments are set, and the return
\* address and the stack pointers are its own (realModeCall.S:15-22, 60-86).
\* "Restore the 32-bit execution environment" (realModeCall.S:80) promises more:
\* edi and esi, and perhaps ebx, which a C++ caller expects back too, come back
\* with what asmCall_int13 and the BIOS left in them.
ModeAndStackRestored ==
    rm = "idle" => /\ PE \in cr0
                   /\ segments = "data32"
                   /\ \A r \in Saved : env[r] = Callers[r]

\* A request resets the machine only by an odd byte at 0xFFFE: one that was
\* there before, or one that an earlier request of the same read put there
\* (realModeCall.S:41).  With even bytes every request gets through.
FaultNeedsOddByte ==
    rm = "fault" => IF place \in DOMAIN buffer THEN buffer[place] \in OddSectors
                    ELSE byteFFFE % 2 = 1

\* Every read ends: it returns, or the machine panics or resets.
ReadEnds == <>(pc \in {"returned", "panic"} \/ rm = "fault")

\* "Disable PE bit in cr0" (realModeCall.S:39): PE is clear when the far jump
\* to real mode is made.
PeDisabled == rm \in {"realEntry", "fault"} => PE \notin cr0
=============================================================================
