------------------------------- MODULE Kernel -------------------------------
(***************************************************************************)
(* The kernel from its entry to its end: kernel/boot.S and kmain of        *)
(* kernel/kmain.cpp, with the local APIC of kernel/devices/cpu/apic.cpp.   *)
(* It composes the search for the ACPI tables (Acpi) and the interrupt     *)
(* handling (Interrupts), whose steps are kmain's while it is in them.     *)
(*                                                                         *)
(* What kmain prints is left out: Terminal and TerminalIrq are about that. *)
(* Memory addresses are <<page, offset>> where the local APIC's registers  *)
(* are concerned.                                                          *)
(***************************************************************************)
EXTENDS Acpi, Interrupts

CONSTANTS
    Signatures,  \* values of eax after cpuid(1): the processor signature
    WordsAt      \* values of the page field in the word at that address

pageSize == 4096
NoWrite == <<0, 0>>

ASSUME KernelAssumption ==
    /\ Signatures \subseteq Nat
    /\ WordsAt \subseteq Nat

VARIABLES
    kpc,         \* next step of kmain
    cpu,         \* the processor: has CPUID, has an APIC, its signature, the
                 \* page field of the word at that address
    lapicBase,   \* IA32_APIC_BASE: page and the low 12 bits
    written      \* where enable() wrote the spurious vector register

kmainVars == <<kpc, cpu, lapicBase, written>>
kernelVars == <<acpiVars, intVars, kmainVars>>

KernelInit ==
    /\ AcpiInit
    /\ IntInit
    /\ kpc = "cpuid"
    /\ cpu \in [cpuid : BOOLEAN, apic : BOOLEAN, signature : Signatures, word : WordsAt]
    \* the registers' usual page, enabled (0x800), bootstrap processor (0x100)
    /\ lapicBase = [page |-> 1043968, low |-> 2304]
    /\ written = NoWrite

\* A step of kmain itself, from one place to another.
kmain(from, to) ==
    /\ run = "kmain"
    /\ kpc = from
    /\ kpc' = to

-----------------------------------------------------------------------------
\* earlyPanic with interrupts as they are: the machine stops.
earlyPanic(from) ==
    /\ kmain(from, "panic")
    /\ run' = "panic"
    /\ UNCHANGED <<acpiVars, pic, flagIF, step, outs, installed, idtr, number, stack, taken,
                   shown, events, cpu, lapicBase, written>>

check_CPUID_available ==
    \/ /\ cpu.cpuid
       /\ kmain("cpuid", "acpi")
       /\ UNCHANGED <<acpiVars, intVars, cpu, lapicBase, written>>
    \/ /\ ~cpu.cpuid
       /\ earlyPanic("cpuid")

(***************************************************************************)
(* The constructors acpi_header, acpi_madt, getEntry, io_apic.             *)
(***************************************************************************)
findIoApic ==
    /\ run = "kmain"
    /\ kpc = "acpi"
    /\ AcpiNext
    /\ UNCHANGED <<intVars, kmainVars>>

foundIoApic ==
    \/ /\ search = "done"
       /\ kmain("acpi", "lapic")
       /\ UNCHANGED <<acpiVars, intVars, cpu, lapicBase, written>>
    \/ /\ search = "panic"
       /\ earlyPanic("acpi")

(***************************************************************************)
(* l_apic: _reg is what cpuid(1) leaves in eax.  enable() writes it, less  *)
(* its low 12 bits, to IA32_APIC_BASE, and takes the registers' page from  *)
(* the word _reg points at; the register number 0xF0 counts words of four  *)
(* bytes.                                                                  *)
(***************************************************************************)
SPURIOUS_INTERRUPT_VECTOR == 240

l_apic ==
    \/ /\ cpu.apic
       /\ kmain("lapic", "enable")
       /\ UNCHANGED <<acpiVars, intVars, cpu, lapicBase, written>>
    \/ /\ ~cpu.apic
       /\ earlyPanic("lapic")

enable ==
    /\ kmain("enable", "init")
    /\ lapicBase' = [page |-> cpu.signature \div pageSize, low |-> 0]
    /\ written' = <<cpu.word, 4 * SPURIOUS_INTERRUPT_VECTOR>>
    /\ UNCHANGED <<acpiVars, intVars, cpu>>

(***************************************************************************)
(* idt.init(), then int $0x34, from which interruptHandler does not come   *)
(* back.                                                                   *)
(***************************************************************************)
initIdt ==
    /\ kpc = "init"
    /\ init
    /\ UNCHANGED <<acpiVars, kmainVars>>

int34 ==
    /\ step = "enabled"
    /\ kmain("init", "int 0x34")
    /\ take(52, "int")
    /\ UNCHANGED <<acpiVars, pic, step, outs, installed, idtr, shown, events,
                   cpu, lapicBase, written>>

Program ==
    \/ check_CPUID_available
    \/ findIoApic \/ foundIoApic
    \/ l_apic \/ enable
    \/ initIdt \/ int34
    \/ handler /\ UNCHANGED <<acpiVars, kmainVars>>

KernelNext == Program \/ (Event /\ UNCHANGED <<acpiVars, kmainVars>>)

\* The processor runs; nothing has to happen around it.
KernelSpec == KernelInit /\ [][KernelNext]_kernelVars /\ WF_kernelVars(Program)

-----------------------------------------------------------------------------
\* The kernel ends, in a panic or a reset, on every firmware whose MADT has no
\* record of length 0 before its I/O APIC: getEntry (acpi.cpp:111-119) walks
\* on the spot there for ever.
KernelEnds == WalkableMadt => <>(run \in {"panic", "reset"})

\* "Set enabled bit" and "Set the Spurious Interrupt Vector register enable bit
\* to start receiving interrupts" (apic.cpp:46, 49): after enable() the local
\* APIC is enabled and its spurious vector register has been written.
LocalApicEnabled ==
    kpc \in {"init", "int 0x34"} =>
        /\ (lapicBase.low \div 2048) % 2 = 1
        /\ written = <<lapicBase.page, SPURIOUS_INTERRUPT_VECTOR>>
=============================================================================
