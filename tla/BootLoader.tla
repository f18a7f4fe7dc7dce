----------------------------- MODULE BootLoader -----------------------------
(***************************************************************************)
(* _stage1Main with the memory queries it makes: Stage1.tla, where         *)
(* buildMultibootInfo (bootloader/stage1main.cpp:108) waits for the        *)
(* queries of MemoryDetection.tla when the kernel's header asks for the    *)
(* memory map, and panics with them.                                       *)
(***************************************************************************)
EXTENDS Stage1, MemoryDetection

CONSTANT Scenarios    \* [image, map, garbage]: kernel, memory map, dirty heap word

ASSUME ScenariosAssumption ==
    \A s \in Scenarios : s.image \in Images /\ IsMap(s.map) /\ s.garbage \in Nat

BootInit ==
    \E s \in Scenarios : LoaderInit(s.image) /\ QueryInit(s.map, s.garbage)

WantsMap == 0 \in image.flags

Answered == query \in {"done", "panic"}

queryMemory ==
    /\ pc = "build info"
    /\ WantsMap
    /\ QueryNext
    /\ UNCHANGED vars

buildInfo ==
    /\ buildMultibootInfo
    /\ WantsMap => Answered
    /\ pc' = "panic" <=> query = "panic"
    /\ UNCHANGED queryVars

load == LoaderNext /\ UNCHANGED queryVars

BootNext == load \/ queryMemory \/ buildInfo

BootSpec ==
    BootInit /\ [][BootNext]_<<vars, queryVars>> /\ WF_<<vars, queryVars>>(BootNext)

-----------------------------------------------------------------------------
\* Once a header is found, the boot fails only over a memory query that
\* failed, a file elf_check_file refuses, a program header of dynamic linking,
\* or a last program header that ends at address 0, which elf32_load cannot
\* tell from failure (stage1main.cpp:219); headers of other types ("We don't
\* care about these", stage1main.cpp:199) never stop it.
LoadPanicEarned ==
    pc = "panic" /\ mbHeader # NoHeader =>
        \/ query = "panic"
        \/ ~image.elf
        \/ \E k \in 1 .. Len(image.phs) : image.phs[k].type \in {"DYNAMIC", "INTERP"}
        \/ finalMem = 0

\* The boot ends in the kernel or in a panic, with the memory queries in the
\* middle of it, if the file covers the search window or has its header there
\* (stage1main.cpp:90-104 searches for ever otherwise) and no segment is
\* loaded over the loader or its headers (stage1main.cpp:182).
BootEnds ==
    /\ CoversWindow \/ \E p \in image.headers : p <= MULTIBOOT_SEARCH - headerWords
    /\ \A k \in 1 .. Len(image.phs) : Loads(image.phs[k]) => SparesLoader(image.phs[k])
    => <>(pc \in {"kernel", "panic"})
=============================================================================
