------------------------------- MODULE Stage1 -------------------------------
(***************************************************************************)
(* The main program of the boot loader, _stage1Main of                     *)
(* bootloader/stage1main.cpp: from the entry out of bootloader/stage1.S to *)
(* the jump into the kernel.                                               *)
(*                                                                         *)
(* The kernel image is a record: its size in 4-byte words, the words at    *)
(* which a valid multiboot header starts (those past the end of the file   *)
(* are stray data in memory), the flags of that header, whether the ELF    *)
(* header is one elf_check_file accepts, and the program headers.  Reading *)
(* the file is Fat32.tla and the heap is Heap.tla: here they answer.  The  *)
(* memory map is MemoryDetection.tla, which BootLoader.tla puts together   *)
(* with this module.                                                       *)
(*                                                                         *)
(* The file, its headers and the loader itself lie in the memory the       *)
(* segments are copied to.  A word of memory is named by the address it    *)
(* was at before the load: word k of the file is FileAt + k.  A segment    *)
(* over the loader or over the headers it is reading leaves it running on  *)
(* what the kernel image happens to hold, and the model ends ("astray").   *)
(***************************************************************************)
EXTENDS Integers, Sequences, FiniteSets, FiniteSetsExt

CONSTANTS
    MULTIBOOT_SEARCH,  \* search window in words: 2048 in the code
    MaxSearch,         \* bound on the search, which may never end
    ImageSizes,        \* sizes of kernel images, in words
    HeaderPlaces,      \* sets of words a valid header starts at
    FlagSets,          \* sets of header flags; 3 stands for flags 3 to 15
    ProgramHeaders,    \* sequences of elf32_Phdr
    Addresses,         \* physical memory, in words
    FileAt,            \* kernelFile->ptr: where the file was read to
    LoaderRam,         \* the loader's code, stack and variables
    TableWords,        \* words of the file that hold its ELF and program headers
    Cursors,           \* <<row, column>> the BIOS left the cursor at
    PartitionTables    \* sets of partitions 1 to 4 marked bootable

headerWords == 3       \* the 12 bytes of a multiboot header
vga_height == 25
vga_width == 80
NoHeader == -1
Zero == -1             \* a word memset cleared
NoInfo == {-1}         \* a null info pointer

\* What the loader uses of a program header (include/sys/elf.h).
elf32_Phdr == [type : STRING, paddr : Nat, offset : Nat, filesz : Nat, memsz : Nat]

ASSUME Stage1Assumption ==
    /\ MULTIBOOT_SEARCH \in Nat
    /\ MULTIBOOT_SEARCH > headerWords
    /\ MaxSearch \in Nat
    /\ ImageSizes \subseteq Nat
    /\ HeaderPlaces \subseteq SUBSET Nat
    /\ Addresses \subseteq Nat
    /\ FileAt \in Nat
    /\ LoaderRam \subseteq Nat
    /\ TableWords \subseteq Nat
    /\ PartitionTables \subseteq SUBSET (1 .. 4)
    /\ ProgramHeaders \subseteq Seq(elf32_Phdr)
    /\ \A phs \in ProgramHeaders : Len(phs) > 0
    /\ \A phs \in ProgramHeaders : \A k \in 1 .. Len(phs) :
          /\ phs[k].filesz <= phs[k].memsz
          /\ FileAt + phs[k].offset .. FileAt + phs[k].offset + phs[k].filesz - 1
                \subseteq Addresses

VARIABLES
    cursor,      \* argument of _stage1Main
    parts,       \* partition table in the MBR
    image,       \* KERNEL.BIN
    pc,          \* next step of _stage1Main
    term,        \* the terminal's row and column before anything is printed
    partition,   \* partition getPartitionLBA chose, 0 before
    at,          \* header of multibootHeaderSearch
    mbHeader,    \* its result
    mbInfo,      \* set of flags in the info structure, or NoInfo
    ph,          \* program header elf32_load looks at
    memory       \* physical memory

vars == <<cursor, parts, image, pc, term, partition, at, mbHeader, mbInfo, ph, memory>>

Images == [size : ImageSizes, headers : HeaderPlaces, flags : FlagSets,
           elf : BOOLEAN, phs : ProgramHeaders]

\* With kernel image k.
LoaderInit(k) ==
    /\ cursor \in Cursors
    /\ parts \in PartitionTables
    /\ image = k
    /\ pc = "entry"
    /\ term = <<0, 0>>
    /\ partition = 0
    /\ at = 0
    /\ mbHeader = NoHeader
    /\ mbInfo = {}
    /\ ph = 1
    /\ memory = [a \in Addresses |-> a]

earlyPanic == pc' = "panic"

-----------------------------------------------------------------------------
(***************************************************************************)
(* The terminal starts at the cursor stage1.S passed: %dh is the row, %dl  *)
(* the column.                                                             *)
(***************************************************************************)
row == cursor[1]

\* cursor & 0xff00, which setCursor takes as a uint8_t.
column == (cursor[1] * 256) % 256

enter ==
    /\ pc = "entry"
    /\ term' = IF row < vga_height /\ column < vga_width THEN <<row, column>> ELSE term
    /\ pc' = "partition"
    /\ UNCHANGED <<cursor, parts, image, partition, at, mbHeader, mbInfo, ph, memory>>

getPartitionLBA ==
    /\ pc = "partition"
    /\ \/ /\ parts # {}
          /\ partition' = Min(parts)
          /\ pc' = "read kernel"
       \/ /\ parts = {}
          /\ earlyPanic
          /\ UNCHANGED partition
    /\ UNCHANGED <<cursor, parts, image, term, at, mbHeader, mbInfo, ph, memory>>

\* fat32::init and getRootFile, which may not find the file or panic.
readKernel ==
    /\ pc = "read kernel"
    /\ pc' = "search" \/ earlyPanic
    /\ UNCHANGED <<cursor, parts, image, term, partition, at, mbHeader, mbInfo, ph, memory>>

(***************************************************************************)
(* multibootHeaderSearch.                                                  *)
(***************************************************************************)
KeepsSearching(p) == p <= MULTIBOOT_SEARCH - headerWords \/ p >= image.size

HeaderAt(p) == p \in image.headers

\* Mutant of NextPlace: every other word.
NextPlaceFar(p) == p + 2

NextPlace(p) == p + 1

multibootHeaderSearch ==
    /\ pc = "search"
    /\ KeepsSearching(at)
    /\ at < MaxSearch
    /\ \/ /\ HeaderAt(at)
          /\ mbHeader' = at
          /\ pc' = "build info"
          /\ UNCHANGED at
       \/ /\ ~HeaderAt(at)
          /\ at' = NextPlace(at)
          /\ UNCHANGED <<mbHeader, pc>>
    /\ UNCHANGED <<cursor, parts, image, term, partition, mbInfo, ph, memory>>

noMultibootHeader ==
    /\ pc = "search"
    /\ ~KeepsSearching(at)
    /\ earlyPanic
    /\ UNCHANGED <<cursor, parts, image, term, partition, at, mbHeader, mbInfo, ph, memory>>

(***************************************************************************)
(* buildMultibootInfo.  Flag 0 sets info flags 0 and 6 (memory sizes and   *)
(* map), flag 1 sets info flag 1 (boot device); flags 2 to 15 give null.   *)
(* The memory queries may panic.                                           *)
(***************************************************************************)
InfoFlags(flags) ==
    (IF 0 \in flags THEN {0, 6} ELSE {}) \cup (IF 1 \in flags THEN {1} ELSE {})

buildMultibootInfo ==
    /\ pc = "build info"
    /\ \/ /\ mbInfo' = IF image.flags \cap {2, 3} # {} THEN NoInfo ELSE InfoFlags(image.flags)
          /\ pc' = "check elf"
       \/ /\ 0 \in image.flags
          /\ earlyPanic
          /\ UNCHANGED mbInfo
    /\ UNCHANGED <<cursor, parts, image, term, partition, at, mbHeader, ph, memory>>

elf_check_file ==
    /\ pc = "check elf"
    /\ pc' = IF image.elf THEN "load" ELSE "panic"
    /\ UNCHANGED <<cursor, parts, image, term, partition, at, mbHeader, mbInfo, ph, memory>>

(***************************************************************************)
(* elf32_load, one program header per step: memcpy, forwards and word by   *)
(* word out of the memory it writes to, then memset.                       *)
(***************************************************************************)
\* Mutant of elf_check_prog_header: every type but PT_LOAD is turned down.
elf_check_prog_headerStrict(h) == h.type = "LOAD"

elf_check_prog_header(h) == h.type \notin {"DYNAMIC", "INTERP"}

Loads(h) == h.type = "LOAD" /\ h.memsz # 0

\* Mutant of ZeroFill: the length is not reduced by what was copied.
ZeroFillLong(h) == h.paddr + h.filesz .. h.paddr + h.filesz + h.memsz - 1

\* Addresses memset clears.
ZeroFill(h) == h.paddr + h.filesz .. h.paddr + h.memsz - 1

src(h) == FileAt + h.offset

\* The word memcpy puts at distance j.  With the destination up to j words
\* above the source, the word it reads there is one it wrote before.
Copied(h, j) ==
    LET d == h.paddr - src(h) IN
    memory[src(h) + (IF d \in 1 .. j THEN j % d ELSE j)]

Loaded(h) ==
    [a \in Addresses |->
        IF a \in ZeroFill(h) THEN Zero
        ELSE IF a \in h.paddr .. h.paddr + h.filesz - 1 THEN Copied(h, a - h.paddr)
        ELSE memory[a]]

\* The loader and the headers it reads are not in the way of the segment.
SparesLoader(h) ==
    (h.paddr .. h.paddr + h.memsz - 1)
        \cap (LoaderRam \cup {FileAt + w : w \in TableWords}) = {}

\* Mutant of NextHeader: the loop does not advance.
NextHeaderNever(k) == k

NextHeader(k) == k + 1

elf32_load ==
    /\ pc = "load"
    /\ ph <= Len(image.phs)
    /\ LET h == image.phs[ph] IN
       \/ /\ ~elf_check_prog_header(h)
          /\ earlyPanic
          /\ UNCHANGED <<ph, memory>>
       \/ /\ elf_check_prog_header(h)
          /\ memory' = IF Loads(h) THEN Loaded(h) ELSE memory
          /\ ph' = NextHeader(ph)
          /\ pc' = IF Loads(h) /\ ~SparesLoader(h) THEN "astray" ELSE pc
    /\ UNCHANGED <<cursor, parts, image, term, partition, at, mbHeader, mbInfo>>

\* What elf32_load returns: the end of the last program header, of any type.
finalMem == image.phs[Len(image.phs)].paddr + image.phs[Len(image.phs)].memsz

jumpKernel ==
    /\ pc = "load"
    /\ ph > Len(image.phs)
    /\ pc' = IF finalMem = 0 THEN "panic" ELSE "kernel"
    /\ UNCHANGED <<cursor, parts, image, term, partition, at, mbHeader, mbInfo, ph, memory>>

\* Every step but buildMultibootInfo, which asks for the memory map.
LoaderNext ==
    \/ enter \/ getPartitionLBA \/ readKernel
    \/ multibootHeaderSearch \/ noMultibootHeader
    \/ elf_check_file \/ elf32_load \/ jumpKernel

-----------------------------------------------------------------------------
\* Segments of the image that cover an address, by number.
Covering(a) ==
    {k \in 1 .. Len(image.phs) :
        /\ image.phs[k].type = "LOAD"
        /\ a \in image.phs[k].paddr .. image.phs[k].paddr + image.phs[k].memsz - 1}

\* What the ELF file says the address holds: the last segment that covers it
\* gives a word of the file or, past its file size, zero.
ElfContent(a) ==
    IF Covering(a) = {} THEN a
    ELSE LET h == image.phs[Max(Covering(a))] IN
         IF a - h.paddr < h.filesz THEN FileAt + h.offset + (a - h.paddr) ELSE Zero

\* No segment lies over what it, or a segment after it, is copied from.
SourcesKept ==
    \A k, l \in 1 .. Len(image.phs) :
        k <= l /\ Loads(image.phs[k]) /\ Loads(image.phs[l]) =>
            (image.phs[k].paddr .. image.phs[k].paddr + image.phs[k].memsz - 1)
                \cap (src(image.phs[l]) .. src(image.phs[l]) + image.phs[l].filesz - 1) = {}

\* When the loader jumps, memory holds exactly the image the ELF file
\* describes and what it held before everywhere else, if no segment was loaded
\* over the file contents still to be copied: "ATTENTION: This makes no sanity
\* checks on loadable segments" (stage1main.cpp:180-223, the comment at 182).
LoadedAsElfSays ==
    pc = "kernel" /\ SourcesKept => \A a \in Addresses : memory[a] = ElfContent(a)

\* The file is not shorter than the search window.  The loop of
\* multibootHeaderSearch goes on while the header is in the window or past the
\* file ("Check for file size", stage1main.cpp:94): a shorter file is searched
\* past its end, and without a header for ever.
CoversWindow == image.size >= MULTIBOOT_SEARCH

\* The header the search settles on is the first one in the window, and a
\* panic for want of a header means the window has none
\* (stage1main.cpp:86-106, multiboot.h:160 "Multiboot header must be contained
\* within the first MULTIBOOT_SEARCH bytes of the kernel image").  In a short
\* file, what is in the window is still found first.
FirstHeaderWins ==
    LET window == {p \in image.headers : p <= MULTIBOOT_SEARCH - headerWords} IN
    /\ mbHeader # NoHeader /\ (CoversWindow \/ window # {}) =>
          window # {} /\ mbHeader = Min(window)
    /\ pc = "search" /\ ~KeepsSearching(at) => window = {}
=============================================================================
