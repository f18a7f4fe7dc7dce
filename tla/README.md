# A TLA+ verification project for RainbowOS

RainbowOS is a small x86 kernel with its own boot loader: a boot sector
(stage 0), a protected-mode loader (stage 1) that reads `KERNEL.BIN` from a
FAT32 partition and loads it as an ELF file, and a kernel that sets up ACPI,
the APIC and interrupts. This directory models the parts with state worth
checking, checks them with TLC on small instances, and proves with TLAPS, for
every value of the constants, every safety property the passing runs check.

`PROJECT.json` lists, for every definition, the source lines it models.

## Inventory

| Part | State | Operations | Interacts with | Hard because |
| --- | --- | --- | --- | --- |
| Boot sector (`bootloader/stage0.S`) | disk address packet, load buffer | copy itself down, reset, two reads, signature check, jump | BIOS, stage 1 | half-filled packet, sector count from the disk |
| Stage 1 entry (`bootloader/stage1.S`) | A20 gate, keyboard controller, test bytes | A20 check, three ways of enabling, switch to protected mode | BIOS, controller, keyboard handler | unbounded waits, concurrent devices |
| Real-mode switch (`lib/earlyLib/realModeCall.S`) | `cr0`, segments, saved stack pointers | one round trip | every BIOS call of the loader | mode and stack must be restored, memory operand |
| Disk reads (`lib/earlyLib/diskRead16.cpp`) | address packet, bounce buffer | `diskRead16` | BIOS through the real-mode switch | chunking, failures in the middle |
| Early heap (`lib/earlyLib/memory.cpp`) | list of headers in the arena | `heapInitialize`, `kalloc`/`new`, `kfree`/`delete` | every part of the loader allocates from it | unsigned arithmetic, merge in one direction, wrong pointers |
| FAT32 reader (`lib/fs/fat32.cpp`) | boot record, FAT, partition | `init`, `readDir`, `getRootFile` | disk reads, heap | chains, end marks, sizes from two sources |
| Stage 1 main (`bootloader/stage1main.cpp`) | none kept | partition, header search, info structure, ELF load, jump | all of the above | limits and null results |
| Memory detection (`lib/earlyLib/memoryDetection16.cpp`) | map array | `queryLowerMemory`, `queryUpperMemory`, `getUpperMemorySize` | BIOS, heap, info structure | record layout, uninitialised memory, limits |
| Text terminal (`lib/io/BIOSVideoIO.cpp`), stream (`klib/io.hpp`) | cursor, colour, full-line flag, cells | `putchar`, `scroll`, `setCursor`, `setColor`, `clear`, `reset` | printed on by the loader, the kernel and the interrupt handler | equality tests, a flag that remembers the past, interrupts |
| Kernel entry (`kernel/boot.S`, `kernel/kmain.cpp`) | none kept | CPUID, ACPI, APIC, IDT, `int $0x34` | the four below | every step may panic, interrupts in between |
| ACPI tables (`kernel/devices/acpiKernel.cpp`, `kernel/system/acpi.cpp`) | descriptor, root table, MADT | search, checksum, `findEntry`, `getEntry` | firmware's memory | damaged, missing and far tables, empty records |
| Local and I/O APIC (`kernel/devices/cpu/`) | `IA32_APIC_BASE`, register page | `checkApic`, `l_apic`, `enable`, `io_apic` | CPUID, MSR, MADT | values used in the place of addresses |
| Interrupts (`kernel/system/interrupts.cpp`, stubs) | descriptor table, 8259s, interrupt flag, stack | `init`, `installAll`, `loadIDT`, stubs, `interruptHandler` | devices, processor, terminal | interleaving, nesting, two frame layouts |
| C routines (`string.c`, `cstdlib.hpp`) | none | copies, comparisons, `xtoa` | everything | edges of numbers |

What makes each correct is stated as properties of its module, below. The
hazards are listed in `PROJECT.json`, each at the line where it bites.

## Modules

The boot in its order; a module after an arrow composes the ones before it.

    Stage0 + EnableA20              -> BootEntry      from the BIOS to protected mode
    DiskRead + RealMode             -> BiosRead       one disk read, requests through real mode
    HeapSpec <= Heap                -> HeapClient     the allocator and its clients
    Fat32                                             one file lookup
    Stage1 + MemoryDetection        -> BootLoader     _stage1Main with its memory queries
    Terminal                        -> TerminalText   the terminal against a reference layout
    Terminal <= TerminalIrq                           putchar by its memory accesses, interrupted
    Acpi + Interrupts               -> Kernel         kmain

**`Stage0`** is the boot sector. The upper half of the packet's LBA is not
stored by `lba_read`, so it is whatever memory held (`Uppers`); a request with
another upper half than 0 is not on the disk and fails.

**`EnableA20`** is the entry code of stage 1: `check_a20` on the two words it
writes (one word when the line is disabled) and the three ways of enabling the
line. The keyboard controller, the keyboard and the BIOS's keyboard handler run
beside the processor; busy waits are guards. **`BootEntry`** runs it after
`Stage0`.

**`RealMode`** is the round trip of `realModeCall`: `cr0` as a set of bits, the
segment registers as one value, the save area `_temp`, and in `env` the return
address and the registers a C++ caller expects back: the three that are saved,
and `ebx`, `esi` and `edi`, which are not and which the function called uses.
`and ~0x01, %al` has a memory operand, so the byte at
0xFFFE is part of the state. **`DiskRead`** is the loop of `diskRead16`; sectors
are named by their LBA and the BIOS may fail at every request. **`BiosRead`**
puts them together: each request is a trip, and the caller's buffer may cover
0xFFFE (`place`), so that a sector read by one request decides what the next
trip does.

**`HeapSpec`** is the promise to callers: a set of live buffers in an arena; an
allocation adds a buffer that overlaps no other, or answers NULL and changes
nothing; giving back ends one buffer, none, or the machine.

**`Heap`** is the header list. `nxt` and `reserved` hold the `_next` pointer and
the reserved bit of every header on the list, `call` the last call, its argument
and its result. `kalloc` is first fit with the split of `allocate`, with the
unsigned test as the build evaluates it; `kfree` is the search, `free` and
`defragment` in one step (nothing interrupts the heap: it is used by one thread
and by no handler). A split that leaves fewer than 8 bytes puts its header over
the next one, and `init` writes the bytes it writes: with 1 to 4 bytes left the
`_next` of the next header changes (`NextAfterInit`), with 5 to 7 no field is
hit but the size of the new block wraps. `Intact` says that neither a field was
written over nor a block without room for a header handed out; where it no
longer holds, what the walks find depends on the bytes callers store, and no
further call is modelled. **`HeapClient`** adds the client:
it allocates and frees as it likes, and `lifo` remembers whether every free so
far was of its newest buffer. `MCHeap` instantiates it.

**`Fat32`** chooses a well-formed volume in the initial state (sectors per
cluster, chain order, reserved bits of the FAT entries, directory contents, file
size around sector boundaries, where the root directory starts, a second root
cluster) and runs `init` and `getRootFile` on it. `readDir` counts one entry a
step; on a directory that fills its cluster the count goes on through the heap,
and `MaxCount` bounds how far.

**`Stage1`** is `_stage1Main`. The file, its program headers and the loader lie
in the memory that segments are loaded to: a word is named by the address it was
at before the load, `memcpy` copies forward word by word, so that a segment over
its own source repeats words, and a segment over the loader or over the headers
it reads ends the model ("astray": what runs from there on is the segment's
content). **`MemoryDetection`** models the E820 loop at
the level of 32-bit words, because what is wrong or right there is where the
words land. **`BootLoader`** lets `buildMultibootInfo` wait for the queries and
panic with them. `MCBootLoader` gives images of up to three program headers,
overlapping ones, unsupported ones and ones over the file and the loader
included, and memory maps.

**`Terminal`** has the terminal as a record, each method as an operator from
terminal to terminal and as an action. **`TerminalText`** adds the printed text
and a reference layout, which holds while `known`: from a cleared screen on,
until the cursor is moved by hand, the screen is scrolled by hand, or a rejected
character follows a full line; `reset` and `clear` start anew. **`TerminalIrq`**
cuts `putchar` at its loads and stores, as the debug build compiles it, and lets
the spurious-interrupt handler, one step because interrupt gates keep interrupts
off, run between any two. Vector 0xff is reachable both from the local APIC and
from the remapped PIC.

**`Acpi`** is the kernel's way to its I/O APIC: the scan of two areas in steps of
one byte, the check of the first descriptor found, the walk over the root table
and the walk over the MADT, one step per turn, on whatever firmware left in
memory.

**`Interrupts`** has the words `disablePIC` writes one by one, with the 8259s
taking them while their lines are raised, `installAll`, `loadIDT`,
and the handling of an interrupt: what the processor pushes, what the two kinds
of stub push and pop, `interruptHandler` with the panic message of `xtoa`, and
`iret`. Requests, spurious interrupts, exceptions and NMIs are events that may
come at any step; `taken` remembers what each interrupted. **`Kernel`** is
`kmain` around both, with the CPUID check and the local APIC, up to
`int $0x34`.

Theorems are in modules of their own, one for each composition: `HeapProofs` and
`HeapClientProofs`, `TerminalProofs`, `BiosReadProofs`, `BootEntryProofs`,
`Fat32Proofs`, `BootLoaderProofs`, `KernelProofs`.

The compositions are joined by what they assume of each other: `Fat32` uses a
disk read that returns whole or panics (`BiosRead`: `PrefixInPlace`, `ReadEnds`)
and an allocator that may answer NULL at any time (`HeapSpec`); `Stage1` uses a
file that is read whole or missing (`Fat32`: `FileReadWhole`,
`NotFoundIsTrue`); `TerminalIrq` uses that the handler of a line is not
interrupted by another and that only vector 0xff returns (`Kernel`:
`LinesDoNotNest`, `OnlySpuriousLine`).

## Runs that pass

| Run | Shows | Bounds and why they are enough |
| --- | --- | --- |
| `entry_a20` (`BootEntry`) | `Stage1InMemory`: stage 1 starts only when all of it is loaded. `ProtectedMeansEnabled`, `TestedBytesRestored`: protected mode only with A20, and memory as it was. `KeyboardBack`: after the dialogue with the controller every command has been taken for what it was and the keyboard is on again. `OutputPortKept`: no other bit of the output port changed. `EntryEnds` | disks with and without signature, 0, 1 or 3 sectors; all machines (line on or off, fast gate set or not, line wired to the controller or not), any answers of the BIOS, two keys at any time: one before and one after interrupts go off |
| `disk_read` (`BiosRead`) | `PrefixInPlace`: every sector in its place, and all of them at the return. `ModeAndStackRestored`: `diskRead16` has its mode, segments, stack and return address back (its other registers it has not, see below). `FaultNeedsOddByte`: only an odd byte at 0xFFFE stops it. `ReadEnds` | 0 to 8 sectors with 3 in a request: below, at and above one and two requests; 0xFFFE in the first sectors of the buffer, in a later request, or outside it; odd and even bytes |
| `heap` (`HeapClient`) | `ListTilesArena`, `LiveBuffersSeparate`, `OthersKept`, `ImplementsPromise` under all orders of allocations and of frees of any pointer, as long as the heap is intact; `OverlapOnlyByShortRest`: the one way a header is written over another; `EmptyStackEmptyHeap`, `NullMeansNoMemory` as long as frees come in reverse order | 52-byte arena: up to four blocks, so splits, merges over several blocks, double frees, frees of merged-away pointers and remainders of every length too short for a header all occur; it starts at 1040, so that two bytes of an address are not 0; deadlock allowed because the model ends where the heap is no longer intact |
| `fat_read` (`Fat32`) | `FileReadWhole`, `ReadsInsideBuffer`, `NotFoundIsTrue`; `LookupEnds` if the directory cluster has a free entry | one or two sectors per cluster, the root at cluster 2 or 5, four data clusters in any order, up to three directory entries in a cluster of three, counts of up to six, sizes on both sides of the sector boundaries; the boot record, the FAT and the file buffer may be refused memory |
| `stage1_boot` (`BootLoader`) | `LoadedAsElfSays`: memory at the jump is what the ELF file says and elsewhere what it was, if no segment was loaded over what is still to be copied. `FirstHeaderWins`, `LoadPanicEarned`: the header taken and every panic have a reason. `EntriesWhole`, `NoPlainRegionLost`: the map holds the BIOS's regions. `BootEnds`, for headers that spare the loader | window of 6 words, images shorter than, as long as and longer than the window, up to three of thirteen program headers, of which one lies over the loader, one over the headers, one over another's source and one over its own; array of 3 entries, maps of up to 4 regions, 20- and 24-byte records, clean and dirty memory |
| `terminal` (`TerminalText`) | `CursorInBounds` for all sequences of methods, `ScreenShowsText` for all texts | 2 x 2 screen: every cell is a corner, so each step wraps or scrolls; texts of up to 7 characters: a row and a half past the first scroll, and full lines followed by newlines |
| `irq` (`TerminalIrq`) | `AccessesAddUp`: until the first interrupt the accesses of `putchar` refine the method; `ColumnInBoundsAtRest` under interrupts | two interrupts, row up to `MaxRow`; deadlock allowed at that bound |
| `kernel` (`Kernel`) | `FirstDescriptorDecides`, `IoApicIsFirstListed`: which tables are used, and what a panic means. `OnlySpuriousLine`, `ResetsOnlyBeforeIdt`: no request comes through while the controllers are remapped, and every interrupt from `sti` on finds its gate. `FrameIsOfInterrupt`, `ReturnsAsInterrupted`, `LinesDoNotNest`, `PanicNamesVector`: the handler sees the interrupt it is for, leaves nothing behind and names it. `KernelEnds` | ten placements of descriptors, damaged, stray and unaligned ones included, and 50 sets of tables; lines 0 and 7 of each controller, the NMI and an exception with error code; four events, enough for a request, a spurious interrupt, an NMI inside its handler and a fault inside that |

Runs without deadlock checking are those of programs that return, halt or panic,
and the two named above. Each property has a mutant: a definition of the model
changed the way a slip in the code would change it, under which TLC finds the
property violated. Mutants are the definitions commented as such, next to the
ones they replace.

## Where the code and its comments disagree

Four runs each check one property that a comment states and that the code does
not meet; `PROJECT.json` quotes both.

| Run | What happens |
| --- | --- |
| `irq_row` | a newline of the handler inside `++_row` takes the row past the bottom for good |
| `real_mode` | PE is cleared by the byte at 0xFFFE instead of a mask: a file read onto an odd byte makes the next BIOS call fault |
| `mem_zero` | `mem_upper` is always 0, because the struct's `length` is read one word off from where the BIOS puts it |
| `lapic` | `enable()` clears the local APIC's enable bit, moves its registers and writes the spurious vector somewhere else: the processor signature is used as the base register |

Other deviations are in the models as the code has them, and the properties
state exactly how far the promise then goes:

- The unsigned `size - available` makes every unequal fit split, also when fewer
  than 8 bytes are left over: two headers overlap. With 1 to 4 bytes left the new
  one is written into the `_next` of the next, whose block may be in another
  caller's hands: its buffer changes its size or leaves the list. With 5 to 7 the
  size of the new block wraps, so that it suits any request, and the answer to
  one has a header in it.
  `OverlapOnlyByShortRest` says that this is the only way, `Intact` in the other
  properties how far they go, and `AlignedHeadersApart` when it cannot happen.
- `free` merges forward only: a client that frees in allocation order may get
  NULL although adjacent free blocks would have held the request. Hence the
  condition `lifo` of `NullMeansNoMemory`.
- "Restore the 32-bit execution environment" (`realModeCall.S:80`): only the
  return address, `ebp` and `esp` are saved. `asmCall_int13` uses `di` and `si`
  and the BIOS may use `ebx`, and `diskRead16` gets them back changed.
  `ModeAndStackRestored` is about the others.
- `getRootFile` reads one sector of each cluster; hence the condition of
  `FileReadWhole`.
- `readDir` takes a next cluster whose number ends in 8 to F for an end mark
  (`NotFoundIsTrue` excepts it), counts the entries of a full directory past its
  buffer (hence `HasFreeEntry` in `LookupEnds`), and `getRootFile` reads through a null buffer when the heap
  is short (`ReadsInsideBuffer` and `FileReadWhole` except it).
- `setCursor` leaves `_fullLine` set, and a rejected character clears it: in
  both cases the next newline goes to an unexpected place. Hence `known`.
- The multiboot search combines its two limits with "or": a file shorter than
  the window is searched past its end, and without a header for ever. Hence
  `CoversWindow` in `FirstHeaderWins` and the condition of `BootEnds`.
- "This makes no sanity checks on loadable segments" (`stage1main.cpp:182`): a
  segment may be loaded over the file, the headers or the loader. Hence
  `SourcesKept` in `LoadedAsElfSays` and `SparesLoader` in `BootEnds`.
- A last program header that ends at address 0, such as `PT_GNU_STACK`, makes a
  complete load panic (`LoadPanicEarned` names the case).
- Header flags the loader cannot serve give the kernel a null info pointer;
  memory information hangs on flag 0, where `multiboot.h` says flag 1; the
  column of the cursor from `stage1.S` is lost in an 8-bit parameter.
- Entries of the memory map are 28 bytes apart, while `mmap_length` counts 24.
- A key that arrives while the entry code talks to the keyboard controller is
  taken for the output port and written back to it, which may reset the machine
  (`stale` in `OutputPortKept`); `check_a20` clears the byte after each of the
  two it restores.
- The boot sector reads off the disk when memory held something at the upper
  half of the packet's LBA: it stops with "Read".
- "First search EBDA (16-byte aligned)" (`acpiKernel.cpp:38`): the search takes
  single bytes and settles on the signature's text at any address.
- The first ACPI signature decides: a damaged or stray copy hides an intact descriptor
  behind it (`FirstDescriptorDecides`). "BUG in the validation we're doing it all
  wrong" (`acpiKernel.hpp:37`): of a revision 2 descriptor only the sum over all
  its bytes is looked at, not that over the first 20, and the eighth character of
  the signature never is; so `FirstDescriptorDecides` does not say that the
  descriptor taken is valid, only which it is and what is passed over. XSDT addresses are cut to 32 bits
  (`IoApicIsFirstListed` excepts tables above 4 GiB). A MADT record of length 0
  keeps `getEntry` where it is for ever (`WalkableMadt` in `KernelEnds`).

## Fairness

`BiosRead`, `Fat32` and `BootLoader` assume weak fairness of their whole
next-state relation: one processor runs the loader, and BIOS calls return (with
an answer or an error). Nothing is assumed of which outcome the BIOS gives.
`BootEntry` assumes weak fairness of the processor, of the controller and of
interrupt delivery, and none of the keyboard. `Kernel` assumes weak fairness of
the processor only: no event has to happen. The other specifications assume no
fairness.

## What is proved

Every theorem is about the specification the runs check, and nearly all name a
property of a run. Each rests on an inductive invariant, given here with the reason
for it; TLC has checked these invariants on the instances of the runs (of
`NestInv` all but the types of the stack's words, a set TLC cannot enumerate).

`HeapProofs`, from `HeapAssumption` (a heap start above 0, an arena of at
least two headers, addresses that do not wrap):

- `ListAlwaysTiles`: `TypeOK` and `ListTilesArena`, for every arena, size and
  pointer. The inductive invariant is `Intact => Whole`, where `Whole` has types,
  order and completeness of the list, and that every reserved block is at least
  a header away from the next one (`Roomy`). `Intact` is about where headers
  are, `Whole` about what they say. The parts need each other:
  a split or a merge keeps the list complete only because it was in address
  order before, and a step that leaves the heap intact wrote into no other
  header's fields, which takes the distances between headers (`Touches`).
- `AlignedHeadersApart`: if the arena and all requests are multiples of 8, all
  header addresses are congruent to the start modulo 8, so a remainder is 0 or
  holds a header, headers never overlap and the heap is always intact.
  `AlignedHeapImplementsPromise`: the refinement below then holds without a
  condition.
- `BuffersAlwaysSeparate`, `OthersAlwaysKept`, `OverlapAlwaysByShortRest`,
  `AnswerAlwaysLive` (a non-null answer of `kalloc` is a live buffer of at least
  the size asked for): from `Whole`. `Roomy` is needed because after a
  split with 5 to 7 bytes left the free block's size wraps, and the proof must
  know that no reserved block's does.
- `HeapImplementsPromise`: every step of `Heap` that leaves the heap intact is a
  step of `HeapSpec` or a stutter, with the live buffers read off the list as refinement mapping.

`HeapClientProofs`: `EmptyStackAlwaysEmptyHeap`, `NullAlwaysMeansNoMemory`, by
`ClientInv`. While frees come in reverse order, the reserved blocks are those on
the client's stack, in address order, and a free block is the last block: this
is what makes merging forward enough, and neither property is inductive without
it.

`TerminalProofs`, from `TerminalAssumption` (at least two rows and one column)
and `WarningAssumption` (the handler's warning ends with a newline, as
`interrupts.cpp:116` has it):

- `CursorAlwaysInBounds`, `StoresStayOnScreen`: the index at which `putchar`
  stores is a cell.
- `AccessesAlwaysAddUp`, a refinement: until the first interrupt the accesses
  implement the method in one step. `AccessInv` says, for every access, what has
  already become of the terminal that the call found.
- `ColumnAlwaysInBoundsAtRest`, under any number of interrupts. `ColumnInv` has
  the column before each access; an interrupt may come anywhere, and what saves
  the column is that the warning's newline leaves it at 0 with the line not
  full. What a whole warning does is a recursive function of its length.
- `ScreenAlwaysShowsText`, for every text, by `TextInv`. The layout is defined on
  the whole text, while the code only has a cursor and `_fullLine`. The invariant
  says that `_fullLine` holds exactly when the last character filled its line,
  that every character not scrolled away is in its cell, and that all of them
  lie before the cursor: without the last, nothing says that the next store
  spares them. Appending a character leaves the places of those before it alone
  (`PlacesAppend`), and a scroll moves all of them up by one line
  (`ScrollShows`).

`BiosReadProofs`, for every request limit and length, every place of the buffer
and every byte at 0xFFFE:

- `SectorsAlwaysInPlace`, by `ReadInv`: the packet of the request under way, the
  bounce buffer after it, and which prefix the caller has, as functions of the
  loop counter.
- `AlwaysModeAndStackRestored`, `FaultsNeedOddByte`, by `TripInv`: where the
  caller's return address and stack pointers are at each step of the trip, and that the byte at 0xFFFE
  is the one of the sector copied over it, if one was.

`BootEntryProofs`, for every disk, machine and sequence of keys:

- `Stage1AlwaysInMemory`, by `Stage0Inv`: what is loaded at each label.
- `ProtectedAlwaysEnabled`, `TestedBytesAlwaysRestored`, by `A20Inv`: what the
  two words hold at each step of `check_a20`, with the line on and off. The
  check says "enabled" only because the two addresses were apart when it wrote.
- `OutputPortAlwaysKept`, by `KbcInv`: for each wait of the processor, which
  bytes the controller can hold. `KeyboardAlwaysBack`, by `TalkInv`: for each
  command, whether the one before it has been taken, whether a data byte is due
  and whether the keyboard is enabled, whatever key was read as an answer.

`Fat32Proofs`, for every well-formed volume: `FileAlwaysReadWhole`,
`ReadsAlwaysInsideBuffer`, `NotFoundAlwaysTrue`. `VolumeInv` says what the table
answers through the masks of the code, `ScanInv` that the entries passed over do
not match, `FollowInv` that after j reads the reader stands at the cluster after
the j-th of the chain. `Fat32Assumption` keeps data clusters below 0xFFFFFF0, as
the format does: from there on the numbers are bad-cluster and end marks. The
clusters the root directory may start at are apart from those of chains.

`BootLoaderProofs`, for every image, memory map and content of the heap:

- `AlwaysLoadedAsElfSays`, `FirstHeaderAlwaysWins`, `LoadPanicAlwaysEarned`, by
  `LoaderInv`: no header lies below the word the search looks at, and each
  address holds what the last of the program headers dealt with says. The words
  a segment is copied from still hold what was read from the disk
  (`SourceHeld`): no segment before it, nor the segment itself, covers them
  (`SourcesKept`).
- `EntriesAlwaysWhole`, `NoPlainRegionEverLost`, by `QueryInv`: the entries kept
  are regions among those reported, in their order. The continuation value is 0
  both before the first and after the last call, so the invariant has to tell
  the two apart (`Reported`).

`Stage1Assumption` types the images; segments have `filesz <= memsz`, as ELF
demands, and are copied from memory the machine has.

`KernelProofs`, for every firmware, every set of lines and exceptions, and any
number of them at any time:

- `OnlySpuriousEver`, `LinesNeverNest`, `FrameAlwaysOfInterrupt`,
  `AlwaysReturnsAsInterrupted`, `ResetsAlwaysBeforeIdt`, by `IntInv`: `PicInv`
  says how far each controller is for each word written, `InitInv` what `init`
  has done before `sti`, `NestInv` what every handler in progress has on the
  stack. The last is needed at every depth, since the frame of a handler is
  uncovered again when the one above it returns.
- `PanicAlwaysNamesVector`: `xtoa` on all 256 vectors.
- `FirstDescriptorAlwaysDecides`, by `DescInv`: the seven bytes the scan leaves
  out at the end of an area hold no 16-byte boundary, and a descriptor that is
  valid by ACPI's sums passes the code's check.
- `IoApicAlwaysFirstListed`, by `TableInv` (the entries of the root table passed
  over are no MADT) and `WalkInv` (the walker is at the end of a record, the
  first that ends there, and no record up to it is an I/O APIC's).
  `AcpiAssumption` says what firmware promises: a descriptor that passes the
  check names a root table whose length fits its entries, a MADT ends where its
  last record does, and an I/O APIC record is not empty. The last came out of
  the proof: an empty one at the very end of the table is past the limit of
  `getEntry`'s loop, and the property fails for it.

Recursive definitions are functions on `0 .. n`. The library's induction
theorems cannot be used with the installed provers; that such a function exists
and what it returns is proved from the least counterexample instead
(`PrintedIs`, `OffsetsAre`, `ParagraphsAre`).

## Bounds on the steps

These theorems have no run of their own; they are about every value of the
constants, and say why the loops of the code end.

- `ReadStepsBounded` (`BiosReadProofs`): a read starts with
  `8 * (iterations + 1) + 1` steps to go and each step leaves fewer. `TurnInv`
  pairs the steps of the trip to real mode with those of `diskRead16`.
- `LookupStepsBounded` (`Fat32Proofs`), if the directory cluster has a free
  entry: two for each entry of the directory, counted and looked at, one for each
  cluster of the file, and seven. That the chain is walked once comes from
  `FollowInv`, so from the volume being well formed.
- `BootStepsBounded` (`BootLoaderProofs`), where the search for the multiboot
  header can end: the window, two for each region of the memory map, one for
  each program header, and nine. `MaxSearch`, the model's own bound, plays no
  part in it.
- `SearchStepsBounded` (`KernelProofs`), for a MADT without an empty record
  before its I/O APIC (`WalkableMadt`): the search goes to a later stage or has
  fewer entries of the root table, or bytes of the MADT, ahead of it.

## What is only model-checked

- Liveness (`ReadEnds`, `LookupEnds`, `BootEnds`, `EntryEnds`, `KernelEnds`):
  the prover does not handle fairness or `ENABLED`. For four of them the part
  that is not about fairness is proved, that no behaviour takes infinitely many
  steps: each step lowers a bound (the section before). What is left to TLC is that
  the system does not stop before the end; for `KernelEnds` also the handlers of
  interrupts, and for `EntryEnds` all of it, since its waiting loops end only
  because the controller acts.

Every invariant and every action property of the passing runs is a theorem.

## Abstractions

- File and sector contents are names; colours and characters are small sets.
- Sizes: 32-bit arithmetic is kept where it matters (`SubWord` in the heap, the
  word sum in `MemoryDetection`, the 8-bit cursor column in `Stage1`, table
  addresses in `Acpi`, where `Word` is a small power of two above all tables).
- In `Fat32` only the boot record, the FAT and the file buffer may be refused
  memory; the small allocations of `readDir` and `nameFromEntry` succeed. After
  a refused table the model ends ("noTable"): the caller goes on through a null
  pointer.
- An index past the FAT reads what follows it: the model stays at that cluster.
  Well-formed volumes have no such index.
- The heap's callers ask for no size so large that the address after the buffer
  wraps (`HeapAssumption`). Where a buffer's bytes become header fields the model
  has ended.
- What follows a full directory cluster on the heap is counted as entries, as
  far as `MaxCount`, and matches no name.
- `RealMode` says which registers come back changed; what the compiler keeps in
  them, and so what `diskRead16` does with them, is not modelled.
- The words of the loader and of the program headers are `LoaderRam` and
  `TableWords`; `memcpy` copies forward, as `string.c` writes it, though its
  parameters are `restrict`.
- Memory past the end of a kernel file holds no multiboot header unless
  `HeaderPlaces` says so, and the unbounded search is cut at `MaxSearch`.
- A store past the framebuffer's end is not shown on the screen.
- An ACPI descriptor is the two sums of its bytes and the fields the code reads.
- A fault in real-mode entry resets the machine, as there is no interrupt table;
  so does an exception before `lidt`, as the kernel has none of its own.
- Events of `Interrupts` are bounded by `MaxEvents`; an exception may come at
  any step, which is more than the code that runs can raise.

## Not modelled, and the plan

Not modelled: `realMode_terminal` (inline BIOS calls nobody instantiates),
`getInternalDirectoryList`, `io_apic::read` and `write`, `getMSR` and `checkMSR`
(nothing calls them), the string routines (loops over bytes whose contents the
models abstract from; `memmove`, `memcpy` and `memset` are what `DiskRead`, `Terminal` and
`Stage1` say they do), what `kmain` prints and the cursor it takes over, the
depth of the loader's stack at 0x7ff, which the compiler's frames decide, and
the build scripts.

What the plan leaves is the rest of liveness, which stays with TLC.
