---------------------------- MODULE MCBootLoader ----------------------------
(***************************************************************************)
(* Small kernel images and memory maps for BootLoader.                     *)
(***************************************************************************)
EXTENDS BootLoader, SequencesExt

\* The loader is at 0 and 1, the file at 4 to 12, the kernel's place above.
Ram == 0 .. 21
Loader == 0 .. 1
HeaderTable == {0}

Header(type, paddr, offset, filesz, memsz) ==
    [type |-> type, paddr |-> paddr, offset |-> offset, filesz |-> filesz, memsz |-> memsz]

\* Text, data with bss, bss alone, a segment over the end of the text, one
\* that loads nothing, and headers of other types.
Text == Header("LOAD", 16, 1, 2, 2)
Data == Header("LOAD", 18, 3, 1, 3)
Bss == Header("LOAD", 19, 0, 0, 2)
Over == Header("LOAD", 17, 5, 1, 2)
Empty == Header("LOAD", 16, 0, 0, 0)
Note == Header("NOTE", 16, 1, 1, 1)
Stack == Header("GNU_STACK", 0, 0, 0, 0)
Interp == Header("INTERP", 16, 1, 1, 1)
Dynamic == Header("DYNAMIC", 18, 3, 1, 1)

\* Over the loader, over the program headers, over the source of Data, and one
\* that lies over its own source.
OverLoader == Header("LOAD", 1, 2, 1, 2)
OverTable == Header("LOAD", 3, 2, 0, 2)
OverFile == Header("LOAD", 6, 5, 1, 2)
Slide == Header("LOAD", 7, 1, 3, 3)

LinkedKernels ==
    BoundedSeq({Text, Data, Bss, Over, Empty, Note, Stack, Interp, Dynamic,
                OverLoader, OverTable, OverFile, Slide}, 3) \ {<<>>}

SomeFlags == {{0, 1}, {1, 16}, {2}}

Cursor == {<<3, 7>>}

Tables == {{}, {2, 4}}

-----------------------------------------------------------------------------
RegionKinds == [lenLo : {1, 3}, type : {1, 2}, ecx : {20, 24}]

\* The n-th region starts at 10 * n.
RegionAt(n, k) ==
    [base |-> 10 * n, lenLo |-> k.lenLo, lenHi |-> 0, type |-> k.type,
     ecx |-> k.ecx, attr |-> 1]

\* Up to one region more than the array has entries.
SmallMaps ==
    {[n \in 1 .. Len(s) |-> RegionAt(n, s[n])] : s \in BoundedSeq(RegionKinds, maxSize + 1) \ {<<>>}}

OneRegion == <<RegionAt(1, [lenLo |-> 3, type |-> 1, ecx |-> 20])>>

PlainKernel ==
    [size |-> 6, headers |-> {1}, flags |-> {0, 1}, elf |-> TRUE, phs |-> <<Text, Data>>]

\* A plain kernel with every header, every list of segments on one image, and
\* a plain kernel on every memory map.
SomeScenarios ==
    [image : {k \in Images : k.phs = PlainKernel.phs}, map : {OneRegion}, garbage : {0}]
        \cup [image : {[PlainKernel EXCEPT !.phs = p] : p \in ProgramHeaders},
              map : {OneRegion}, garbage : {0}]
        \cup [image : {PlainKernel}, map : SmallMaps, garbage : {0, 1}]
=============================================================================
