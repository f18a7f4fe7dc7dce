-------------------------- MODULE BootLoaderProofs --------------------------
(***************************************************************************)
(* What holds of the boot loader's main program for every kernel image,    *)
(* every memory map and every content of the heap.                         *)
(*                                                                         *)
(* LoaderInv says how far the search and the load have come: no header     *)
(* lies below the word the search looks at, and memory holds what the      *)
(* program headers before ph put there.  QueryInv says the same of the     *)
(* BIOS loop: the entries kept are regions among those reported, in their  *)
(* order, and only regions with attributes are missing.                    *)
(***************************************************************************)
EXTENDS BootLoader, TLAPS

\* How far the search has come.
SearchInv ==
    /\ at \in Nat
    /\ \A p \in image.headers : p >= at
    /\ CoversWindow => at <= MULTIBOOT_SEARCH - 2
    /\ pc \in {"entry", "partition", "read kernel"} => at = 0
    /\ mbHeader # NoHeader =>
          /\ mbHeader = at
          /\ at \in image.headers
          /\ KeepsSearching(at)
          /\ pc \notin {"entry", "partition", "read kernel", "search"}

Covers(h, a) == h.type = "LOAD" /\ a \in h.paddr .. h.paddr + h.memsz - 1

\* What a segment that covers an address puts there.
Content(h, a) == IF a - h.paddr < h.filesz THEN FileAt + h.offset + (a - h.paddr) ELSE Zero

\* What an address holds once the program headers below n are dealt with: what
\* the last of them that covers it says.
LoadedBelow(n, a) ==
    \/ /\ memory[a] = a
       /\ \A k \in 1 .. n - 1 : ~Covers(image.phs[k], a)
    \/ \E k \in 1 .. n - 1 :
          /\ Covers(image.phs[k], a)
          /\ memory[a] = Content(image.phs[k], a)
          /\ \A l \in k + 1 .. n - 1 : ~Covers(image.phs[l], a)

LoadInv ==
    /\ ph \in 1 .. Len(image.phs) + 1
    /\ pc = "kernel" => ph = Len(image.phs) + 1
    /\ SourcesKept => \A a \in Addresses : LoadedBelow(ph, a)

LoaderInv == image \in Images /\ SearchInv /\ LoadInv

-----------------------------------------------------------------------------
\* Regions the BIOS has reported: the continuation value is back at 0 once it
\* has reported the last one.
Reported == IF ebx = 0 /\ query \in {"test", "sum", "done"} THEN Len(map) ELSE ebx

\* Regions the loop has dealt with.
Tested == IF query = "test" THEN Reported - 1 ELSE Reported

CallInv ==
    /\ size \in Nat
    /\ ebx \in Nat
    /\ ebx < Len(map)
    /\ query \in {"int12", "int15", "test", "sum", "done", "panic"}
    /\ query \in {"int12", "int15", "test"} => size < maxSize
    /\ query \in {"int12", "sum", "done"} => ebx = 0
    /\ array \in [Slots -> [0 .. entryWords - 1 -> Nat]]
    /\ size <= maxSize
    /\ query = "test" =>
          /\ ecx = map[Reported].ecx
          /\ Holds(size, map[Reported])

\* The regions reported before the last one start below it.
OrderInv == query # "panic" =>
    \A n \in 1 .. Reported - 1 : map[n].base < map[Reported].base

KeptInv == query # "panic" =>
    /\ \A k \in 0 .. size - 1 : \E n \in 1 .. Tested : Holds(k, map[n])
    /\ \A n \in 1 .. Tested :
          map[n].ecx = 20 => \E k \in 0 .. size - 1 : Holds(k, map[n])

QueryInv == IsMap(map) /\ CallInv /\ OrderInv /\ KeptInv /\ EntriesWhole

BootInv == LoaderInv /\ QueryInv /\ LoadPanicEarned

-----------------------------------------------------------------------------
\* An image has what Stage1Assumption says.
LEMMA ImageParts ==
    ASSUME image \in Images
    PROVE  /\ image.size \in Nat
           /\ image.headers \in SUBSET Nat
           /\ image.phs \in Seq(elf32_Phdr)
           /\ Len(image.phs) > 0
           /\ \A k \in 1 .. Len(image.phs) :
                 /\ image.phs[k] \in elf32_Phdr
                 /\ image.phs[k].filesz <= image.phs[k].memsz
                 /\ src(image.phs[k]) .. src(image.phs[k]) + image.phs[k].filesz - 1
                       \subseteq Addresses
  <1>1. image.size \in ImageSizes /\ image.headers \in HeaderPlaces /\ image.phs \in ProgramHeaders
    BY DEF Images
  <1>2. image.phs \in Seq(elf32_Phdr) /\ Len(image.phs) > 0
    BY <1>1, Stage1Assumption
  <1>3. ImageSizes \subseteq Nat /\ HeaderPlaces \subseteq SUBSET Nat
    BY Stage1Assumption
  <1>4. \A k \in 1 .. Len(image.phs) :
            /\ image.phs[k].filesz <= image.phs[k].memsz
            /\ src(image.phs[k]) .. src(image.phs[k]) + image.phs[k].filesz - 1
                  \subseteq Addresses
    BY <1>1, Stage1Assumption, Zenon DEF src
  <1>5. \A k \in 1 .. Len(image.phs) : image.phs[k] \in elf32_Phdr
    BY <1>2
  <1>6. image.size \in Nat /\ image.headers \in SUBSET Nat
    BY <1>1, <1>3, Zenon
  <1> QED
    BY <1>2, <1>4, <1>5, <1>6, Zenon

LEMMA LoaderStarts ==
    ASSUME NEW k \in Images, LoaderInit(k)
    PROVE  LoaderInv
  <1>1. image \in Images
    BY DEF LoaderInit
  <1>2. SearchInv
    BY <1>1, ImageParts, Stage1Assumption DEF LoaderInit, SearchInv, CoversWindow, headerWords
  <1>3. LoadInv
    BY <1>1, ImageParts DEF LoaderInit, LoadInv, LoadedBelow
  <1> QED
    BY <1>1, <1>2, <1>3 DEF LoaderInv

\* The search: at moves to the next word only past a word that is no header.
LEMMA SearchStep ==
    ASSUME LoaderInv, LoaderNext \/ buildMultibootInfo
    PROVE  SearchInv'
  <1> USE DEF LoaderInv, SearchInv, NoHeader, KeepsSearching, CoversWindow
  <1>0. image' = image /\ image.size \in Nat /\ image.headers \in SUBSET Nat
    BY ImageParts DEF LoaderNext, enter, getPartitionLBA, readKernel, multibootHeaderSearch,
          noMultibootHeader, elf_check_file, elf32_load, jumpKernel, buildMultibootInfo
  <1>1. CASE multibootHeaderSearch
    <2>1. CASE HeaderAt(at) /\ mbHeader' = at /\ pc' = "build info" /\ at' = at
      BY <1>0, <1>1, <2>1 DEF multibootHeaderSearch, HeaderAt
    <2>2. CASE ~HeaderAt(at) /\ at' = NextPlace(at) /\ mbHeader' = mbHeader /\ pc' = pc
      BY <1>0, <1>1, <2>2, Stage1Assumption
         DEF multibootHeaderSearch, HeaderAt, NextPlace, headerWords
    <2> QED
      BY <1>1, <2>1, <2>2 DEF multibootHeaderSearch
  <1>2. CASE enter \/ getPartitionLBA \/ readKernel \/ noMultibootHeader
    BY <1>0, <1>2 DEF enter, getPartitionLBA, readKernel, noMultibootHeader, earlyPanic
  <1>3. CASE elf_check_file \/ elf32_load \/ jumpKernel \/ buildMultibootInfo
    BY <1>0, <1>3 DEF elf_check_file, elf32_load, jumpKernel, buildMultibootInfo, earlyPanic
  <1> QED
    BY <1>1, <1>2, <1>3 DEF LoaderNext

\* A segment copied over the bytes after its source starts in its source.
LEMMA StartInSource ==
    ASSUME NEW p \in Nat, NEW s \in Nat, NEW m \in Nat, NEW f \in Nat, NEW j \in Nat,
           f <= m, j < f, p - s \in 1 .. j
    PROVE  p \in p .. p + m - 1 /\ p \in s .. s + f - 1
  OBVIOUS

\* A range with an element is not empty.
LEMMA NotEmpty ==
    ASSUME NEW p \in Nat, NEW m \in Nat, NEW a, a \in p .. p + m - 1
    PROVE  m # 0
  OBVIOUS

\* What a segment is copied from still holds what was read from the disk.
LEMMA SourceHeld ==
    ASSUME image \in Images, SourcesKept,
           ph \in 1 .. Len(image.phs), Loads(image.phs[ph]),
           \A a \in Addresses : LoadedBelow(ph, a),
           NEW j \in Nat, j < image.phs[ph].filesz
    PROVE  Copied(image.phs[ph], j) = FileAt + image.phs[ph].offset + j
  <1> DEFINE h == image.phs[ph]
             s == src(h)
  <1>1. /\ h.filesz <= h.memsz
        /\ s .. s + h.filesz - 1 \subseteq Addresses
        /\ Len(image.phs) \in Nat
        /\ \A k \in 1 .. Len(image.phs) : image.phs[k] \in elf32_Phdr
    BY ImageParts
  <1>2. /\ h.paddr \in Nat /\ h.offset \in Nat /\ h.filesz \in Nat /\ h.memsz \in Nat
        /\ s \in Nat /\ FileAt \in Nat
    BY <1>1, Stage1Assumption DEF elf32_Phdr, src
  <1>3. ASSUME NEW k \in 1 .. ph, Loads(image.phs[k])
        PROVE  (image.phs[k].paddr .. image.phs[k].paddr + image.phs[k].memsz - 1)
                  \cap (s .. s + h.filesz - 1) = {}
    <2>1. k \in 1 .. Len(image.phs) /\ k <= ph
      BY <1>1, <1>3
    <2> QED
      BY <1>3, <2>1, Zenon DEF SourcesKept
  <1>4. s + j \in s .. s + h.filesz - 1
    BY <1>2
  <1>5. ~(h.paddr - s \in 1 .. j)
    <2> SUFFICES ASSUME h.paddr - s \in 1 .. j PROVE FALSE
      OBVIOUS
    <2>1. ph \in 1 .. ph
      BY <1>1
    <2>2. (h.paddr .. h.paddr + h.memsz - 1) \cap (s .. s + h.filesz - 1) = {}
      BY <1>3, <2>1
    <2> HIDE DEF h, s
    <2>3. h.paddr \in h.paddr .. h.paddr + h.memsz - 1 /\ h.paddr \in s .. s + h.filesz - 1
      <3>1. j < h.filesz
        BY DEF h
      <3>2. h.filesz <= h.memsz
        BY <1>1
      <3> QED
        BY <1>2, <3>1, <3>2, StartInSource
    <2> QED
      BY <2>2, <2>3, Zenon
  <1>6. memory[s + j] = s + j
    <2>1. LoadedBelow(ph, s + j)
      BY <1>1, <1>4
    <2>2. ASSUME NEW k \in 1 .. ph - 1, Covers(image.phs[k], s + j)
          PROVE  FALSE
      <3>1. k \in 1 .. ph /\ k \in 1 .. Len(image.phs)
        BY <1>1
      <3>2. image.phs[k] \in elf32_Phdr
        BY <1>1, <3>1
      <3>3. image.phs[k].paddr \in Nat /\ image.phs[k].memsz \in Nat
        BY <3>2 DEF elf32_Phdr
      <3> HIDE DEF s
      <3>4. Loads(image.phs[k])
        <4>1. /\ image.phs[k].type = "LOAD"
              /\ s + j \in image.phs[k].paddr .. image.phs[k].paddr + image.phs[k].memsz - 1
          BY <2>2, Zenon DEF Covers
        <4>2. image.phs[k].memsz # 0
          BY <3>3, <4>1, NotEmpty
        <4> QED
          BY <4>1, <4>2, Zenon DEF Loads
      <3> QED
        BY <1>3, <1>4, <2>2, <3>1, <3>4, Zenon DEF Covers
    <2> QED
      BY <2>1, <2>2, Zenon DEF LoadedBelow
  <1>7. Copied(h, j) = memory[s + j]
    BY <1>5, Zenon DEF Copied
  <1> QED
    BY <1>6, <1>7 DEF src

\* One program header of elf32_load.
LEMMA SegmentStep ==
    ASSUME image \in Images, image' = image, SourcesKept,
           ph \in 1 .. Len(image.phs), ph' = ph + 1,
           \A a \in Addresses : LoadedBelow(ph, a),
           memory' = IF Loads(image.phs[ph]) THEN Loaded(image.phs[ph]) ELSE memory
    PROVE  \A a \in Addresses : LoadedBelow(ph, a)'
  <1> DEFINE h == image.phs[ph]
  <1>1. /\ h \in elf32_Phdr
        /\ h.filesz <= h.memsz
    BY ImageParts
  <1>2. h.paddr \in Nat /\ h.offset \in Nat /\ h.filesz \in Nat /\ h.memsz \in Nat
    BY <1>1 DEF elf32_Phdr
  <1>a. Addresses \subseteq Nat
    BY Stage1Assumption
  <1>b. \A a \in Addresses : memory'[a] =
            IF ~Loads(h) THEN memory[a]
            ELSE IF a \in h.paddr + h.filesz .. h.paddr + h.memsz - 1 THEN Zero
            ELSE IF a \in h.paddr .. h.paddr + h.filesz - 1 THEN Copied(h, a - h.paddr)
            ELSE memory[a]
    BY Zenon DEF Loaded, ZeroFill
  <1>c. \A j \in Nat : Loads(h) /\ j < h.filesz => Copied(h, j) = FileAt + h.offset + j
    BY SourceHeld
  <1> HIDE DEF h
  <1>3. ASSUME NEW a \in Addresses, Covers(h, a)
        PROVE  memory'[a] = Content(h, a)
    <2>1. a \in Nat /\ Loads(h)
      BY <1>2, <1>3, <1>a DEF Covers, Loads
    <2>2. memory'[a] =
            IF a \in h.paddr + h.filesz .. h.paddr + h.memsz - 1 THEN Zero
            ELSE IF a \in h.paddr .. h.paddr + h.filesz - 1 THEN Copied(h, a - h.paddr)
            ELSE memory[a]
      BY <1>b, <2>1, Zenon
    <2>3. a \in h.paddr .. h.paddr + h.memsz - 1
      BY <1>3 DEF Covers
    <2>4. a - h.paddr \in Nat
      BY <1>2, <2>1, <2>3
    <2>5. a - h.paddr < h.filesz => Copied(h, a - h.paddr) = FileAt + h.offset + (a - h.paddr)
      BY <1>c, <2>1, <2>4, Zenon
    <2>6. CASE a - h.paddr < h.filesz
      <3>1. /\ ~(a \in h.paddr + h.filesz .. h.paddr + h.memsz - 1)
            /\ a \in h.paddr .. h.paddr + h.filesz - 1
        BY <1>1, <1>2, <2>1, <2>3, <2>6
      <3> QED
        BY <2>2, <2>5, <2>6, <3>1, Zenon DEF Content
    <2>7. CASE ~(a - h.paddr < h.filesz)
      <3>1. a \in h.paddr + h.filesz .. h.paddr + h.memsz - 1
        BY <1>1, <1>2, <2>1, <2>3, <2>7
      <3> QED
        BY <2>2, <2>7, <3>1, Zenon DEF Content
    <2> QED
      BY <2>6, <2>7
  <1>4. ASSUME NEW a \in Addresses, ~Covers(h, a)
        PROVE  memory'[a] = memory[a]
    <2>1. CASE ~Loads(h)
      BY <1>b, <2>1, Zenon
    <2>2. CASE Loads(h)
      <3>1. a \in Nat /\ ~(a \in h.paddr .. h.paddr + h.memsz - 1)
        BY <1>4, <1>a, <2>2, Zenon DEF Covers, Loads
      <3>2. /\ ~(a \in h.paddr + h.filesz .. h.paddr + h.memsz - 1)
            /\ ~(a \in h.paddr .. h.paddr + h.filesz - 1)
        <4> DEFINE p == h.paddr
                   f == h.filesz
                   m == h.memsz
        <4>1. p \in Nat /\ f \in Nat /\ m \in Nat /\ f <= m /\ ~(a \in p .. p + m - 1)
          BY <1>1, <1>2, <3>1, Zenon
        <4> HIDE DEF p, f, m
        <4>2. ~(a \in p + f .. p + m - 1) /\ ~(a \in p .. p + f - 1)
          BY <3>1, <4>1
        <4> QED
          BY <4>2, Zenon DEF p, f, m
      <3> QED
        BY <1>b, <2>2, <3>2, Zenon
    <2> QED
      BY <2>1, <2>2
  <1>6. ASSUME NEW a \in Addresses
        PROVE  LoadedBelow(ph, a)'
    <2>1. LoadedBelow(ph, a)
      OBVIOUS
    <2>2. CASE Covers(h, a)
      <3>1. ph \in 1 .. ph' - 1 /\ memory'[a] = Content(image.phs[ph], a)
        BY <1>3, <2>2 DEF h
      <3> QED
        BY <2>2, <3>1 DEF LoadedBelow, h
    <2>3. CASE ~Covers(h, a)
      <3>1. \A k \in 1 .. ph' - 1 : k \in 1 .. ph - 1 \/ k = ph
        OBVIOUS
      <3>2. memory'[a] = memory[a]
        BY <1>4, <2>3
      <3>3. CASE memory[a] = a /\ \A k \in 1 .. ph - 1 : ~Covers(image.phs[k], a)
        BY <2>3, <3>1, <3>2, <3>3 DEF LoadedBelow, h
      <3>4. ASSUME NEW k \in 1 .. ph - 1,
                   Covers(image.phs[k], a),
                   memory[a] = Content(image.phs[k], a),
                   \A l \in k + 1 .. ph - 1 : ~Covers(image.phs[l], a)
            PROVE  LoadedBelow(ph, a)'
        <4>1. k \in 1 .. ph' - 1
          OBVIOUS
        <4>2. \A l \in k + 1 .. ph' - 1 : ~Covers(image.phs[l], a)
          <5>1. \A l \in k + 1 .. ph' - 1 : l \in k + 1 .. ph - 1 \/ l = ph
            OBVIOUS
          <5> QED
            BY <2>3, <3>4, <5>1, Zenon DEF h
        <4> QED
          BY <3>2, <3>4, <4>1, <4>2 DEF LoadedBelow
      <3> QED
        BY <2>1, <3>3, <3>4 DEF LoadedBelow
    <2> QED
      BY <2>2, <2>3
  <1> QED
    BY <1>6

\* The load: memory holds what the program headers before ph put there.
LEMMA LoadStep ==
    ASSUME LoaderInv, LoaderNext \/ buildMultibootInfo
    PROVE  LoadInv'
  <1>0. image' = image /\ image \in Images /\ LoadInv
    BY DEF LoaderInv, LoaderNext, enter, getPartitionLBA, readKernel, multibootHeaderSearch,
          noMultibootHeader, elf_check_file, elf32_load, jumpKernel, buildMultibootInfo
  <1>1. Len(image.phs) \in Nat /\ ph \in Nat
    BY <1>0, ImageParts DEF LoadInv
  <1>k. SourcesKept' <=> SourcesKept
    BY <1>0 DEF SourcesKept, Loads, src
  <1>2. CASE elf32_load
    <2>1. ph \in 1 .. Len(image.phs) /\ pc = "load"
      BY <1>0, <1>1, <1>2 DEF elf32_load, LoadInv
    <2>2. CASE pc' = "panic" /\ ph' = ph /\ memory' = memory
      BY <1>0, <1>k, <2>2 DEF LoadInv, LoadedBelow
    <2>3. CASE /\ memory' = IF Loads(image.phs[ph]) THEN Loaded(image.phs[ph]) ELSE memory
               /\ ph' = NextHeader(ph)
               /\ pc' \in {pc, "astray"}
      <3>1. ph' = ph + 1
        BY <2>3 DEF NextHeader
      <3>2. SourcesKept => \A a \in Addresses : LoadedBelow(ph, a)'
        BY <1>0, <2>1, <2>3, <3>1, SegmentStep DEF LoadInv
      <3>3. ph' \in 1 .. Len(image.phs) + 1 /\ pc' # "kernel"
        BY <1>1, <2>1, <2>3, <3>1
      <3> QED
        BY <1>0, <1>k, <3>2, <3>3, Zenon DEF LoadInv
    <2> QED
      BY <1>2, <2>2, <2>3 DEF elf32_load, earlyPanic
  <1>3. CASE jumpKernel
    BY <1>0, <1>1, <1>k, <1>3 DEF jumpKernel, LoadInv, LoadedBelow
  <1>4. CASE UNCHANGED <<ph, memory>> /\ pc' # "kernel"
    BY <1>0, <1>k, <1>4 DEF LoadInv, LoadedBelow
  <1>5. CASE ~(elf32_load \/ jumpKernel)
    <2>1. UNCHANGED <<ph, memory>> /\ pc' # "kernel"
      BY <1>5 DEF LoaderNext, enter, getPartitionLBA, readKernel, multibootHeaderSearch,
          noMultibootHeader, elf_check_file, buildMultibootInfo, earlyPanic
    <2> QED
      BY <1>4, <2>1
  <1> QED
    BY <1>2, <1>3, <1>5

LEMMA LoaderStep ==
    ASSUME LoaderInv, LoaderNext \/ buildMultibootInfo
    PROVE  LoaderInv'
  <1>1. image' = image
    BY DEF LoaderNext, enter, getPartitionLBA, readKernel, multibootHeaderSearch,
          noMultibootHeader, elf_check_file, elf32_load, jumpKernel, buildMultibootInfo
  <1> QED
    BY <1>1, SearchStep, LoadStep DEF LoaderInv

LEMMA LoaderStutters ==
    ASSUME LoaderInv, UNCHANGED vars
    PROVE  LoaderInv'
  BY DEF LoaderInv, SearchInv, LoadInv, LoadedBelow, SourcesKept, KeepsSearching, CoversWindow, vars

-----------------------------------------------------------------------------
\* The words of a region that the BIOS stores; the first is its base.
LEMMA RegionIs ==
    ASSUME NEW r \in Regions
    PROVE  /\ DOMAIN RegionWords(r) \subseteq 0 .. entryWords - 1
           /\ 0 \in DOMAIN RegionWords(r)
           /\ RegionWords(r)[0] = r.base
           /\ \A w \in DOMAIN RegionWords(r) : RegionWords(r)[w] \in Nat
           /\ r.base \in Nat
           /\ r.ecx \in Nat
  <1>1. r.base \in Nat /\ r.lenLo \in Nat /\ r.lenHi \in Nat /\ r.type \in Nat
        /\ r.attr \in Nat /\ r.ecx \in {20, 24}
    BY DEF Regions
  <1>2. r.ecx \div 4 \in {5, 6}
    BY <1>1
  <1>3. DOMAIN RegionWords(r) = 0 .. r.ecx \div 4 - 1
    BY DEF RegionWords
  <1> DEFINE ws == <<r.base, 0, r.lenLo, r.lenHi, r.type, r.attr>>
  <1>4. \A w \in 0 .. 5 : ws[w + 1] \in Nat
    BY <1>1
  <1>5. \A w \in DOMAIN RegionWords(r) : RegionWords(r)[w] = ws[w + 1] /\ w \in 0 .. 5
    BY <1>2, <1>3 DEF RegionWords
  <1>6. ws[1] = r.base
    OBVIOUS
  <1> HIDE DEF ws
  <1>7. 0 \in DOMAIN RegionWords(r)
    BY <1>2, <1>3
  <1>8. RegionWords(r)[0] = ws[0 + 1]
    BY <1>5, <1>7, Zenon
  <1>9. DOMAIN RegionWords(r) \subseteq 0 .. entryWords - 1
    BY <1>2, <1>3 DEF entryWords
  <1>10. \A w \in DOMAIN RegionWords(r) : RegionWords(r)[w] \in Nat
    BY <1>4, <1>5
  <1>11. r.ecx \in Nat
    BY <1>1
  <1> QED
    BY <1>1, <1>6, <1>7, <1>8, <1>9, <1>10, <1>11

LEMMA QueryStarts ==
    ASSUME NEW m, NEW g \in Nat, IsMap(m), QueryInit(m, g)
    PROVE  QueryInv
  <1>1. map = m /\ IsMap(map) /\ Len(map) > 0 /\ Len(map) \in Nat
    BY DEF QueryInit, IsMap
  <1>2. query = "int12" /\ ebx = 0 /\ size = 0
    BY DEF QueryInit
  <1>3. array \in [Slots -> [0 .. entryWords - 1 -> Nat]]
    BY DEF QueryInit
  <1>4. Reported = 0 /\ Tested = 0
    BY <1>2 DEF Reported, Tested
  <1>5. CallInv
    BY <1>1, <1>2, <1>3, MemoryAssumption DEF CallInv
  <1> QED
    BY <1>1, <1>2, <1>4, <1>5 DEF QueryInv, OrderInv, KeptInv, EntriesWhole
\* One int 15h call: the next region is in the entry after those kept.
LEMMA CallStep ==
    ASSUME QueryInv, asmCall_int15
    PROVE  QueryInv'
  <1> DEFINE r == map[ebx + 1]
  <1>0. /\ IsMap(map) /\ Len(map) \in Nat /\ map \in Seq(Regions)
        /\ size \in Nat /\ ebx \in Nat /\ ebx < Len(map) /\ size < maxSize
        /\ array \in [Slots -> [0 .. entryWords - 1 -> Nat]]
        /\ query = "int15" /\ query' = "test" /\ map' = map /\ size' = size
        /\ ecx' = r.ecx
        /\ ebx' = IF ebx + 1 = Len(map) THEN 0 ELSE ebx + 1
    BY DEF QueryInv, CallInv, IsMap, asmCall_int15
  <1>1. r \in Regions /\ size \in Slots
    BY <1>0, MemoryAssumption DEF Slots
  <1>2. Reported = ebx /\ Tested = ebx /\ Reported' = ebx + 1 /\ Tested' = ebx
    BY <1>0 DEF Reported, Tested
  <1>3. array' = [array EXCEPT ![size] =
                    [w \in 0 .. entryWords - 1 |->
                        IF w \in DOMAIN RegionWords(r) THEN RegionWords(r)[w] ELSE array[size][w]]]
    BY DEF asmCall_int15, currPtr
  <1>4. array' \in [Slots -> [0 .. entryWords - 1 -> Nat]]
    <2>1. [w \in 0 .. entryWords - 1 |->
             IF w \in DOMAIN RegionWords(r) THEN RegionWords(r)[w] ELSE array[size][w]]
               \in [0 .. entryWords - 1 -> Nat]
      BY <1>0, <1>1, RegionIs, Zenon
    <2> QED
      BY <1>0, <1>3, <2>1
  <1>5. \A w \in DOMAIN RegionWords(r) : array'[size][w] = RegionWords(r)[w]
    <2>1. array'[size] = [w \in 0 .. entryWords - 1 |->
                IF w \in DOMAIN RegionWords(r) THEN RegionWords(r)[w] ELSE array[size][w]]
      BY <1>0, <1>1, <1>3, Zenon
    <2> QED
      BY <1>1, <2>1, RegionIs, Zenon
  <1>6. \A k \in 0 .. size - 1 : array'[k] = array[k]
    BY <1>0, <1>3
  <1>7. \A k \in 0 .. size - 1 : \A n : Holds(k, map[n])' <=> Holds(k, map[n])
    BY <1>0, <1>6, Zenon DEF Holds
  <1> HIDE DEF r
  <1>8. CallInv'
    <2>1. map[Reported]' = r
      BY <1>0, <1>2 DEF r
    <2>2. Holds(size, map[Reported])'
      BY <1>0, <1>5, <2>1, Zenon DEF Holds
    <2>3. ebx' \in Nat /\ ebx' < Len(map')
      BY <1>0
    <2>4. ecx' = map[Reported]'.ecx
      BY <1>0, <2>1
    <2> QED
      BY <1>0, <1>4, <2>2, <2>3, <2>4, MemoryAssumption DEF CallInv, Slots
  <1>9. OrderInv'
    <2> SUFFICES ASSUME NEW n \in 1 .. ebx PROVE map[n].base < map[ebx + 1].base
      BY <1>0, <1>2 DEF OrderInv
    <2>1. /\ map[n] \in Regions /\ map[ebx] \in Regions /\ map[ebx + 1] \in Regions
          /\ map[ebx].base < map[ebx + 1].base
      <3>1. ebx + 1 \in 2 .. Len(map) /\ (ebx + 1) - 1 = ebx
        BY <1>0
      <3>2. map[(ebx + 1) - 1].base < map[ebx + 1].base
        BY <1>0, <3>1, Zenon DEF IsMap
      <3> QED
        BY <1>0, <3>1, <3>2
    <2>2. CASE n = ebx
      BY <2>1, <2>2
    <2>3. CASE n # ebx
      <3>1. map[n].base < map[ebx].base
        BY <1>0, <1>2, <2>3 DEF QueryInv, OrderInv
      <3> QED
        BY <2>1, <3>1, RegionIs
    <2> QED
      BY <2>2, <2>3
  <1>10. KeptInv'
    BY <1>0, <1>2, <1>7 DEF QueryInv, KeptInv
  <1>11. EntriesWhole'
    <2>1. \A k \in 0 .. size' - 1 : \E n \in 1 .. Len(map') : Holds(k, map[n])'
      BY <1>0, <1>7 DEF QueryInv, EntriesWhole
    <2>2. \A k \in 1 .. size' - 1 : array'[k - 1][0] < array'[k][0]
      <3>1. \A k \in 1 .. size - 1 : array[k - 1][0] < array[k][0]
        BY DEF QueryInv, EntriesWhole
      <3>2. \A k \in 1 .. size - 1 : array'[k - 1] = array[k - 1] /\ array'[k] = array[k]
        BY <1>0, <1>6
      <3> QED
        BY <1>0, <3>1, <3>2
    <2> QED
      BY <1>0, <2>1, <2>2 DEF EntriesWhole
  <1> QED
    BY <1>0, <1>8, <1>9, <1>10, <1>11 DEF QueryInv

\* The test of the entry: it is kept or the next call writes over it.
LEMMA TestStep ==
    ASSUME QueryInv, testEntry
    PROVE  QueryInv'
  <1> DEFINE r == map[Reported]
  <1>0. /\ IsMap(map) /\ Len(map) \in Nat /\ map \in Seq(Regions) /\ Len(map) > 0
        /\ size \in Nat /\ ebx \in Nat /\ ebx < Len(map) /\ size < maxSize
        /\ array \in [Slots -> [0 .. entryWords - 1 -> Nat]]
        /\ query = "test" /\ map' = map /\ array' = array /\ ebx' = ebx
        /\ ecx = r.ecx /\ Holds(size, r)
        /\ size' = sizeKept
        /\ query' \in {"panic", "sum", "int15"}
        /\ query' = "panic" <=> TooBig(sizeKept)
        /\ query' = "sum" => ebx = 0
        /\ query' = "int15" => ebx # 0
    BY DEF QueryInv, CallInv, IsMap, testEntry, LastRegion
  <1>1. Reported \in 1 .. Len(map) /\ Tested = Reported - 1
    BY <1>0 DEF Reported, Tested
  <1>2. query' # "panic" => Reported' = Reported /\ Tested' = Reported
    BY <1>0 DEF Reported, Tested
  <1>3. size' \in {size, size + 1} /\ (r.ecx = 20 => size' = size + 1)
    BY <1>0 DEF sizeKept, KeepsEntry
  <1>4. query' # "panic" => size' < maxSize
    BY <1>0, <1>3, MemoryAssumption DEF TooBig
  <1>5. \A k : \A n : Holds(k, map[n])' <=> Holds(k, map[n])
    BY <1>0, Zenon DEF Holds
  <1>6. /\ \A k \in 0 .. size - 1 : \E n \in 1 .. Reported - 1 : Holds(k, map[n])
        /\ \A n \in 1 .. Reported - 1 :
              map[n].ecx = 20 => \E k \in 0 .. size - 1 : Holds(k, map[n])
        /\ \A n \in 1 .. Reported - 1 : map[n].base < r.base
    BY <1>0, <1>1 DEF QueryInv, KeptInv, OrderInv
  <1>7. Holds(size, map[Reported])
    BY <1>0
  <1> HIDE DEF r
  <1>8. \A k \in 0 .. size' - 1 : \E n \in 1 .. Reported : Holds(k, map[n])
    <2> SUFFICES ASSUME NEW k \in 0 .. size' - 1
                 PROVE  \E n \in 1 .. Reported : Holds(k, map[n])
      OBVIOUS
    <2>1. CASE k = size
      BY <1>1, <1>7, <2>1
    <2>2. CASE k # size
      BY <1>0, <1>1, <1>3, <1>6, <2>2
    <2> QED
      BY <2>1, <2>2
  <1>9. CallInv'
    <2>1. size' \in Nat /\ size' <= maxSize
      BY <1>0, <1>3, MemoryAssumption
    <2>2. query' # "test" /\ query' # "int12" /\ query' # "done"
      BY <1>0
    <2> QED
      BY <1>0, <1>4, <2>1, <2>2 DEF CallInv, Slots
  <1>10. OrderInv'
    BY <1>0, <1>2, <1>6 DEF OrderInv, r
  <1>11. KeptInv'
    <2>1. ASSUME NEW n \in 1 .. Reported, map[n].ecx = 20
          PROVE  \E k \in 0 .. size' - 1 : Holds(k, map[n])
      <3>1. CASE n = Reported
        BY <1>0, <1>3, <1>7, <2>1, <3>1 DEF r
      <3>2. CASE n # Reported
        BY <1>0, <1>1, <1>3, <1>6, <2>1, <3>2
      <3> QED
        BY <3>1, <3>2
    <2> QED
      BY <1>0, <1>2, <1>5, <1>8, <2>1 DEF KeptInv
  <1>12. EntriesWhole'
    <2>1. \A k \in 1 .. size' - 1 : array[k - 1][0] < array[k][0]
      <3> SUFFICES ASSUME NEW k \in 1 .. size' - 1 PROVE array[k - 1][0] < array[k][0]
        OBVIOUS
      <3>1. CASE k = size
        <4>1. PICK n \in 1 .. Reported - 1 : Holds(k - 1, map[n])
          BY <1>0, <1>6, <3>1
        <4>2. map[n] \in Regions /\ map[Reported] \in Regions
          BY <1>0, <1>1
        <4>3. array[k - 1][0] = map[n].base
          BY <4>1, <4>2, RegionIs, Zenon DEF Holds
        <4>4. array[k][0] = map[Reported].base
          BY <1>7, <3>1, <4>2, RegionIs, Zenon DEF Holds
        <4> QED
          BY <1>6, <4>3, <4>4 DEF r
      <3>2. CASE k # size
        <4>1. k \in 1 .. size - 1
          BY <1>0, <1>3, <3>2
        <4> QED
          BY <4>1 DEF QueryInv, EntriesWhole
      <3> QED
        BY <3>1, <3>2
    <2>2. \A k \in 0 .. size' - 1 : \E n \in 1 .. Len(map') : Holds(k, map[n])'
      <3>1. 1 .. Reported \subseteq 1 .. Len(map)
        BY <1>0, <1>1
      <3>2. \A k \in 0 .. size' - 1 : \E n \in 1 .. Len(map) : Holds(k, map[n])'
        BY <1>5, <1>8, <3>1, Zenon
      <3> QED
        BY <1>0, <3>2, Zenon
    <2>3. query' = "int15" => size' \in Slots'
      BY <1>0, <1>3, <1>4, MemoryAssumption DEF Slots
    <2> QED
      BY <1>0, <2>1, <2>2, <2>3 DEF EntriesWhole
  <1> QED
    BY <1>0, <1>9, <1>10, <1>11, <1>12 DEF QueryInv

\* The steps that leave the array alone.
LEMMA OtherQueryStep ==
    ASSUME QueryInv,
           \/ queryLowerMemory \/ asmCall_int15Fails \/ getUpperMemorySize
           \/ UNCHANGED queryVars
    PROVE  QueryInv'
  <1> USE DEF queryLowerMemory, asmCall_int15Fails, getUpperMemorySize, queryPanic, queryVars
  <1>0. /\ map' = map /\ array' = array /\ ebx' = ebx /\ size' = size
        /\ ecx' = ecx
        /\ \/ query' = query
           \/ query' = "panic"
           \/ query = "int12" /\ query' = "int15"
           \/ query = "sum" /\ query' = "done"
    OBVIOUS
  <1>1. query' # "panic" => Reported' = Reported /\ Tested' = Tested
    BY <1>0 DEF Reported, Tested
  <1>2. \A k : \A n : Holds(k, map[n])' <=> Holds(k, map[n])
    BY <1>0, Zenon DEF Holds
  <1>3. IsMap(map)'
    BY <1>0 DEF QueryInv
  <1>4. CallInv'
    BY <1>0, <1>1, <1>2 DEF QueryInv, CallInv, Slots
  <1>5. OrderInv' /\ KeptInv'
    BY <1>0, <1>1, <1>2 DEF QueryInv, OrderInv, KeptInv
  <1>6. EntriesWhole'
    <2>1. query' = "int15" => size' \in Slots
      BY <1>4, MemoryAssumption DEF CallInv, Slots
    <2>2. \A k \in 0 .. size - 1 : \E n \in 1 .. Len(map) : Holds(k, map[n])'
      BY <1>2, Zenon DEF QueryInv, EntriesWhole
    <2>3. \A k \in 1 .. size - 1 : array[k - 1][0] < array[k][0]
      BY DEF QueryInv, EntriesWhole
    <2> QED
      BY <1>0, <2>1, <2>2, <2>3, Zenon DEF EntriesWhole, Slots
  <1> QED
    BY <1>3, <1>4, <1>5, <1>6 DEF QueryInv
LEMMA QueryStep ==
    ASSUME QueryInv, QueryNext \/ UNCHANGED queryVars
    PROVE  QueryInv'
  BY CallStep, TestStep, OtherQueryStep DEF QueryNext

-----------------------------------------------------------------------------
\* A panic after the search has a reason.
LEMMA PanicStep ==
    ASSUME BootInv, BootNext
    PROVE  LoadPanicEarned'
  <1> DEFINE Reason ==
          \/ query = "panic"
          \/ ~image.elf
          \/ \E k \in 1 .. Len(image.phs) : image.phs[k].type \in {"DYNAMIC", "INTERP"}
          \/ finalMem = 0
  <1>1. CASE queryMemory
    BY <1>1 DEF queryMemory, LoadPanicEarned, vars
  <1>2. CASE buildInfo
    BY <1>2 DEF buildInfo, queryVars, LoadPanicEarned
  <1>3. CASE load
    <2> SUFFICES ASSUME pc' = "panic", mbHeader' # NoHeader PROVE Reason'
      BY DEF LoadPanicEarned
    <2>0. image' = image
      BY <1>3 DEF load, LoaderNext, enter, getPartitionLBA, readKernel, multibootHeaderSearch,
            noMultibootHeader, elf_check_file, elf32_load, jumpKernel
    <2>1. CASE enter \/ getPartitionLBA \/ readKernel \/ multibootHeaderSearch \/ noMultibootHeader
      <3>1. mbHeader' = mbHeader /\ pc \in {"entry", "partition", "read kernel", "search"}
        BY <2>1 DEF enter, getPartitionLBA, readKernel, multibootHeaderSearch, noMultibootHeader
      <3> QED
        BY <3>1 DEF BootInv, LoaderInv, SearchInv
    <2>2. CASE elf_check_file
      BY <2>0, <2>2 DEF elf_check_file
    <2>3. CASE elf32_load
      <3>1. ph \in 1 .. Len(image.phs) /\ pc = "load"
        BY <2>3, ImageParts DEF elf32_load, BootInv, LoaderInv, LoadInv
      <3>2. ~elf_check_prog_header(image.phs[ph])
        BY <2>3, <3>1 DEF elf32_load
      <3>3. image.phs[ph].type \in {"DYNAMIC", "INTERP"}
        BY <3>2, Zenon DEF elf_check_prog_header
      <3> QED
        BY <2>0, <3>1, <3>3
    <2>4. CASE jumpKernel
      BY <2>0, <2>4 DEF jumpKernel, finalMem
    <2> QED
      BY <1>3, <2>1, <2>2, <2>3, <2>4 DEF load, LoaderNext
  <1> QED
    BY <1>1, <1>2, <1>3 DEF BootNext

LEMMA BootStarts == BootInit => BootInv
  <1> SUFFICES ASSUME BootInit PROVE BootInv
    OBVIOUS
  <1>1. PICK s \in Scenarios : LoaderInit(s.image) /\ QueryInit(s.map, s.garbage)
    BY DEF BootInit
  <1>2. s.image \in Images /\ IsMap(s.map) /\ s.garbage \in Nat
    BY ScenariosAssumption
  <1>3. LoaderInv /\ QueryInv
    BY <1>1, <1>2, LoaderStarts, QueryStarts
  <1>4. pc = "entry"
    BY <1>1 DEF LoaderInit
  <1> QED
    BY <1>3, <1>4 DEF BootInv, LoadPanicEarned

LEMMA BootStep == BootInv /\ [BootNext]_<<vars, queryVars>> => BootInv'
  <1> SUFFICES ASSUME BootInv, [BootNext]_<<vars, queryVars>> PROVE BootInv'
    OBVIOUS
  <1>1. CASE BootNext
    <2>1. /\ LoaderNext \/ buildMultibootInfo \/ UNCHANGED vars
          /\ QueryNext \/ UNCHANGED queryVars
      BY <1>1 DEF BootNext, load, queryMemory, buildInfo
    <2>2. LoaderInv'
      BY <2>1, LoaderStep, LoaderStutters DEF BootInv
    <2>3. QueryInv'
      BY <2>1, QueryStep DEF BootInv
    <2> QED
      BY <1>1, <2>2, <2>3, PanicStep DEF BootInv
  <1>2. CASE UNCHANGED <<vars, queryVars>>
    <2>1. LoaderInv' /\ QueryInv'
      BY <1>2, LoaderStutters, QueryStep DEF BootInv
    <2>2. LoadPanicEarned'
      BY <1>2 DEF BootInv, LoadPanicEarned, finalMem, vars, queryVars
    <2> QED
      BY <2>1, <2>2 DEF BootInv
  <1> QED
    BY <1>1, <1>2

LEMMA BootInvariant == BootSpec => []BootInv
  BY BootStarts, BootStep, PTL DEF BootSpec

\* The least and the greatest of a set that has one.
LEMMA MinIs ==
    ASSUME NEW S, S \subseteq Nat, NEW m \in S, \A x \in S : x >= m
    PROVE  Min(S) = m
  <1>1. \E x \in S : \A y \in S : x <= y
    OBVIOUS
  <1>2. Min(S) \in S /\ \A x \in S : Min(S) <= x
    BY <1>1 DEF Min
  <1> DEFINE c == Min(S)
  <1>3. c \in Nat /\ m \in Nat /\ c <= m /\ m <= c
    <2>1. c \in S /\ c <= m
      BY <1>2
    <2> HIDE DEF c
    <2> QED
      BY <2>1
  <1> HIDE DEF c
  <1>4. c = m
    BY <1>3
  <1> QED
    BY <1>4 DEF c

LEMMA MaxIs ==
    ASSUME NEW S, S \subseteq Nat, NEW m \in S, \A x \in S : x <= m
    PROVE  Max(S) = m
  <1>1. \E x \in S : \A y \in S : x >= y
    OBVIOUS
  <1>2. Max(S) \in S /\ \A x \in S : Max(S) >= x
    BY <1>1 DEF Max
  <1> DEFINE c == Max(S)
  <1>3. c \in Nat /\ m \in Nat /\ c <= m /\ m <= c
    <2>1. c \in S /\ c >= m
      BY <1>2
    <2> HIDE DEF c
    <2> QED
      BY <2>1
  <1> HIDE DEF c
  <1>4. c = m
    BY <1>3
  <1> QED
    BY <1>4 DEF c

\* Whatever the kernel image, wherever the file and the loader are in memory:
\* when _stage1Main jumps into the kernel, memory holds exactly what the ELF
\* file describes (of overlapping segments the last one, zeros past the file
\* size) and elsewhere what it held before, if no segment lies over the words
\* it or a later one is copied from; the code does not check that
\* (stage1main.cpp:180-223, its comment at 182).
THEOREM AlwaysLoadedAsElfSays == BootSpec => []LoadedAsElfSays
  <1>1. BootInv => LoadedAsElfSays
    <2> SUFFICES ASSUME BootInv, pc = "kernel", SourcesKept, NEW a \in Addresses
                 PROVE  memory[a] = ElfContent(a)
      BY DEF LoadedAsElfSays
    <2>1. image \in Images /\ ph = Len(image.phs) + 1 /\ LoadedBelow(ph, a)
      BY DEF BootInv, LoaderInv, LoadInv
    <2>2. Len(image.phs) \in Nat /\ ph - 1 = Len(image.phs)
      BY <2>1, ImageParts
    <2>3. \A k : k \in Covering(a) <=> k \in 1 .. Len(image.phs) /\ Covers(image.phs[k], a)
      BY Zenon DEF Covering, Covers
    <2>4. CASE /\ memory[a] = a
               /\ \A k \in 1 .. ph - 1 : ~Covers(image.phs[k], a)
      <3>1. Covering(a) = {}
        BY <2>2, <2>3, <2>4
      <3> QED
        BY <2>4, <3>1 DEF ElfContent
    <2>5. ASSUME NEW k \in 1 .. ph - 1,
                 Covers(image.phs[k], a),
                 memory[a] = Content(image.phs[k], a),
                 \A l \in k + 1 .. ph - 1 : ~Covers(image.phs[l], a)
          PROVE  memory[a] = ElfContent(a)
      <3>1. k \in Covering(a)
        BY <2>2, <2>3, <2>5
      <3>2. \A l \in Covering(a) : l <= k
        BY <2>2, <2>3, <2>5
      <3>3. Covering(a) \subseteq Nat
        BY <2>2, <2>3
      <3>4. Max(Covering(a)) = k
        BY <3>1, <3>2, <3>3, MaxIs
      <3> QED
        BY <2>5, <3>1, <3>4, Zenon DEF ElfContent, Content
    <2> QED
      BY <2>1, <2>4, <2>5 DEF LoadedBelow
  <1> QED
    BY <1>1, BootInvariant, PTL

\* Whatever the image and the headers in it, multibootHeaderSearch settles on
\* the first header of the window and panics only if there is none
\* (stage1main.cpp:86-106).
THEOREM FirstHeaderAlwaysWins == BootSpec => []FirstHeaderWins
  <1>1. BootInv => FirstHeaderWins
    <2> SUFFICES ASSUME BootInv PROVE FirstHeaderWins
      OBVIOUS
    <2> DEFINE window == {p \in image.headers : p <= MULTIBOOT_SEARCH - headerWords}
    <2>0. /\ image.size \in Nat /\ image.headers \in SUBSET Nat /\ SearchInv
          /\ MULTIBOOT_SEARCH \in Nat
      BY ImageParts, Stage1Assumption DEF BootInv, LoaderInv
    <2>a. /\ at \in Nat
          /\ \A p \in image.headers : p >= at
          /\ CoversWindow => at <= MULTIBOOT_SEARCH - 2
          /\ mbHeader # NoHeader => mbHeader = at /\ at \in image.headers /\ KeepsSearching(at)
      BY <2>0, Zenon DEF SearchInv
    <2>1. ASSUME mbHeader # NoHeader, CoversWindow \/ window # {}
          PROVE  window # {} /\ mbHeader = Min(window)
      <3>1. at <= MULTIBOOT_SEARCH - headerWords
        <4>1. CASE CoversWindow
          BY <2>0, <2>a, <2>1, <4>1 DEF KeepsSearching, CoversWindow, headerWords
        <4>2. CASE window # {}
          <5>1. PICK p \in image.headers : p <= MULTIBOOT_SEARCH - headerWords
            BY <4>2
          <5>2. p \in Nat /\ at \in Nat /\ at <= p
            BY <2>0, <2>a
          <5> QED
            BY <2>0, <2>a, <5>1, <5>2 DEF headerWords
        <4> QED
          BY <2>1, <4>1, <4>2
      <3>2. at \in window /\ \A x \in window : x >= at
        BY <2>0, <2>a, <2>1, <3>1
      <3>3. window \subseteq Nat
        BY <2>0, <2>a
      <3> HIDE DEF window
      <3>4. Min(window) = at
        BY <3>2, <3>3, MinIs
      <3> QED
        BY <2>1, <3>2, <3>4, <2>0, <2>a
    <2>2. ASSUME ~KeepsSearching(at) PROVE window = {}
      <3>1. at \in Nat /\ at > MULTIBOOT_SEARCH - headerWords
        BY <2>0, <2>a, <2>2 DEF KeepsSearching, headerWords
      <3>2. ASSUME NEW p \in image.headers PROVE ~(p <= MULTIBOOT_SEARCH - headerWords)
        <4>1. p \in Nat /\ p >= at
          BY <2>0, <2>a
        <4> QED
          BY <2>0, <2>a, <3>1, <4>1 DEF headerWords
      <3> QED
        BY <3>2
    <2> QED
      BY <2>1, <2>2, Zenon DEF FirstHeaderWins
  <1> QED
    BY <1>1, BootInvariant, PTL

\* Whatever the image and the memory map, once a header is found the boot
\* fails only for one of the four reasons (stage1main.cpp:112-223).
THEOREM LoadPanicAlwaysEarned == BootSpec => []LoadPanicEarned
  <1>1. BootInv => LoadPanicEarned
    BY DEF BootInv
  <1> QED
    BY <1>1, BootInvariant, PTL

\* Whatever the memory map, the size of the array and the dirt in it, every
\* entry kept is one of the BIOS's regions, whole and in order, and the BIOS
\* never writes past the array (memoryDetection16.cpp:57-92).
THEOREM EntriesAlwaysWhole == BootSpec => []EntriesWhole
  <1>1. BootInv => EntriesWhole
    BY DEF BootInv, QueryInv
  <1> QED
    BY <1>1, BootInvariant, PTL

\* Whatever the memory map, every region reported without attributes is in the
\* finished one (memoryDetection16.cpp:57-92).
THEOREM NoPlainRegionEverLost == BootSpec => []NoPlainRegionLost
  <1>1. BootInv => NoPlainRegionLost
    <2> SUFFICES ASSUME BootInv, query = "done" PROVE NoPlainRegionLost
      BY DEF NoPlainRegionLost
    <2>1. Tested = Len(map)
      BY DEF BootInv, QueryInv, CallInv, Tested, Reported
    <2> QED
      BY <2>1 DEF BootInv, QueryInv, KeptInv, NoPlainRegionLost
  <1> QED
    BY <1>1, BootInvariant, PTL

-----------------------------------------------------------------------------
(***************************************************************************)
(* Why the boot ends when the search does: a bound on the steps left, from *)
(* the window to search, the regions of the map and the program headers.   *)
(***************************************************************************)
SearchEnds == CoversWindow \/ \E p \in image.headers : p <= MULTIBOOT_SEARCH - headerWords

\* Calls and tests the memory queries have before them.
QueryLeft ==
    IF query = "int12" THEN 2 * Len(map) + 2
    ELSE IF query = "int15" THEN 2 * (Len(map) - Reported) + 1
    ELSE IF query = "test" THEN 2 * (Len(map) - Reported) + 2
    ELSE IF query = "sum" THEN 1 ELSE 0

Early == {"entry", "partition", "read kernel", "search"}

\* The queries wait for "build info", the load for its turn.
StageInv ==
    /\ pc \in Early => query = "int12"
    /\ pc \in Early \cup {"build info", "check elf"} => ph = 1

\* Steps from "build info" on, the queries aside.
AfterInfo == Len(image.phs) + 3

StepsLeft ==
    IF pc = "entry" THEN AfterInfo + QueryLeft + MULTIBOOT_SEARCH + 4
    ELSE IF pc = "partition" THEN AfterInfo + QueryLeft + MULTIBOOT_SEARCH + 3
    ELSE IF pc = "read kernel" THEN AfterInfo + QueryLeft + MULTIBOOT_SEARCH + 2
    ELSE IF pc = "search" THEN AfterInfo + QueryLeft + (MULTIBOOT_SEARCH - at) + 1
    ELSE IF pc = "build info" THEN AfterInfo + QueryLeft
    ELSE IF pc = "check elf" THEN AfterInfo - 1
    ELSE IF pc = "load" THEN (Len(image.phs) - ph) + 2
    ELSE 0

Progress == StepsLeft \in Nat /\ StepsLeft' \in 0 .. StepsLeft - 1

\* The queries make progress of their own.
LEMMA QueryProgress ==
    ASSUME QueryInv, QueryNext
    PROVE  QueryLeft \in Nat /\ QueryLeft' \in 0 .. QueryLeft - 1
  <1>0. /\ Len(map) \in Nat /\ Len(map) > 0 /\ ebx \in Nat /\ ebx < Len(map)
        /\ query \in {"int12", "int15", "test", "sum", "done", "panic"}
        /\ query = "int12" => ebx = 0
    BY DEF QueryInv, CallInv, IsMap
  <1>1. CASE queryLowerMemory
    <2>1. query = "int12" /\ map' = map /\ ebx' = ebx /\ query' \in {"int15", "panic"}
      BY <1>1 DEF queryLowerMemory, queryPanic
    <2>2. query' = "int15" => Reported' = 0
      BY <1>0, <2>1 DEF Reported
    <2> QED
      BY <1>0, <2>1, <2>2 DEF QueryLeft
  <1>2. CASE asmCall_int15
    <2>1. /\ query = "int15" /\ query' = "test" /\ map' = map
          /\ ebx' = IF ebx + 1 = Len(map) THEN 0 ELSE ebx + 1
      BY <1>2 DEF asmCall_int15
    <2>2. Reported = ebx /\ Reported' = ebx + 1
      BY <1>0, <2>1 DEF Reported
    <2>3. QueryLeft = 2 * (Len(map) - ebx) + 1 /\ QueryLeft' = 2 * (Len(map) - (ebx + 1)) + 2
      BY <2>1, <2>2 DEF QueryLeft
    <2> QED
      BY <1>0, <2>3
  <1>3. CASE asmCall_int15Fails
    <2>1. query = "int15" /\ query' = "panic"
      BY <1>3 DEF asmCall_int15Fails, queryPanic
    <2>2. Reported = ebx
      BY <2>1 DEF Reported
    <2>3. QueryLeft = 2 * (Len(map) - ebx) + 1 /\ QueryLeft' = 0
      BY <2>1, <2>2 DEF QueryLeft
    <2> QED
      BY <1>0, <2>3
  <1>4. CASE testEntry
    <2>1. /\ query = "test" /\ map' = map /\ ebx' = ebx
          /\ query' \in {"panic", "sum", "int15"}
          /\ query' = "int15" => ebx # 0
      BY <1>4 DEF testEntry, LastRegion
    <2>2. Reported = IF ebx = 0 THEN Len(map) ELSE ebx
      BY <2>1 DEF Reported
    <2>3. query' = "int15" => Reported' = ebx
      BY <2>1 DEF Reported
    <2>4. /\ QueryLeft = 2 * (Len(map) - Reported) + 2
          /\ query' = "int15" => QueryLeft' = 2 * (Len(map) - ebx) + 1
          /\ query' = "sum" => QueryLeft' = 1
          /\ query' = "panic" => QueryLeft' = 0
      BY <2>1, <2>3 DEF QueryLeft
    <2> QED
      BY <1>0, <2>1, <2>2, <2>4
  <1>5. CASE getUpperMemorySize
    BY <1>5 DEF getUpperMemorySize, QueryLeft
  <1> QED
    BY <1>1, <1>2, <1>3, <1>4, <1>5, Zenon DEF QueryNext

LEMMA QueryLeftIs ==
    ASSUME QueryInv
    PROVE  QueryLeft \in Nat
  <1>0. /\ Len(map) \in Nat /\ ebx \in Nat /\ ebx < Len(map)
    BY DEF QueryInv, CallInv, IsMap
  <1>1. Len(map) - Reported \in Nat
    BY <1>0 DEF Reported
  <1> DEFINE n == Len(map) - Reported
  <1> HIDE DEF n
  <1>2. 2 * n \in Nat /\ 2 * Len(map) \in Nat
    BY <1>0, <1>1 DEF n
  <1> QED
    BY <1>2 DEF QueryLeft, n

\* The bounds of the steps before the load, in order.
LEMMA Bounds ==
    ASSUME NEW l \in Nat, NEW q \in Nat, NEW w \in Nat, NEW a \in Nat, a <= w
    PROVE  /\ (l + 3) + q + w + 4 \in Nat
           /\ (l + 3) + q + w + 3 \in Nat
           /\ (l + 3) + q + w + 2 \in Nat
           /\ (l + 3) + q + (w - a) + 1 \in Nat
           /\ (l + 3) + q \in Nat
           /\ (l + 3) - 1 \in Nat
           /\ (l + 3) + q + w + 3 < (l + 3) + q + w + 4
           /\ (l + 3) + q + w + 2 < (l + 3) + q + w + 3
           /\ (l + 3) + q + (w - a) + 1 < (l + 3) + q + w + 2
           /\ (l + 3) + q < (l + 3) + q + (w - a) + 1
           /\ (l + 3) - 1 < (l + 3) + q
           /\ (l - 1) + 2 \in Nat
           /\ (l - 1) + 2 < (l + 3) - 1
           /\ (l + 3) + (q + 2) + w + 4 = w + q + l + 9
  OBVIOUS

\* A step that lowers the bound or ends the boot.
LEMMA Lowered ==
    ASSUME NEW m \in Nat, NEW n \in Nat, n < m,
           StepsLeft = m, StepsLeft' = n \/ StepsLeft' = 0
    PROVE  Progress
  <1>1. CASE StepsLeft' = n
    BY <1>1 DEF Progress
  <1>2. CASE StepsLeft' = 0
    BY <1>2 DEF Progress
  <1> QED
    BY <1>1, <1>2

LEMMA StageStarts ==
    BootInit => StageInv /\ StepsLeft = MULTIBOOT_SEARCH + 2 * Len(map) + Len(image.phs) + 9
  <1> SUFFICES ASSUME BootInit
               PROVE  StageInv /\ StepsLeft = MULTIBOOT_SEARCH + 2 * Len(map) + Len(image.phs) + 9
    OBVIOUS
  <1>1. pc = "entry" /\ ph = 1 /\ query = "int12"
    BY DEF BootInit, LoaderInit, QueryInit
  <1>2. Len(map) \in Nat /\ Len(image.phs) \in Nat /\ MULTIBOOT_SEARCH \in Nat
    <2>1. image \in Images /\ map \in Seq(Regions)
      BY BootStarts DEF BootInv, LoaderInv, QueryInv, IsMap
    <2> QED
      BY <2>1, ImageParts, Stage1Assumption
  <1>3. StageInv
    BY <1>1 DEF StageInv, Early
  <1>4. StepsLeft = AfterInfo + QueryLeft + MULTIBOOT_SEARCH + 4
    BY <1>1 DEF StepsLeft
  <1>5. QueryLeft = 2 * Len(map) + 2 /\ AfterInfo = Len(image.phs) + 3
    BY <1>1 DEF QueryLeft, AfterInfo
  <1> DEFINE m == 2 * Len(map)
  <1>6. m \in Nat
    BY <1>2
  <1>7. StepsLeft = (Len(image.phs) + 3) + (m + 2) + MULTIBOOT_SEARCH + 4
    BY <1>4, <1>5
  <1> HIDE DEF m
  <1>8. (Len(image.phs) + 3) + (m + 2) + MULTIBOOT_SEARCH + 4
           = MULTIBOOT_SEARCH + m + Len(image.phs) + 9
    <2>1. 0 \in Nat /\ 0 <= MULTIBOOT_SEARCH
      BY <1>2
    <2> QED
      BY <1>2, <1>6, <2>1, Bounds, Zenon
  <1> QED
    BY <1>3, <1>7, <1>8, Zenon DEF m

\* Where the search ends, it has not left the window.
LEMMA SearchInWindow ==
    ASSUME BootInv, SearchEnds
    PROVE  at \in Nat /\ at <= MULTIBOOT_SEARCH - 2
  <1>1. /\ at \in Nat /\ MULTIBOOT_SEARCH \in Nat /\ image.headers \subseteq Nat
        /\ \A p \in image.headers : p >= at
        /\ CoversWindow => at <= MULTIBOOT_SEARCH - 2
    BY ImageParts, Stage1Assumption DEF BootInv, LoaderInv, SearchInv
  <1>2. ASSUME NEW p \in image.headers, p <= MULTIBOOT_SEARCH - headerWords
        PROVE  at <= MULTIBOOT_SEARCH - 2
    <2>1. p \in Nat /\ p >= at
      BY <1>1
    <2> QED
      BY <1>1, <1>2, <2>1 DEF headerWords
  <1> QED
    BY <1>1, <1>2 DEF SearchEnds

\* What the steps of the loader do to the stage.
LEMMA StageMoves ==
    ASSUME LoaderNext
    PROVE  \/ pc = "entry" /\ pc' = "partition" /\ ph' = ph /\ at' = at
           \/ pc = "partition" /\ pc' \in {"read kernel", "panic"} /\ ph' = ph /\ at' = at
           \/ pc = "read kernel" /\ pc' \in {"search", "panic"} /\ ph' = ph /\ at' = at
           \/ pc = "search" /\ pc' = "search" /\ ph' = ph /\ at' = at + 1
           \/ pc = "search" /\ pc' \in {"build info", "panic"} /\ ph' = ph /\ at' = at
           \/ pc = "check elf" /\ pc' \in {"load", "panic"} /\ ph' = ph /\ at' = at
           \/ pc = "load" /\ pc' = "load" /\ ph <= Len(image.phs) /\ ph' = ph + 1 /\ at' = at
           \/ pc = "load" /\ pc' \in {"kernel", "panic", "astray"} /\ at' = at
  <1>1. CASE enter
    BY <1>1 DEF enter
  <1>2. CASE getPartitionLBA
    BY <1>2 DEF getPartitionLBA, earlyPanic
  <1>3. CASE readKernel
    BY <1>3 DEF readKernel, earlyPanic
  <1>4. CASE multibootHeaderSearch
    BY <1>4 DEF multibootHeaderSearch, NextPlace
  <1>5. CASE noMultibootHeader
    BY <1>5 DEF noMultibootHeader, earlyPanic
  <1>6. CASE elf_check_file
    BY <1>6 DEF elf_check_file
  <1>7. CASE elf32_load
    BY <1>7 DEF elf32_load, earlyPanic, NextHeader
  <1>8. CASE jumpKernel
    BY <1>8 DEF jumpKernel
  <1> QED
    BY <1>1, <1>2, <1>3, <1>4, <1>5, <1>6, <1>7, <1>8, Zenon DEF LoaderNext

LEMMA StageStep == StageInv /\ [BootNext]_<<vars, queryVars>> => StageInv'
  <1> SUFFICES ASSUME StageInv, [BootNext]_<<vars, queryVars>> PROVE StageInv'
    OBVIOUS
  <1>1. CASE load
    <2>1. LoaderNext /\ query' = query
      BY <1>1 DEF load, queryVars
    <2> QED
      BY <2>1, StageMoves DEF StageInv, Early
  <1>2. CASE queryMemory
    BY <1>2 DEF queryMemory, StageInv, Early, vars
  <1>3. CASE buildInfo
    BY <1>3 DEF buildInfo, buildMultibootInfo, earlyPanic, StageInv, Early
  <1>4. CASE UNCHANGED <<vars, queryVars>>
    BY <1>4 DEF StageInv, vars, queryVars
  <1> QED
    BY <1>1, <1>2, <1>3, <1>4 DEF BootNext

\* Every step of the boot leaves fewer to take.
LEMMA BootProgress ==
    ASSUME BootInv, StageInv, BootNext, SearchEnds
    PROVE  Progress
  <1>0. /\ MULTIBOOT_SEARCH \in Nat /\ at \in Nat /\ at <= MULTIBOOT_SEARCH - 2
        /\ Len(image.phs) \in Nat /\ ph \in 1 .. Len(image.phs) + 1
        /\ QueryLeft \in Nat
    BY SearchInWindow, ImageParts, QueryLeftIs, Stage1Assumption DEF BootInv, LoaderInv, LoadInv
  <1>1. image' = image
    BY DEF BootNext, load, queryMemory, buildInfo, LoaderNext, enter, getPartitionLBA, readKernel,
           multibootHeaderSearch, noMultibootHeader, elf_check_file, elf32_load, jumpKernel,
           buildMultibootInfo, vars
  <1>2. CASE load
    <2>1. LoaderNext /\ UNCHANGED queryVars
      BY <1>2 DEF load
    <2>2. QueryLeft' = QueryLeft
      BY <2>1 DEF queryVars, QueryLeft, Reported
    <2>3. pc \in Early \cup {"check elf"} => ph = 1
      BY DEF StageInv
    <2> DEFINE q == QueryLeft
               l == Len(image.phs)
               w == MULTIBOOT_SEARCH
    <2>a. /\ pc = "entry" => StepsLeft = (l + 3) + q + w + 4
          /\ pc = "partition" => StepsLeft = (l + 3) + q + w + 3
          /\ pc = "read kernel" => StepsLeft = (l + 3) + q + w + 2
          /\ pc = "search" => StepsLeft = (l + 3) + q + (w - at) + 1
          /\ pc = "check elf" => StepsLeft = (l + 3) - 1
          /\ pc = "load" => StepsLeft = (l - ph) + 2
      BY DEF StepsLeft, AfterInfo
    <2>b. /\ pc' = "partition" => StepsLeft' = (l + 3) + q + w + 3
          /\ pc' = "read kernel" => StepsLeft' = (l + 3) + q + w + 2
          /\ pc' = "search" => StepsLeft' = (l + 3) + q + (w - at') + 1
          /\ pc' = "build info" => StepsLeft' = (l + 3) + q
          /\ pc' = "load" => StepsLeft' = (l - ph') + 2
          /\ pc' \in {"kernel", "panic", "astray"} => StepsLeft' = 0
      BY <1>1, <2>2 DEF StepsLeft, AfterInfo
    <2>c. /\ q \in Nat /\ l \in Nat /\ w \in Nat
          /\ at \in Nat /\ at <= w - 2 /\ ph \in 1 .. l + 1
      BY <1>0
    <2>d. at <= w
      BY <2>c
    <2> HIDE DEF q, l, w
    <2>4. CASE pc = "entry" /\ pc' = "partition"
      BY <2>a, <2>b, <2>c, <2>4 DEF Progress
    <2>5. CASE pc = "partition" /\ pc' \in {"read kernel", "panic"}
      <3>2. StepsLeft = (l + 3) + q + w + 3 /\ (StepsLeft' = (l + 3) + q + w + 2 \/ StepsLeft' = 0)
        BY <2>a, <2>b, <2>5, Zenon
      <3>3. (l + 3) + q + w + 3 \in Nat /\ (l + 3) + q + w + 2 \in Nat /\ (l + 3) + q + w + 2 < (l + 3) + q + w + 3
        BY <2>c, <2>d, Bounds, Zenon
      <3> QED
        BY <3>2, <3>3, Lowered, Zenon
    <2>6. CASE pc = "read kernel" /\ pc' \in {"search", "panic"} /\ at' = at
      <3>2. StepsLeft = (l + 3) + q + w + 2 /\ (StepsLeft' = (l + 3) + q + (w - at') + 1 \/ StepsLeft' = 0)
        BY <2>a, <2>b, <2>6, Zenon
      <3>3. (l + 3) + q + w + 2 \in Nat /\ (l + 3) + q + (w - at') + 1 \in Nat /\ (l + 3) + q + (w - at') + 1 < (l + 3) + q + w + 2
        BY <2>c, <2>d, <2>6, Bounds, Zenon
      <3> QED
        BY <3>2, <3>3, Lowered, Zenon
    <2>7. CASE pc = "search" /\ pc' = "search" /\ at' = at + 1
      BY <2>a, <2>b, <2>c, <2>7 DEF Progress
    <2>8. CASE pc = "search" /\ pc' \in {"build info", "panic"}
      <3>2. StepsLeft = (l + 3) + q + (w - at) + 1 /\ (StepsLeft' = (l + 3) + q \/ StepsLeft' = 0)
        BY <2>a, <2>b, <2>8, Zenon
      <3>3. (l + 3) + q + (w - at) + 1 \in Nat /\ (l + 3) + q \in Nat /\ (l + 3) + q < (l + 3) + q + (w - at) + 1
        BY <2>c, <2>d, Bounds, Zenon
      <3> QED
        BY <3>2, <3>3, Lowered, Zenon
    <2>9. CASE pc = "check elf" /\ pc' \in {"load", "panic"} /\ ph' = ph
      <3>1. ph = 1
        BY <2>3, <2>9
      <3>2. StepsLeft = (l + 3) - 1 /\ (StepsLeft' = (l - ph') + 2 \/ StepsLeft' = 0)
        BY <2>a, <2>b, <2>9, Zenon
      <3>3. (l + 3) - 1 \in Nat /\ (l - ph') + 2 \in Nat /\ (l - ph') + 2 < (l + 3) - 1
        BY <2>c, <2>d, <2>9, <3>1, Bounds, Zenon
      <3> QED
        BY <3>2, <3>3, Lowered, Zenon
    <2>10. CASE pc = "load" /\ pc' = "load" /\ ph <= l /\ ph' = ph + 1
      BY <2>a, <2>b, <2>c, <2>10 DEF Progress
    <2>11. CASE pc = "load" /\ pc' \in {"kernel", "panic", "astray"}
      <3>1. StepsLeft = (l - ph) + 2 /\ StepsLeft' = 0
        BY <2>a, <2>b, <2>11, Zenon
      <3> QED
        BY <2>c, <3>1 DEF Progress
    <2> QED
      BY <2>1, <2>4, <2>5, <2>6, <2>7, <2>8, <2>9, <2>10, <2>11, StageMoves, Zenon DEF l
  <1>3. CASE queryMemory
    <2>1. pc = "build info" /\ pc' = pc /\ QueryNext /\ QueryInv
      BY <1>3 DEF queryMemory, vars, BootInv
    <2>2. QueryLeft' \in 0 .. QueryLeft - 1
      BY <2>1, QueryProgress
    <2>3. StepsLeft = Len(image.phs) + 3 + QueryLeft /\ StepsLeft' = Len(image.phs) + 3 + QueryLeft'
      BY <1>1, <2>1 DEF StepsLeft, AfterInfo
    <2> QED
      BY <1>0, <2>2, <2>3 DEF Progress
  <1>4. CASE buildInfo
    <2>1. pc = "build info" /\ pc' \in {"check elf", "panic"}
      BY <1>4 DEF buildInfo, buildMultibootInfo, earlyPanic
    <2>2. /\ StepsLeft = (Len(image.phs) + 3) + QueryLeft
          /\ pc' = "check elf" => StepsLeft' = (Len(image.phs) + 3) - 1
          /\ pc' = "panic" => StepsLeft' = 0
      BY <1>1, <2>1 DEF StepsLeft, AfterInfo
    <2>3. StepsLeft' = (Len(image.phs) + 3) - 1 \/ StepsLeft' = 0
      BY <2>1, <2>2, Zenon
    <2>4. /\ (Len(image.phs) + 3) + QueryLeft \in Nat
          /\ (Len(image.phs) + 3) - 1 \in Nat
          /\ (Len(image.phs) + 3) - 1 < (Len(image.phs) + 3) + QueryLeft
      <3>1. 0 \in Nat /\ 0 <= MULTIBOOT_SEARCH
        BY <1>0
      <3> QED
        BY <1>0, <3>1, Bounds, Zenon
    <2>5. StepsLeft = (Len(image.phs) + 3) + QueryLeft
      BY <2>2
    <2> HIDE DEF QueryLeft
    <2> QED
      BY <2>3, <2>4, <2>5, Lowered, Zenon
  <1> QED
    BY <1>2, <1>3, <1>4 DEF BootNext

\* The boot cannot go on for ever, if the file covers the search window or has its
\* header there: each step lowers a bound made of the window, two for each region
\* of the BIOS and one for each program header, so the three loops of
\* stage1main.cpp:86-223 and memoryDetection16.cpp:57-92 end.
THEOREM BootStepsBounded ==
    /\ BootSpec => (StepsLeft = MULTIBOOT_SEARCH + 2 * Len(map) + Len(image.phs) + 9)
    /\ BootSpec => [][SearchEnds => Progress]_<<vars, queryVars>>
  <1>1. BootInv /\ StageInv /\ [BootNext]_<<vars, queryVars>>
          => [SearchEnds => Progress]_<<vars, queryVars>>
    BY BootProgress
  <1> QED
    BY <1>1, StageStarts, StageStep, BootInvariant, PTL DEF BootSpec
=============================================================================
