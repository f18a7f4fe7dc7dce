--------------------------- MODULE MemoryDetection --------------------------
(***************************************************************************)
(* The memory queries of lib/earlyLib/memoryDetection16.cpp, as            *)
(* buildMultibootInfo (bootloader/stage1main.cpp:116-130) makes them: int  *)
(* 12h for lower memory, then the int 15h, eax = E820h loop that collects  *)
(* the memory map, then the sum of its lengths.                            *)
(*                                                                         *)
(* Memory is modelled by 32-bit words: the BIOS (external) writes the 5 or *)
(* 6 words of a region where it is told to, and the code reads them back   *)
(* through struct mmap_structure_entry of include/sys/multiboot.h, which   *)
(* has 7.  The array comes from the heap and is not initialised.           *)
(***************************************************************************)
EXTENDS Integers, Sequences

CONSTANTS
    Word,        \* 2^32 in the build
    maxSize      \* entries in the array: 100 in the code

\* A region: its base, its length in two words, its type, the number of bytes
\* the BIOS stores (ecx: 20 or 24) and the ACPI 3.0 attributes.
Regions == [base : Nat, lenLo : Nat, lenHi : Nat, type : Nat, ecx : {20, 24}, attr : Nat]

ASSUME MemoryAssumption ==
    /\ Word \in Nat \ {0}
    /\ maxSize \in Nat \ {0}

\* Memory maps: regions in increasing order, as every BIOS of interest reports
\* them.
IsMap(m) ==
    /\ m \in Seq(Regions)
    /\ Len(m) > 0
    /\ \A k \in 2 .. Len(m) : m[k - 1].base < m[k].base

entryWords == 7      \* sizeof(mmap_structure_entry) in words
Slots == 0 .. maxSize - 1

VARIABLES
    map,         \* the BIOS's memory map
    query,       \* next step
    ebx,         \* continuation value: regions reported so far, 0 at the end
    ecx,         \* bytes the last call stored
    size,        \* entries kept
    array,       \* the words of each entry
    mem_upper    \* field of the info structure

queryVars == <<map, query, ebx, ecx, size, array, mem_upper>>

\* With map m, in a heap whose words hold g.
QueryInit(m, g) ==
    /\ map = m
    /\ query = "int12"
    /\ ebx = 0
    /\ ecx = 0
    /\ size = 0
    /\ array = [k \in Slots |-> [w \in 0 .. entryWords - 1 |-> g]]
    /\ mem_upper = 0

\* A failed call, a zero answer, a bad signature, too long a list: earlyPanic.
queryPanic ==
    /\ query' = "panic"
    /\ UNCHANGED <<map, ebx, ecx, size, array, mem_upper>>

queryLowerMemory ==
    /\ query = "int12"
    /\ \/ /\ query' = "int15"
          /\ UNCHANGED <<map, ebx, ecx, size, array, mem_upper>>
       \/ queryPanic

(***************************************************************************)
(* One int 15h call, into the entry after the last one kept.               *)
(***************************************************************************)
RegionWords(r) ==
    [w \in 0 .. r.ecx \div 4 - 1 |-> <<r.base, 0, r.lenLo, r.lenHi, r.type, r.attr>>[w + 1]]

currPtr == size

asmCall_int15 ==
    LET r == map[ebx + 1] IN
    /\ query = "int15"
    /\ array' = [array EXCEPT ![currPtr] =
                    [w \in 0 .. entryWords - 1 |->
                        IF w \in DOMAIN RegionWords(r) THEN RegionWords(r)[w] ELSE @[w]]]
    /\ ebx' = IF ebx + 1 = Len(map) THEN 0 ELSE ebx + 1
    /\ ecx' = r.ecx
    /\ query' = "test"
    /\ UNCHANGED <<map, size, mem_upper>>

asmCall_int15Fails ==
    /\ query = "int15"
    /\ queryPanic

(***************************************************************************)
(* The fields of the entry the call filled, as the struct lays them out:   *)
(* entry_length 0, base_addr 1-2, length 3-4, type 5, acpi_3_0_extended 6. *)
(***************************************************************************)
length(k) == array[k][3] + Word * array[k][4]

acpi_3_0_extended(k) == array[k][6]

\* Mutant of KeepsEntry: a call that stores 20 bytes is not enough.
KeepsEntryLong == ecx > 20 /\ acpi_3_0_extended(size) % 2 = 0

KeepsEntry == ecx <= 20 \/ acpi_3_0_extended(size) % 2 = 0

sizeKept == IF KeepsEntry THEN size + 1 ELSE size

\* Mutant of TooBig: one entry too late.
TooBigLate(n) == n > maxSize

TooBig(n) == n >= maxSize

LastRegion == ebx = 0

testEntry ==
    /\ query = "test"
    /\ size' = sizeKept
    /\ query' = IF TooBig(sizeKept) THEN "panic"
             ELSE IF LastRegion THEN "sum" ELSE "int15"
    /\ UNCHANGED <<map, ebx, ecx, array, mem_upper>>

(***************************************************************************)
(* getUpperMemorySize: the sum of the lengths, 0 as soon as it does not    *)
(* fit a word; lengths are not negative, so that is when the whole sum     *)
(* does not.                                                               *)
(***************************************************************************)
Total[n \in Nat] == IF n = 0 THEN 0 ELSE Total[n - 1] + length(n - 1)

getUpperMemorySize ==
    /\ query = "sum"
    /\ mem_upper' = IF Total[size] >= Word THEN 0 ELSE Total[size]
    /\ query' = "done"
    /\ UNCHANGED <<map, ebx, ecx, size, array>>

QueryNext ==
    \/ queryLowerMemory \/ asmCall_int15 \/ asmCall_int15Fails
    \/ testEntry \/ getUpperMemorySize

-----------------------------------------------------------------------------
Holds(k, r) == \A w \in DOMAIN RegionWords(r) : array[k][w] = RegionWords(r)[w]

\* Every entry kept holds one region of the BIOS whole, and regions keep
\* their order: a discarded entry is overwritten, a kept one never is; and the
\* BIOS is never told to write past the array (memoryDetection16.cpp:57-92).
EntriesWhole ==
    /\ query = "int15" => size \in Slots
    /\ \A k \in 0 .. size - 1 : \E n \in 1 .. Len(map) : Holds(k, map[n])
    /\ \A k \in 1 .. size - 1 : array[k - 1][0] < array[k][0]

\* A region the BIOS reports without attributes is in the finished map.
NoPlainRegionLost ==
    query = "done" => \A n \in 1 .. Len(map) :
        map[n].ecx = 20 => \E k \in 0 .. size - 1 : Holds(k, map[n])

MemoryUpTo[n \in Nat] ==
    IF n = 0 THEN 0 ELSE MemoryUpTo[n - 1] + map[n].lenLo + Word * map[n].lenHi

\* "If it's 0, mem is > 4 GiB" (stage1main.cpp:123).
ZeroMeansHuge == query = "done" /\ mem_upper = 0 => MemoryUpTo[Len(map)] >= Word
=============================================================================
