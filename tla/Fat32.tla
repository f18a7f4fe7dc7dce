-------------------------------- MODULE Fat32 -------------------------------
(***************************************************************************)
(* The FAT32 reader of the boot loader: class fat32 of lib/fs/fat32.cpp    *)
(* and include/fs/fat32.hpp, driven as _stage1Main drives it: init on the  *)
(* active partition, then getRootFile("KERNEL.BIN").                       *)
(*                                                                         *)
(* The volume is chosen in the initial state among the well-formed ones.   *)
(* A sector's content is named by its LBA, so the file buffer is a         *)
(* function from sector positions to LBAs.  A disk read is one step: what  *)
(* diskRead16 does with it is DiskRead.tla.  diskRead16 never reports a    *)
(* failure, it panics.                                                     *)
(***************************************************************************)
EXTENDS Integers, Sequences, FiniteSets, SequencesExt

CONSTANTS
    partitionLBA,        \* first sector of the partition
    reservedSectors,     \* BPD fields of the volume
    numberOfFATs,
    sectorsPerFAT,
    ClusterSizes,        \* sectors per cluster
    DirCapacity,         \* directory entries in a cluster: 16 per sector
    MaxCount,            \* bound on the count of entries, which may never end
    RootClusters,        \* cluster numbers the root directory may start at
    DataClusters,        \* cluster numbers a chain may use otherwise
    MaxChain,            \* longest chain of clusters considered
    Sizes,               \* file sizes in bytes considered
    Names,               \* file names, FAT style
    Wanted               \* the name getRootFile is asked for

clusterMask == 2^28
sectorSize == 512
endOfChain == clusterMask - 1
Nothing == [k \in {} |-> 0]

\* Numbers from 0xFFFFFF0 on are reserved, for bad clusters and end marks.
ASSUME Fat32Assumption ==
    /\ {partitionLBA, reservedSectors, numberOfFATs, sectorsPerFAT} \subseteq Nat
    /\ RootClusters \cup DataClusters \subseteq 2 .. clusterMask - 17
    /\ RootClusters \cap DataClusters = {}
    /\ ClusterSizes \subseteq Nat \ {0}
    /\ Sizes \subseteq Nat
    /\ {DirCapacity, MaxCount, MaxChain} \subseteq Nat
    /\ MaxCount > DirCapacity
    /\ Wanted \in Names

VARIABLES
    vol,         \* the volume: sectorsPerCluster, fat, root directory (dir),
                 \* its clusters (rootChain), the wanted file's (chain) and size
    pc,          \* next step
    numEntries,  \* entries readDir has counted
    i,           \* entry getRootFile looks at
    clusterNum,  \* cluster to read next
    j,           \* sectors read so far
    room,        \* sectors the file buffer was allocated for, 0 if it is null
    buffer,      \* what was read into it
    returnCode   \* of the fat32_fileResult

vars == <<vol, pc, numEntries, i, clusterNum, j, room, buffer, returnCode>>

-----------------------------------------------------------------------------
(***************************************************************************)
(* Well-formed volumes.                                                    *)
(***************************************************************************)
Chains == {c \in BoundedSeq(DataClusters, MaxChain) : IsInjective(c)}

\* The root directory has one cluster or two.
RootChains ==
    {<<x>> : x \in RootClusters} \cup {<<x, y>> : x \in RootClusters, y \in DataClusters}

\* Links of a chain; the top four bits of an entry (hi) are reserved and the
\* reader must ignore them.
LinkOf(chain, k, hi) ==
    (IF k = Len(chain) THEN endOfChain ELSE chain[k + 1]) + hi * clusterMask

\* Entries 0 and 1 of a FAT hold the media descriptor and an end mark.
FatOf(rootChain, chain, hi) ==
    [c \in {0, 1} \cup ToSet(chain) \cup ToSet(rootChain) |->
        CASE c = 0 -> clusterMask - 8
          [] c = 1 -> endOfChain
          [] c \in ToSet(chain) -> LinkOf(chain, CHOOSE k \in DOMAIN chain : chain[k] = c, hi)
          [] OTHER -> LinkOf(rootChain, CHOOSE k \in DOMAIN rootChain : rootChain[k] = c, hi)]

ClustersFor(size, spc) == (size + sectorSize * spc - 1) \div (sectorSize * spc)

\* Entries of the root directory: every file but the wanted one is as good as
\* another, so only names matter; a long-file-name entry never matches.
Entries == [name : Names \cup {"LFN"}]

Volumes ==
    {[sectorsPerCluster |-> spc, fat |-> FatOf(r, c, hi), dir |-> d,
      rootChain |-> r, chain |-> c, size |-> s] :
        spc \in ClusterSizes,
        r \in RootChains, c \in Chains, hi \in {0, 3},
        d \in BoundedSeq(Entries, DirCapacity), s \in Sizes}

WellFormed(v) ==
    /\ Len(v.chain) = ClustersFor(v.size, v.sectorsPerCluster)
    /\ ToSet(v.chain) \cap ToSet(v.rootChain) = {}
    \* a directory goes on to a second cluster only when the first is full
    /\ Len(v.rootChain) > 1 => Len(v.dir) = DirCapacity

Init ==
    /\ vol \in {v \in Volumes : WellFormed(v)}
    /\ pc = "readVBR"
    /\ numEntries = 0
    /\ i = 0
    /\ clusterNum = 0
    /\ j = 0
    /\ room = 0
    /\ buffer = Nothing
    /\ returnCode = 0

-----------------------------------------------------------------------------
(***************************************************************************)
(* init: the boot record, then the whole FAT.                              *)
(***************************************************************************)
readVBR ==
    /\ pc = "readVBR"
    /\ pc' = "readFAT"
    /\ UNCHANGED <<vol, numEntries, i, clusterNum, j, room, buffer, returnCode>>

readFAT ==
    /\ pc = "readFAT"
    /\ pc' = "readDir"
    /\ UNCHANGED <<vol, numEntries, i, clusterNum, j, room, buffer, returnCode>>

\* init returns 99 when a table does not fit the heap; _stage1Main does not
\* look at what init returns and goes on with a null table.
initOutOfMemory ==
    /\ pc \in {"readVBR", "readFAT"}
    /\ returnCode' = 99
    /\ pc' = "noTable"
    /\ UNCHANGED <<vol, numEntries, i, clusterNum, j, room, buffer>>

Masked(entry) == entry % clusterMask

\* An index past the table reads whatever follows it: the model stays there.
FATptr(c) == IF c \in DOMAIN vol.fat THEN vol.fat[c] ELSE c

(***************************************************************************)
(* readDir on the root: give up on a directory of several clusters, read   *)
(* one cluster, count the entries up to the first free one.                *)
(***************************************************************************)
\* The field of the boot record.
clusterNumberRoot == Head(vol.rootChain)

\* Mutant of ContinuesDir: a directory of several clusters is not noticed.
ContinuesNever == FALSE

\* (cluster & 0xFFFFFF0) != 0xFFFFFF0 && (cluster & 0xF) < 8
NotEndOfCluster(cluster) ==
    /\ cluster - (cluster % 16) # clusterMask - 16
    /\ cluster % 16 < 8

ContinuesDir == NotEndOfCluster(Masked(FATptr(clusterNumberRoot)))

multiclusterPanic ==
    /\ pc = "readDir"
    /\ ContinuesDir
    /\ pc' = "panic"
    /\ UNCHANGED <<vol, numEntries, i, clusterNum, j, room, buffer, returnCode>>

readDir ==
    /\ pc = "readDir"
    /\ ~ContinuesDir
    /\ pc' = "count"
    /\ UNCHANGED <<vol, numEntries, i, clusterNum, j, room, buffer, returnCode>>

HasFreeEntry == Len(vol.dir) < DirCapacity

\* The entry does not start with 0.  A full cluster is followed by whatever the
\* heap holds: there, entries may be in use or free.
InUse(k) == k < Len(vol.dir) \/ ~HasFreeEntry

countEntry ==
    /\ pc = "count"
    /\ InUse(numEntries)
    /\ numEntries < MaxCount
    /\ numEntries' = numEntries + 1
    /\ UNCHANGED <<vol, pc, i, clusterNum, j, room, buffer, returnCode>>

counted ==
    /\ pc = "count"
    /\ ~InUse(numEntries) \/ numEntries >= DirCapacity
    /\ pc' = "scan"
    /\ UNCHANGED <<vol, numEntries, i, clusterNum, j, room, buffer, returnCode>>

(***************************************************************************)
(* getRootFile: look for the name, then follow the chain.                  *)
(***************************************************************************)
\* nameFromEntry and strcmp; what lies past the cluster matches nothing.
Matches(k) == k < Len(vol.dir) /\ vol.dir[k + 1].name = Wanted

\* Mutant of Following: the loop does not advance.
Stays(k) == k

Following(k) == k + 1

nextEntry ==
    /\ pc = "scan"
    /\ i < numEntries
    /\ ~Matches(i)
    /\ i' = Following(i)
    /\ UNCHANGED <<vol, pc, numEntries, clusterNum, j, room, buffer, returnCode>>

\* Mutant of numSectors: the last, partial sector is not counted.
numSectorsShort(size) == size \div sectorSize

numSectors(size) == size \div sectorSize + 1

foundEntry ==
    /\ pc = "scan"
    /\ i < numEntries
    /\ Matches(i)
    \* an empty file has no cluster: its entry says 0
    /\ clusterNum' = IF vol.chain = <<>> THEN 0 ELSE Head(vol.chain)
    \* operator new may answer null, and getRootFile reads there all the same
    /\ room' \in {numSectors(vol.size), 0}
    /\ pc' = "follow"
    /\ UNCHANGED <<vol, numEntries, i, j, buffer, returnCode>>

notFound ==
    /\ pc = "scan"
    /\ i >= numEntries
    /\ returnCode' = 1
    /\ pc' = "returned"
    /\ UNCHANGED <<vol, numEntries, i, clusterNum, j, room, buffer>>

isClusterEnd(c) == Masked(c) >= clusterMask - 8

\* Mutant of firstDataSector: the second copy of the FAT is forgotten.
firstDataSectorOneFAT == reservedSectors + sectorsPerFAT

firstDataSector == reservedSectors + numberOfFATs * sectorsPerFAT

currLBA(c) == (c - 2) * vol.sectorsPerCluster + firstDataSector + partitionLBA

readCluster ==
    /\ pc = "follow"
    /\ ~isClusterEnd(clusterNum)
    /\ buffer' = [k \in DOMAIN buffer \cup {j} |->
                     IF k = j THEN currLBA(clusterNum) ELSE buffer[k]]
    /\ clusterNum' = Masked(FATptr(clusterNum))
    /\ j' = j + 1
    /\ UNCHANGED <<vol, pc, numEntries, i, room, returnCode>>

fileComplete ==
    /\ pc = "follow"
    /\ isClusterEnd(clusterNum)
    /\ returnCode' = 0
    /\ pc' = "returned"
    /\ UNCHANGED <<vol, numEntries, i, clusterNum, j, room, buffer>>

\* diskRead16 panics on a BIOS error.
diskFails ==
    /\ \/ pc \in {"readVBR", "readFAT"}
       \/ pc = "readDir" /\ ~ContinuesDir
       \/ pc = "follow" /\ ~isClusterEnd(clusterNum)
    /\ pc' = "panic"
    /\ UNCHANGED <<vol, numEntries, i, clusterNum, j, room, buffer, returnCode>>

Next ==
    \/ readVBR \/ readFAT \/ initOutOfMemory \/ multiclusterPanic
    \/ readDir \/ countEntry \/ counted
    \/ nextEntry \/ foundEntry \/ notFound
    \/ readCluster \/ fileComplete \/ diskFails

\* The boot processor runs the loop.
Spec == Init /\ [][Next]_vars /\ WF_vars(Next)

-----------------------------------------------------------------------------
(***************************************************************************)
(* The file as the FAT defines it: the sectors of its clusters in order.   *)
(***************************************************************************)
FileSector(k) ==
    (vol.chain[k \div vol.sectorsPerCluster + 1] - 2) * vol.sectorsPerCluster
      + (k % vol.sectorsPerCluster)
      + partitionLBA + reservedSectors + numberOfFATs * sectorsPerFAT

SectorsOf(size) == (size + sectorSize - 1) \div sectorSize

Success == pc = "returned" /\ returnCode = 0

\* getRootFile returns the file: every sector of it is in the buffer, in its
\* place (fat32.cpp:248-272, "Size of the file", fat32.hpp:273), if there was
\* memory for the buffer.  One sector is read of each cluster, so this is
\* promised for clusters of one sector and, whatever the clusters, for the
\* first sector of the file.
FileReadWhole ==
    Success /\ room # 0 =>
        \A k \in 0 .. SectorsOf(vol.size) - 1 :
            vol.sectorsPerCluster = 1 \/ k = 0 =>
                k \in DOMAIN buffer /\ buffer[k] = FileSector(k)

\* No read goes past the buffer allocated for the file, at any time of the
\* loop: the chain and the size of the entry agree (fat32.cpp:241-257).  A
\* null buffer is not checked for and is read to.
ReadsInsideBuffer == room # 0 => \A k \in DOMAIN buffer : k < room

\* Return code 1, "file not found" (fat32.hpp:270): no entry of the root
\* directory has the name, and there was no more of the directory to look at,
\* or it went on in a cluster that readDir takes for an end mark (a number
\* that ends in 8 to F, fat32.cpp:122).
NotFoundIsTrue ==
    pc = "returned" /\ returnCode = 1 =>
        /\ \A k \in 1 .. Len(vol.dir) : vol.dir[k].name # Wanted
        /\ Len(vol.rootChain) = 1 \/ vol.rootChain[2] % 16 >= 8

\* getRootFile ends on every well-formed volume whose root directory has a free
\* entry: the count of a full one ends only where the memory after it happens
\* to hold a 0 (fat32.cpp:146-149).  ("noTable": init gave up and what the
\* caller does with a null table is outside the model.)
LookupEnds == HasFreeEntry => <>(pc \in {"returned", "panic", "noTable"})
=============================================================================
