---------------------------- MODULE Fat32Proofs -----------------------------
(***************************************************************************)
(* What holds of the FAT32 reader for every well-formed volume: clusters   *)
(* of any size, chains and directories of any length, any cluster numbers  *)
(* the format allows.                                                      *)
(*                                                                         *)
(* VolumeInv says what the table of a well-formed volume answers, read the *)
(* way the reader reads it; ScanInv that the entries passed over do not    *)
(* match; FollowInv that after j reads the reader stands at the cluster    *)
(* after the j-th of the chain, whose sectors are in the buffer.           *)
(***************************************************************************)
EXTENDS Fat32, TLAPS

\* The link of cluster c as getRootFile takes it.
Link(c) == Masked(FATptr(c))

VolumeInv ==
    /\ vol.sectorsPerCluster \in Nat \ {0}
    /\ vol.size \in Nat
    /\ vol.dir \in Seq(Entries)
    /\ Len(vol.dir) <= DirCapacity
    /\ vol.chain \in Seq(DataClusters)
    /\ Len(vol.chain) = ClustersFor(vol.size, vol.sectorsPerCluster)
    /\ \A k \in 1 .. Len(vol.chain) :
          Link(vol.chain[k]) = IF k = Len(vol.chain) THEN endOfChain ELSE vol.chain[k + 1]
    /\ Link(0) = clusterMask - 8
    /\ \/ Len(vol.rootChain) = 1
       \/ /\ vol.rootChain[2] \in DataClusters
          /\ Link(clusterNumberRoot) = vol.rootChain[2]

ScanInv ==
    /\ i \in Nat
    /\ numEntries \in Nat
    /\ pc \in {"readVBR", "readFAT", "readDir"} => numEntries = 0
    /\ pc = "count" => ~ContinuesDir
    /\ \A k \in 0 .. i - 1 : ~Matches(k)
    /\ pc \in {"scan", "follow", "returned"} => numEntries >= Len(vol.dir) /\ ~ContinuesDir
    /\ returnCode = 1 => i >= numEntries /\ pc = "returned"

\* Cluster the reader stands at after n reads.  An empty file's entry names
\* cluster 0, whose entry in the table is taken for an end mark.
ClusterAfter(n) ==
    IF vol.chain = <<>> THEN (IF n = 0 THEN 0 ELSE clusterMask - 8)
    ELSE IF n < Len(vol.chain) THEN vol.chain[n + 1] ELSE endOfChain

\* Reads it takes to the end of the chain.
Reads == IF vol.chain = <<>> THEN 1 ELSE Len(vol.chain)

FollowInv ==
    /\ j \in 0 .. Reads
    /\ pc \notin {"follow", "returned", "panic"} => j = 0
    /\ pc = "follow" \/ Success => clusterNum = ClusterAfter(j)
    /\ Success => isClusterEnd(clusterNum)
    /\ DOMAIN buffer = 0 .. j - 1
    /\ \A k \in 0 .. j - 1 : vol.chain # <<>> => buffer[k] = currLBA(vol.chain[k + 1])
    /\ room \in {0, numSectors(vol.size)}

ReadInv == VolumeInv /\ ScanInv /\ FollowInv

-----------------------------------------------------------------------------
\* A large power of two.
LEMMA MaskIs == clusterMask \in Nat /\ clusterMask > 64 /\ clusterMask % 16 = 0
  BY SMT DEF clusterMask

\* Masking takes the reserved bits off.
LEMMA MaskedIs ==
    ASSUME NEW x \in 0 .. clusterMask - 1, NEW hi \in {0, 3}
    PROVE  Masked(x + hi * clusterMask) = x
  BY MaskIs, SMT DEF Masked

LEMMA ClusterIs ==
    ASSUME NEW x \in DataClusters
    PROVE  x \in 2 .. clusterMask - 17 /\ x \notin RootClusters
  BY Fat32Assumption, MaskIs

LEMMA ChainIs ==
    ASSUME NEW S, NEW n \in Nat, NEW c \in BoundedSeq(S, n)
    PROVE  c \in Seq(S) /\ Len(c) <= n
  BY DEF BoundedSeq, SeqOf

\* What the table says of the k-th cluster of a chain.
LEMMA LinkIs ==
    ASSUME NEW c \in Seq(DataClusters), NEW k \in 1 .. Len(c), NEW hi \in {0, 3}
    PROVE  Masked(LinkOf(c, k, hi)) = IF k = Len(c) THEN endOfChain ELSE c[k + 1]
  <1> DEFINE x == IF k = Len(c) THEN endOfChain ELSE c[k + 1]
  <1>1. x \in 0 .. clusterMask - 1
    <2>1. CASE k = Len(c)
      BY <2>1, MaskIs DEF endOfChain
    <2>2. CASE k # Len(c)
      <3>1. c[k + 1] \in DataClusters
        BY <2>2
      <3>2. c[k + 1] \in 2 .. clusterMask - 17
        BY <3>1, ClusterIs
      <3> QED
        BY <2>2, <3>2, MaskIs
    <2> QED
      BY <2>1, <2>2
  <1>2. LinkOf(c, k, hi) = x + hi * clusterMask
    BY DEF LinkOf
  <1> HIDE DEF x
  <1>3. Masked(LinkOf(c, k, hi)) = x
    BY <1>1, <1>2, MaskedIs
  <1> QED
    BY <1>3 DEF x

\* The table of a volume with root chain r and file chain c.
LEMMA FatIs ==
    ASSUME NEW r, NEW c \in Seq(DataClusters), NEW hi \in {0, 3}, IsInjective(c),
           r[1] \in RootClusters, 1 \in DOMAIN r,
           \A k \in DOMAIN r : r[k] = r[1] => k = 1
    PROVE  /\ DOMAIN FatOf(r, c, hi) = {0, 1} \cup ToSet(c) \cup ToSet(r)
           /\ FatOf(r, c, hi)[0] = clusterMask - 8
           /\ \A k \in 1 .. Len(c) :
                 c[k] \in DOMAIN FatOf(r, c, hi) /\ FatOf(r, c, hi)[c[k]] = LinkOf(c, k, hi)
           /\ r[1] \in DOMAIN FatOf(r, c, hi)
           /\ FatOf(r, c, hi)[r[1]] = LinkOf(r, 1, hi)
  <1> DEFINE D == {0, 1} \cup ToSet(c) \cup ToSet(r)
             at(s, x) == CHOOSE k \in DOMAIN s : s[k] = x
             Entry(x) == CASE x = 0 -> clusterMask - 8
                           [] x = 1 -> endOfChain
                           [] x \in ToSet(c) -> LinkOf(c, at(c, x), hi)
                           [] OTHER -> LinkOf(r, at(r, x), hi)
  <1>1. FatOf(r, c, hi) = [x \in D |-> Entry(x)]
    BY Zenon DEF FatOf
  <1>2. DOMAIN FatOf(r, c, hi) = D /\ \A x \in D : FatOf(r, c, hi)[x] = Entry(x)
    BY <1>1, Zenon
  <1>0. \A k \in DOMAIN c : c[k] \in DataClusters
    OBVIOUS
  <1>3. 0 \in D /\ Entry(0) = clusterMask - 8
    <2>1. \A x \in DataClusters : x # 0
      BY ClusterIs
    <2>2. 0 \notin ToSet(c)
      BY <1>0, <2>1, Zenon DEF ToSet
    <2> QED
      BY <2>2
  <1>4. ASSUME NEW k \in 1 .. Len(c)
        PROVE  c[k] \in D /\ Entry(c[k]) = LinkOf(c, k, hi)
    <2>1. k \in DOMAIN c /\ c[k] \in DataClusters
      OBVIOUS
    <2>2. c[k] \in ToSet(c)
      BY <2>1, Zenon DEF ToSet
    <2>3. c[k] # 0 /\ c[k] # 1
      BY <2>1, ClusterIs
    <2>4. at(c, c[k]) \in DOMAIN c /\ c[at(c, c[k])] = c[k]
      BY <2>1, Zenon
    <2>5. at(c, c[k]) = k
      BY <2>1, <2>4, Zenon DEF IsInjective
    <2>6. Entry(c[k]) = LinkOf(c, at(c, c[k]), hi)
      BY <2>2, <2>3
    <2> QED
      BY <2>2, <2>5, <2>6, Zenon
  <1>5. r[1] \in D /\ Entry(r[1]) = LinkOf(r, 1, hi)
    <2>1. r[1] \in ToSet(r)
      BY Zenon DEF ToSet
    <2>2. r[1] \notin ToSet(c)
      <3>1. \A k \in DOMAIN c : c[k] # r[1]
        <4> SUFFICES ASSUME NEW k \in DOMAIN c PROVE c[k] # r[1]
          OBVIOUS
        <4>1. c[k] \in DataClusters
          OBVIOUS
        <4> QED
          BY <4>1, ClusterIs
      <3> QED
        BY <3>1, Zenon DEF ToSet
    <2>3. r[1] # 0 /\ r[1] # 1
      BY Fat32Assumption
    <2>4. at(r, r[1]) = 1
      BY Zenon
    <2>5. Entry(r[1]) = LinkOf(r, at(r, r[1]), hi)
      BY <2>2, <2>3
    <2> QED
      BY <2>1, <2>4, <2>5, Zenon
  <1> HIDE DEF D, Entry
  <1>6. DOMAIN FatOf(r, c, hi) = {0, 1} \cup ToSet(c) \cup ToSet(r)
    BY <1>2 DEF D
  <1> QED
    BY <1>2, <1>3, <1>4, <1>5, <1>6, Zenon

LEMMA VolumeStarts == Init => VolumeInv
  <1> SUFFICES ASSUME Init PROVE VolumeInv
    OBVIOUS
  <1>1. vol \in Volumes /\ WellFormed(vol)
    BY DEF Init
  <1>2. PICK spc \in ClusterSizes,
             r \in RootChains, c \in Chains, hi \in {0, 3},
             d \in BoundedSeq(Entries, DirCapacity), s \in Sizes :
          vol = [sectorsPerCluster |-> spc, fat |-> FatOf(r, c, hi), dir |-> d,
                 rootChain |-> r, chain |-> c, size |-> s]
    BY <1>1 DEF Volumes
  <1>3. /\ vol.sectorsPerCluster = spc /\ vol.fat = FatOf(r, c, hi) /\ vol.dir = d
        /\ vol.rootChain = r /\ vol.chain = c /\ vol.size = s
    BY <1>2
  <1>4. spc \in Nat \ {0} /\ s \in Nat
    BY Fat32Assumption
  <1>5. d \in Seq(Entries) /\ Len(d) <= DirCapacity
    BY Fat32Assumption, ChainIs
  <1>6. c \in Seq(DataClusters) /\ IsInjective(c)
    BY Fat32Assumption, ChainIs DEF Chains
  <1>7. Len(c) = ClustersFor(s, spc)
    BY <1>1, <1>3, Zenon DEF WellFormed
  <1>8. \/ \E x \in RootClusters : r = <<x>>
        \/ \E x \in RootClusters, y \in DataClusters : r = <<x, y>>
    BY DEF RootChains
  <1>9. /\ r[1] \in RootClusters /\ 1 \in DOMAIN r /\ Head(r) = r[1]
        /\ \A k \in DOMAIN r : r[k] = r[1] => k = 1
    <2>1. ASSUME NEW x \in RootClusters, r = <<x>> PROVE <1>9!:
      BY <2>1
    <2>2. ASSUME NEW x \in RootClusters, NEW y \in DataClusters, r = <<x, y>> PROVE <1>9!:
      <3>1. y # x
        BY ClusterIs
      <3> QED
        BY <2>2, <3>1
    <2> QED
      BY <1>8, <2>1, <2>2
  <1>b. clusterNumberRoot = r[1]
    BY <1>3, <1>9 DEF clusterNumberRoot
  <1>a. /\ 0 \in DOMAIN vol.fat /\ vol.fat[0] = clusterMask - 8
        /\ \A k \in 1 .. Len(c) : c[k] \in DOMAIN vol.fat /\ vol.fat[c[k]] = LinkOf(c, k, hi)
        /\ r[1] \in DOMAIN vol.fat
        /\ vol.fat[r[1]] = LinkOf(r, 1, hi)
    <2> DEFINE f == FatOf(r, c, hi)
    <2>1. /\ DOMAIN f = {0, 1} \cup ToSet(c) \cup ToSet(r)
          /\ f[0] = clusterMask - 8
          /\ \A k \in 1 .. Len(c) : c[k] \in DOMAIN f /\ f[c[k]] = LinkOf(c, k, hi)
          /\ r[1] \in DOMAIN f
          /\ f[r[1]] = LinkOf(r, 1, hi)
      BY <1>6, <1>9, FatIs
    <2>2. 0 \in DOMAIN f
      BY <2>1, Zenon
    <2>3. vol.fat = f
      BY <1>3
    <2> HIDE DEF f
    <2> QED
      BY <2>1, <2>2, <2>3, Zenon
  <1>10. \A k \in 1 .. Len(c) : Link(c[k]) = IF k = Len(c) THEN endOfChain ELSE c[k + 1]
    <2> SUFFICES ASSUME NEW k \in 1 .. Len(c)
                 PROVE  Link(c[k]) = IF k = Len(c) THEN endOfChain ELSE c[k + 1]
      OBVIOUS
    <2>1. Link(c[k]) = Masked(LinkOf(c, k, hi))
      BY <1>a, Zenon DEF Link, FATptr
    <2> QED
      BY <1>6, <2>1, LinkIs
  <1>11. Link(0) = clusterMask - 8
    <2>1. FATptr(0) = clusterMask - 8
      BY <1>a, Zenon DEF FATptr
    <2> QED
      BY <2>1, MaskIs DEF Link, Masked
  <1>12. \/ Len(r) = 1
         \/ r[2] \in DataClusters /\ Link(clusterNumberRoot) = r[2]
    <2>1. ASSUME NEW w \in RootClusters, r = <<w>> PROVE Len(r) = 1
      BY <2>1
    <2>2. ASSUME NEW w \in RootClusters, NEW x \in DataClusters, r = <<w, x>>
          PROVE  r[2] \in DataClusters /\ Link(clusterNumberRoot) = r[2]
      <3>1. Link(clusterNumberRoot) = Masked(LinkOf(r, 1, hi))
        BY <1>a, <1>b, Zenon DEF Link, FATptr
      <3>2. Len(r) = 2 /\ r[2] = x /\ r[1 + 1] = x
        BY <2>2
      <3>3. LinkOf(r, 1, hi) = x + hi * clusterMask
        BY <3>2 DEF LinkOf
      <3>4. x \in 0 .. clusterMask - 1
        BY ClusterIs, MaskIs
      <3> QED
        BY <3>1, <3>2, <3>3, <3>4, MaskedIs
    <2> QED
      BY <1>8, <2>1, <2>2
  <1> QED
    BY <1>3, <1>4, <1>5, <1>6, <1>7, <1>10, <1>11, <1>12, Zenon DEF VolumeInv

-----------------------------------------------------------------------------
\* The reader stands at an end mark when the chain is read, and not before.
LEMMA EndIs ==
    ASSUME VolumeInv, NEW n \in 0 .. Reads
    PROVE  isClusterEnd(ClusterAfter(n)) <=> n = Reads
  <1>0. vol.chain \in Seq(DataClusters) /\ Len(vol.chain) \in Nat
    BY DEF VolumeInv
  <1>1. isClusterEnd(endOfChain) /\ isClusterEnd(clusterMask - 8) /\ ~isClusterEnd(0)
    BY MaskIs DEF isClusterEnd, Masked, endOfChain
  <1>2. CASE vol.chain = <<>>
    BY <1>1, <1>2 DEF ClusterAfter, Reads
  <1>3. CASE vol.chain # <<>> /\ n < Len(vol.chain)
    <2>1. ClusterAfter(n) = vol.chain[n + 1] /\ Reads = Len(vol.chain)
      BY <1>3 DEF ClusterAfter, Reads
    <2>2. vol.chain[n + 1] \in DataClusters
      BY <1>0, <1>3
    <2>3. vol.chain[n + 1] \in 2 .. clusterMask - 17
      BY <2>2, ClusterIs
    <2>4. ~isClusterEnd(vol.chain[n + 1])
      BY <2>3, MaskIs DEF isClusterEnd, Masked
    <2> QED
      BY <1>0, <1>3, <2>1, <2>4
  <1>4. CASE vol.chain # <<>> /\ ~(n < Len(vol.chain))
    BY <1>0, <1>1, <1>4 DEF ClusterAfter, Reads
  <1> QED
    BY <1>2, <1>3, <1>4

\* One turn of the loop takes the reader to the next cluster of the chain.
LEMMA NextCluster ==
    ASSUME VolumeInv, NEW n \in 0 .. Reads, n # Reads
    PROVE  Link(ClusterAfter(n)) = ClusterAfter(n + 1)
  <1>0. vol.chain \in Seq(DataClusters) /\ Len(vol.chain) \in Nat
    BY DEF VolumeInv
  <1>1. CASE vol.chain = <<>>
    <2>1. n = 0
      BY <1>1 DEF Reads
    <2>2. Link(0) = clusterMask - 8
      BY DEF VolumeInv
    <2> QED
      BY <1>1, <2>1, <2>2 DEF ClusterAfter
  <1>2. CASE vol.chain # <<>>
    <2>1. n < Len(vol.chain) /\ n + 1 \in 1 .. Len(vol.chain) /\ n \in Nat
      BY <1>0, <1>2 DEF Reads
    <2>2. Link(vol.chain[n + 1]) =
             IF n + 1 = Len(vol.chain) THEN endOfChain ELSE vol.chain[n + 1 + 1]
      BY <2>1, Zenon DEF VolumeInv
    <2> QED
      BY <1>0, <1>2, <2>1, <2>2 DEF ClusterAfter
  <1> QED
    BY <1>1, <1>2

LEMMA VolumeStep == VolumeInv /\ vol' = vol => VolumeInv'
  BY DEF VolumeInv, Link, FATptr, clusterNumberRoot

LEMMA VolumeKept == Next \/ UNCHANGED vars => vol' = vol
  BY DEF Next, vars, readVBR, readFAT, initOutOfMemory, multiclusterPanic, readDir, countEntry,
        counted, nextEntry,
        foundEntry, notFound, readCluster, fileComplete, diskFails

\* The entries passed over do not match.
LEMMA ScanStep ==
    ASSUME VolumeInv, ScanInv, Next
    PROVE  ScanInv'
  <1>0. vol' = vol /\ (\A k : Matches(k)' <=> Matches(k)) /\ (ContinuesDir' <=> ContinuesDir)
    BY VolumeKept DEF Matches, ContinuesDir, FATptr, clusterNumberRoot
  <1>1. vol.dir \in Seq(Entries) /\ Len(vol.dir) \in Nat /\ Len(vol.dir) <= DirCapacity
    BY DEF VolumeInv
  <1> HIDE DEF Matches, ContinuesDir
  <1>2. CASE readDir \/ countEntry
    BY <1>0, <1>2 DEF ScanInv, readDir, countEntry
  <1>c. CASE counted
    <2>1. numEntries >= Len(vol.dir)
      BY <1>1, <1>c, Fat32Assumption DEF counted, InUse, ScanInv
    <2> QED
      BY <1>0, <1>c, <2>1 DEF ScanInv, counted
  <1>3. CASE nextEntry
    <2>1. i' = i + 1 /\ ~Matches(i)
      BY <1>3 DEF nextEntry, Following
    <2> QED
      BY <1>0, <1>3, <2>1 DEF ScanInv, nextEntry
  <1>4. CASE notFound
    BY <1>0, <1>4 DEF ScanInv, notFound
  <1>5. CASE readVBR \/ readFAT \/ initOutOfMemory \/ multiclusterPanic
    BY <1>0, <1>5 DEF ScanInv, readVBR, readFAT, initOutOfMemory, multiclusterPanic
  <1>6. CASE foundEntry \/ readCluster \/ fileComplete \/ diskFails
    BY <1>0, <1>6 DEF ScanInv, foundEntry, readCluster, fileComplete, diskFails
  <1> QED
    BY <1>2, <1>c, <1>3, <1>4, <1>5, <1>6 DEF Next

\* After j reads the reader stands at the cluster after the j-th.
LEMMA FollowStep ==
    ASSUME VolumeInv, ScanInv, FollowInv, Next
    PROVE  FollowInv'
  <1>0. /\ vol' = vol
        /\ Reads' = Reads
        /\ \A n : ClusterAfter(n)' = ClusterAfter(n)
        /\ \A c : currLBA(c)' = currLBA(c)
    BY VolumeKept DEF Reads, ClusterAfter, currLBA
  <1>1. Len(vol.chain) \in Nat /\ Reads \in Nat
    BY DEF VolumeInv, Reads
  <1> HIDE DEF VolumeInv
  <1>2. CASE readCluster
    <2>1. /\ pc = "follow" /\ pc' = "follow"
          /\ ~isClusterEnd(clusterNum) /\ clusterNum' = Link(clusterNum)
          /\ j' = j + 1 /\ room' = room
      BY <1>2 DEF readCluster, Link
    <2>2. clusterNum = ClusterAfter(j) /\ j \in 0 .. Reads
      BY <2>1 DEF FollowInv
    <2>3. j # Reads /\ j' \in 0 .. Reads
      BY <1>1, <2>1, <2>2, EndIs
    <2>4. clusterNum' = ClusterAfter(j + 1)
      BY <2>1, <2>2, <2>3, NextCluster
    <2>5. DOMAIN buffer = 0 .. j - 1
      BY DEF FollowInv
    <2>6. DOMAIN buffer' = 0 .. j' - 1
      <3>1. DOMAIN buffer' = (0 .. j - 1) \cup {j}
        BY <1>2, <2>5, Zenon DEF readCluster
      <3>2. \A k : k \in (0 .. j - 1) \cup {j} <=> k \in 0 .. (j + 1) - 1
        BY <2>2
      <3>3. (0 .. j - 1) \cup {j} = 0 .. (j + 1) - 1
        BY <3>2, Zenon
      <3> QED
        BY <2>1, <3>1, <3>3, Zenon
    <2>7. ASSUME NEW k \in 0 .. j' - 1, vol.chain # <<>>
          PROVE  buffer'[k] = currLBA(vol.chain[k + 1])
      <3>0. buffer' = [l \in DOMAIN buffer \cup {j} |->
                          IF l = j THEN currLBA(clusterNum) ELSE buffer[l]]
        BY <1>2 DEF readCluster
      <3>1. CASE k = j
        <4>1. buffer'[k] = currLBA(clusterNum)
          BY <3>0, <3>1, Zenon
        <4>2. clusterNum = vol.chain[k + 1]
          BY <1>1, <2>2, <2>3, <2>7, <3>1 DEF ClusterAfter, Reads
        <4> QED
          BY <4>1, <4>2
      <3>2. CASE k # j
        <4>1. k \in 0 .. j - 1
          BY <2>1, <2>2, <3>2
        <4>2. buffer'[k] = buffer[k]
          BY <2>5, <3>0, <3>2, <4>1, Zenon
        <4> QED
          BY <2>7, <4>1, <4>2, Zenon DEF FollowInv
      <3> QED
        BY <3>1, <3>2
    <2>8. ~Success'
      BY <2>1 DEF Success
    <2> QED
      BY <1>0, <2>1, <2>3, <2>4, <2>6, <2>7, <2>8 DEF FollowInv, numSectors
  <1>3. CASE foundEntry
    <2>1. /\ pc = "scan" /\ pc' = "follow" /\ j' = j /\ buffer' = buffer
          /\ clusterNum' = IF vol.chain = <<>> THEN 0 ELSE Head(vol.chain)
          /\ room' \in {numSectors(vol.size), 0}
      BY <1>3 DEF foundEntry
    <2>2. j = 0
      BY <2>1 DEF FollowInv
    <2>3. clusterNum' = ClusterAfter(0)
      <3>1. CASE vol.chain = <<>>
        BY <2>1, <3>1 DEF ClusterAfter
      <3>2. CASE vol.chain # <<>>
        <4>1. Head(vol.chain) = vol.chain[0 + 1] /\ 0 < Len(vol.chain)
          BY <3>2 DEF VolumeInv
        <4> QED
          BY <2>1, <3>2, <4>1 DEF ClusterAfter
      <3> QED
        BY <3>1, <3>2
    <2> QED
      BY <1>0, <2>1, <2>2, <2>3 DEF FollowInv, numSectors, Success
  <1>4. CASE fileComplete
    BY <1>0, <1>4 DEF FollowInv, fileComplete, Success, isClusterEnd, Masked, numSectors
  <1>5. CASE /\ UNCHANGED <<j, room, buffer>>
             /\ ~(pc' = "follow" \/ Success')
             /\ pc' \in {"follow", "returned", "panic"} \/ pc \notin {"follow", "returned", "panic"}
    BY <1>0, <1>5 DEF FollowInv, numSectors
  <1>6. CASE \/ readVBR \/ readFAT \/ initOutOfMemory \/ multiclusterPanic \/ readDir
             \/ countEntry \/ counted
             \/ nextEntry \/ notFound \/ diskFails
    <2>1. UNCHANGED <<j, room, buffer>>
      BY <1>6 DEF readVBR, readFAT, initOutOfMemory, multiclusterPanic, readDir, countEntry,
                 counted, nextEntry,
                 notFound, diskFails
    <2>2. ~(pc' = "follow" \/ Success')
      BY <1>6 DEF readVBR, readFAT, initOutOfMemory, multiclusterPanic, readDir, countEntry,
                 counted, nextEntry,
                 notFound, diskFails, Success
    <2>3. pc' \in {"follow", "returned", "panic"} \/ pc \notin {"follow", "returned", "panic"}
      BY <1>6 DEF readVBR, readFAT, initOutOfMemory, multiclusterPanic, readDir, countEntry,
                 counted, nextEntry,
                 notFound, diskFails
    <2> QED
      BY <1>5, <2>1, <2>2, <2>3
  <1> QED
    BY <1>2, <1>3, <1>4, <1>6 DEF Next

LEMMA ReadStarts == Init => ReadInv
  <1> SUFFICES ASSUME Init PROVE ReadInv
    OBVIOUS
  <1>1. VolumeInv
    BY VolumeStarts
  <1>2. ScanInv
    BY DEF Init, ScanInv
  <1>3. Reads \in Nat
    BY <1>1 DEF VolumeInv, Reads
  <1>4. DOMAIN buffer = {}
    BY Zenon DEF Init, Nothing
  <1>5. 0 .. 0 - 1 = {}
    OBVIOUS
  <1>6. FollowInv
    BY <1>3, <1>4, <1>5 DEF Init, FollowInv, Success
  <1> QED
    BY <1>1, <1>2, <1>6 DEF ReadInv

LEMMA ReadStep == ReadInv /\ [Next]_vars => ReadInv'
  <1> SUFFICES ASSUME ReadInv, [Next]_vars PROVE ReadInv'
    OBVIOUS
  <1>1. VolumeInv'
    BY VolumeStep, VolumeKept DEF ReadInv
  <1>2. CASE Next
    BY <1>1, <1>2, ScanStep, FollowStep DEF ReadInv
  <1>3. CASE UNCHANGED vars
    <2>1. ScanInv'
      BY <1>3 DEF ReadInv, ScanInv, Matches, ContinuesDir, FATptr, clusterNumberRoot, vars
    <2>2. FollowInv'
      BY <1>3 DEF ReadInv, FollowInv, Reads, ClusterAfter, currLBA, Success, isClusterEnd, vars,
                 numSectors
    <2> QED
      BY <1>1, <2>1, <2>2 DEF ReadInv
  <1> QED
    BY <1>2, <1>3

LEMMA ReadInvariant == Spec => []ReadInv
  BY ReadStarts, ReadStep, PTL DEF Spec
-----------------------------------------------------------------------------
\* Clusters and sectors of a file.
LEMMA CeilingIs ==
    ASSUME NEW size \in Nat, NEW u \in Nat \ {0}
    PROVE  LET q == (size + u - 1) \div u IN
           q \in Nat /\ u * q < size + u /\ size <= u * q
  OBVIOUS

LEMMA ClustersFit ==
    ASSUME NEW size \in Nat, NEW spc \in Nat \ {0}
    PROVE  /\ ClustersFor(size, spc) <= numSectors(size)
           /\ size > 0 => ClustersFor(size, spc) > 0
           /\ ClustersFor(size, 1) = SectorsOf(size)
           /\ SectorsOf(size) > 0 => size > 0
           /\ numSectors(size) \in Nat /\ numSectors(size) >= 1
           /\ SectorsOf(size) \in Nat
  <1> DEFINE u == 512 * spc
             q == (size + u - 1) \div u
             d == size \div 512
  <1>1. u \in Nat \ {0} /\ u >= 512
    OBVIOUS
  <1>2. ClustersFor(size, spc) = q /\ numSectors(size) = d + 1
    BY DEF ClustersFor, numSectors, sectorSize
  <1>3. d \in Nat /\ 512 * d <= size /\ size < 512 * d + 512
    OBVIOUS
  <1> HIDE DEF u, d
  <1>4. q \in Nat /\ u * q < size + u /\ size <= u * q
    BY <1>1, CeilingIs
  <1> HIDE DEF q
  <1>5. q <= d + 1
    <2> SUFFICES ASSUME q >= d + 2 PROVE FALSE
      BY <1>3, <1>4
    <2>1. u * q = u * (q - 1) + u
      BY <1>1, <1>4
    <2>2. u * (q - 1) >= 512 * (q - 1)
      BY <1>1, <1>3, <1>4
    <2>3. 512 * (q - 1) < size
      BY <1>1, <1>4, <2>1, <2>2
    <2> QED
      BY <1>3, <1>4, <2>3
  <1>6. size > 0 => q > 0
    BY <1>1, <1>4
  <1>7. ClustersFor(size, 1) = SectorsOf(size)
    BY DEF ClustersFor, SectorsOf, sectorSize
  <1>8. (SectorsOf(size) > 0 => size > 0) /\ SectorsOf(size) \in Nat
    BY DEF SectorsOf, sectorSize
  <1> QED
    BY <1>2, <1>3, <1>5, <1>6, <1>7, <1>8

\* Whatever the volume, a file that getRootFile returns is in the buffer in its
\* order, sector by sector if clusters are of one sector, and its first sector
\* always (fat32.cpp:248-272).
THEOREM FileAlwaysReadWhole == Spec => []FileReadWhole
  <1>1. ReadInv => FileReadWhole
    <2> SUFFICES ASSUME ReadInv, Success, NEW k \in 0 .. SectorsOf(vol.size) - 1,
                        vol.sectorsPerCluster = 1 \/ k = 0
                 PROVE  k \in DOMAIN buffer /\ buffer[k] = FileSector(k)
      BY DEF FileReadWhole
    <2> DEFINE spc == vol.sectorsPerCluster
    <2>1. /\ spc \in Nat \ {0} /\ vol.size \in Nat
          /\ Len(vol.chain) = ClustersFor(vol.size, spc)
          /\ vol.chain \in Seq(DataClusters)
          /\ VolumeInv
      BY DEF ReadInv, VolumeInv
    <2>2. /\ SectorsOf(vol.size) \in Nat
          /\ k \in Nat
          /\ k < Len(vol.chain)
      <3> DEFINE n == vol.size
      <3>1. /\ n > 0 => ClustersFor(n, spc) > 0
            /\ ClustersFor(n, 1) = SectorsOf(n)
            /\ SectorsOf(n) > 0 => n > 0
            /\ SectorsOf(n) \in Nat
        <4> HIDE DEF n, spc
        <4> QED
          BY <2>1, ClustersFit DEF n
      <3>2. CASE spc = 1
        BY <2>1, <3>1, <3>2
      <3>3. CASE k = 0
        BY <2>1, <3>1, <3>3
      <3> QED
        BY <3>1, <3>2, <3>3
    <2>3. vol.chain # <<>> /\ Reads = Len(vol.chain)
      BY <2>1, <2>2 DEF Reads
    <2>4. j = Reads
      BY <2>1, EndIs DEF ReadInv, FollowInv
    <2>5. k \in 0 .. j - 1
      BY <2>1, <2>2, <2>3, <2>4
    <2>6. k \in DOMAIN buffer /\ buffer[k] = currLBA(vol.chain[k + 1])
      BY <2>3, <2>5, Zenon DEF ReadInv, FollowInv
    <2>7. k \div spc = k /\ k % spc = 0
      BY <2>1, <2>2
    <2>8. vol.chain[k + 1] \in Nat
      <3>1. vol.chain[k + 1] \in DataClusters
        BY <2>1, <2>2
      <3> QED
        BY <3>1, ClusterIs, MaskIs
    <2>9. currLBA(vol.chain[k + 1]) = FileSector(k)
      <3>1. /\ FileSector(k) = (vol.chain[k + 1] - 2) * spc + 0
                    + partitionLBA + reservedSectors + numberOfFATs * sectorsPerFAT
            /\ currLBA(vol.chain[k + 1]) = (vol.chain[k + 1] - 2) * spc
                    + (reservedSectors + numberOfFATs * sectorsPerFAT) + partitionLBA
        BY <2>7 DEF FileSector, currLBA, firstDataSector
      <3> DEFINE x == (vol.chain[k + 1] - 2) * spc
                 y == numberOfFATs * sectorsPerFAT
      <3>2. x \in Int /\ y \in Int /\ reservedSectors \in Int /\ partitionLBA \in Int
        <4>1. /\ reservedSectors \in Int /\ partitionLBA \in Int
              /\ numberOfFATs \in Int /\ sectorsPerFAT \in Int
          BY Fat32Assumption
        <4>2. vol.chain[k + 1] \in Int /\ spc \in Int
          BY <2>1, <2>8
        <4> QED
          BY <4>1, <4>2
      <3> HIDE DEF x, y
      <3>3. x + 0 + partitionLBA + reservedSectors + y = x + (reservedSectors + y) + partitionLBA
        BY <3>2
      <3> QED
        BY <3>1, <3>3 DEF x, y
    <2> QED
      BY <2>6, <2>9
  <1> QED
    BY <1>1, ReadInvariant, PTL

\* Whatever the volume, no read goes past the buffer getRootFile allocated
\* (fat32.cpp:241-257).
THEOREM ReadsAlwaysInsideBuffer == Spec => []ReadsInsideBuffer
  <1>1. ReadInv => ReadsInsideBuffer
    <2> SUFFICES ASSUME ReadInv, room # 0, NEW k \in DOMAIN buffer PROVE k < room
      BY DEF ReadsInsideBuffer
    <2>1. room = numSectors(vol.size) /\ j \in 0 .. Reads /\ k \in 0 .. j - 1
      BY DEF ReadInv, FollowInv
    <2>2. /\ vol.size \in Nat /\ vol.sectorsPerCluster \in Nat \ {0}
          /\ Len(vol.chain) = ClustersFor(vol.size, vol.sectorsPerCluster)
          /\ Len(vol.chain) \in Nat
      BY DEF ReadInv, VolumeInv
    <2>3. Reads <= numSectors(vol.size) /\ Reads \in Nat /\ numSectors(vol.size) \in Nat
      <3> DEFINE n == vol.size
                 spc == vol.sectorsPerCluster
      <3>1. /\ ClustersFor(n, spc) <= numSectors(n)
            /\ numSectors(n) \in Nat /\ numSectors(n) >= 1
        <4> HIDE DEF n, spc
        <4> QED
          BY <2>2, ClustersFit DEF n, spc
      <3> QED
        BY <2>2, <3>1 DEF Reads
    <2> QED
      BY <2>1, <2>3
  <1> QED
    BY <1>1, ReadInvariant, PTL

\* Whatever the volume, return code 1 means that no entry of the root
\* directory has the name, as far as readDir takes the directory to go
\* (fat32.cpp:122, 213-277).
THEOREM NotFoundAlwaysTrue == Spec => []NotFoundIsTrue
  <1>1. ReadInv => NotFoundIsTrue
    <2> SUFFICES ASSUME ReadInv, pc = "returned", returnCode = 1
                 PROVE  /\ \A k \in 1 .. Len(vol.dir) : vol.dir[k].name # Wanted
                        /\ Len(vol.rootChain) = 1 \/ vol.rootChain[2] % 16 >= 8
      BY DEF NotFoundIsTrue
    <2>0. Len(vol.dir) \in Nat
      BY DEF ReadInv, VolumeInv
    <2>1. /\ i \in Nat /\ i >= Len(vol.dir) /\ ~ContinuesDir
          /\ \A k \in 0 .. i - 1 : ~Matches(k)
      BY <2>0 DEF ReadInv, ScanInv
    <2>2. ASSUME NEW k \in 1 .. Len(vol.dir) PROVE vol.dir[k].name # Wanted
      <3>1. k - 1 \in 0 .. i - 1 /\ k - 1 < Len(vol.dir) /\ (k - 1) + 1 = k
        BY <2>0, <2>1
      <3>2. ~Matches(k - 1)
        BY <2>1, <3>1
      <3> QED
        BY <3>1, <3>2, Zenon DEF Matches
    <2>3. ASSUME Len(vol.rootChain) # 1 PROVE vol.rootChain[2] % 16 >= 8
      <3> DEFINE x == vol.rootChain[2]
      <3>1. x \in DataClusters /\ Link(clusterNumberRoot) = x
        BY <2>3 DEF ReadInv, VolumeInv
      <3>2. x \in 2 .. clusterMask - 17
        BY <3>1, ClusterIs
      <3>3. ~NotEndOfCluster(x)
        BY <2>1, <3>1, Zenon DEF ContinuesDir, Link
      <3> HIDE DEF x
      <3>4. x - (x % 16) # clusterMask - 16
        BY <3>2, MaskIs
      <3>5. x % 16 >= 8
        BY <3>2, <3>3, <3>4, MaskIs DEF NotEndOfCluster
      <3> QED
        BY <3>5 DEF x
    <2> QED
      BY <2>2, <2>3
  <1> QED
    BY <1>1, ReadInvariant, PTL

-----------------------------------------------------------------------------
(***************************************************************************)
(* Why the lookup ends: a bound on the steps left, which every step lowers. *)
(***************************************************************************)
StepsLeft ==
    CASE pc = "readVBR" -> 2 * Len(vol.dir) + Reads + 7
      [] pc = "readFAT" -> 2 * Len(vol.dir) + Reads + 6
      [] pc = "readDir" -> 2 * Len(vol.dir) + Reads + 5
      [] pc = "count"   -> (Len(vol.dir) - numEntries) + Len(vol.dir) + Reads + 4
      [] pc = "scan"    -> (numEntries - i) + Reads + 3
      [] pc = "follow"  -> (Reads - j) + 1
      [] OTHER          -> 0

Progress == StepsLeft \in Nat /\ StepsLeft' \in 0 .. StepsLeft - 1

CountInv ==
    /\ pc \in {"readVBR", "readFAT", "readDir", "count"} => i = 0
    /\ pc = "count" /\ HasFreeEntry => numEntries <= Len(vol.dir)
    /\ pc = "scan" => i <= numEntries

LEMMA CountStarts == Init => CountInv
  BY DEF Init, CountInv

LEMMA CountStep ==
    ASSUME ReadInv, CountInv, Next
    PROVE  CountInv'
  <1>1. i \in Nat /\ numEntries \in Nat /\ Len(vol.dir) \in Nat
    BY DEF ReadInv, ScanInv, VolumeInv
  <1>0. vol' = vol /\ (HasFreeEntry' <=> HasFreeEntry)
    BY VolumeKept DEF HasFreeEntry
  <1>2. CASE readDir
    <2>1. numEntries' = 0 /\ i' = i /\ i = 0 /\ pc' = "count"
      BY <1>1, <1>2 DEF readDir, CountInv, ReadInv, ScanInv
    <2> QED
      BY <1>0, <1>1, <2>1 DEF CountInv
  <1>a. CASE countEntry
    BY <1>0, <1>1, <1>a DEF countEntry, InUse, CountInv
  <1>b. CASE counted
    BY <1>0, <1>1, <1>b DEF counted, CountInv
  <1>3. CASE nextEntry
    BY <1>1, <1>3 DEF nextEntry, Following, CountInv
  <1>4. CASE readVBR \/ readFAT \/ initOutOfMemory \/ multiclusterPanic \/ foundEntry
             \/ notFound \/ readCluster \/ fileComplete \/ diskFails
    BY <1>4 DEF readVBR, readFAT, initOutOfMemory, multiclusterPanic, foundEntry, notFound,
                readCluster, fileComplete, diskFails, CountInv
  <1> QED
    BY <1>2, <1>a, <1>b, <1>3, <1>4, Zenon DEF Next

\* Every step leaves fewer to take.
LEMMA EveryStepProgresses ==
    ASSUME ReadInv, CountInv, Next, HasFreeEntry
    PROVE  Progress
  <1> DEFINE l == Len(vol.dir)
  <1>0. /\ i \in Nat /\ numEntries \in Nat /\ l \in Nat /\ j \in 0 .. Reads
        /\ Reads \in Nat /\ Reads >= 1
    <2>1. i \in Nat /\ numEntries \in Nat /\ vol.dir \in Seq(Entries) /\ j \in 0 .. Reads
      BY DEF ReadInv, ScanInv, VolumeInv, FollowInv
    <2>2. vol.chain \in Seq(DataClusters)
      BY DEF ReadInv, VolumeInv
    <2>3. Reads \in Nat /\ Reads >= 1
      BY <2>2 DEF Reads
    <2> QED
      BY <2>1, <2>3
  <1>1. Reads' = Reads /\ vol' = vol
    BY VolumeKept DEF Reads
  <1>a. /\ pc = "readVBR" => StepsLeft = 2 * l + Reads + 7
        /\ pc = "readFAT" => StepsLeft = 2 * l + Reads + 6
        /\ pc = "readDir" => StepsLeft = 2 * l + Reads + 5
        /\ pc = "count" => StepsLeft = (l - numEntries) + l + Reads + 4
        /\ pc = "scan" => StepsLeft = (numEntries - i) + Reads + 3
        /\ pc = "follow" => StepsLeft = (Reads - j) + 1
    BY DEF StepsLeft
  <1>b. /\ pc' = "readFAT" => StepsLeft' = 2 * l + Reads + 6
        /\ pc' = "readDir" => StepsLeft' = 2 * l + Reads + 5
        /\ pc' = "count" => StepsLeft' = (l - numEntries') + l + Reads + 4
        /\ pc' = "scan" => StepsLeft' = (numEntries' - i') + Reads + 3
        /\ pc' = "follow" => StepsLeft' = (Reads - j') + 1
        /\ pc' \in {"panic", "noTable", "returned"} => StepsLeft' = 0
    BY <1>1 DEF StepsLeft
  <1>c. \A k : InUse(k) <=> k < l
    BY DEF InUse
  <1> HIDE DEF l
  <1> USE <1>a, <1>b DEF Progress
  <1>2. CASE readVBR
    BY <1>0, <1>1, <1>2 DEF readVBR
  <1>3. CASE readFAT
    BY <1>0, <1>1, <1>3 DEF readFAT
  <1>4. CASE initOutOfMemory
    BY <1>0, <1>1, <1>4 DEF initOutOfMemory
  <1>5. CASE multiclusterPanic
    BY <1>0, <1>1, <1>5 DEF multiclusterPanic
  <1>6. CASE readDir
    <2>1. pc = "readDir" /\ pc' = "count" /\ numEntries' = 0
      BY <1>6 DEF readDir, ReadInv, ScanInv
    <2> QED
      BY <1>0, <2>1
  <1>d. CASE countEntry
    <2>1. pc = "count" /\ pc' = "count" /\ numEntries < l /\ numEntries' = numEntries + 1
      BY <1>c, <1>d DEF countEntry
    <2> QED
      BY <1>0, <2>1
  <1>e. CASE counted
    <2>1. pc = "count" /\ pc' = "scan" /\ numEntries' = numEntries /\ i' = 0
      BY <1>e DEF counted, CountInv
    <2>2. numEntries <= l
      BY <2>1 DEF CountInv, l
    <2>3. StepsLeft = (l - numEntries) + l + Reads + 4 /\ StepsLeft' = (numEntries - 0) + Reads + 3
      BY <2>1
    <2> HIDE <1>a, <1>b
    <2> QED
      BY <1>0, <2>2, <2>3
  <1>7. CASE nextEntry
    BY <1>0, <1>1, <1>7 DEF nextEntry, Following
  <1>8. CASE foundEntry
    <2>1. j' = j /\ j = 0
      BY <1>8 DEF foundEntry, ReadInv, FollowInv
    <2> QED
      BY <1>0, <1>1, <1>8, <2>1 DEF foundEntry
  <1>9. CASE notFound
    BY <1>0, <1>1, <1>9 DEF notFound, CountInv
  <1>10. CASE readCluster
    <2>1. pc = "follow" /\ pc' = "follow" /\ ~isClusterEnd(clusterNum) /\ j' = j + 1
      BY <1>10 DEF readCluster
    <2>2. clusterNum = ClusterAfter(j) /\ VolumeInv
      BY <2>1 DEF ReadInv, FollowInv
    <2>3. j # Reads
      BY <1>0, <2>1, <2>2, EndIs
    <2> QED
      BY <1>0, <1>1, <2>1, <2>3
  <1>11. CASE fileComplete
    BY <1>0, <1>1, <1>11 DEF fileComplete
  <1>12. CASE diskFails
    BY <1>0, <1>1, <1>12 DEF diskFails
  <1> QED
    BY <1>2, <1>3, <1>4, <1>5, <1>6, <1>d, <1>e, <1>7, <1>8, <1>9, <1>10,
       <1>11, <1>12, Zenon DEF Next

\* A lookup on a well-formed volume whose root directory has a free entry
\* cannot go on for ever: each step lowers a bound that starts at two for each
\* entry of the root directory and one for each cluster of the file, so the
\* count, the loop over the entries and the one along the chain end
\* (fat32.cpp:146-149, 225-264).  Of a full directory nothing is said.
THEOREM LookupStepsBounded ==
    /\ Spec => (StepsLeft = 2 * Len(vol.dir) + Reads + 7)
    /\ Spec => [][HasFreeEntry => Progress]_vars
  <1>1. Init => StepsLeft = 2 * Len(vol.dir) + Reads + 7
    BY DEF Init, StepsLeft
  <1>2. ReadInv /\ CountInv /\ [Next]_vars => CountInv'
    <2>1. CountInv /\ UNCHANGED vars => CountInv'
      BY DEF CountInv, HasFreeEntry, vars
    <2> QED
      BY <2>1, CountStep
  <1>3. ReadInv /\ CountInv /\ [Next]_vars => [HasFreeEntry => Progress]_vars
    BY EveryStepProgresses
  <1> QED
    BY <1>1, <1>2, <1>3, CountStarts, ReadInvariant, PTL DEF Spec
=============================================================================
