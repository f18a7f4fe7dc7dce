-------------------------------- MODULE Heap --------------------------------
(***************************************************************************)
(* The early heap of the boot loader and of the kernel:                    *)
(* lib/earlyLib/memory.cpp and include/earlyLib/memory.hpp.                *)
(*                                                                         *)
(* The heap is a singly linked list of 8-byte headers threaded through the *)
(* arena; a header's data buffer runs up to the next header.  nxt holds    *)
(* the _next field and reserved the _flags.reserved bit of every header on *)
(* the list, so DOMAIN nxt is the set of headers reached from `heap`.      *)
(* Addresses are integers, and the unsigned differences the code takes     *)
(* wrap modulo Word (2^32 in the build).  A header written over another    *)
(* one changes the other one's fields, byte by byte.                       *)
(***************************************************************************)
EXTENDS Integers, FiniteSets

CONSTANTS
    HeapStart,   \* ptr argument of heapInitialize
    MaxSize,     \* maxSize argument of heapInitialize, in bytes
    Sizes,       \* sizes the callers ask for
    Pointers,    \* values the callers pass to kfree
    Word         \* modulus of size_t

heapEntry_headerSize == 8
Null == 0
heapEnd == HeapStart + MaxSize - heapEntry_headerSize

ASSUME HeapAssumption ==
    /\ HeapStart \in Nat \ {0}
    /\ MaxSize \in Nat
    /\ MaxSize >= 2 * heapEntry_headerSize
    /\ Sizes \subseteq Nat
    /\ Pointers \subseteq Nat
    /\ Word \in Nat
    /\ Word > HeapStart + MaxSize + 2 * heapEntry_headerSize
    \* No request is so large that the address after its buffer wraps.
    /\ \A n \in Sizes : n < Word - (HeapStart + MaxSize + 2 * heapEntry_headerSize)

VARIABLES
    nxt,         \* _next of every header on the list
    reserved,    \* _flags.reserved of every header on the list
    panicked,    \* earlyPanic was called
    call         \* last call made: its name, its argument, its result

vars == <<nxt, reserved, panicked, call>>

Headers == DOMAIN nxt

(***************************************************************************)
(* The accessors of class heapEntry.                                       *)
(***************************************************************************)
SubWord(a, b) == IF b <= a THEN a - b ELSE a - b + Word

getSize(a) == SubWord(SubWord(nxt[a], a), heapEntry_headerSize)

getDataPtr(a) == a + heapEntry_headerSize

isLast(a) == nxt[a] = Null

(***************************************************************************)
(* heapInitialize: one free block followed by the end marker, which init   *)
(* marks reserved because its next pointer is null.                        *)
(***************************************************************************)
Init ==
    /\ nxt = [a \in {HeapStart, heapEnd} |-> IF a = heapEnd THEN Null ELSE heapEnd]
    /\ reserved = [a \in {HeapStart, heapEnd} |-> a = heapEnd]
    /\ panicked = FALSE
    /\ call = [op |-> "heapInitialize", arg |-> MaxSize, ptr |-> Null]

(***************************************************************************)
(* Every header leaves room for itself before the next one.  A split that  *)
(* leaves fewer than 8 bytes breaks this.  With 5 to 7 bytes the fields    *)
(* (_next in bytes 0-3, _flags in byte 4) are still apart, but the size of *)
(* the new block wraps, so that any request suits it; with 1 to 4 bytes    *)
(* the new header is written into the fields of the next one.              *)
(***************************************************************************)
HeadersApart == \A a \in Headers : isLast(a) \/ nxt[a] >= getDataPtr(a)

FieldsApart == \A a, b \in Headers : a < b => b >= a + 5

ReservedApart == \A a, b \in Headers : reserved[a] /\ a < b => b >= getDataPtr(a)

\* No header was written into another one's fields and no block without room
\* for its own header was handed out.  This is about where headers are, not
\* about what they say.
Intact == FieldsApart /\ ReservedApart

\* Once the heap is no longer intact what the walks find depends on the bytes
\* the callers store, and the model ends with that step.
Working == ~panicked /\ Intact

(***************************************************************************)
(* allocate.  The walk stops at the first block that is free and large     *)
(* enough; the list is in address order, so "first" is "lowest".           *)
(***************************************************************************)
\* Mutant of Suits: the size is not compared.
SuitsAnySize(a, n) == ~isLast(a) /\ ~reserved[a]

Suits(a, n) == ~isLast(a) /\ ~reserved[a] /\ ~(n > getSize(a))

FirstFit(a, n) == Suits(a, n) /\ \A b \in Headers : b < a => ~Suits(b, n)

\* The test of line 42, on unsigned operands: size <= available here, so the
\* difference wraps and the test holds whenever the two differ.
Splits(size, available) == SubWord(size, available) > heapEntry_headerSize + 4

\* Mutants of SplitAt: the header forgotten, and counted twice.
SplitAtShort(a, n) == a + n

SplitAtLate(a, n) == getDataPtr(a) + n + heapEntry_headerSize

SplitAt(a, n) == getDataPtr(a) + n

(***************************************************************************)
(* init(v) at s (memory.hpp:56) writes the four bytes of _next and clears  *)
(* the bit of _flags in the byte after them.  Where these bytes belong to  *)
(* the fields of another header h, h changes.                              *)
(***************************************************************************)
Touches(s, h) == h # s /\ h \in s - 4 .. s + 4

\* The weights of the bytes of a little-endian word.
Weight == [j \in 0 .. 3 |-> CASE j = 0 -> 1 [] j = 1 -> 256 [] j = 2 -> 65536 [] j = 3 -> 16777216]

ByteOf(v, j) == (v \div Weight[j]) % 256

FieldByte(h, j) == IF j < 4 THEN ByteOf(nxt[h], j) ELSE IF reserved[h] THEN 1 ELSE 0

ByteAfterInit(s, v, h, j) ==
    LET k == h + j - s
        byte == FieldByte(h, j)
    IN  CASE k \in 0 .. 3 -> ByteOf(v, k)
          [] k = 4 -> byte - (byte % 2)
          [] OTHER -> byte

NextAfterInit(s, v, h) ==
    LET b(j) == ByteAfterInit(s, v, h, j)
    IN  IF Touches(s, h)
        THEN b(0) + Weight[1] * b(1) + Weight[2] * b(2) + Weight[3] * b(3)
        ELSE nxt[h]

ReservedAfterInit(s, v, h) ==
    IF Touches(s, h) THEN ByteAfterInit(s, v, h, 4) % 2 = 1 ELSE reserved[h]

\* allocate on the block it chose: split off the rest if the test says so,
\* then mark the block reserved.
Take(a, n) ==
    LET s == SplitAt(a, n) IN
    /\ IF Splits(n, getSize(a))
       THEN /\ nxt' = [h \in Headers \cup {s} |->
                         IF h = a THEN s
                         ELSE IF h = s THEN nxt[a] ELSE NextAfterInit(s, nxt[a], h)]
            /\ reserved' = [h \in Headers \cup {s} |->
                         IF h = a THEN TRUE
                         ELSE IF h = s THEN FALSE ELSE ReservedAfterInit(s, nxt[a], h)]
       ELSE /\ nxt' = nxt
            /\ reserved' = [reserved EXCEPT ![a] = TRUE]
    /\ call' = [op |-> "kalloc", arg |-> n, ptr |-> getDataPtr(a)]

\* kalloc, operator new and operator new[] that find a block ...
kalloc(n) ==
    /\ Working
    /\ \E a \in Headers : FirstFit(a, n) /\ Take(a, n)
    /\ UNCHANGED panicked

\* ... and that reach the end of the list.
kallocNull(n) ==
    /\ Working
    /\ \A a \in Headers : ~Suits(a, n)
    /\ call' = [op |-> "kalloc", arg |-> n, ptr |-> Null]
    /\ UNCHANGED <<nxt, reserved, panicked>>

(***************************************************************************)
(* free and defragment: the block is released and then swallows the free   *)
(* blocks that follow it, up to the first reserved one.                    *)
(***************************************************************************)
\* Mutants of StopsDefragment: only the end marker stops it; it never starts.
StopsAtEnd(a, b) == b > a /\ isLast(b)

StopsAtOnce(a, b) == b = nxt[a]

StopsDefragment(a, b) ==
    /\ b > a
    /\ reserved[b]
    /\ \A h \in Headers : a < h /\ h < b => ~reserved[h]

free(a) ==
    \E b \in Headers :
        /\ StopsDefragment(a, b)
        /\ LET kept == {h \in Headers : h <= a \/ h >= b} IN
           /\ nxt' = [h \in kept |-> IF h = a THEN b ELSE nxt[h]]
           /\ reserved' = [h \in kept |-> IF h = a THEN FALSE ELSE reserved[h]]

(***************************************************************************)
(* kfree and operator delete: the walk looks for the header whose buffer   *)
(* starts at ptr, the end marker excluded, whether or not it is reserved.  *)
(***************************************************************************)
Owns(a, p) == ~isLast(a) /\ getDataPtr(a) = p

kfree(p) ==
    /\ Working
    /\ \E a \in Headers : Owns(a, p) /\ free(a)
    /\ call' = [op |-> "kfree", arg |-> p, ptr |-> Null]
    /\ UNCHANGED panicked

\* earlyPanic("kfree: no such memory address!")
kfreePanic(p) ==
    /\ Working
    /\ \A a \in Headers : ~Owns(a, p)
    /\ panicked' = TRUE
    /\ call' = [op |-> "kfree", arg |-> p, ptr |-> Null]
    /\ UNCHANGED <<nxt, reserved>>

\* hang(): cli; hlt in a loop
hang == panicked /\ UNCHANGED vars

Next ==
    \/ \E n \in Sizes : kalloc(n)
    \/ \E n \in Sizes : kallocNull(n)
    \/ \E p \in Pointers : kfree(p)
    \/ \E p \in Pointers : kfreePanic(p)
    \/ hang

Spec == Init /\ [][Next]_vars

-----------------------------------------------------------------------------
\* The state the variables range over.
TypeOK ==
    /\ Headers \subseteq Nat
    /\ nxt \in [Headers -> Nat]
    /\ DOMAIN reserved = Headers
    /\ reserved \in [Headers -> BOOLEAN]
    /\ panicked \in BOOLEAN
    /\ call \in [op : {"heapInitialize", "kalloc", "kfree"}, arg : Nat, ptr : Nat]

\* The list runs from heap to heapEnd through every header, in address order,
\* and stays inside the arena.
Tiles ==
    /\ HeapStart \in Headers
    /\ heapEnd \in Headers
    /\ Headers \subseteq HeapStart .. heapEnd
    /\ reserved[heapEnd]
    /\ \A a \in Headers : isLast(a) <=> a = heapEnd
    /\ \A a \in Headers \ {heapEnd} :
          /\ nxt[a] \in Headers
          /\ nxt[a] > a
          /\ \A b \in Headers : b <= a \/ b >= nxt[a]

\* As long as no header was written into another one's fields, each header's
\* _next is the header that comes next in memory, so the blocks tile the arena
\* and no byte is lost; the end marker is the only last entry and stays
\* reserved, which is what stops defragment (memory.cpp:70-77) and the walks of
\* allocate and kfree.  Blocks with 5 to 7 bytes to the next header, whose size
\* wraps, are on the list too.
ListTilesArena == Intact => Tiles

\* The buffers the callers hold, read off the list.
LiveBuffers ==
    {[ptr |-> getDataPtr(a), size |-> getSize(a)] :
        a \in {h \in Headers : reserved[h] /\ ~isLast(h)}}

\* What the last kalloc returned is a buffer of at least the size asked for,
\* and the header that owns it is the one kfree will find (memory.cpp:84-97).
AnswerIsLive ==
    Intact /\ call.op = "kalloc" /\ call.ptr # Null =>
        \E b \in LiveBuffers : b.ptr = call.ptr /\ b.size >= call.arg

Separate ==
    \A b \in LiveBuffers :
        /\ \A c \in LiveBuffers :
              b = c \/ b.ptr + b.size <= c.ptr \/ c.ptr + c.size <= b.ptr
        /\ \A h \in Headers :
              h + heapEntry_headerSize <= b.ptr \/ b.ptr + b.size <= h

\* No two buffers in callers' hands share a byte, and none reaches a header:
\* every header lies outside every live buffer (memory.cpp:22-58), as long as
\* the heap is intact.
LiveBuffersSeparate == Intact => Separate

Kept ==
    \A b \in LiveBuffers :
        \/ b \in LiveBuffers'
        \/ (call'.op = "kfree" /\ call'.arg = b.ptr)

\* A step that leaves the heap intact ends at most the buffer it was asked to
\* free: every other live buffer keeps its address and its size
\* (memory.cpp:60-97).
OthersKept == [][Intact' => Kept]_vars

\* Headers come to overlap in one way only: a request that leaves some bytes of
\* its block but fewer than a header takes ("There's space leftover, so we split
\* the memory", memory.cpp:44, under a test that wraps).  No free, no exact fit
\* and no comfortable split does it.
OverlapOnlyByShortRest ==
    [][HeadersApart /\ ~HeadersApart' =>
          \E a \in Headers :
              /\ call' = [op |-> "kalloc", arg |-> call'.arg, ptr |-> getDataPtr(a)]
              /\ getSize(a) - call'.arg \in 1 .. heapEntry_headerSize - 1]_vars

-----------------------------------------------------------------------------
\* The promise to the callers.
Promise == INSTANCE HeapSpec WITH
    ArenaLow <- HeapStart,
    ArenaHigh <- HeapStart + MaxSize,
    Requests <- Sizes,
    NoBuffer <- Null,
    live <- LiveBuffers,
    panicked <- panicked,
    answer <- call.ptr

\* The header list implements the abstract allocator as long as it is intact:
\* every kalloc hands out fresh memory or NULL, every kfree ends one buffer,
\* none or the machine.
ImplementsPromise ==
    Promise!Init /\ [][Intact' => Promise!Next]_<<LiveBuffers, panicked, call.ptr>>
=============================================================================
