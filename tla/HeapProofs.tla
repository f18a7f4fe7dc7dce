----------------------------- MODULE HeapProofs -----------------------------
(***************************************************************************)
(* What holds of Heap for every arena, every set of request sizes and      *)
(* every pointer a caller may pass to kfree.                               *)
(*                                                                         *)
(* The argument: as long as the heap is intact, the header list tiles the  *)
(* arena and no reserved block is ragged (Whole).  A step starts from an   *)
(* intact heap; the two ways an allocation can spoil it (a header written  *)
(* into the fields of the next one, a ragged block handed out) both show   *)
(* in Intact', so Intact => Whole is inductive.  Everything else is read   *)
(* off Whole.                                                              *)
(***************************************************************************)
EXTENDS Heap, TLAPS

\* A block in a caller's hands has room for its header.
Roomy == \A a \in Headers : reserved[a] /\ a # heapEnd => nxt[a] >= getDataPtr(a)

Whole == TypeOK /\ Tiles /\ Roomy

IndInv == TypeOK /\ (Intact => Whole)

-----------------------------------------------------------------------------
\* Where a block is not ragged, getSize (memory.hpp:77) does not wrap.
LEMMA SizeOfBlock ==
    ASSUME TypeOK, Tiles,
           NEW a \in Headers, a # heapEnd, nxt[a] >= getDataPtr(a)
    PROVE  /\ getSize(a) = nxt[a] - a - 8
           /\ getSize(a) \in 0 .. MaxSize
           /\ nxt[a] \in Headers
           /\ nxt[a] \in HeapStart .. heapEnd
           /\ a \in HeapStart .. heapEnd
    BY HeapAssumption
    DEF TypeOK, Tiles, getSize, SubWord, getDataPtr, isLast,
        heapEnd, heapEntry_headerSize, Headers

\* On a list that tiles the arena the next header in memory is _next.
LEMMA ApartByPosition ==
    ASSUME TypeOK, Tiles
    PROVE  /\ FieldsApart <=> \A a \in Headers : a # heapEnd => nxt[a] >= a + 5
           /\ ReservedApart <=> Roomy
  <1>1. /\ heapEnd \in Int
        /\ \A h \in Headers : h \in Int /\ h <= heapEnd
    BY HeapAssumption DEF Tiles, heapEnd, heapEntry_headerSize
  <1>2. \A a \in Headers : a # heapEnd => nxt[a] \in Headers /\ nxt[a] > a
    BY DEF Tiles
  <1>3. \A a, b \in Headers : a < b => a # heapEnd /\ b >= nxt[a]
    <2> SUFFICES ASSUME NEW a \in Headers, NEW b \in Headers, a < b
                 PROVE  a # heapEnd /\ b >= nxt[a]
      OBVIOUS
    <2>1. a # heapEnd
      BY <1>1
    <2>2. b <= a \/ b >= nxt[a]
      BY <2>1 DEF Tiles
    <2> QED
      BY <1>1, <2>1, <2>2
  <1>4. \A a \in Headers : a # heapEnd => nxt[a] \in Int
    BY <1>1, <1>2
  <1>5. FieldsApart <=> \A a \in Headers : a # heapEnd => nxt[a] >= a + 5
    <2>1. ASSUME FieldsApart PROVE \A a \in Headers : a # heapEnd => nxt[a] >= a + 5
      BY <1>2, <2>1 DEF FieldsApart
    <2>2. ASSUME \A a \in Headers : a # heapEnd => nxt[a] >= a + 5 PROVE FieldsApart
      BY <1>1, <1>3, <1>4, <2>2 DEF FieldsApart
    <2> QED
      BY <2>1, <2>2
  <1>6. ReservedApart <=> Roomy
    <2>1. ASSUME ReservedApart PROVE Roomy
      BY <1>2, <2>1 DEF ReservedApart, Roomy
    <2>2. ASSUME Roomy PROVE ReservedApart
      BY <1>1, <1>3, <1>4, <2>2 DEF ReservedApart, Roomy, getDataPtr, heapEntry_headerSize
    <2> QED
      BY <2>1, <2>2
  <1> QED
    BY <1>5, <1>6

\* Headers are addresses, and so is every _next but the last.
LEMMA HeadersAreAddresses ==
    ASSUME Whole
    PROVE  /\ HeapStart \in Int /\ heapEnd \in Int
           /\ \A h \in Headers : h \in Int
           /\ \A h \in Headers : h # heapEnd => nxt[h] \in Headers /\ nxt[h] \in Int
  <1>1. HeapStart \in Int /\ heapEnd \in Int
    BY HeapAssumption DEF heapEnd, heapEntry_headerSize
  <1>2. \A h \in Headers : h \in Int
    BY <1>1 DEF Whole, Tiles
  <1>3. \A h \in Headers : h # heapEnd => nxt[h] \in Headers
    BY DEF Whole, Tiles
  <1> QED
    BY <1>1, <1>2, <1>3

\* The split test of memory.cpp:42 holds exactly when the block is larger
\* than the request: the unsigned difference wraps.
LEMMA SplitTest ==
    ASSUME NEW n \in Nat, NEW m \in 0 .. MaxSize, n <= m
    PROVE  Splits(n, m) <=> n # m
    BY HeapAssumption DEF Splits, SubWord, heapEntry_headerSize

\* The block allocate chooses is one the callers do not hold, and it is
\* large enough.
LEMMA ChosenBlock ==
    ASSUME Whole, NEW n \in Nat, NEW a \in Headers, Suits(a, n), nxt[a] >= a + 8
    PROVE  /\ a # heapEnd
           /\ ~reserved[a]
           /\ nxt[a] >= a + 8
           /\ getSize(a) = nxt[a] - a - 8
           /\ n <= nxt[a] - a - 8
           /\ a \in Int
           /\ nxt[a] \in Headers
           /\ nxt[a] \in HeapStart .. heapEnd
           /\ getSize(a) \in 0 .. MaxSize
  <1>1. a # heapEnd
    BY DEF Suits, Whole, Tiles
  <1>2. nxt[a] >= getDataPtr(a)
    BY DEF getDataPtr, heapEntry_headerSize
  <1>3. a \in HeapStart .. heapEnd
    BY DEF Whole, Tiles
  <1> QED
    BY <1>1, <1>2, <1>3, SizeOfBlock, HeapAssumption
    DEF Suits, Whole, getDataPtr, heapEntry_headerSize, heapEnd

\* The fields of a header leave those of one five bytes away alone.
LEMMA FarHeadersKept ==
    ASSUME NEW s \in Int, NEW h \in Int, NEW v, h + 8 <= s \/ s + 5 <= h
    PROVE  /\ NextAfterInit(s, v, h) = nxt[h]
           /\ ReservedAfterInit(s, v, h) = reserved[h]
  <1>1. ~Touches(s, h)
    BY DEF Touches
  <1> QED
    BY <1>1 DEF NextAfterInit, ReservedAfterInit

\* allocate leaves the fields of every other header alone when the rest it
\* splits off has five bytes or more.
LEMMA RoomySplit ==
    ASSUME Whole, NEW n \in Nat, NEW a \in Headers, Suits(a, n), nxt[a] >= a + 8,
           Splits(n, getSize(a)), nxt[a] >= a + 8 + n + 5, Take(a, n)
    PROVE  LET s == a + 8 + n IN
           /\ nxt' = [h \in Headers \cup {s} |->
                        IF h = a THEN s ELSE IF h = s THEN nxt[a] ELSE nxt[h]]
           /\ reserved' = [h \in Headers \cup {s} |->
                        IF h = a THEN TRUE ELSE IF h = s THEN FALSE ELSE reserved[h]]
  <1> DEFINE s == a + 8 + n
  <1>1. a \in Int /\ nxt[a] \in Int /\ a # heapEnd /\ s \in Int
    BY ChosenBlock, HeadersAreAddresses
  <1>2. SplitAt(a, n) = s
    BY <1>1 DEF SplitAt, getDataPtr, heapEntry_headerSize
  <1>3. ASSUME NEW h \in Headers, h # a
        PROVE  /\ NextAfterInit(s, nxt[a], h) = nxt[h]
               /\ ReservedAfterInit(s, nxt[a], h) = reserved[h]
    <2>1. h \in Int /\ (h <= a \/ h >= nxt[a])
      BY <1>1, HeadersAreAddresses DEF Whole, Tiles
    <2>2. h + 8 <= s \/ s + 5 <= h
      BY <1>1, <2>1
    <2> QED
      BY <1>1, <2>1, <2>2, FarHeadersKept
  <1>4. /\ nxt' = [h \in Headers \cup {s} |->
                      IF h = a THEN s
                      ELSE IF h = s THEN nxt[a] ELSE NextAfterInit(s, nxt[a], h)]
        /\ reserved' = [h \in Headers \cup {s} |->
                      IF h = a THEN TRUE
                      ELSE IF h = s THEN FALSE ELSE ReservedAfterInit(s, nxt[a], h)]
    BY <1>2 DEF Take
  <1> HIDE DEF s
  <1>5. \A h \in Headers \cup {s} : h = a \/ h = s \/ h \in Headers
    OBVIOUS
  <1>6. nxt' = [h \in Headers \cup {s} |->
                      IF h = a THEN s ELSE IF h = s THEN nxt[a] ELSE nxt[h]]
    BY <1>3, <1>4, <1>5
  <1>7. reserved' = [h \in Headers \cup {s} |->
                      IF h = a THEN TRUE ELSE IF h = s THEN FALSE ELSE reserved[h]]
    BY <1>3, <1>4, <1>5, Zenon
  <1> QED
    BY <1>6, <1>7 DEF s

\* When an allocation leaves the heap intact, the block it took had room for
\* its header and what it split off has room for the fields of one.
LEMMA IntactTake ==
    ASSUME Whole, NEW n \in Nat, NEW a \in Headers, Suits(a, n), Take(a, n), Intact'
    PROVE  /\ nxt[a] >= a + 8
           /\ Splits(n, getSize(a)) => nxt[a] >= a + 8 + n + 5
  <1> DEFINE s == a + 8 + n
  <1>1. a # heapEnd /\ ~isLast(a)
    BY DEF Suits, Whole, Tiles
  <1>2. a \in Int /\ nxt[a] \in Int /\ nxt[a] \in HeapStart .. heapEnd /\ heapEnd \in Int
        /\ HeapStart \in Int
    BY <1>1, HeadersAreAddresses DEF Whole, Tiles
  <1>3. /\ \A h, k \in Headers' : h < k => k >= h + 5
        /\ \A h, k \in Headers' : reserved'[h] /\ h < k => k >= h + 8
    BY DEF Intact, FieldsApart, ReservedApart, getDataPtr, heapEntry_headerSize
  <1>4. nxt[a] \in Headers /\ a < nxt[a]
    BY <1>1 DEF Whole, Tiles
  <1>5. a \in Headers' /\ nxt[a] \in Headers' /\ reserved'[a]
    BY <1>4 DEF Take, Headers, Whole, TypeOK
  <1>6. nxt[a] >= a + 8
    BY <1>3, <1>4, <1>5
  <1>7. ASSUME Splits(n, getSize(a)) PROVE nxt[a] >= a + 8 + n + 5
    <2>1. getSize(a) = nxt[a] - a - 8 /\ getSize(a) \in 0 .. MaxSize /\ n <= nxt[a] - a - 8
      BY <1>6, ChosenBlock
    <2>2. n # getSize(a)
      BY <1>7, <2>1, SplitTest
    <2>3. s < nxt[a] /\ s \in Int
      BY <1>2, <2>1, <2>2
    <2>4. SplitAt(a, n) = s
      BY <1>2 DEF SplitAt, getDataPtr, heapEntry_headerSize
    <2> HIDE DEF s
    <2>5. s \in Headers'
      BY <1>7, <2>4 DEF Take, Headers
    <2>6. nxt[a] >= s + 5
      BY <1>3, <1>5, <2>3, <2>5
    <2> QED
      BY <1>2, <2>6 DEF s
  <1> QED
    BY <1>6, <1>7

\* allocate keeps the list whole when the rest has room, whichever way the
\* split test goes.
LEMMA TakeKeepsList ==
    ASSUME Whole, NEW n \in Nat, NEW a \in Headers, Suits(a, n),
           nxt[a] >= a + 8, Splits(n, getSize(a)) => nxt[a] >= a + 8 + n + 5,
           Take(a, n), panicked' = panicked
    PROVE  Whole'
  <1> DEFINE s == a + 8 + n
  <1>0. /\ a # heapEnd /\ ~reserved[a] /\ nxt[a] >= a + 8
        /\ getSize(a) = nxt[a] - a - 8 /\ n <= nxt[a] - a - 8
        /\ a \in Int /\ nxt[a] \in Headers /\ nxt[a] \in HeapStart .. heapEnd
        /\ getSize(a) \in 0 .. MaxSize
    BY ChosenBlock
  <1>a. a \in HeapStart .. heapEnd /\ heapEnd \in Int /\ HeapStart \in Nat \ {0}
    BY HeapAssumption DEF Whole, Tiles, heapEnd, heapEntry_headerSize
  <1>c. call' \in [op : {"heapInitialize", "kalloc", "kfree"}, arg : Nat, ptr : Nat]
    BY <1>a DEF Take, getDataPtr, heapEntry_headerSize
  <1>d. panicked' \in BOOLEAN
    BY DEF Whole, TypeOK
  <1>1. CASE Splits(n, getSize(a))
    <2>1. s < nxt[a] /\ s \in HeapStart .. heapEnd /\ s > a
      BY <1>0, <1>1, <1>a, SplitTest
    <2>2. s \notin Headers
      BY <2>1, <1>0, <1>a DEF Whole, Tiles
    <2>3. /\ nxt' = [h \in Headers \cup {s} |->
                        IF h = a THEN s ELSE IF h = s THEN nxt[a] ELSE nxt[h]]
          /\ reserved' = [h \in Headers \cup {s} |->
                        IF h = a THEN TRUE ELSE IF h = s THEN FALSE ELSE reserved[h]]
      BY <1>1, RoomySplit
    <2>4. Headers' = Headers \cup {s}
      BY <2>3 DEF Headers
    <2>5. TypeOK'
      <3>1. Headers' \subseteq Nat
        BY <2>4, <2>1, <1>a DEF Whole, TypeOK
      <3>2. nxt' \in [Headers' -> Nat]
        BY <2>3, <2>4, <2>1, <1>0, <1>a DEF Whole, TypeOK
      <3>3. DOMAIN reserved' = Headers' /\ reserved' \in [Headers' -> BOOLEAN]
        BY <2>3, <2>4 DEF Whole, TypeOK
      <3> QED
        BY <3>1, <3>2, <3>3, <1>c, <1>d DEF TypeOK
    <2>6. Tiles'
      <3>1. /\ HeapStart \in Headers' /\ heapEnd \in Headers'
            /\ reserved'[heapEnd] /\ Headers' \subseteq HeapStart .. heapEnd
        BY <2>3, <2>4, <1>0, <2>1, <2>2 DEF Whole, Tiles
      <3>2. \A h \in Headers' : nxt'[h] = Null <=> h = heapEnd
        BY <2>3, <2>4, <2>1, <2>2, <1>0, <1>a DEF Whole, Tiles, isLast, Null
      <3>3. ASSUME NEW h \in Headers', h # heapEnd
            PROVE  /\ nxt'[h] \in Headers'
                   /\ nxt'[h] > h
                   /\ \A b \in Headers' : b <= h \/ b >= nxt'[h]
        <4>1. CASE h = a
          <5>1. nxt'[h] = s
            BY <4>1, <2>3
          <5>2. \A b \in Headers : b \in Int /\ (b <= a \/ b >= nxt[a])
            BY <1>0, <1>a DEF Whole, Tiles, TypeOK
          <5>3. \A b \in Headers \cup {s} : b <= a \/ b >= s
            BY <5>2, <2>1, <1>0, <1>a
          <5> QED
            BY <5>1, <5>3, <4>1, <2>4, <2>1
        <4>2. CASE h = s
          BY <4>2, <2>3, <2>4, <2>1, <2>2, <1>0, <1>a DEF Whole, Tiles, TypeOK
        <4>3. CASE h # a /\ h # s
          <5>1. h \in Headers /\ nxt'[h] = nxt[h] /\ h \in Int /\ nxt[h] \in Int
            BY <4>3, <2>3, <2>4, <3>3, <1>a DEF Whole, Tiles, TypeOK, Null
          <5>2. nxt[h] \in Headers /\ nxt[h] > h /\ \A b \in Headers : b <= h \/ b >= nxt[h]
            BY <5>1, <3>3 DEF Whole, Tiles
          <5>3. h < a => nxt[h] <= a
            BY <5>2, <5>1, <1>a
          <5>4. h > a => h >= nxt[a]
            BY <5>1, <1>0, <1>a DEF Whole, Tiles
          <5>5. s <= h \/ s >= nxt[h]
            BY <5>3, <5>4, <5>1, <4>3, <2>1, <1>0, <1>a
          <5> QED
            BY <5>1, <5>2, <5>5, <2>4
        <4> QED
          BY <4>1, <4>2, <4>3
      <3> QED
        BY <3>1, <3>2, <3>3 DEF Tiles, isLast, Headers, heapEnd
    <2>7. Roomy'
      <3>1. \A h \in Headers' : reserved'[h] /\ h # heapEnd => nxt'[h] >= h + 8
        BY <2>3, <2>4, <2>2, <2>1, <1>0, <1>a
        DEF Whole, Roomy, getDataPtr, heapEntry_headerSize
      <3> QED
        BY <3>1 DEF Roomy, getDataPtr, heapEntry_headerSize, Headers, heapEnd
    <2> QED
      BY <2>5, <2>6, <2>7 DEF Whole
  <1>2. CASE ~Splits(n, getSize(a))
    <2>1. nxt' = nxt /\ reserved' = [reserved EXCEPT ![a] = TRUE] /\ Headers' = Headers
      BY <1>2 DEF Take, Headers
    <2>2. TypeOK'
      BY <2>1, <1>c, <1>d DEF Whole, TypeOK
    <2>3. Tiles'
      BY <2>1, <1>0 DEF Whole, TypeOK, Tiles, isLast
    <2>4. Roomy'
      BY <2>1, <1>0 DEF Whole, TypeOK, Roomy, getDataPtr, heapEntry_headerSize
    <2> QED
      BY <2>2, <2>3, <2>4 DEF Whole
  <1> QED
    BY <1>1, <1>2

\* free and defragment keep the list whole: the block swallows the free blocks
\* up to the first reserved one, which the end marker guarantees exists.
LEMMA FreeKeepsList ==
    ASSUME Whole, NEW a \in Headers, a # heapEnd, free(a), panicked' = panicked,
           call' \in [op : {"heapInitialize", "kalloc", "kfree"}, arg : Nat, ptr : Nat]
    PROVE  Whole'
  <1>a. /\ \A h \in Headers : h \in HeapStart .. heapEnd /\ h \in Int
        /\ heapEnd \in Int /\ HeapStart \in Nat \ {0}
    BY HeapAssumption DEF Whole, Tiles, heapEnd, heapEntry_headerSize
  <1>1. PICK b \in Headers :
          /\ StopsDefragment(a, b)
          /\ nxt' = [h \in {x \in Headers : x <= a \/ x >= b} |-> IF h = a THEN b ELSE nxt[h]]
          /\ reserved' = [h \in {x \in Headers : x <= a \/ x >= b} |->
                              IF h = a THEN FALSE ELSE reserved[h]]
    BY DEF free
  <1> DEFINE kept == {x \in Headers : x <= a \/ x >= b}
  <1>2. Headers' = kept
    BY <1>1 DEF Headers
  <1>3. b > a /\ b \in Int /\ a \in Int
    BY <1>1, <1>a DEF StopsDefragment
  <1>4. TypeOK'
    <2>1. Headers' \subseteq Nat
      BY <1>2 DEF Whole, TypeOK
    <2>2. nxt' \in [Headers' -> Nat]
      BY <1>1, <1>2, <1>a DEF Whole, TypeOK
    <2>3. DOMAIN reserved' = Headers' /\ reserved' \in [Headers' -> BOOLEAN]
      BY <1>1, <1>2 DEF Whole, TypeOK
    <2> QED
      BY <2>1, <2>2, <2>3 DEF Whole, TypeOK
  <1>5. Tiles'
    <2>1. HeapStart \in Headers' /\ heapEnd \in Headers' /\ reserved'[heapEnd]
          /\ Headers' \subseteq HeapStart .. heapEnd
      <3>1. HeapStart \in Headers' /\ heapEnd \in Headers'
        BY <1>1, <1>2, <1>3, <1>a DEF Whole, Tiles
      <3>2. reserved'[heapEnd]
        BY <1>1, <1>2, <3>1 DEF Whole, Tiles
      <3>3. Headers' \subseteq HeapStart .. heapEnd
        BY <1>2, <1>a
      <3> QED
        BY <3>1, <3>2, <3>3
    <2>2. \A h \in Headers' : nxt'[h] = Null <=> h = heapEnd
      BY <1>1, <1>2, <1>3, <1>a DEF Whole, Tiles, isLast, Null
    <2>3. ASSUME NEW h \in Headers', h # heapEnd
          PROVE  /\ nxt'[h] \in Headers'
                 /\ nxt'[h] > h
                 /\ \A x \in Headers' : x <= h \/ x >= nxt'[h]
      <3>1. CASE h = a
        <4>1. nxt'[h] = b /\ b \in kept
          BY <3>1, <1>1, <1>2, <1>3
        <4> QED
          BY <4>1, <3>1, <1>2, <1>3
      <3>2. CASE h # a
        <4>1. h \in Headers /\ nxt'[h] = nxt[h] /\ (h <= a \/ h >= b)
          BY <3>2, <1>1, <1>2, <2>3
        <4>2. nxt[h] \in Headers /\ nxt[h] > h /\ \A x \in Headers : x <= h \/ x >= nxt[h]
          BY <4>1, <2>3 DEF Whole, Tiles
        <4>i. h \in Int /\ nxt[h] \in Int
          BY <4>1, <4>2, <1>a
        <4>3. nxt[h] <= a \/ nxt[h] >= b
          <5>1. a <= h \/ a >= nxt[h]
            BY <4>2
          <5> QED
            BY <5>1, <4>1, <4>2, <4>i, <3>2, <1>3
        <4> QED
          BY <4>1, <4>2, <4>3, <1>2
      <3> QED
        BY <3>1, <3>2
    <2> QED
      BY <2>1, <2>2, <2>3 DEF Tiles, isLast, Headers, heapEnd
  <1>6. Roomy'
    <2>1. \A h \in Headers' : reserved'[h] /\ h # heapEnd => nxt'[h] >= h + 8
      BY <1>1, <1>2 DEF Whole, Roomy, getDataPtr, heapEntry_headerSize
    <2> QED
      BY <2>1 DEF Roomy, getDataPtr, heapEntry_headerSize, Headers, heapEnd
  <1> QED
    BY <1>4, <1>5, <1>6 DEF Whole

LEMMA InitList == Init => Whole
  <1> SUFFICES ASSUME Init PROVE Whole
    OBVIOUS
  <1>1. Headers = {HeapStart, heapEnd} /\ HeapStart < heapEnd
        /\ HeapStart \in Nat \ {0} /\ heapEnd \in Nat
    BY HeapAssumption DEF Init, Headers, heapEnd, heapEntry_headerSize
  <1>2. TypeOK
    <2>1. nxt \in [Headers -> Nat]
      BY <1>1 DEF Init, Null
    <2>2. DOMAIN reserved = Headers /\ reserved \in [Headers -> BOOLEAN]
      BY <1>1 DEF Init
    <2>3. /\ panicked \in BOOLEAN
          /\ call \in [op : {"heapInitialize", "kalloc", "kfree"}, arg : Nat, ptr : Nat]
      BY HeapAssumption DEF Init, Null
    <2> QED
      BY <1>1, <2>1, <2>2, <2>3 DEF TypeOK
  <1>3. Tiles /\ Roomy
    <2>a. Headers \subseteq HeapStart .. heapEnd
      BY <1>1
    <2>0. HeapStart # heapEnd
      BY <1>1
    <2>1. /\ nxt[HeapStart] = heapEnd /\ nxt[heapEnd] = Null
          /\ ~reserved[HeapStart] /\ reserved[heapEnd]
      <3>1. nxt[HeapStart] = heapEnd /\ nxt[heapEnd] = Null
        BY <2>0 DEF Init
      <3>2. reserved[HeapStart] = (HeapStart = heapEnd) /\ reserved[heapEnd] = (heapEnd = heapEnd)
        BY Zenon DEF Init
      <3> QED
        BY <3>1, <3>2, <2>0, Zenon
    <2>2. Roomy
      BY <1>1, <2>1 DEF Roomy
    <2>3. \A a \in Headers : isLast(a) <=> a = heapEnd
      BY <1>1, <2>1 DEF isLast, Null
    <2>4. \A a \in Headers \ {heapEnd} :
             nxt[a] \in Headers /\ nxt[a] > a /\ \A b \in Headers : b <= a \/ b >= nxt[a]
      BY <1>1, <2>1
    <2> QED
      BY <1>1, <2>a, <2>1, <2>2, <2>3, <2>4 DEF Tiles
  <1> QED
    BY <1>2, <1>3 DEF Whole

\* What an allocation writes is well typed even where it spoils the list.
LEMMA TakeTypes ==
    ASSUME Whole, NEW n \in Nat, NEW a \in Headers, Take(a, n), panicked' = panicked
    PROVE  TypeOK'
  <1>1. a \in Nat /\ nxt[a] \in Nat
    BY DEF Whole, TypeOK
  <1>2. SplitAt(a, n) \in Nat
    BY <1>1 DEF SplitAt, getDataPtr, heapEntry_headerSize
  <1>3. call' \in [op : {"heapInitialize", "kalloc", "kfree"}, arg : Nat, ptr : Nat]
    BY <1>1 DEF Take, getDataPtr, heapEntry_headerSize
  <1>4. panicked' \in BOOLEAN
    BY DEF Whole, TypeOK
  <1>5. CASE ~Splits(n, getSize(a))
    <2>1. nxt' = nxt /\ reserved' = [reserved EXCEPT ![a] = TRUE] /\ Headers' = Headers
      BY <1>5 DEF Take, Headers
    <2> QED
      BY <2>1, <1>3, <1>4 DEF Whole, TypeOK
  <1>6. CASE Splits(n, getSize(a))
    <2> DEFINE s == SplitAt(a, n)
    <2>1. /\ nxt' = [h \in Headers \cup {s} |->
                        IF h = a THEN s
                        ELSE IF h = s THEN nxt[a] ELSE NextAfterInit(s, nxt[a], h)]
          /\ reserved' = [h \in Headers \cup {s} |->
                        IF h = a THEN TRUE
                        ELSE IF h = s THEN FALSE ELSE ReservedAfterInit(s, nxt[a], h)]
      BY <1>6 DEF Take
    <2>2. Headers' = Headers \cup {s}
      BY <2>1 DEF Headers
    <2>3. Headers' \subseteq Nat
      BY <1>2, <2>2 DEF Whole, TypeOK
    <2>4. \A h \in Headers : NextAfterInit(s, nxt[a], h) \in Nat
      <3> SUFFICES ASSUME NEW h \in Headers PROVE NextAfterInit(s, nxt[a], h) \in Nat
        OBVIOUS
      <3>1. \A v \in Nat : \A j \in 0 .. 3 : ByteOf(v, j) \in Nat
        <4>1. \A j \in 0 .. 3 : Weight[j] \in Nat \ {0}
          BY DEF Weight
        <4>2. \A v \in Nat : \A p \in Nat \ {0} : (v \div p) % 256 \in Nat
          OBVIOUS
        <4> QED
          BY <4>1, <4>2 DEF ByteOf
      <3>2. \A j \in 0 .. 3 : FieldByte(h, j) \in Nat
        BY <3>1 DEF FieldByte, Whole, TypeOK
      <3>3. \A b \in Nat : b - (b % 2) \in Nat
        OBVIOUS
      <3>4. \A j \in 0 .. 3 : ByteAfterInit(s, nxt[a], h, j) \in Nat
        BY <1>1, <3>1, <3>2, <3>3 DEF ByteAfterInit
      <3>5. nxt[h] \in Nat
        BY DEF Whole, TypeOK
      <3> QED
        BY <3>4, <3>5 DEF NextAfterInit, Weight
    <2>5. \A h \in Headers : ReservedAfterInit(s, nxt[a], h) \in BOOLEAN
      BY Zenon DEF ReservedAfterInit, Whole, TypeOK
    <2> HIDE DEF s
    <2>6. nxt' \in [Headers' -> Nat]
      BY <1>1, <1>2, <2>1, <2>2, <2>4 DEF s
    <2>7. DOMAIN reserved' = Headers' /\ reserved' \in [Headers' -> BOOLEAN]
      BY <2>1, <2>2, <2>5, Zenon
    <2> QED
      BY <1>3, <1>4, <2>3, <2>6, <2>7 DEF TypeOK
  <1> QED
    BY <1>5, <1>6

LEMMA StepKeepsList == IndInv /\ [Next]_vars => IndInv'
  <1> SUFFICES ASSUME IndInv, [Next]_vars PROVE IndInv'
    OBVIOUS
  <1> USE HeapAssumption
  <1>1. CASE \E n \in Sizes : kalloc(n)
    <2>1. PICK n \in Sizes, a \in Headers : Working /\ Suits(a, n) /\ Take(a, n) /\ panicked' = panicked
      BY <1>1 DEF kalloc, FirstFit
    <2>2. Whole /\ n \in Nat
      BY <2>1 DEF IndInv, Working
    <2>3. TypeOK'
      BY <2>1, <2>2, TakeTypes
    <2>4. ASSUME Intact' PROVE Whole'
      BY <2>1, <2>2, <2>4, IntactTake, TakeKeepsList
    <2> QED
      BY <2>3, <2>4 DEF IndInv
  <1>2. CASE \E n \in Sizes : kallocNull(n)
    <2>1. PICK n \in Sizes : kallocNull(n)
      BY <1>2
    <2>2. call' \in [op : {"heapInitialize", "kalloc", "kfree"}, arg : Nat, ptr : Nat]
      BY <2>1 DEF kallocNull, Null
    <2>3. Whole
      BY <2>1 DEF kallocNull, IndInv, Working
    <2> QED
      BY <2>1, <2>2, <2>3
      DEF kallocNull, IndInv, Whole, TypeOK, Tiles, Roomy, Headers, isLast
  <1>3. CASE \E p \in Pointers : kfree(p)
    <2>1. PICK p \in Pointers : kfree(p)
      BY <1>3
    <2>2. call' \in [op : {"heapInitialize", "kalloc", "kfree"}, arg : Nat, ptr : Nat]
      BY <2>1 DEF kfree, Null
    <2>3. PICK a \in Headers : Owns(a, p) /\ free(a)
      BY <2>1 DEF kfree
    <2>w. Whole
      BY <2>1 DEF kfree, IndInv, Working
    <2>4. a # heapEnd
      BY <2>3, <2>w DEF Owns, Whole, Tiles
    <2>5. Whole'
      BY <2>1, <2>2, <2>3, <2>4, <2>w, FreeKeepsList DEF kfree
    <2> QED
      BY <2>5 DEF IndInv, Whole
  <1>4. CASE \E p \in Pointers : kfreePanic(p)
    <2>1. PICK p \in Pointers : kfreePanic(p)
      BY <1>4
    <2>2. call' \in [op : {"heapInitialize", "kalloc", "kfree"}, arg : Nat, ptr : Nat]
      BY <2>1 DEF kfreePanic, Null
    <2>3. Whole
      BY <2>1 DEF kfreePanic, IndInv, Working
    <2> QED
      BY <2>1, <2>2, <2>3
      DEF kfreePanic, IndInv, Whole, TypeOK, Tiles, Roomy, Headers, isLast
  <1>5. CASE hang \/ UNCHANGED vars
    <2>1. UNCHANGED vars
      BY <1>5 DEF hang
    <2>2. Intact' => Intact
      BY <2>1 DEF vars, Intact, FieldsApart, ReservedApart, Headers, isLast
    <2> QED
      BY <2>1, <2>2
      DEF vars, IndInv, Whole, TypeOK, Tiles, Roomy, Headers, isLast
  <1> QED
    BY <1>1, <1>2, <1>3, <1>4, <1>5 DEF Next

LEMMA AlwaysIndInv == Spec => []IndInv
  <1>1. Init => IndInv
    BY InitList DEF IndInv, Whole
  <1> QED
    BY <1>1, StepKeepsList, PTL DEF Spec

\* The heap list is well formed in every reachable state in which no header was
\* written into another one's fields: it runs from heap to heapEnd in address
\* order, loses no byte and ends at the reserved marker, whatever the callers
\* ask for and whatever they free (memory.cpp:22-97).
THEOREM ListAlwaysTiles == Spec => [](TypeOK /\ ListTilesArena)
  <1>1. IndInv => TypeOK /\ ListTilesArena
    BY DEF IndInv, Whole, ListTilesArena
  <1> QED
    BY <1>1, AlwaysIndInv, PTL

-----------------------------------------------------------------------------
(***************************************************************************)
(* With requests and an arena that are multiples of the header size, every *)
(* header stays on the 8-byte grid and no split is ever ragged.            *)
(***************************************************************************)
OnGrid == \A a \in Headers : (a - HeapStart) % 8 = 0

LEMMA GridApart == Whole /\ OnGrid => HeadersApart
  <1> SUFFICES ASSUME Whole, OnGrid, NEW a \in Headers, a # heapEnd
               PROVE  nxt[a] >= a + 8
    BY DEF HeadersApart, getDataPtr, heapEntry_headerSize, Whole, Tiles
  <1>1. nxt[a] \in Headers /\ nxt[a] > a
    BY DEF Whole, Tiles
  <1>2. a \in Int /\ nxt[a] \in Int /\ HeapStart \in Int
    BY HeadersAreAddresses
  <1>3. (a - HeapStart) % 8 = 0 /\ (nxt[a] - HeapStart) % 8 = 0
    BY <1>1 DEF OnGrid
  <1> QED
    BY <1>1, <1>2, <1>3

\* No header ever overlaps the next one when every request and the arena are
\* multiples of 8 bytes, although the split test of memory.cpp:42 is wrong:
\* what it leaves over then always has room for a header.
THEOREM AlignedHeadersApart ==
    ASSUME MaxSize % 8 = 0, \A n \in Sizes : n % 8 = 0
    PROVE  Spec => [](HeadersApart /\ Intact)
  <1>1. Init => OnGrid
    <2> SUFFICES ASSUME Init PROVE OnGrid
      OBVIOUS
    <2>1. Headers = {HeapStart, heapEnd}
      BY DEF Init, Headers
    <2> QED
      BY <2>1, HeapAssumption DEF OnGrid, heapEnd, heapEntry_headerSize
  <1>2. ASSUME Whole, OnGrid, NEW n \in Sizes, NEW a \in Headers,
               Suits(a, n), Take(a, n), panicked' = panicked
        PROVE  Whole' /\ OnGrid'
    <2> USE HeapAssumption
    <2>0. a # heapEnd /\ ~isLast(a)
      BY <1>2 DEF Suits, Whole, Tiles
    <2>1. nxt[a] >= a + 8
      BY <1>2, <2>0, GridApart DEF HeadersApart, getDataPtr, heapEntry_headerSize
    <2>2. /\ a \in Int /\ nxt[a] \in Headers /\ nxt[a] \in Int /\ HeapStart \in Int
          /\ n \in Int /\ n % 8 = 0 /\ n \in Nat
      BY <1>2, <2>0, HeadersAreAddresses
    <2>3. (a - HeapStart) % 8 = 0 /\ (nxt[a] - HeapStart) % 8 = 0
      BY <1>2, <2>2 DEF OnGrid
    <2>4. ((a + 8 + n) - HeapStart) % 8 = 0
      BY <2>2, <2>3
    <2>5. Splits(n, getSize(a)) => nxt[a] >= a + 8 + n + 5
      <3>1. Splits(n, getSize(a)) => nxt[a] > a + 8 + n
        <4>1. /\ getSize(a) = nxt[a] - a - 8
              /\ n <= nxt[a] - a - 8
              /\ getSize(a) \in 0 .. MaxSize
          BY <1>2, <2>1, <2>2, ChosenBlock
        <4> QED
          BY <4>1, <2>2, SplitTest
      <3> DEFINE s == a + 8 + n
      <3>2. s \in Int /\ (s - HeapStart) % 8 = 0
        BY <2>2, <2>4
      <3> HIDE DEF s
      <3>3. nxt[a] > s => nxt[a] >= s + 5
        BY <2>2, <2>3, <3>2
      <3> QED
        BY <3>1, <3>3 DEF s
    <2>6. Whole'
      BY <1>2, <2>1, <2>2, <2>5, TakeKeepsList
    <2>7. Headers' = Headers \/ Headers' = Headers \cup {a + 8 + n}
      BY <1>2 DEF Take, Headers, SplitAt, getDataPtr, heapEntry_headerSize
    <2>8. ASSUME NEW h \in Headers' PROVE (h - HeapStart) % 8 = 0
      <3>1. h \in Headers \/ h = a + 8 + n
        BY <2>7
      <3>2. CASE h \in Headers
        BY <1>2, <3>2 DEF OnGrid
      <3>3. CASE h = a + 8 + n
        BY <3>3, <2>4
      <3> QED
        BY <3>1, <3>2, <3>3
    <2> QED
      BY <2>6, <2>8 DEF OnGrid, Headers
  <1>3. Whole /\ OnGrid => HeadersApart /\ Intact
    <2> SUFFICES ASSUME Whole, OnGrid PROVE HeadersApart /\ Intact
      OBVIOUS
    <2>1. \A h \in Headers : h \in Int /\ (isLast(h) <=> h = heapEnd)
                             /\ (h # heapEnd => nxt[h] \in Int)
      BY HeadersAreAddresses DEF Whole, Tiles
    <2>2. \A h \in Headers : h # heapEnd => nxt[h] >= h + 8
      BY <2>1, GridApart DEF HeadersApart, getDataPtr, heapEntry_headerSize
    <2>3. FieldsApart
      <3>1. \A h \in Headers : h # heapEnd => nxt[h] >= h + 5
        BY <2>1, <2>2
      <3> QED
        BY <3>1, ApartByPosition DEF Whole
    <2> QED
      BY <2>3, GridApart, ApartByPosition DEF Intact, Whole
  <1>4. Whole /\ OnGrid /\ [Next]_vars => Whole' /\ OnGrid'
    <2> SUFFICES ASSUME Whole, OnGrid, [Next]_vars PROVE Whole' /\ OnGrid'
      OBVIOUS
    <2>1. CASE \E n \in Sizes : kalloc(n)
      BY <2>1, <1>2 DEF kalloc, FirstFit
    <2>2. CASE \E p \in Pointers : kfree(p)
      <3>1. PICK p \in Pointers, a \in Headers :
               Owns(a, p) /\ free(a) /\ call' = [op |-> "kfree", arg |-> p, ptr |-> Null]
               /\ panicked' = panicked
        BY <2>2 DEF kfree
      <3>2. Headers' \subseteq Headers
        BY <3>1 DEF free, Headers
      <3>3. OnGrid'
        BY <3>2 DEF OnGrid
      <3>4. a # heapEnd
        BY <3>1 DEF Owns, Whole, Tiles
      <3>5. call' \in [op : {"heapInitialize", "kalloc", "kfree"}, arg : Nat, ptr : Nat]
        BY <3>1, HeapAssumption DEF Null
      <3> QED
        BY <3>1, <3>3, <3>4, <3>5, FreeKeepsList
    <2>3. CASE UNCHANGED <<nxt, reserved>>
      <3>1. IndInv'
        BY StepKeepsList DEF IndInv, Whole
      <3>2. Intact'
        BY <2>3, <1>3 DEF Intact, FieldsApart, ReservedApart, Headers, isLast
      <3> QED
        BY <3>1, <3>2, <2>3 DEF IndInv, OnGrid, Headers
    <2> QED
      BY <2>1, <2>2, <2>3 DEF Next, kallocNull, kfreePanic, hang, vars
  <1>5. Spec => [](Whole /\ OnGrid)
    BY <1>1, <1>4, InitList, PTL DEF Spec
  <1> QED
    BY <1>3, <1>5, PTL

-----------------------------------------------------------------------------
\* The buffer of block a.
BufferOf(a) == [ptr |-> a + 8, size |-> nxt[a] - a - 8]

LEMMA LiveMember ==
    ASSUME Whole
    PROVE  \A x : x \in LiveBuffers <=>
              \E a \in Headers : reserved[a] /\ a # heapEnd /\ x = BufferOf(a)
  <1>1. \A a \in Headers : reserved[a] /\ a # heapEnd =>
            getSize(a) = nxt[a] - a - 8 /\ getDataPtr(a) = a + 8
    BY SizeOfBlock DEF Whole, Roomy, getDataPtr, heapEntry_headerSize
  <1>2. \A a \in Headers : isLast(a) <=> a = heapEnd
    BY DEF Whole, Tiles
  <1> QED
    BY <1>1, <1>2 DEF LiveBuffers, BufferOf

LiveMembership ==
    \A x : x \in LiveBuffers <=>
        \E a \in Headers : reserved[a] /\ a # heapEnd /\ x = BufferOf(a)

LEMMA LiveMemberNext == Whole' => LiveMembership'
  <1>1. Whole => LiveMembership
    BY LiveMember DEF LiveMembership
  <1> QED
    BY <1>1, PTL

\* Blocks are separate because each one ends where the next header starts.
LEMMA BlocksApart ==
    ASSUME Whole, NEW a \in Headers, reserved[a], a # heapEnd,
           NEW h \in Headers, h # a
    PROVE  /\ a \in Int /\ h \in Int /\ nxt[a] \in Int
           /\ h + 8 <= a + 8 \/ nxt[a] <= h
           /\ nxt[a] >= a + 8
  <1>1. a \in Int /\ h \in Int /\ nxt[a] \in Headers /\ nxt[a] \in Int
    BY HeadersAreAddresses
  <1>2. h <= a \/ h >= nxt[a]
    BY DEF Whole, Tiles
  <1>3. nxt[a] >= a + 8
    BY DEF Whole, Roomy, getDataPtr, heapEntry_headerSize
  <1> QED
    BY <1>1, <1>2, <1>3

LEMMA ListSeparates == Whole => Separate
  <1> SUFFICES ASSUME Whole, NEW b \in LiveBuffers
      PROVE /\ \A c \in LiveBuffers :
                  b = c \/ b.ptr + b.size <= c.ptr \/ c.ptr + c.size <= b.ptr
            /\ \A h \in Headers :
                  h + heapEntry_headerSize <= b.ptr \/ b.ptr + b.size <= h
    BY DEF Separate
  <1>1. PICK a \in Headers : reserved[a] /\ a # heapEnd /\ b = BufferOf(a)
    BY LiveMember
  <1>2. b.ptr = a + 8 /\ b.size = nxt[a] - a - 8
    BY <1>1 DEF BufferOf
  <1>i. a \in Int /\ nxt[a] \in Int
    BY <1>1, HeadersAreAddresses
  <1>3. ASSUME NEW c \in LiveBuffers
        PROVE  b = c \/ b.ptr + b.size <= c.ptr \/ c.ptr + c.size <= b.ptr
    <2>1. PICK d \in Headers : reserved[d] /\ d # heapEnd /\ c = BufferOf(d)
      BY LiveMember
    <2>2. c.ptr = d + 8 /\ c.size = nxt[d] - d - 8
      BY <2>1 DEF BufferOf
    <2>3. CASE d = a
      BY <2>3, <2>1, <1>1
    <2>4. CASE d # a
      <3>1. d \in Int /\ nxt[d] \in Int /\ (a <= d \/ a >= nxt[d])
            /\ (d <= a \/ d >= nxt[a])
        BY <2>1, <2>4, <1>1, BlocksApart
      <3> QED
        BY <3>1, <2>4, <2>2, <1>2, <1>i
    <2> QED
      BY <2>3, <2>4
  <1>4. ASSUME NEW h \in Headers
        PROVE  h + 8 <= b.ptr \/ b.ptr + b.size <= h
    <2>1. CASE h = a
      BY <2>1, <1>2, <1>i
    <2>2. CASE h # a
      BY <2>2, <1>1, <1>2, <1>i, BlocksApart
    <2> QED
      BY <2>1, <2>2
  <1> QED
    BY <1>3, <1>4 DEF heapEntry_headerSize

\* No two buffers in callers' hands ever share a byte, and none contains a
\* header, for any requests and any (even stale) pointers passed to kfree, as
\* long as no header was written into another one's fields.
THEOREM BuffersAlwaysSeparate == Spec => []LiveBuffersSeparate
  <1>1. IndInv => LiveBuffersSeparate
    BY ListSeparates DEF IndInv, LiveBuffersSeparate
  <1> QED
    BY <1>1, AlwaysIndInv, PTL

-----------------------------------------------------------------------------
(***************************************************************************)
(* The effect of each operation on the buffers in callers' hands.          *)
(***************************************************************************)
LEMMA TakeAdds ==
    ASSUME Whole, Whole', Intact', NEW n \in Nat, NEW a \in Headers,
           Suits(a, n), Take(a, n)
    PROVE  LiveBuffers' = LiveBuffers \cup {[ptr |-> a + 8, size |-> n]}
  <1> DEFINE s == a + 8 + n
  <1>0. /\ a # heapEnd /\ ~reserved[a] /\ nxt[a] >= a + 8
        /\ getSize(a) = nxt[a] - a - 8 /\ n <= nxt[a] - a - 8
        /\ a \in Int /\ nxt[a] \in Headers /\ nxt[a] \in HeapStart .. heapEnd
        /\ getSize(a) \in 0 .. MaxSize
    BY ChosenBlock, IntactTake
  <1>1. /\ Headers \subseteq Headers'
        /\ \A h \in Headers' : h \notin Headers => ~reserved'[h]
        /\ \A h \in Headers : h # a => nxt'[h] = nxt[h] /\ reserved'[h] = reserved[h]
        /\ nxt'[a] = s
        /\ reserved'[a]
    <2>1. CASE Splits(n, getSize(a))
      <3>1. s < nxt[a] /\ s > a /\ nxt[a] \in Int
        BY <1>0, <2>1, SplitTest, HeadersAreAddresses
      <3>2. s \notin Headers
        BY <3>1, <1>0, HeadersAreAddresses DEF Whole, Tiles
      <3>3. /\ nxt' = [h \in Headers \cup {s} |->
                          IF h = a THEN s ELSE IF h = s THEN nxt[a] ELSE nxt[h]]
            /\ reserved' = [h \in Headers \cup {s} |->
                          IF h = a THEN TRUE ELSE IF h = s THEN FALSE ELSE reserved[h]]
        BY <2>1, <1>0, IntactTake, RoomySplit
      <3>4. Headers' = Headers \cup {s}
        BY <3>3 DEF Headers
      <3>5. s # a
        BY <3>2
      <3> HIDE DEF s
      <3> QED
        BY <3>2, <3>3, <3>4, <3>5
    <2>2. CASE ~Splits(n, getSize(a))
      <3>1. nxt' = nxt /\ reserved' = [reserved EXCEPT ![a] = TRUE] /\ Headers' = Headers
        BY <2>2 DEF Take, Headers
      <3>2. nxt[a] = s
        BY <2>2, <1>0, SplitTest, HeadersAreAddresses
      <3> QED
        BY <3>1, <3>2 DEF Whole, TypeOK
    <2> QED
      BY <2>1, <2>2
  <1>2. BufferOf(a)' = [ptr |-> a + 8, size |-> n]
    BY <1>0, <1>1 DEF BufferOf
  <1>3. \A h \in Headers : h # a => BufferOf(h)' = BufferOf(h)
    BY <1>1 DEF BufferOf
  <1>4. \A x : x \in LiveBuffers' <=>
            \E h \in Headers' : reserved'[h] /\ h # heapEnd /\ x = BufferOf(h)'
    BY LiveMemberNext DEF LiveMembership, heapEnd, heapEntry_headerSize
  <1>5. \A x : x \in LiveBuffers <=>
            \E h \in Headers : reserved[h] /\ h # heapEnd /\ x = BufferOf(h)
    BY LiveMember
  <1> QED
    BY <1>0, <1>1, <1>2, <1>3, <1>4, <1>5

LEMMA FreeRemoves ==
    ASSUME Whole, Whole', NEW a \in Headers, a # heapEnd, free(a)
    PROVE  LiveBuffers' = IF reserved[a] THEN LiveBuffers \ {BufferOf(a)} ELSE LiveBuffers
  <1>1. PICK b \in Headers :
          /\ StopsDefragment(a, b)
          /\ nxt' = [h \in {x \in Headers : x <= a \/ x >= b} |-> IF h = a THEN b ELSE nxt[h]]
          /\ reserved' = [h \in {x \in Headers : x <= a \/ x >= b} |->
                              IF h = a THEN FALSE ELSE reserved[h]]
    BY DEF free
  <1>i. \A h \in Headers : h \in Int
    BY HeadersAreAddresses
  <1>2. Headers' = {x \in Headers : x <= a \/ x >= b}
    BY <1>1 DEF Headers
  <1>3. \A h \in Headers : h \notin Headers' => ~reserved[h]
    BY <1>1, <1>2, <1>i DEF StopsDefragment
  <1>4. /\ Headers' \subseteq Headers
        /\ \A h \in Headers' : h # a => nxt'[h] = nxt[h] /\ reserved'[h] = reserved[h]
        /\ a \in Headers' /\ ~reserved'[a]
    <2>1. a <= a
      BY <1>i
    <2>2. a \in Headers'
      BY <2>1, <1>2
    <2>3. \A h \in Headers' : /\ nxt'[h] = IF h = a THEN b ELSE nxt[h]
                              /\ reserved'[h] = IF h = a THEN FALSE ELSE reserved[h]
      BY <1>1, <1>2
    <2> QED
      BY <2>2, <2>3, <1>2
  <1>5. \A h \in Headers' : h # a => BufferOf(h)' = BufferOf(h)
    BY <1>4 DEF BufferOf
  <1>6. \A x : x \in LiveBuffers' <=>
            \E h \in Headers' : reserved'[h] /\ h # heapEnd /\ x = BufferOf(h)'
    BY LiveMemberNext DEF LiveMembership, heapEnd, heapEntry_headerSize
  <1>7. \A x : x \in LiveBuffers <=>
            \E h \in Headers : reserved[h] /\ h # heapEnd /\ x = BufferOf(h)
    BY LiveMember
  <1>8. \A h \in Headers : BufferOf(h) = BufferOf(a) => h = a
    <2>1. \A h \in Headers : BufferOf(h).ptr = h + 8
      BY DEF BufferOf
    <2> QED
      BY <2>1, <1>i
  <1> HIDE DEF BufferOf
  <1>9. CASE reserved[a]
    <2>1. \A x : x \in LiveBuffers' <=> x \in LiveBuffers /\ x # BufferOf(a)
      BY <1>3, <1>4, <1>5, <1>6, <1>7, <1>8
    <2> QED
      BY <1>9, <2>1
  <1>10. CASE ~reserved[a]
    <2>1. \A x : x \in LiveBuffers' <=> x \in LiveBuffers
      BY <1>10, <1>3, <1>4, <1>5, <1>6, <1>7
    <2> QED
      BY <1>10, <2>1
  <1> QED
    BY <1>9, <1>10

\* A step of the heap, seen from the callers.
LEMMA StepOnBuffers ==
    ASSUME IndInv, IndInv', Intact', [Next]_vars
    PROVE  \/ \E n \in Sizes, a \in Headers :
                 /\ ~panicked /\ Whole /\ Suits(a, n) /\ Take(a, n) /\ UNCHANGED panicked
                 /\ LiveBuffers' = LiveBuffers \cup {[ptr |-> a + 8, size |-> n]}
                 /\ call' = [op |-> "kalloc", arg |-> n, ptr |-> a + 8]
           \/ /\ ~panicked /\ LiveBuffers' = LiveBuffers /\ call'.ptr = Null
              /\ call'.op \in {"kalloc", "kfree"}
           \/ \E p \in Pointers, a \in Headers :
                 /\ ~panicked /\ Whole /\ a # heapEnd /\ reserved[a] /\ p = a + 8
                 /\ LiveBuffers' = LiveBuffers \ {BufferOf(a)}
                 /\ call' = [op |-> "kfree", arg |-> p, ptr |-> Null]
                 /\ UNCHANGED panicked
           \/ UNCHANGED vars /\ LiveBuffers' = LiveBuffers
  <1> USE HeapAssumption
  <1>1. CASE \E n \in Sizes : kalloc(n)
    <2>1. PICK n \in Sizes, a \in Headers :
             Working /\ Suits(a, n) /\ Take(a, n) /\ UNCHANGED panicked
      BY <1>1 DEF kalloc, FirstFit
    <2>w. Whole /\ Whole' /\ n \in Nat /\ ~panicked
      BY <2>1 DEF IndInv, Working
    <2>2. LiveBuffers' = LiveBuffers \cup {[ptr |-> a + 8, size |-> n]}
      BY <2>1, <2>w, TakeAdds
    <2>3. call' = [op |-> "kalloc", arg |-> n, ptr |-> a + 8]
      BY <2>1 DEF Take, getDataPtr, heapEntry_headerSize
    <2> QED
      BY <2>1, <2>2, <2>3, <2>w
  <1>2. CASE \E n \in Sizes : kallocNull(n)
    BY <1>2 DEF kallocNull, Working, LiveBuffers, Headers, getSize, isLast
  <1>3. CASE \E p \in Pointers : kfree(p)
    <2>1. PICK p \in Pointers, a \in Headers : Owns(a, p) /\ free(a)
             /\ call' = [op |-> "kfree", arg |-> p, ptr |-> Null]
             /\ ~panicked /\ UNCHANGED panicked /\ Intact
      BY <1>3 DEF kfree, Working
    <2>w. Whole /\ Whole'
      BY <2>1 DEF IndInv
    <2>2. a # heapEnd /\ p = a + 8
      BY <2>1, <2>w DEF Owns, Whole, Tiles, getDataPtr, heapEntry_headerSize
    <2>3. LiveBuffers' = IF reserved[a] THEN LiveBuffers \ {BufferOf(a)} ELSE LiveBuffers
      BY <2>1, <2>2, <2>w, FreeRemoves
    <2>4. CASE reserved[a]
      BY <2>1, <2>2, <2>3, <2>4, <2>w
    <2>5. CASE ~reserved[a]
      BY <2>1, <2>3, <2>5
    <2> QED
      BY <2>4, <2>5
  <1>4. CASE \E p \in Pointers : kfreePanic(p)
    <2>1. PICK p \in Pointers : kfreePanic(p)
      BY <1>4
    <2>2. nxt' = nxt /\ reserved' = reserved /\ ~panicked
          /\ call' = [op |-> "kfree", arg |-> p, ptr |-> Null]
      BY <2>1 DEF kfreePanic, Working
    <2>3. LiveBuffers' = LiveBuffers
      BY <2>2 DEF LiveBuffers, Headers, getSize, isLast
    <2> QED
      BY <2>2, <2>3
  <1>5. CASE hang \/ UNCHANGED vars
    BY <1>5 DEF hang, vars, LiveBuffers, Headers, getSize, isLast
  <1> QED
    BY <1>1, <1>2, <1>3, <1>4, <1>5 DEF Next

\* No step that leaves the heap intact ends or resizes a buffer other than the
\* one passed to kfree.
THEOREM OthersAlwaysKept == Spec => OthersKept
  <1>1. Spec => []IndInv
    BY AlwaysIndInv
  <1>2. ASSUME IndInv, IndInv', Intact', [Next]_vars, NEW b \in LiveBuffers
        PROVE  b \in LiveBuffers' \/ (call'.op = "kfree" /\ call'.arg = b.ptr)
    <2>1. CASE \E p \in Pointers, a \in Headers :
                 /\ p = a + 8
                 /\ LiveBuffers' = LiveBuffers \ {BufferOf(a)}
                 /\ call' = [op |-> "kfree", arg |-> p, ptr |-> Null]
      <3>1. PICK p \in Pointers, a \in Headers :
                 /\ p = a + 8
                 /\ LiveBuffers' = LiveBuffers \ {BufferOf(a)}
                 /\ call' = [op |-> "kfree", arg |-> p, ptr |-> Null]
        BY <2>1
      <3>2. BufferOf(a).ptr = a + 8
        BY DEF BufferOf
      <3> QED
        BY <3>1, <3>2
    <2>2. CASE LiveBuffers \subseteq LiveBuffers'
      BY <2>2
    <2> QED
      BY <1>2, <2>1, <2>2, StepOnBuffers
  <1>3. IndInv /\ IndInv' /\ [Next]_vars => [Intact' => Kept]_vars
    BY <1>2 DEF Kept
  <1> QED
    BY <1>1, <1>3, PTL DEF Spec, OthersKept

\* Headers come to overlap only by a request that leaves fewer bytes than a
\* header takes (memory.cpp:42-53): neither free nor an exact fit does it.
THEOREM OverlapAlwaysByShortRest == Spec => OverlapOnlyByShortRest
  <1> DEFINE ShortRest ==
        \E a \in Headers :
            /\ call' = [op |-> "kalloc", arg |-> call'.arg, ptr |-> getDataPtr(a)]
            /\ getSize(a) - call'.arg \in 1 .. heapEntry_headerSize - 1
  <1>1. Spec => []IndInv
    BY AlwaysIndInv
  <1>2. ASSUME IndInv, [Next]_vars, HeadersApart, ~HeadersApart'
        PROVE  ShortRest
    <2> USE HeapAssumption
    <2>0. ASSUME Whole
          PROVE  /\ \A h \in Headers : h \in Int
                 /\ \A h \in Headers : h # heapEnd => nxt[h] \in Headers /\ nxt[h] \in Int
      BY <2>0, HeadersAreAddresses
    <2>a. ASSUME Whole
          PROVE  \A h \in Headers : h # heapEnd => nxt[h] >= h + 8
      BY <1>2, <2>a DEF HeadersApart, getDataPtr, heapEntry_headerSize, Whole, Tiles
    <2>b. ASSUME \A h \in Headers' : nxt'[h] = Null \/ nxt'[h] >= h + 8 PROVE FALSE
      BY <1>2, <2>b DEF HeadersApart, getDataPtr, heapEntry_headerSize, isLast
    <2>1. ASSUME UNCHANGED nxt PROVE FALSE
      BY <1>2, <2>1 DEF HeadersApart, Headers, isLast
    <2>2. ASSUME NEW n \in Sizes, kalloc(n) PROVE ShortRest
      <3>1. PICK a \in Headers : Suits(a, n) /\ Take(a, n)
        BY <2>2 DEF kalloc, FirstFit
      <3>w. Whole
        BY <1>2, <2>2 DEF IndInv, kalloc, Working
      <3>0. nxt[a] >= a + 8
        BY <3>1, <3>w, <2>a DEF Suits, Whole, Tiles
      <3>2. /\ a \in Int /\ nxt[a] \in Int /\ n \in Nat /\ a # heapEnd
            /\ getSize(a) = nxt[a] - a - 8
            /\ n <= getSize(a) /\ getSize(a) \in 0 .. MaxSize
        BY <3>0, <3>1, <3>w, <2>0, ChosenBlock
      <3> DEFINE s == a + 8 + n
      <3>3. CASE ~Splits(n, getSize(a))
        BY <2>1, <3>1, <3>3 DEF Take
      <3>4. CASE Splits(n, getSize(a))
        <4>2. n < getSize(a)
          BY <3>2, <3>4, SplitTest
        <4>3. CASE nxt[a] >= s + 8
          <5>0. nxt' = [h \in Headers \cup {s} |->
                          IF h = a THEN s ELSE IF h = s THEN nxt[a] ELSE nxt[h]]
            <6>1. nxt[a] >= a + 8 + n + 5
              BY <3>2, <4>3
            <6> QED
              BY <3>0, <3>1, <3>2, <3>4, <3>w, <6>1, RoomySplit
          <5>1. \A h \in Headers' : nxt'[h] = Null \/ nxt'[h] >= h + 8
            <6>1. Headers' = Headers \cup {s}
              BY <5>0 DEF Headers
            <6>2. \A h \in Headers : h = heapEnd => nxt[h] = Null
              BY <3>w DEF Whole, Tiles, isLast
            <6> QED
              BY <5>0, <4>3, <6>1, <6>2, <3>w, <2>a, <3>2
          <5> QED
            BY <5>1, <2>b
        <4>4. CASE nxt[a] < s + 8
          <5>1. call' = [op |-> "kalloc", arg |-> n, ptr |-> getDataPtr(a)]
            BY <3>1 DEF Take
          <5>2. call'.arg = n
            BY <5>1
          <5>3. getSize(a) - n \in 1 .. heapEntry_headerSize - 1
            BY <3>2, <4>2, <4>4 DEF heapEntry_headerSize
          <5> QED
            BY <5>1, <5>2, <5>3
        <4> QED
          BY <4>3, <4>4, <3>2
      <3> QED
        BY <3>3, <3>4
    <2>3. ASSUME NEW p \in Pointers, kfree(p) PROVE FALSE
      <3>1. PICK a \in Headers : Owns(a, p) /\ free(a)
        BY <2>3 DEF kfree
      <3>w. Whole
        BY <1>2, <2>3 DEF IndInv, kfree, Working
      <3>2. a # heapEnd
        BY <3>w, <3>1 DEF Owns, Whole, Tiles
      <3>3. PICK b \in Headers :
              /\ StopsDefragment(a, b)
              /\ nxt' = [h \in {x \in Headers : x <= a \/ x >= b} |->
                            IF h = a THEN b ELSE nxt[h]]
        BY <3>1 DEF free
      <3>4. b >= nxt[a]
        BY <3>2, <3>3, <3>w, <2>0 DEF StopsDefragment, Whole, Tiles
      <3>5. \A h \in Headers' : h \in Headers /\ nxt'[h] = IF h = a THEN b ELSE nxt[h]
        BY <3>3 DEF Headers
      <3>6. \A h \in Headers : h = heapEnd => nxt[h] = Null
        BY <3>w DEF Whole, Tiles, isLast
      <3>7. b >= a + 8
        BY <3>2, <3>4, <3>w, <2>0, <2>a
      <3> QED
        BY <3>5, <3>6, <3>7, <3>w, <2>a, <2>b
    <2> QED
      BY <1>2, <2>1, <2>2, <2>3 DEF Next, kallocNull, kfreePanic, hang, vars
  <1>3. IndInv /\ [Next]_vars => [HeadersApart /\ ~HeadersApart' => ShortRest]_vars
    BY <1>2
  <1> QED
    BY <1>1, <1>3, PTL DEF Spec, OverlapOnlyByShortRest

\* What the last kalloc returned stays the pointer of a large enough buffer
\* until the next call, unless that kalloc spoiled the heap.
THEOREM AnswerAlwaysLive == Spec => []AnswerIsLive
  <1>1. Spec => []IndInv
    BY AlwaysIndInv
  <1>2. Init => AnswerIsLive
    BY DEF Init, AnswerIsLive
  <1>3. IndInv /\ IndInv' /\ AnswerIsLive /\ [Next]_vars => AnswerIsLive'
    <2> SUFFICES ASSUME IndInv, IndInv', AnswerIsLive, [Next]_vars, Intact'
                 PROVE  AnswerIsLive'
      BY DEF AnswerIsLive
    <2>1. CASE \E n \in Sizes, a \in Headers :
                 /\ LiveBuffers' = LiveBuffers \cup {[ptr |-> a + 8, size |-> n]}
                 /\ call' = [op |-> "kalloc", arg |-> n, ptr |-> a + 8]
      <3>1. PICK n \in Sizes, a \in Headers :
                 /\ LiveBuffers' = LiveBuffers \cup {[ptr |-> a + 8, size |-> n]}
                 /\ call' = [op |-> "kalloc", arg |-> n, ptr |-> a + 8]
        BY <2>1
      <3> DEFINE b == [ptr |-> a + 8, size |-> n]
      <3>2. b \in LiveBuffers' /\ b.ptr = call'.ptr /\ b.size = call'.arg /\ call'.arg = n
        BY <3>1
      <3>3. n >= n
        BY HeapAssumption
      <3> QED
        BY <3>2, <3>3 DEF AnswerIsLive
    <2>2. CASE call'.op = "kfree" \/ call'.ptr = Null
      BY <2>2 DEF AnswerIsLive
    <2>3. CASE UNCHANGED vars /\ LiveBuffers' = LiveBuffers
      <3>1. Intact
        BY <2>3 DEF vars, Intact, FieldsApart, ReservedApart, Headers, isLast
      <3> QED
        BY <2>3, <3>1 DEF AnswerIsLive, vars
    <2> QED
      BY <2>1, <2>2, <2>3, StepOnBuffers
  <1> QED
    BY <1>1, <1>2, <1>3, PTL DEF Spec

\* The header list implements the abstract allocator of HeapSpec, for every
\* arena and every use of it, as long as no header was written into another
\* one's fields and no ragged block was handed out.
THEOREM HeapImplementsPromise == Spec => ImplementsPromise
  <1> USE HeapAssumption
  <1>1. Spec => []IndInv
    BY AlwaysIndInv
  <1>2. Init => Promise!Init
    <2> SUFFICES ASSUME Init PROVE Promise!Init
      OBVIOUS
    <2>1. LiveBuffers = {}
      <3>1. \A h \in Headers : ~(reserved[h] /\ ~isLast(h))
        <4>1. Headers = {HeapStart, heapEnd} /\ HeapStart # heapEnd
          BY DEF Init, Headers, heapEnd, heapEntry_headerSize
        <4>2. nxt[heapEnd] = Null
          BY <4>1 DEF Init
        <4>3. reserved[HeapStart] = (HeapStart = heapEnd)
          BY Zenon DEF Init
        <4> QED
          BY <4>1, <4>2, <4>3, Zenon DEF isLast
      <3> QED
        BY <3>1 DEF LiveBuffers
    <2> QED
      BY <2>1 DEF Promise!Init, Init
  <1>3. IndInv /\ IndInv' /\ [Next]_vars =>
           [Intact' => Promise!Next]_<<LiveBuffers, panicked, call.ptr>>
    <2> SUFFICES ASSUME IndInv, IndInv', [Next]_vars, Intact'
                 PROVE  Promise!Next \/ UNCHANGED <<LiveBuffers, panicked, call.ptr>>
      OBVIOUS
    <2>1. ASSUME NEW n \in Sizes, NEW a \in Headers,
                 ~panicked, Whole, Suits(a, n), Take(a, n), UNCHANGED panicked,
                 LiveBuffers' = LiveBuffers \cup {[ptr |-> a + 8, size |-> n]},
                 call' = [op |-> "kalloc", arg |-> n, ptr |-> a + 8]
          PROVE  Promise!Next
      <3>0. n \in Nat
        OBVIOUS
      <3>1. /\ a \in Int /\ ~reserved[a] /\ a # heapEnd /\ nxt[a] \in HeapStart .. heapEnd
            /\ n <= nxt[a] - a - 8
        BY <2>1, <3>0, IntactTake, ChosenBlock
      <3>2. call'.ptr = a + 8
        BY <2>1
      <3>3. a \in HeapStart .. heapEnd
        BY <2>1 DEF Whole, Tiles
      <3>4. call'.ptr \in (HeapStart .. HeapStart + MaxSize) \ {Null}
        BY <3>1, <3>2, <3>3 DEF heapEnd, heapEntry_headerSize, Null
      <3>5. n \in n .. (HeapStart + MaxSize - call'.ptr)
        BY <3>0, <3>1, <3>2, <3>3 DEF heapEnd, heapEntry_headerSize
      <3>6. ASSUME NEW x \in LiveBuffers
            PROVE  x.ptr # a + 8 /\ ~Promise!Overlap(x, [ptr |-> call'.ptr, size |-> n])
        <4>1. PICK d \in Headers : reserved[d] /\ d # heapEnd /\ x = BufferOf(d)
          BY <2>1, LiveMember
        <4>2. x.ptr = d + 8 /\ x.size = nxt[d] - d - 8
          BY <4>1 DEF BufferOf
        <4>3. d # a
          BY <4>1, <3>1
        <4>4. d \in Int /\ nxt[d] \in Int /\ (a <= d \/ a >= nxt[d])
          BY <4>1, <4>3, <2>1, BlocksApart
        <4>5. d <= a \/ d >= nxt[a]
          BY <4>1, <4>3, <3>1, <2>1 DEF Whole, Tiles
        <4>6. nxt[a] \in Int
          BY <3>1, <2>1, HeadersAreAddresses
        <4> QED
          BY <4>2, <4>3, <4>4, <4>5, <4>6, <3>0, <3>1, <3>2 DEF Promise!Overlap
      <3>7. ~panicked
        BY <2>1
      <3>8. Promise!Serve(n)
        BY <2>1, <3>2, <3>4, <3>5, <3>6, <3>7 DEF Promise!Serve
      <3> QED
        BY <3>8 DEF Promise!Next
    <2>2. ASSUME ~panicked, LiveBuffers' = LiveBuffers, call'.ptr = Null
          PROVE  Promise!Next
      <3>1. panicked \in BOOLEAN /\ panicked' \in BOOLEAN
        BY DEF IndInv, TypeOK
      <3>2. panicked' = panicked \/ panicked' = TRUE
        BY <3>1, <2>2, Zenon
      <3> QED
        BY <2>2, <3>2 DEF Promise!Next, Promise!ChangeNothing, Promise!Fail
    <2>3. ASSUME NEW p \in Pointers, NEW a \in Headers,
                 ~panicked, Whole, a # heapEnd, reserved[a],
                 LiveBuffers' = LiveBuffers \ {BufferOf(a)},
                 call' = [op |-> "kfree", arg |-> p, ptr |-> Null],
                 UNCHANGED panicked
          PROVE  Promise!Next
      <3>1. BufferOf(a) \in LiveBuffers
        BY <2>3, LiveMember
      <3>2. call'.ptr = Null
        BY <2>3
      <3> QED
        BY <2>3, <3>1, <3>2 DEF Promise!Next, Promise!GiveBack
    <2>4. CASE UNCHANGED vars /\ LiveBuffers' = LiveBuffers
      BY <2>4 DEF vars
    <2> QED
      BY <2>1, <2>2, <2>3, <2>4, StepOnBuffers
  <1> QED
    BY <1>1, <1>2, <1>3, PTL DEF Spec, ImplementsPromise

\* With an arena and requests that are multiples of 8 bytes the header list
\* implements the abstract allocator without reservation.
THEOREM AlignedHeapImplementsPromise ==
    ASSUME MaxSize % 8 = 0, \A n \in Sizes : n % 8 = 0
    PROVE  Spec => Promise!Spec
  <1>1. Spec => [](HeadersApart /\ Intact)
    BY AlignedHeadersApart
  <1>2. Intact' /\ [Intact' => Promise!Next]_<<LiveBuffers, panicked, call.ptr>>
           => [Promise!Next]_(Promise!vars)
    BY DEF Promise!vars
  <1> QED
    BY <1>1, <1>2, HeapImplementsPromise, PTL DEF ImplementsPromise, Promise!Spec
=============================================================================
