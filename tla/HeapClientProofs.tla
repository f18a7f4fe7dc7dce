-------------------------- MODULE HeapClientProofs --------------------------
(***************************************************************************)
(* What the heap promises a client that frees in reverse order, for every  *)
(* arena, every set of request sizes and any number of calls.              *)
(*                                                                         *)
(* IndInv of HeapProofs says that an intact list tiles the arena.  While   *)
(* the client keeps to the order, the reserved blocks are those on its     *)
(* stack, in address order, and a free block can only be the last one:     *)
(* that is why merging forward is enough.  The step that spoils the heap   *)
(* is an allocation, so the client then still holds that buffer.           *)
(***************************************************************************)
EXTENDS HeapClient, HeapProofs, SequenceTheorems

StackInOrder ==
    /\ stack \in Seq(Int)
    /\ \A i \in 1 .. Len(stack) :
          /\ stack[i] - 8 \in Headers \ {heapEnd}
          /\ reserved[stack[i] - 8]
    /\ \A i, j \in 1 .. Len(stack) : i < j => stack[i] < stack[j]

ReservedOnStack ==
    \A h \in Headers \ {heapEnd} : reserved[h] => \E i \in 1 .. Len(stack) : stack[i] = h + 8

FreeIsLast == \A h \in Headers : ~reserved[h] => nxt[h] = heapEnd

LifoInv == lifo => StackInOrder /\ ReservedOnStack /\ FreeIsLast

ClientInv ==
    /\ IndInv
    /\ Intact => LifoInv
    /\ lifo /\ ~Intact => stack # <<>>
    /\ NullMeansNoMemory

-----------------------------------------------------------------------------
\* A client's steps are steps of the heap.
LEMMA ClientStep == [ClientNext]_clientVars => [Next]_vars
    BY DEF ClientNext, clientVars, Next, vars, Allocate, AllocateNull, FreeNewest, FreeOther, Halted

LEMMA ClientStarts == ClientInit => ClientInv
  <1> SUFFICES ASSUME ClientInit PROVE ClientInv
    OBVIOUS
  <1>1. Whole /\ IndInv
    BY InitList DEF ClientInit, IndInv, Whole
  <1>2. NullMeansNoMemory
    BY DEF ClientInit, Init, NullMeansNoMemory
  <1>3. Headers = {HeapStart, heapEnd} /\ nxt[HeapStart] = heapEnd /\ HeapStart # heapEnd
    BY HeapAssumption DEF ClientInit, Init, Headers, heapEnd, heapEntry_headerSize
  <1>4. reserved[heapEnd]
    BY <1>1 DEF Whole, Tiles
  <1>5. ~reserved[HeapStart]
    <2>1. reserved[HeapStart] = (HeapStart = heapEnd)
      BY Zenon DEF ClientInit, Init
    <2> QED
      BY <2>1, <1>3, Zenon
  <1>6. stack = <<>>
    BY DEF ClientInit
  <1>7. StackInOrder
    BY <1>6 DEF StackInOrder
  <1>8. ReservedOnStack /\ FreeIsLast
    BY <1>3, <1>4, <1>5 DEF ReservedOnStack, FreeIsLast
  <1>9. Intact
    <2>1. HeapStart \in Nat /\ heapEnd \in Nat /\ heapEnd >= HeapStart + 8
      BY HeapAssumption DEF heapEnd, heapEntry_headerSize
    <2>2. FieldsApart
      BY <1>3, <2>1 DEF FieldsApart
    <2> QED
      BY <1>1, <2>2, ApartByPosition DEF Intact, Whole
  <1> QED
    BY <1>1, <1>2, <1>7, <1>8, <1>9 DEF ClientInv, LifoInv

\* Allocating puts the new buffer on top: the block taken was the last one, and
\* so is what is left of it.
LEMMA AllocateKeepsOrder ==
    ASSUME ClientInv, NEW n \in Sizes, Allocate(n), Intact'
    PROVE  LifoInv'
  <1> SUFFICES ASSUME lifo PROVE StackInOrder' /\ ReservedOnStack' /\ FreeIsLast'
    BY DEF Allocate, LifoInv
  <1> USE HeapAssumption
  <1>0. Whole /\ StackInOrder /\ ReservedOnStack /\ FreeIsLast
    BY DEF ClientInv, LifoInv, IndInv, Allocate, kalloc, Working
  <1>1. PICK a \in Headers : Suits(a, n) /\ Take(a, n)
    BY DEF Allocate, kalloc, FirstFit
  <1>2. /\ a # heapEnd /\ ~reserved[a] /\ a \in Int /\ heapEnd \in Int
        /\ getSize(a) = nxt[a] - a - 8 /\ n <= getSize(a) /\ getSize(a) \in 0 .. MaxSize
        /\ n \in Nat
    BY <1>0, <1>1, IntactTake, ChosenBlock, HeadersAreAddresses
  <1>3. nxt[a] = heapEnd /\ \A h \in Headers : h \in Int /\ (h <= a \/ h = heapEnd)
    <2>1. nxt[a] = heapEnd
      BY <1>0, <1>2 DEF FreeIsLast
    <2>2. \A h \in Headers : h \in HeapStart .. heapEnd /\ (h <= a \/ h >= nxt[a])
      BY <1>0, <1>2 DEF Whole, Tiles
    <2> QED
      BY <2>1, <2>2, <1>2
  <1> DEFINE s == a + 8 + n
  <1>4. /\ Headers' = Headers \/ Headers' = Headers \cup {s}
        /\ Headers' # Headers => s < heapEnd /\ nxt'[s] = heapEnd /\ ~reserved'[s]
        /\ \A h \in Headers : reserved'[h] <=> reserved[h] \/ h = a
        /\ \A h \in Headers : h # a => nxt'[h] = nxt[h]
    <2>1. CASE Splits(n, getSize(a))
      <3>2. /\ nxt' = [h \in Headers \cup {s} |->
                        IF h = a THEN s ELSE IF h = s THEN nxt[a] ELSE nxt[h]]
            /\ reserved' = [h \in Headers \cup {s} |->
                        IF h = a THEN TRUE ELSE IF h = s THEN FALSE ELSE reserved[h]]
        BY <1>0, <1>1, <1>2, <2>1, IntactTake, RoomySplit
      <3>3. s < heapEnd /\ s # a
        BY <1>2, <1>3, <2>1, SplitTest
      <3>4. s \notin Headers
        BY <1>2, <1>3, <3>3
      <3>5. Headers' = Headers \cup {s}
        BY <3>2 DEF Headers
      <3> HIDE DEF s
      <3> QED
        BY <1>3, <3>2, <3>3, <3>4, <3>5
    <2>2. CASE ~Splits(n, getSize(a))
      <3>1. nxt' = nxt /\ reserved' = [reserved EXCEPT ![a] = TRUE] /\ Headers' = Headers
        BY <1>1, <2>2 DEF Take, Headers
      <3> QED
        BY <1>0, <3>1 DEF Whole, TypeOK
    <2> QED
      BY <2>1, <2>2
  <1>5. stack' = Append(stack, a + 8)
    BY <1>1, <1>2 DEF Allocate, Take, getDataPtr, heapEntry_headerSize
  <1>6. /\ stack' \in Seq(Int)
        /\ Len(stack') = Len(stack) + 1
        /\ \A i \in 1 .. Len(stack) : stack'[i] = stack[i]
        /\ stack'[Len(stack) + 1] = a + 8
        /\ Len(stack) \in Nat
    BY <1>0, <1>2, <1>5 DEF StackInOrder
  <1>l. /\ \A i \in 1 .. Len(stack') : i \in 1 .. Len(stack) \/ i = Len(stack) + 1
        /\ \A i, j \in 1 .. Len(stack') : i < j => i \in 1 .. Len(stack)
    <2> DEFINE m == Len(stack)
    <2>1. m \in Nat /\ Len(stack') = m + 1
      BY <1>6
    <2> HIDE DEF m
    <2>2. /\ \A i \in 1 .. m + 1 : i \in 1 .. m \/ i = m + 1
          /\ \A i, j \in 1 .. m + 1 : i < j => i \in 1 .. m
      BY <2>1
    <2> QED
      BY <2>1, <2>2, Zenon DEF m
  <1>7. \A i \in 1 .. Len(stack) :
           stack[i] \in Int /\ stack[i] - 8 \in Headers \ {heapEnd} /\ reserved[stack[i] - 8]
           /\ stack[i] < a + 8
    <2> SUFFICES ASSUME NEW i \in 1 .. Len(stack)
                 PROVE  /\ stack[i] \in Int /\ stack[i] < a + 8
                        /\ stack[i] - 8 \in Headers \ {heapEnd} /\ reserved[stack[i] - 8]
      OBVIOUS
    <2> DEFINE x == stack[i] - 8
    <2>1. stack[i] \in Int
      BY <1>0 DEF StackInOrder
    <2>2. x \in Headers \ {heapEnd} /\ reserved[x]
      BY <1>0 DEF StackInOrder
    <2>3. x <= a /\ x # a
      BY <1>2, <1>3, <2>2
    <2> QED
      BY <1>2, <2>1, <2>2, <2>3
  <1>8. StackInOrder'
    <2>1. \A i \in 1 .. Len(stack') : stack'[i] - 8 \in Headers' \ {heapEnd} /\ reserved'[stack'[i] - 8]
      <3> SUFFICES ASSUME NEW i \in 1 .. Len(stack')
                   PROVE  stack'[i] - 8 \in Headers' \ {heapEnd} /\ reserved'[stack'[i] - 8]
        OBVIOUS
      <3>1. CASE i = Len(stack) + 1
        <4>1. stack'[i] - 8 = a
          BY <3>1, <1>2, <1>6
        <4> QED
          BY <4>1, <1>2, <1>4
      <3>2. CASE i \in 1 .. Len(stack)
        <4>1. stack'[i] = stack[i]
          BY <3>2, <1>6
        <4> QED
          BY <3>2, <4>1, <1>4, <1>7, SMTT(30)
      <3> QED
        BY <3>1, <3>2, <1>l, Zenon
    <2>2. \A i, j \in 1 .. Len(stack') : i < j => stack'[i] < stack'[j]
      <3> SUFFICES ASSUME NEW i \in 1 .. Len(stack'), NEW j \in 1 .. Len(stack'), i < j
                   PROVE  stack'[i] < stack'[j]
        OBVIOUS
      <3>1. i \in 1 .. Len(stack) /\ stack'[i] = stack[i]
        BY <1>6, <1>l, Zenon
      <3>2. CASE j = Len(stack) + 1
        <4>1. stack'[j] = a + 8
          BY <3>2, <1>6
        <4>2. stack[i] < a + 8
          BY <3>1, <1>7, <1>2
        <4> QED
          BY <3>1, <4>1, <4>2
      <3>3. CASE j \in 1 .. Len(stack)
        <4>1. stack'[j] = stack[j]
          BY <3>3, <1>6
        <4> QED
          BY <3>1, <3>3, <4>1, <1>0 DEF StackInOrder
      <3> QED
        BY <3>2, <3>3, <1>l, Zenon
    <2> QED
      BY <2>1, <2>2, <1>6 DEF StackInOrder, Headers, heapEnd
  <1>9. ReservedOnStack'
    <2>1. ASSUME NEW h \in Headers', h # heapEnd, reserved'[h]
          PROVE  \E i \in 1 .. Len(stack') : stack'[i] = h + 8
      <3>1. h \in Headers
        BY <2>1, <1>4
      <3>2. CASE h = a
        BY <3>2, <1>6
      <3>3. CASE h # a
        <4>1. PICK i \in 1 .. Len(stack) : stack[i] = h + 8
          BY <3>1, <3>3, <2>1, <1>0, <1>4 DEF ReservedOnStack
        <4> QED
          BY <4>1, <1>6
      <3> QED
        BY <3>2, <3>3
    <2> QED
      BY <2>1 DEF ReservedOnStack, Headers, heapEnd
  <1>10. FreeIsLast'
    <2>1. ASSUME NEW h \in Headers', ~reserved'[h]
          PROVE  nxt'[h] = heapEnd
      <3>1. CASE h \in Headers
        BY <3>1, <2>1, <1>0, <1>4 DEF FreeIsLast
      <3>2. CASE h \notin Headers
        BY <3>2, <1>4
      <3> QED
        BY <3>1, <3>2
    <2> QED
      BY <2>1 DEF FreeIsLast, Headers, heapEnd
  <1> QED
    BY <1>8, <1>9, <1>10

\* Freeing the newest buffer gives its block all the memory up to the end.
LEMMA FreeKeepsOrder ==
    ASSUME ClientInv, NEW p \in Pointers, FreeNewest(p)
    PROVE  LifoInv'
  <1> USE HeapAssumption
  <1>0. lifo /\ Whole /\ StackInOrder /\ ReservedOnStack /\ FreeIsLast
    BY DEF ClientInv, LifoInv, IndInv, FreeNewest, Newest, kfree, Working
  <1>1. PICK a \in Headers : Owns(a, p) /\ free(a)
    BY DEF FreeNewest, kfree
  <1> DEFINE n == Len(stack)
  <1>2. n \in Nat \ {0} /\ p = stack[n] /\ p \in Int
    BY <1>0 DEF FreeNewest, Newest, StackInOrder
  <1>3. a \in Int /\ a + 8 = p /\ a # heapEnd /\ heapEnd \in Int
        /\ \A h \in Headers : h \in Int
    BY <1>0, <1>1, HeadersAreAddresses DEF Owns, getDataPtr, heapEntry_headerSize, Whole, Tiles
  <1>4. PICK b \in Headers :
          /\ StopsDefragment(a, b)
          /\ nxt' = [h \in {x \in Headers : x <= a \/ x >= b} |-> IF h = a THEN b ELSE nxt[h]]
          /\ reserved' = [h \in {x \in Headers : x <= a \/ x >= b} |->
                              IF h = a THEN FALSE ELSE reserved[h]]
    BY <1>1 DEF free
  <1>5. b = heapEnd
    <2> SUFFICES ASSUME b # heapEnd PROVE FALSE
      OBVIOUS
    <2>1. PICK i \in 1 .. n : stack[i] = b + 8
      BY <1>0, <1>4 DEF StopsDefragment, ReservedOnStack
    <2>2. b > a /\ b \in Int
      BY <1>3, <1>4 DEF StopsDefragment
    <2>3. i < n \/ i = n
      BY <1>2, <2>1
    <2>4. stack[i] < stack[n] \/ stack[i] = stack[n]
      BY <1>0, <1>2, <2>1, <2>3 DEF StackInOrder
    <2> QED
      BY <2>1, <2>2, <2>4, <1>2, <1>3
  <1>6. Headers' = {x \in Headers : x <= a \/ x >= heapEnd}
    BY <1>4, <1>5 DEF Headers
  <1>7. \A h \in Headers' : /\ h \in Headers
                            /\ nxt'[h] = IF h = a THEN heapEnd ELSE nxt[h]
                            /\ reserved'[h] = IF h = a THEN FALSE ELSE reserved[h]
    BY <1>4, <1>5, <1>6
  <1>8. /\ stack' \in Seq(Int)
        /\ Len(stack') = n - 1
        /\ \A i \in 1 .. n - 1 : stack'[i] = stack[i]
    <2>1. stack' = SubSeq(stack, 1, n - 1) /\ stack \in Seq(Int)
      BY <1>0 DEF FreeNewest, StackInOrder
    <2>2. n - 1 \in Int /\ \A i \in 1 .. n - 1 : stack[i] \in Int
      BY <1>2, <2>1
    <2>3. /\ SubSeq(stack, 1, n - 1) \in Seq(Int)
          /\ Len(SubSeq(stack, 1, n - 1)) = IF 1 <= n - 1 THEN n - 1 - 1 + 1 ELSE 0
          /\ \A i \in 1 .. n - 1 - 1 + 1 : SubSeq(stack, 1, n - 1)[i] = stack[1 + i - 1]
      <3> HIDE DEF n
      <3> DEFINE k == n - 1
      <3>1. k \in Int /\ 1 \in Int /\ \A i \in 1 .. k : stack[i] \in Int
        BY <2>2
      <3> HIDE DEF k
      <3>2. /\ SubSeq(stack, 1, k) \in Seq(Int)
            /\ Len(SubSeq(stack, 1, k)) = IF 1 <= k THEN k - 1 + 1 ELSE 0
            /\ \A i \in 1 .. k - 1 + 1 : SubSeq(stack, 1, k)[i] = stack[1 + i - 1]
        BY <3>1, SubSeqProperties
      <3> QED
        BY <3>2 DEF k
    <2> DEFINE q == SubSeq(stack, 1, n - 1)
    <2>4. stack' = q /\ q \in Seq(Int)
          /\ Len(q) = (IF 1 <= n - 1 THEN n - 1 - 1 + 1 ELSE 0)
          /\ \A i \in 1 .. n - 1 - 1 + 1 : q[i] = stack[1 + i - 1]
      BY <2>1, <2>3, Zenon
    <2> HIDE DEF q, n
    <2> QED
      BY <1>2, <2>4
  <1>9. StackInOrder'
    <2>1. \A i \in 1 .. n - 1 : i \in 1 .. n /\ stack[i] < stack[n] /\ stack[i] \in Int
      BY <1>0, <1>2 DEF StackInOrder
    <2>2. ASSUME NEW i \in 1 .. n - 1
          PROVE  stack'[i] - 8 \in Headers' \ {heapEnd} /\ reserved'[stack'[i] - 8]
      <3>1. stack'[i] = stack[i] /\ stack[i] - 8 < a
        <4>1. stack'[i] = stack[i]
          BY <1>2, <1>8
        <4>2. stack[i] < stack[n] /\ stack[i] \in Int
          BY <2>1
        <4> QED
          BY <4>1, <4>2, <1>2, <1>3, SMTT(30)
      <3>2. stack[i] - 8 \in Headers \ {heapEnd} /\ reserved[stack[i] - 8]
        BY <2>1, <1>0 DEF StackInOrder
      <3>3. stack[i] - 8 \in Headers'
        <4> DEFINE x == stack[i] - 8
        <4>1. x \in Headers /\ x < a /\ x \in Int
          BY <3>1, <3>2, <1>3
        <4>2. x <= a
          BY <4>1, <1>3
        <4> QED
          BY <4>1, <4>2, <1>6
      <3>4. stack[i] - 8 # a
        BY <3>1, <1>3
      <3> QED
        BY <3>1, <3>2, <3>3, <3>4, <1>7
    <2>3. \A i, j \in 1 .. n - 1 : i < j => stack'[i] < stack'[j]
      BY <1>0, <1>2, <1>8, <2>1 DEF StackInOrder
    <2> QED
      BY <2>2, <2>3, <1>8 DEF StackInOrder, Headers, heapEnd
  <1>10. ReservedOnStack'
    <2>1. ASSUME NEW h \in Headers', h # heapEnd, reserved'[h]
          PROVE  \E i \in 1 .. Len(stack') : stack'[i] = h + 8
      <3>1. h \in Headers /\ h # a /\ reserved[h] /\ h \in Int
        BY <2>1, <1>3, <1>7
      <3>2. PICK i \in 1 .. n : stack[i] = h + 8
        BY <3>1, <2>1, <1>0 DEF ReservedOnStack
      <3>3. i # n
        BY <3>1, <3>2, <1>2, <1>3
      <3>4. i \in 1 .. n - 1
        BY <3>2, <3>3, <1>2
      <3> QED
        BY <3>2, <3>4, <1>8
    <2> QED
      BY <2>1 DEF ReservedOnStack, Headers, heapEnd
  <1>11. FreeIsLast'
    <2>1. ASSUME NEW h \in Headers', ~reserved'[h] PROVE nxt'[h] = heapEnd
      BY <2>1, <1>0, <1>7 DEF FreeIsLast
    <2> QED
      BY <2>1 DEF FreeIsLast, Headers, heapEnd
  <1> QED
    BY <1>9, <1>10, <1>11 DEF LifoInv

\* Where only the last block can be free, a refusal means that it is too small.
LEMMA RefusedForWant ==
    ASSUME ClientInv, NEW n \in Sizes, AllocateNull(n)
    PROVE  NullMeansNoMemory'
  <1> SUFFICES ASSUME lifo, NEW a \in Headers, NEW b \in Headers,
                      a < b, \A h \in Headers : a <= h /\ h < b => ~reserved[h]
               PROVE  b - (a + 8) < n
    BY DEF AllocateNull, kallocNull, NullMeansNoMemory, Headers, getDataPtr, heapEntry_headerSize
  <1> USE HeapAssumption
  <1>0. Whole /\ FreeIsLast /\ Intact /\ n \in Nat
    BY DEF ClientInv, LifoInv, IndInv, AllocateNull, kallocNull, Working
  <1>1. a \in Int /\ b \in Int /\ heapEnd \in Int /\ a \in HeapStart .. heapEnd /\ b \in HeapStart .. heapEnd
    BY <1>0, HeadersAreAddresses DEF Whole, Tiles
  <1>2. ~reserved[a]
    BY <1>1
  <1>3. a # heapEnd /\ nxt[a] = heapEnd
    BY <1>0, <1>2 DEF FreeIsLast, Whole, Tiles
  <1>4. b = heapEnd
    BY <1>0, <1>1, <1>3 DEF Whole, Tiles
  <1>5. ~isLast(a)
    BY <1>0, <1>3 DEF Whole, Tiles
  <1>8. n > getSize(a)
    BY <1>2, <1>5 DEF AllocateNull, kallocNull, Suits
  <1>6. nxt[a] >= a + 8
    \* Of a ragged block the size wraps, and no request is too large for it.
    <2> SUFFICES ASSUME nxt[a] < a + 8 PROVE FALSE
      BY <1>1, <1>3
    <2>1. nxt[a] >= a + 5 /\ nxt[a] \in Int
      BY <1>0, <1>1, <1>3, ApartByPosition DEF Intact, Whole
    <2>2. getSize(a) = nxt[a] - a - 8 + Word
      BY <1>1, <2>1 DEF getSize, SubWord, heapEntry_headerSize
    <2>3. n < Word - (HeapStart + MaxSize + 16)
      BY DEF heapEntry_headerSize
    <2> QED
      BY <1>0, <1>1, <1>8, <2>1, <2>2, <2>3
  <1>7. getSize(a) = nxt[a] - a - 8
    BY <1>0, <1>3, <1>6, SizeOfBlock DEF Whole, getDataPtr, heapEntry_headerSize
  <1> QED
    BY <1>1, <1>3, <1>4, <1>7, <1>8

\* A free spoils nothing: it moves no header.
LEMMA FreeKeepsIntact ==
    ASSUME Whole, Intact, NEW a \in Headers, a # heapEnd, free(a)
    PROVE  Intact'
  <1>1. PICK b \in Headers :
          /\ StopsDefragment(a, b)
          /\ nxt' = [h \in {x \in Headers : x <= a \/ x >= b} |-> IF h = a THEN b ELSE nxt[h]]
          /\ reserved' = [h \in {x \in Headers : x <= a \/ x >= b} |->
                              IF h = a THEN FALSE ELSE reserved[h]]
    BY DEF free
  <1>2. Headers' = {x \in Headers : x <= a \/ x >= b}
    BY <1>1 DEF Headers
  <1>3. \A h \in Headers' : h \in Headers /\ (reserved'[h] => reserved[h])
    BY <1>1, <1>2
  <1> QED
    BY <1>3 DEF Intact, FieldsApart, ReservedApart, getDataPtr, heapEntry_headerSize

LEMMA ClientSteps == ClientInv /\ [ClientNext]_clientVars => ClientInv'
  <1> SUFFICES ASSUME ClientInv, [ClientNext]_clientVars PROVE ClientInv'
    OBVIOUS
  <1>0. IndInv'
    BY ClientStep, StepKeepsList DEF ClientInv
  <1>1. CASE \E n \in Sizes : Allocate(n)
    <2>1. PICK n \in Sizes : Allocate(n)
      BY <1>1
    <2>2. call'.ptr # Null
      <3>1. PICK a \in Headers : Suits(a, n) /\ Take(a, n)
        BY <2>1 DEF Allocate, kalloc, FirstFit
      <3>2. a \in HeapStart .. heapEnd
        BY <2>1 DEF ClientInv, IndInv, Whole, Tiles, Allocate, kalloc, Working
      <3> QED
        BY <3>1, <3>2, HeapAssumption DEF Take, getDataPtr, heapEntry_headerSize, Null
    <2>3. lifo' => stack' # <<>>
      <3> SUFFICES ASSUME lifo PROVE Append(stack, call'.ptr) # <<>>
        BY <2>1 DEF Allocate
      <3>1. stack \in Seq(Int)
        BY <2>1 DEF ClientInv, LifoInv, StackInOrder, Allocate, kalloc, Working
      <3>2. call'.ptr \in Int
        BY <1>0 DEF IndInv, TypeOK
      <3> QED
        BY <3>1, <3>2
    <2>4. Intact' => LifoInv'
      BY <2>1, AllocateKeepsOrder
    <2>5. NullMeansNoMemory'
      BY <2>2 DEF NullMeansNoMemory
    <2> QED
      BY <1>0, <2>3, <2>4, <2>5 DEF ClientInv
  <1>2. CASE \E n \in Sizes : AllocateNull(n)
    <2>1. LifoInv'
      BY <1>2 DEF AllocateNull, kallocNull, Working, ClientInv, LifoInv, StackInOrder, ReservedOnStack, FreeIsLast, Headers
    <2>2. Intact'
      BY <1>2 DEF AllocateNull, kallocNull, Working, Intact, FieldsApart, ReservedApart, Headers, isLast
    <2> QED
      BY <1>0, <1>2, <2>1, <2>2, RefusedForWant DEF ClientInv
  <1>3. CASE \E p \in Pointers : FreeNewest(p)
    <2>1. call'.op = "kfree"
      BY <1>3 DEF FreeNewest, kfree
    <2>2. Intact'
      <3>1. PICK p \in Pointers, a \in Headers : Owns(a, p) /\ free(a) /\ Intact
        BY <1>3 DEF FreeNewest, kfree, Working
      <3>2. Whole
        BY <3>1 DEF ClientInv, IndInv
      <3>3. a # heapEnd
        BY <3>1, <3>2 DEF Owns, Whole, Tiles
      <3> QED
        BY <3>1, <3>2, <3>3, FreeKeepsIntact
    <2> QED
      BY <1>0, <1>3, <2>1, <2>2, FreeKeepsOrder DEF ClientInv, NullMeansNoMemory
  <1>4. CASE \E p \in Pointers : FreeOther(p)
    BY <1>0, <1>4 DEF FreeOther, ClientInv, LifoInv, NullMeansNoMemory
  <1>5. CASE UNCHANGED clientVars
    <2>1. (Intact => LifoInv') /\ NullMeansNoMemory'
      BY <1>5 DEF clientVars, ClientInv, LifoInv, StackInOrder, ReservedOnStack, FreeIsLast, Headers, NullMeansNoMemory
    <2>2. Intact' <=> Intact
      BY <1>5 DEF clientVars, Intact, FieldsApart, ReservedApart, Headers, isLast
    <2> QED
      BY <1>0, <1>5, <2>1, <2>2 DEF ClientInv, clientVars
  <1> QED
    BY <1>1, <1>2, <1>3, <1>4, <1>5 DEF ClientNext, Halted, hang, vars, clientVars

-----------------------------------------------------------------------------
\* A client that frees in reverse order and has given everything back finds
\* the heap as heapInitialize left it (memory.cpp:60-79), whatever sizes it
\* asked for and however deep its calls nested.
THEOREM EmptyStackAlwaysEmptyHeap == ClientSpec => []EmptyStackEmptyHeap
  <1>1. ClientSpec => []ClientInv
    BY ClientStarts, ClientSteps, PTL DEF ClientSpec
  <1>2. ClientInv => EmptyStackEmptyHeap
    <2> SUFFICES ASSUME ClientInv, lifo, stack = <<>>
                 PROVE  Headers = {HeapStart, heapEnd} /\ ~reserved[HeapStart]
      BY DEF EmptyStackEmptyHeap
    <2>0. Whole /\ StackInOrder /\ ReservedOnStack /\ FreeIsLast
      BY DEF ClientInv, LifoInv, IndInv
    <2>1. HeapStart \in Headers /\ heapEnd \in Headers /\ HeapStart < heapEnd
          /\ HeapStart \in Int /\ heapEnd \in Int
      BY <2>0, HeapAssumption DEF Whole, Tiles, heapEnd, heapEntry_headerSize
    <2>2. ~reserved[HeapStart]
      BY <2>0, <2>1 DEF ReservedOnStack
    <2>3. nxt[HeapStart] = heapEnd
      BY <2>0, <2>1, <2>2 DEF FreeIsLast
    <2>4. \A h \in Headers : h \in HeapStart .. heapEnd /\ (h <= HeapStart \/ h >= heapEnd)
      BY <2>0, <2>1, <2>3 DEF Whole, Tiles
    <2>5. \A h \in Headers : h = HeapStart \/ h = heapEnd
      BY <2>1, <2>4
    <2> QED
      BY <2>1, <2>2, <2>5
  <1> QED
    BY <1>1, <1>2, PTL

\* For such a client a NULL from allocate means what memory.hpp:62 says: no
\* stretch of free memory would have held the request.
THEOREM NullAlwaysMeansNoMemory == ClientSpec => []NullMeansNoMemory
  <1>1. ClientSpec => []ClientInv
    BY ClientStarts, ClientSteps, PTL DEF ClientSpec
  <1>2. ClientInv => NullMeansNoMemory
    BY DEF ClientInv
  <1> QED
    BY <1>1, <1>2, PTL
=============================================================================
