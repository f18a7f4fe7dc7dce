----------------------------- MODULE HeapClient -----------------------------
(***************************************************************************)
(* The heap under a client that allocates and frees as it likes.  As long  *)
(* as it frees its buffers in the reverse order of their allocation, the   *)
(* order of scratch buffers of nested calls, the heap does not fragment.   *)
(* free (memory.cpp:60-68) only merges a block with the blocks after it,   *)
(* which a FIXME there calls into question; this module says for which     *)
(* clients that is enough.                                                 *)
(***************************************************************************)
EXTENDS Heap, Sequences

VARIABLES
    stack,   \* pointers the client holds, the newest last
    lifo     \* every free so far was of the newest buffer

clientVars == <<nxt, reserved, panicked, call, stack, lifo>>

ClientInit == Init /\ stack = <<>> /\ lifo = TRUE

Allocate(n) ==
    /\ kalloc(n)
    /\ stack' = IF lifo THEN Append(stack, call'.ptr) ELSE stack
    /\ UNCHANGED lifo

AllocateNull(n) ==
    /\ kallocNull(n)
    /\ UNCHANGED <<stack, lifo>>

Newest(p) == lifo /\ stack # <<>> /\ p = stack[Len(stack)]

FreeNewest(p) ==
    /\ Newest(p)
    /\ kfree(p)
    /\ stack' = SubSeq(stack, 1, Len(stack) - 1)
    /\ UNCHANGED lifo

FreeOther(p) ==
    /\ ~Newest(p)
    /\ kfree(p) \/ kfreePanic(p)
    /\ stack' = <<>>
    /\ lifo' = FALSE

Halted == hang /\ UNCHANGED <<stack, lifo>>

ClientNext ==
    \/ \E n \in Sizes : Allocate(n)
    \/ \E n \in Sizes : AllocateNull(n)
    \/ \E p \in Pointers : FreeNewest(p)
    \/ \E p \in Pointers : FreeOther(p)
    \/ Halted

ClientSpec == ClientInit /\ [][ClientNext]_clientVars

-----------------------------------------------------------------------------
\* A client that frees in reverse order, when it has given everything back,
\* finds the heap as heapInitialize left it: one free block of full size,
\* nothing lost (memory.cpp:66: merging forward is all the merging there is).
EmptyStackEmptyHeap ==
    lifo /\ stack = <<>> =>
        /\ Headers = {HeapStart, heapEnd}
        /\ ~reserved[HeapStart]

\* "if NULL, then there wasn't enough memory" (memory.hpp:62): for such a
\* client, when allocate returns NULL no stretch of free blocks would have held
\* the request.  For other clients adjacent free blocks may have.
NullMeansNoMemory ==
    lifo /\ call.op = "kalloc" /\ call.ptr = Null =>
        \A a, b \in Headers :
            a < b /\ (\A h \in Headers : a <= h /\ h < b => ~reserved[h]) =>
                b - getDataPtr(a) < call.arg
=============================================================================
