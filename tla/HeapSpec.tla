------------------------------ MODULE HeapSpec ------------------------------
(***************************************************************************)
(* What a caller of the allocator (kalloc/kfree, operator new/delete)      *)
(* relies on, with no header and no list: a set of live buffers inside an  *)
(* arena.  Heap.tla, translated from lib/earlyLib/memory.cpp, is shown to  *)
(* implement it.                                                           *)
(***************************************************************************)
EXTENDS Integers

CONSTANTS
    ArenaLow,    \* first address of the arena
    ArenaHigh,   \* first address after the arena
    Requests,    \* sizes a caller may ask for
    NoBuffer     \* the null pointer

VARIABLES
    live,        \* buffers handed out and not given back: [ptr, size]
    panicked,    \* earlyPanic was called: the machine has stopped
    answer       \* pointer the last call returned, the null pointer if none

vars == <<live, panicked, answer>>

Overlap(x, y) ==
    /\ x.ptr < y.ptr + y.size
    /\ y.ptr < x.ptr + x.size

Init ==
    /\ live = {}
    /\ panicked = FALSE
    /\ answer = NoBuffer

(***************************************************************************)
(* An allocation hands out memory nobody else holds, at least as large as  *)
(* the request ...                                                         *)
(***************************************************************************)
Serve(n) ==
    /\ ~panicked
    /\ answer' \in (ArenaLow .. ArenaHigh) \ {NoBuffer}
    /\ \E m \in n .. (ArenaHigh - answer') :
          LET b == [ptr |-> answer', size |-> m] IN
          /\ \A x \in live : x.ptr # b.ptr /\ ~Overlap(x, b)
          /\ live' = live \cup {b}
    /\ UNCHANGED panicked

(***************************************************************************)
(* ... or the null pointer, and then nothing changed hands.  Giving back   *)
(* what is not a live buffer may be harmless in the same way.              *)
(***************************************************************************)
ChangeNothing ==
    /\ ~panicked
    /\ answer' = NoBuffer
    /\ UNCHANGED <<live, panicked>>

(***************************************************************************)
(* Giving a live buffer back ends that buffer and no other one.            *)
(***************************************************************************)
GiveBack(b) ==
    /\ ~panicked
    /\ live' = live \ {b}
    /\ answer' = NoBuffer
    /\ UNCHANGED panicked

(***************************************************************************)
(* Giving back what is not a live buffer may also be fatal.                *)
(***************************************************************************)
Fail ==
    /\ ~panicked
    /\ panicked' = TRUE
    /\ answer' = NoBuffer
    /\ UNCHANGED live

Next ==
    \/ \E n \in Requests : Serve(n)
    \/ ChangeNothing
    \/ \E b \in live : GiveBack(b)
    \/ Fail

Spec == Init /\ [][Next]_vars
=============================================================================
