------------------------------- MODULE MCHeap -------------------------------
(***************************************************************************)
(* Instance of HeapClient for TLC: an arena of a few blocks.               *)
(***************************************************************************)
EXTENDS HeapClient

\* Requests of any size, as the boot loader and the kernel make them.
AnySizes == {0, 1, 4, 8, 11, 16}

\* Null and every address of the arena.
ArenaPointers == {Null} \cup (HeapStart .. HeapStart + MaxSize)
=============================================================================
