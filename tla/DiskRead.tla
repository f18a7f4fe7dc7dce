------------------------------ MODULE DiskRead ------------------------------
(***************************************************************************)
(* diskRead16 of lib/earlyLib/diskRead16.cpp: a read of any length done as *)
(* BIOS requests of at most MAX_SECTORS sectors, each into a bounce buffer *)
(* below 1 MiB from which memmove copies it to the caller's buffer.        *)
(*                                                                         *)
(* A sector's content is named by its LBA.  Buffers are functions from     *)
(* sector positions to contents; the BIOS call of asmCall_int13.S may      *)
(* fail.  How it gets to real mode and back is RealMode.tla; BiosRead.tla  *)
(* puts the two together.                                                  *)
(***************************************************************************)
EXTENDS Integers

CONSTANTS
    MAX_SECTORS,   \* sectors per BIOS request: 127 in the code
    MaxRequest,    \* longest read a caller asks for
    FirstLBAs      \* where the reads start

ASSUME DiskReadAssumption ==
    /\ MAX_SECTORS \in Nat \ {0}
    /\ MaxRequest \in Nat
    /\ FirstLBAs \subseteq Nat

VARIABLES
    LBA, sectors,           \* the arguments
    i,                      \* loop counter
    currentLBA,             \* first sector of the next request
    currentBuffer,          \* position in the caller's buffer
    dap,                    \* disk address packet: first sector and count
    bounce,                 \* the BIOS buffer at _disk_read_location
    buffer,                 \* what was copied out, by position
    pc                      \* "fill", "int13", "failed", "move", "returned", "panic"

vars == <<LBA, sectors, i, currentLBA, currentBuffer, dap, bounce, buffer, pc>>

iterations == sectors \div MAX_SECTORS

currentSectors == IF i = iterations THEN sectors - MAX_SECTORS * iterations ELSE MAX_SECTORS

NoSectors == [k \in {} |-> 0]

Init ==
    /\ LBA \in FirstLBAs
    /\ sectors \in 0 .. MaxRequest
    /\ i = 0
    /\ currentLBA = LBA
    /\ currentBuffer = 0
    /\ dap = [lba |-> 0, n |-> 0]
    /\ bounce = NoSectors
    /\ buffer = NoSectors
    /\ pc = "fill"

\* Mutant of More: the last, partial request is not made.
MoreWholeOnly == i < iterations

\* The loop runs while i <= iterations.
More == i <= iterations

fillDAP ==
    /\ pc = "fill" /\ More
    /\ dap' = [lba |-> currentLBA, n |-> currentSectors]
    /\ pc' = "int13"
    /\ UNCHANGED <<LBA, sectors, i, currentLBA, currentBuffer, bounce, buffer>>

\* int 13h, ah = 42h: the bounce buffer receives the
\* sectors the packet names ...
int13 ==
    /\ pc = "int13"
    /\ bounce' = [k \in 0 .. dap.n - 1 |-> dap.lba + k]
    /\ pc' = "move"
    /\ UNCHANGED <<LBA, sectors, i, currentLBA, currentBuffer, dap, buffer>>

\* Mutant of int13Fails: it tries again for ever.
int13Retries ==
    /\ pc = "int13"
    /\ pc' = "fill"
    /\ UNCHANGED <<LBA, sectors, i, currentLBA, currentBuffer, dap, bounce, buffer>>

\* ... or carry comes back set, ah goes to the result ...
int13Fails ==
    /\ pc = "int13"
    /\ pc' = "failed"
    /\ UNCHANGED <<LBA, sectors, i, currentLBA, currentBuffer, dap, bounce, buffer>>

\* ... and the boot stops.
earlyPanic ==
    /\ pc = "failed"
    /\ pc' = "panic"
    /\ UNCHANGED <<LBA, sectors, i, currentLBA, currentBuffer, dap, bounce, buffer>>

Step == MAX_SECTORS

\* memmove out of the bounce buffer, then advance.
moveOut ==
    /\ pc = "move"
    /\ buffer' = [k \in DOMAIN buffer \cup
                        (currentBuffer .. currentBuffer + currentSectors - 1) |->
                    IF k >= currentBuffer /\ k - currentBuffer \in DOMAIN bounce
                    THEN bounce[k - currentBuffer]
                    ELSE buffer[k]]
    /\ currentBuffer' = currentBuffer + MAX_SECTORS
    /\ currentLBA' = currentLBA + Step
    /\ i' = i + 1
    /\ pc' = "fill"
    /\ UNCHANGED <<LBA, sectors, dap, bounce>>

return ==
    /\ pc = "fill" /\ ~More
    /\ pc' = "returned"
    /\ UNCHANGED <<LBA, sectors, i, currentLBA, currentBuffer, dap, bounce, buffer>>

Call == int13 \/ int13Fails

Next == fillDAP \/ Call \/ earlyPanic \/ moveOut \/ return

-----------------------------------------------------------------------------
\* Between requests the caller's buffer holds the first sectors of the read,
\* each in its place, and not one sector more than was asked for
\* (diskRead16.cpp:44-62); a read that returns read everything, whichever of
\* its requests was the partial one.
PrefixInPlace ==
    /\ DOMAIN buffer \subseteq 0 .. sectors - 1
    /\ \A k \in DOMAIN buffer : buffer[k] = LBA + k
    /\ \A k \in 0 .. sectors - 1 :
          k < currentBuffer \/ pc = "returned" => k \in DOMAIN buffer
=============================================================================
