------------------------------- MODULE Stage0 -------------------------------
(***************************************************************************)
(* The boot sector, bootloader/stage0.S: it moves itself out of the way,   *)
(* reads the first sector of stage 1, checks its signature, reads as many  *)
(* sectors as that sector says and jumps into them.                        *)
(*                                                                         *)
(* A sector's content is named by its LBA; memory is the buffer at         *)
(* _heap_location, by sectors.  The disk address packet at                 *)
(* _dap_memory_location is filled field by field except for the upper half *)
(* of its LBA, which keeps what memory held.  The BIOS is external.        *)
(***************************************************************************)
EXTENDS Integers

CONSTANTS
    Disks,       \* sector 1 of a disk: [magic |-> BOOLEAN, sectors |-> Nat]
    Uppers       \* what memory may hold where the upper half of the LBA is

ASSUME Stage0Assumption ==
    /\ \A d \in Disks : d.magic \in BOOLEAN /\ d.sectors \in Nat
    /\ Uppers \subseteq Nat

VARIABLES
    s0,          \* next step, after the labels of the code
    disk,        \* the disk booted from
    low,         \* the code runs in its copy at _final_mbr_address
    packet,      \* the disk address packet: count, lba and its upper half
    loaded,      \* the buffer at _heap_location
    message      \* what error printed

s0Vars == <<s0, disk, low, packet, loaded, message>>

Stage0Init ==
    /\ s0 = "_start"
    /\ disk \in Disks
    /\ low = FALSE
    /\ \E u \in Uppers : packet = [n |-> 0, lba |-> 0, upper |-> u]
    /\ loaded = [k \in {} |-> 0]
    /\ message = "none"

\* Interrupts off, segments 0, 256 words copied, far jump into the copy, a
\* stack below it, interrupts on.
start0 ==
    /\ s0 = "_start"
    /\ low' = TRUE
    /\ s0' = "reset"
    /\ UNCHANGED <<disk, packet, loaded, message>>

\* jc error: a message, then the processor halts.
error0(msg) ==
    /\ message' = msg
    /\ s0' = "halted"
    /\ UNCHANGED <<disk, low, loaded>>

resetDisk ==
    /\ s0 = "reset"
    /\ \/ s0' = "first sector" /\ UNCHANGED <<disk, low, loaded, message>>
       \/ error0("Reset controller failed")
    /\ UNCHANGED packet

(***************************************************************************)
(* lba_read.  The BIOS may fail any request, and fails one that is not on  *)
(* the disk; a request for no sector may do nothing.                       *)
(***************************************************************************)
Packet(n, lba) == [packet EXCEPT !.n = n, !.lba = lba]

lba_read(n, lba, to) ==
    /\ packet' = Packet(n, lba)
    /\ \/ /\ packet'.upper = 0
          /\ loaded' = [k \in DOMAIN loaded \cup (0 .. n - 1) |->
                           IF k < n THEN packet'.lba + k ELSE loaded[k]]
          /\ s0' = to
          /\ UNCHANGED <<disk, low, message>>
       \/ error0("Read")

readFirst ==
    /\ s0 = "first sector"
    /\ lba_read(1, 1, "signature")

\* cmp %ax, %bx; jne error
checkMagic ==
    /\ s0 = "signature"
    /\ \/ /\ loaded[0] = 1 /\ disk.magic
          /\ s0' = "all sectors"
          /\ UNCHANGED <<disk, low, loaded, message>>
       \/ /\ ~(loaded[0] = 1 /\ disk.magic)
          /\ error0("Stage1 magic not found")
    /\ UNCHANGED packet

\* Mutant of FirstLBA: the sectors after the one that was read.
FirstLBANext == 2

FirstLBA == 1

readAll ==
    /\ s0 = "all sectors"
    /\ lba_read(disk.sectors, FirstLBA, "jumped")

Stage0Next == start0 \/ resetDisk \/ readFirst \/ checkMagic \/ readAll

-----------------------------------------------------------------------------
\* Stage 1 gets control only when all of it is in memory, from its signature
\* on and in order, and the code that loaded it was not in the way
\* (stage0.S:51-87); a signature whose sector count is 0, which the build
\* script has to replace (stage1.S:20), loads the first sector alone.
Stage1InMemory ==
    s0 = "jumped" =>
        /\ disk.magic /\ low
        /\ \A k \in 0 .. disk.sectors - 1 : k \in DOMAIN loaded /\ loaded[k] = 1 + k
        /\ 0 \in DOMAIN loaded /\ loaded[0] = 1
=============================================================================
