----------------------------- MODULE MCBootEntry ----------------------------
(***************************************************************************)
(* Disks for BootEntry: with and without the signature of stage 1, and     *)
(* with a sector count that was not filled in.                             *)
(***************************************************************************)
EXTENDS BootEntry

SomeDisks == [magic : BOOLEAN, sectors : {0, 1, 3}]
=============================================================================
