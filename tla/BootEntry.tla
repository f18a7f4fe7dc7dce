------------------------------ MODULE BootEntry -----------------------------
(***************************************************************************)
(* From the BIOS's jump to the boot sector to protected mode: Stage0, then *)
(* EnableA20.  Stage 1 starts where stage 0 jumps to, with interrupts on,  *)
(* segments and stack as stage 0 set them.                                 *)
(***************************************************************************)
EXTENDS Stage0, EnableA20

entryVars == <<s0Vars, vars>>

EntryInit == Stage0Init /\ Init

InStage0 == Stage0Next /\ UNCHANGED vars

InStage1 == s0 = "jumped" /\ Next /\ UNCHANGED s0Vars

EntryNext == InStage0 \/ InStage1

\* The processor runs, the BIOS and the controller answer, interrupts are
\* delivered; nobody has to press a key.
EntrySpec ==
    /\ EntryInit
    /\ [][EntryNext]_entryVars
    /\ WF_entryVars(InStage0)
    /\ WF_entryVars(InStage1 /\ Processor)
    /\ WF_entryVars(InStage1 /\ (command \/ outputPort))
    /\ WF_entryVars(InStage1 /\ irq1)

-----------------------------------------------------------------------------
\* The way to protected mode ends: no busy wait lasts for ever, because with
\* interrupts off nobody else takes the answer that .a20_wait_2 waits for
\* (stage1.S:216).
EntryEnds == <>(s0 = "halted" \/ pc \in {"protected", "halted", "reset"})
=============================================================================
