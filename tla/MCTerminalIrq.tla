---------------------------- MODULE MCTerminalIrq ---------------------------
(***************************************************************************)
(* Instances of TerminalIrq for TLC.                                       *)
(***************************************************************************)
EXTENDS TerminalIrq

ShortWarning == <<"w", Newline>>
=============================================================================
