------------------------- MODULE MCInserterProcess -------------------------
(***************************************************************************)
(* Small instances of InserterProcess for TLC.                             *)
(***************************************************************************)
EXTENDS InserterProcess
=============================================================================
