------------------------- MODULE MCVictronCollector -------------------------
(***************************************************************************)
(* Small instances of VictronCollector for TLC.                            *)
(***************************************************************************)
EXTENDS VictronCollector

CONSTANTS d1, d2

Devices == {d1, d2}
=============================================================================
