------------------------ MODULE MCBatterySupervisor ------------------------
(***************************************************************************)
(* Small instances of BatterySupervisor for TLC: two batteries, one or     *)
(* both of them matched by name.                                           *)
(***************************************************************************)
EXTENDS BatterySupervisor

CONSTANTS b1, b2

Batteries == {b1, b2}
FirstOnly == {b1}
=============================================================================
