--------------------------- MODULE MCReadingQueue ---------------------------
(***************************************************************************)
(* Small instances of ReadingQueue for TLC.                                *)
(***************************************************************************)
EXTENDS ReadingQueue

CONSTANTS d1, d2, r1, r2, r3, r4

Dispatchers == {d1, d2}
Readings == {r1, r2, r3, r4}
=============================================================================
