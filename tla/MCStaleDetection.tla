-------------------------- MODULE MCStaleDetection --------------------------
(***************************************************************************)
(* Small instances of StaleDetection for TLC.  The ages are bounded by the *)
(* system itself, once the check bounds the silence.                       *)
(***************************************************************************)
EXTENDS StaleDetection
=============================================================================
