-------------------------- MODULE MCConfiguration --------------------------
(***************************************************************************)
(* Small instances of Configuration for TLC: two IDs; one address in two   *)
(* spellings, another in one, and a name; option values on both sides of   *)
(* every default and limit.                                                *)
(***************************************************************************)
EXTENDS Configuration

CONSTANTS upper, lower, another, address1, address2

Spellings == {upper, lower, another}

Addresses ==
  [s \in Spellings |-> IF s = another THEN address2 ELSE address1]

OptionValues == {-1, 0, 1, 5, 10, 60, 90, 100}
=============================================================================
