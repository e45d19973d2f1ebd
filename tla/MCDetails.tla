----------------------------- MODULE MCDetails ------------------------------
(***************************************************************************)
(* Instances of Details for TLC: a show that becomes near and then past,   *)
(* and one without a date.                                                 *)
(***************************************************************************)
EXTENDS Details

CONSTANTS near, undated

MCStarts == [k \in Key |-> IF k = near THEN 1 ELSE None]
=============================================================================
