-------------------------------- MODULE Cells --------------------------------
(***************************************************************************)
(* What the calculations share: the null cell, and the answer of a route   *)
(* that gives an error.                                                    *)
(***************************************************************************)
CONSTANT Null

Refused == [refused |-> TRUE]
=============================================================================
