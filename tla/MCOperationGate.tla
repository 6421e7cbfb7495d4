--------------------------- MODULE MCOperationGate ---------------------------
(***************************************************************************)
(* Three command threads and the three ways a kind may commit: open (begin *)
(* under the commit lock; it activates a project and so cancels exports),  *)
(* review (begin without the lock, one at a time) and export (no lock).    *)
(* Only safety is asked, so that threads may be exchanged.                 *)
(***************************************************************************)
EXTENDS OperationGate, TLC

ThreadSymmetry == Permutations(Tasks)
==============================================================================
