------------------------------ MODULE MCSession ------------------------------
(***************************************************************************)
(* Three commands under way.  The first two replace or read the dataset in *)
(* every combination of lock orders the code has; the third is one of the  *)
(* short commands the interface can send meanwhile.                        *)
(***************************************************************************)
EXTENDS Session

CONSTANTS t1, t2, t3

MCMenu ==
  [t \in Tasks |->
     CASE t = t1 -> {"open", "load", "convert", "prepare", "consolidate"}
       [] t = t2 -> {"restore", "save", "sheets", "profile", "compare", "join",
                     "query", "convert"}
       [] t = t3 -> {"inspect", "discard", "clear", "conflicts", "cancelLoad",
                     "cancelOpen", "cancelPrepare", "cancelReview"}]
==============================================================================
