-------------------------- MODULE MCProjectCatalog --------------------------
(* Instances of ProjectCatalog for TLC.                                    *)
EXTENDS ProjectCatalog, TLC

CONSTANTS small1, small2, small3, large1, large2, large3, history1

(* Datasets of one unit, datasets over the threshold and the quota, and a  *)
(* large one whose history is on.                                          *)
MCShape ==
    [g \in Generations |->
        CASE g \in {small1, small2, small3} -> [current |-> 1, history |-> 0]
          [] g \in {large1, large2, large3} -> [current |-> 3, history |-> 0]
          [] OTHER                          -> [current |-> 3, history |-> 1]]

(* Generations of one shape differ in nothing but their names.             *)
Symmetry == Permutations({small1, small2, small3} \cap Generations)
              \cup Permutations({large1, large2, large3} \cap Generations)
=============================================================================
