---------------------------- MODULE ProjectShelf ----------------------------
(***************************************************************************)
(* What the project catalogue promises, without files, transactions,       *)
(* crashes or cleanups: every project has the dataset it was last saved    *)
(* with and the earlier datasets one can go back to, newest first.         *)
(***************************************************************************)
EXTENDS Naturals, Sequences, FiniteSets

CONSTANTS
    Projects,
    Datasets,       \* what can be saved
    NoDataset,      \* the dataset of a project that does not exist
    Capacity        \* the earlier datasets kept at most

VARIABLES current, earlier

shelf == <<current, earlier>>

Increasing(f) == \A a, b \in DOMAIN f : a < b => f[a] < f[b]

(* What may be left of a list once the oldest have been thinned out: the   *)
(* newest always stays.                                                    *)
Thinned(list) ==
    UNION {{[n \in 1 .. Cardinality(I) |-> list[f[n]]] :
               f \in {g \in [1 .. Cardinality(I) -> I] : Increasing(g)}} :
           I \in {J \in SUBSET DOMAIN list :
                    1 \in J /\ Cardinality(J) <= Capacity}}

OnTheShelf(d) ==
    \E j \in Projects : d = current[j] \/ \E i \in DOMAIN earlier[j] : d = earlier[j][i]

Init ==
    /\ current = [j \in Projects |-> NoDataset]
    /\ earlier = [j \in Projects |-> <<>>]

Create(j) ==
    /\ current[j] = NoDataset
    /\ \E d \in Datasets : ~OnTheShelf(d) /\ current' = [current EXCEPT ![j] = d]
    /\ UNCHANGED earlier

(* Whatever replaces the dataset of a project, what it held until then     *)
(* becomes the newest of the earlier ones.                                 *)
Replace(j, d) ==
    /\ current[j] # NoDataset
    /\ current' = [current EXCEPT ![j] = d]
    /\ \E kept \in Thinned(<<current[j]>> \o earlier[j]) :
         earlier' = [earlier EXCEPT ![j] = kept]

Save(j) == \E d \in Datasets : ~OnTheShelf(d) /\ Replace(j, d)

Restore(j) == \E i \in DOMAIN earlier[j] : Replace(j, earlier[j][i])

Delete(j) ==
    /\ current[j] # NoDataset
    /\ current' = [current EXCEPT ![j] = NoDataset]
    /\ earlier' = [earlier EXCEPT ![j] = <<>>]

Next == \E j \in Projects : Create(j) \/ Save(j) \/ Restore(j) \/ Delete(j)

Spec == Init /\ [][Next]_shelf
=============================================================================
