------------------------------ MODULE FoldLemmas ------------------------------
(***************************************************************************)
(* Lemmas that the other proofs share: a least element to argue from where *)
(* an induction is meant, and sums over finite sets.                       *)
(***************************************************************************)
EXTENDS FiniteSetsExt, FiniteSetTheorems, WellFoundedInduction, TLAPS

(* A set of naturals has a least element.                                  *)
LEMMA LeastElement ==
  ASSUME NEW S \in SUBSET Nat, S # {}
  PROVE  \E i \in S : \A j \in S : i <= j
<1> DEFINE R == OpToRel(<, Nat)
<1>1. IsWellFoundedOn(R, Nat)
  BY NatLessThanWellFounded
<1>2. PICK i \in S : \A j \in S : ~ (<<j, i>> \in R)
  <2> HIDE DEF R
  <2> QED
    BY <1>1, WFMin
<1>3. ASSUME NEW j \in S, j < i
      PROVE  FALSE
  <2>1. <<j, i>> \in R
    BY <1>3 DEF OpToRel
  <2> QED
    BY <1>2, <2>1
<1> QED
  BY <1>3
-----------------------------------------------------------------------------
(* Sums over finite sets.                                                  *)

(* A nonempty set of finite sets has one with no more elements than the    *)
(* others.                                                                 *)
LEMMA SmallestSet ==
  ASSUME NEW C, C # {}, \A T \in C : IsFiniteSet(T)
  PROVE  \E T \in C : \A U \in C : ~ (Cardinality(U) < Cardinality(T))
<1> DEFINE Sizes == {Cardinality(T) : T \in C}
<1>1. Sizes \in SUBSET Nat /\ Sizes # {}
  BY FS_CardinalityType
<1>2. PICK n \in Sizes : \A k \in Sizes : n <= k
  <2> HIDE DEF Sizes
  <2> QED
    BY <1>1, LeastElement
<1>3. PICK T \in C : n = Cardinality(T)
  OBVIOUS
<1>4. ASSUME NEW U \in C
      PROVE  ~ (Cardinality(U) < Cardinality(T))
  BY <1>1, <1>2, <1>3
<1> QED
  BY <1>4

(* f gives the sum of b over every subset of S: whichever element is taken *)
(* away first.                                                             *)
Adds(f, b, S) ==
    /\ f \in [SUBSET S -> Nat]
    /\ f[{}] = 0
    /\ \A s \in SUBSET S : \A x \in s : f[s] = b[x] + f[s \ {x}]

(* Every finite set of sizes has a sum: of the sets that have none, one    *)
(* without smaller ones would have one.                                    *)
LEMMA SumExists ==
  ASSUME NEW S, IsFiniteSet(S), NEW b \in [S -> Nat]
  PROVE  \E f : Adds(f, b, S)
<1> DEFINE C == {T \in SUBSET S : ~ \E f : Adds(f, b, T)}
<1> SUFFICES ASSUME C # {} PROVE FALSE
  OBVIOUS
<1>1. \A T \in C : IsFiniteSet(T)
  BY FS_Subset
<1>2. PICK T \in C : \A U \in C : ~ (Cardinality(U) < Cardinality(T))
  <2> HIDE DEF C
  <2> QED
    BY <1>1, SmallestSet
<1>3. T \in SUBSET S /\ IsFiniteSet(T) /\ ~ \E f : Adds(f, b, T)
  BY <1>1, <1>2
<1>4. T # {}
  <2>1. ASSUME T = {} PROVE Adds([s \in SUBSET {} |-> 0], b, T)
    BY <2>1 DEF Adds
  <2> QED
    BY <1>3, <2>1
<1>5. PICK x : x \in T
  BY <1>4
<1>6. Cardinality(T \ {x}) < Cardinality(T)
  <2>1. Cardinality(T \ {x}) = Cardinality(T) - 1 /\ Cardinality(T) \in Nat
    BY <1>3, <1>5, FS_RemoveElement, FS_CardinalityType
  <2> QED
    BY <2>1
<1>7. PICK f : Adds(f, b, T \ {x})
  BY <1>2, <1>3, <1>6
<1> DEFINE F == [s \in SUBSET T |-> IF x \in s THEN b[x] + f[s \ {x}] ELSE f[s]]
<1>8. b[x] \in Nat /\ \A y \in T : b[y] \in Nat
  BY <1>3, <1>5
<1>9. \A s \in SUBSET T : s \ {x} \in SUBSET (T \ {x}) /\ f[s \ {x}] \in Nat
  BY <1>7 DEF Adds
<1>10. \A s \in SUBSET T : x \notin s => s \in SUBSET (T \ {x}) /\ f[s] \in Nat
  BY <1>7 DEF Adds
<1>11. F \in [SUBSET T -> Nat]
  BY <1>8, <1>9, <1>10
<1>12. F[{}] = 0
  BY <1>7 DEF Adds
<1>13. ASSUME NEW s \in SUBSET T, NEW y \in s
       PROVE  F[s] = b[y] + F[s \ {y}]
  <2>1. s \ {y} \in SUBSET T
    OBVIOUS
  <2>2. CASE y = x
    <3>1. F[s] = b[x] + f[s \ {x}]
      BY <2>2
    <3>2. F[s \ {x}] = f[s \ {x}]
      BY <2>1, <2>2
    <3> QED
      BY <2>2, <3>1, <3>2
  <2>3. CASE y # x /\ x \in s
    <3>1. F[s] = b[x] + f[s \ {x}]
      BY <2>3
    <3>2. F[s \ {y}] = b[x] + f[(s \ {y}) \ {x}]
      BY <2>1, <2>3
    <3>3. (s \ {y}) \ {x} = (s \ {x}) \ {y}
      OBVIOUS
    <3>4. f[s \ {x}] = b[y] + f[(s \ {x}) \ {y}]
      BY <1>7, <1>9, <2>3 DEF Adds
    <3>5. f[(s \ {x}) \ {y}] \in Nat
      BY <1>9, <2>1, <3>3
    <3>6. F[s] = b[x] + (b[y] + f[(s \ {x}) \ {y}]) /\ F[s \ {y}] = b[x] + f[(s \ {x}) \ {y}]
      BY <3>1, <3>2, <3>3, <3>4
    <3>7. b[y] \in Nat
      BY <1>8
    <3> HIDE DEF F
    <3> QED
      BY <1>8, <3>5, <3>6, <3>7
  <2>4. CASE y # x /\ x \notin s
    <3>1. F[s] = f[s] /\ F[s \ {y}] = f[s \ {y}]
      BY <2>1, <2>4
    <3>2. f[s] = b[y] + f[s \ {y}]
      BY <1>7, <1>10, <2>4 DEF Adds
    <3> QED
      BY <3>1, <3>2
  <2> QED
    BY <2>2, <2>3, <2>4
<1>14. Adds(F, b, T)
  <2> HIDE DEF F
  <2> QED
    BY <1>11, <1>12, <1>13 DEF Adds
<1> QED
  BY <1>3, <1>14

(* The fold of the sum takes away the elements in an order of its own.     *)
Folds(g, b, S) ==
    g = [s \in SUBSET S |->
           IF s = {} THEN 0
           ELSE LET x == CHOOSE y \in s : TRUE
                IN  b[x] + g[s \ {x}]]

(* A sum adds the chosen element first, as the fold of the community       *)
(* modules does.                                                           *)
LEMMA SumFolds ==
  ASSUME NEW S, NEW b, NEW f, Adds(f, b, S)
  PROVE  Folds(f, b, S)
<1>1. ASSUME NEW s \in SUBSET S, s # {}
      PROVE  f[s] = b[CHOOSE y \in s : TRUE] + f[s \ {CHOOSE y \in s : TRUE}]
  <2>1. (CHOOSE y \in s : TRUE) \in s
    BY <1>1
  <2> QED
    BY <2>1 DEF Adds
<1> QED
  BY <1>1 DEF Adds, Folds

(* That fold computes the sum.                                             *)
LEMMA FoldIsSum ==
  ASSUME NEW S, IsFiniteSet(S), NEW b, NEW f, Adds(f, b, S), NEW g, Folds(g, b, S)
  PROVE  g[S] = f[S]
<1> DEFINE C == {s \in SUBSET S : g[s] # f[s]}
<1> SUFFICES ASSUME C # {} PROVE FALSE
  OBVIOUS
<1>1. \A s \in C : IsFiniteSet(s)
  BY FS_Subset
<1>2. PICK s \in C : \A U \in C : ~ (Cardinality(U) < Cardinality(s))
  <2> HIDE DEF C
  <2> QED
    BY <1>1, SmallestSet
<1>3. s \in SUBSET S /\ g[s] # f[s]
  BY <1>2
<1>4. s # {}
  BY <1>3 DEF Adds, Folds
<1> DEFINE x == CHOOSE y \in s : TRUE
<1>5. x \in s
  BY <1>4
<1>6. g[s] = b[x] + g[s \ {x}]
  BY <1>3, <1>4 DEF Folds
<1>7. f[s] = b[x] + f[s \ {x}]
  BY <1>3, <1>5 DEF Adds
<1> HIDE DEF x
<1>8. Cardinality(s \ {x}) < Cardinality(s)
  <2>1. Cardinality(s \ {x}) = Cardinality(s) - 1 /\ Cardinality(s) \in Nat
    BY <1>1, <1>2, <1>5, FS_RemoveElement, FS_CardinalityType
  <2> QED
    BY <2>1
<1>9. s \ {x} \in SUBSET S /\ s \ {x} \notin C
  BY <1>2, <1>3, <1>8
<1>10. g[s \ {x}] = f[s \ {x}]
  BY <1>9
<1> QED
  BY <1>3, <1>6, <1>7, <1>10


(* A sum is positive exactly when something in it is.                      *)
LEMMA SumIsPositive ==
  ASSUME NEW S, IsFiniteSet(S), NEW b \in [S -> Nat], NEW f, Adds(f, b, S)
  PROVE  f[S] \in Nat /\ (f[S] > 0 <=> \E x \in S : b[x] > 0)
<1>1. \A s \in SUBSET S : f[s] \in Nat
  BY DEF Adds
<1>2. ASSUME NEW x \in S, b[x] > 0
      PROVE  f[S] > 0
  <2>1. f[S] = b[x] + f[S \ {x}]
    BY DEF Adds
  <2>2. f[S \ {x}] \in Nat /\ b[x] \in Nat
    BY <1>1
  <2> QED
    BY <1>2, <2>1, <2>2
<1>3. ASSUME \A x \in S : b[x] = 0
      PROVE  f[S] = 0
  <2> DEFINE C == {s \in SUBSET S : f[s] # 0}
  <2> SUFFICES ASSUME C # {} PROVE FALSE
    OBVIOUS
  <2>1. \A s \in C : IsFiniteSet(s)
    BY FS_Subset
  <2>2. PICK s \in C : \A U \in C : ~ (Cardinality(U) < Cardinality(s))
    <3> HIDE DEF C
    <3> QED
      BY <2>1, SmallestSet
  <2>3. s \in SUBSET S /\ f[s] # 0 /\ IsFiniteSet(s)
    BY <2>1, <2>2
  <2>4. PICK x : x \in s
    BY <2>3 DEF Adds
  <2>5. f[s] = b[x] + f[s \ {x}] /\ b[x] = 0 /\ f[s \ {x}] \in Nat
    BY <1>1, <1>3, <2>3, <2>4 DEF Adds
  <2>6. Cardinality(s \ {x}) < Cardinality(s)
    <3>1. Cardinality(s \ {x}) = Cardinality(s) - 1 /\ Cardinality(s) \in Nat
      BY <2>3, <2>4, FS_RemoveElement, FS_CardinalityType
    <3> QED
      BY <3>1
  <2>7. f[s \ {x}] = 0
    BY <2>2, <2>3, <2>6
  <2> QED
    BY <2>3, <2>5, <2>7
<1>4. f[S] \in Nat
  BY <1>1
<1>5. \A x \in S : b[x] > 0 \/ b[x] = 0
  OBVIOUS
<1> QED
  BY <1>2, <1>3, <1>4, <1>5
-----------------------------------------------------------------------------
(* The elements of a set in their order.                                   *)

(* How many elements of M are less than i, and the n-th element.           *)
RankIn(M, i) == Cardinality({j \in M : j < i})
NthOf(M, n) == CHOOSE i \in M : Cardinality({j \in M : j < i}) = n - 1

(* A rank grows with the number, by one where an element is passed.        *)
LEMMA RankGrows ==
  ASSUME NEW M \in SUBSET Nat, IsFiniteSet(M)
  PROVE  /\ Cardinality(M) \in Nat
         /\ \A i \in Nat : RankIn(M, i) \in Nat /\ RankIn(M, i) <= Cardinality(M)
         /\ \A i \in Nat : i \in M => RankIn(M, i + 1) = RankIn(M, i) + 1
         /\ \A i \in Nat : i \notin M => RankIn(M, i + 1) = RankIn(M, i)
         /\ \A i, j \in Nat : i <= j => RankIn(M, i) <= RankIn(M, j)
<1> DEFINE B(i) == {j \in M : j < i}
<1>1. \A i : IsFiniteSet(B(i)) /\ Cardinality(B(i)) \in Nat /\ Cardinality(B(i)) <= Cardinality(M)
  <2> TAKE i
  <2>1. B(i) \in SUBSET M
    OBVIOUS
  <2> HIDE DEF B
  <2> QED
    BY <2>1, FS_Subset, FS_CardinalityType
<1>2. ASSUME NEW i \in Nat, i \in M
      PROVE  Cardinality(B(i + 1)) = Cardinality(B(i)) + 1
  <2>0. \A j \in M : j \in Nat /\ (j < i + 1 <=> j < i \/ j = i)
    OBVIOUS
  <2>1. B(i + 1) = B(i) \cup {i}
    <3>1. \A j : j \in B(i + 1) <=> j \in B(i) \cup {i}
      BY <1>2, <2>0
    <3> QED
      BY <3>1
  <2>2. i \notin B(i)
    OBVIOUS
  <2> HIDE DEF B
  <2> QED
    BY <1>1, <2>1, <2>2, FS_AddElement
<1>3. ASSUME NEW i \in Nat, i \notin M
      PROVE  Cardinality(B(i + 1)) = Cardinality(B(i))
  <2>0. \A j \in M : j < i + 1 <=> j < i \/ j = i
    OBVIOUS
  <2>1. B(i + 1) = B(i)
    BY <1>3, <2>0
  <2> HIDE DEF B
  <2> QED
    BY <2>1
<1>4. ASSUME NEW i \in Nat, NEW j \in Nat, i <= j
      PROVE  Cardinality(B(i)) <= Cardinality(B(j))
  <2>0. \A x \in M : x < i => x < j
    BY <1>4
  <2>1. B(i) \in SUBSET B(j)
    BY <2>0
  <2> HIDE DEF B
  <2> QED
    BY <1>1, <2>1, FS_Subset
<1>5. Cardinality(M) \in Nat
  BY FS_CardinalityType
<1>6. \A i : RankIn(M, i) = Cardinality(B(i))
  BY DEF RankIn
<1> HIDE DEF B
<1> QED
  BY <1>1, <1>2, <1>3, <1>4, <1>5, <1>6

(* Different elements have different ranks, less than their number.        *)
LEMMA RankOfElement ==
  ASSUME NEW M \in SUBSET Nat, IsFiniteSet(M)
  PROVE  /\ \A i \in M : RankIn(M, i) \in 0 .. Cardinality(M) - 1
         /\ \A i, j \in M : i < j => RankIn(M, i) < RankIn(M, j)
         /\ \A i, j \in M : RankIn(M, i) = RankIn(M, j) => i = j
<1>1. ASSUME NEW i \in M, NEW j \in Nat, i < j
      PROVE  RankIn(M, i) < RankIn(M, j)
  <2>1. RankIn(M, i + 1) = RankIn(M, i) + 1 /\ RankIn(M, i + 1) <= RankIn(M, j)
    BY <1>1, RankGrows
  <2>2. RankIn(M, i) \in Nat /\ RankIn(M, j) \in Nat
    BY RankGrows
  <2> QED
    BY <2>1, <2>2
<1>2. ASSUME NEW i \in M
      PROVE  RankIn(M, i) \in 0 .. Cardinality(M) - 1
  <2>1. /\ RankIn(M, i) \in Nat /\ RankIn(M, i + 1) = RankIn(M, i) + 1
        /\ RankIn(M, i + 1) <= Cardinality(M) /\ Cardinality(M) \in Nat
    BY RankGrows
  <2> QED
    BY <2>1
<1>3. ASSUME NEW i \in M, NEW j \in M, RankIn(M, i) = RankIn(M, j)
      PROVE  i = j
  <2>1. ~ (i < j) /\ ~ (j < i)
    BY <1>1, <1>2, <1>3
  <2> QED
    BY <2>1
<1> QED
  BY <1>1, <1>2, <1>3

(* The n-th element is the one before which there are n - 1.               *)
LEMMA NthElement ==
  ASSUME NEW M \in SUBSET Nat, IsFiniteSet(M)
  PROVE  /\ \A n \in 1 .. Cardinality(M) : NthOf(M, n) \in M /\ RankIn(M, NthOf(M, n)) = n - 1
         /\ \A i \in M : RankIn(M, i) + 1 \in 1 .. Cardinality(M) /\ NthOf(M, RankIn(M, i) + 1) = i
         /\ \A m, n \in 1 .. Cardinality(M) : m < n => NthOf(M, m) < NthOf(M, n)
<1> DEFINE K == Cardinality(M)
           f == [i \in M |-> RankIn(M, i)]
<1>1. K \in Nat
  BY RankGrows
<1>2. f \in [M -> 0 .. K - 1] /\ \A i, j \in M : f[i] = f[j] => i = j
  BY RankOfElement
<1>3. IsFiniteSet(0 .. K - 1) /\ Cardinality(0 .. K - 1) = K
  <2>1. 0 \in Int /\ K - 1 \in Int
    BY <1>1
  <2>2. IsFiniteSet(0 .. K - 1) /\ Cardinality(0 .. K - 1) = IF 0 > K - 1 THEN 0 ELSE (K - 1) - 0 + 1
    BY <2>1, FS_Interval
  <2> HIDE DEF K
  <2> QED
    BY <1>1, <2>2
<1> HIDE DEF f
<1>4. ASSUME NEW r \in 0 .. K - 1
      PROVE  \E i \in M : f[i] = r
  <2> SUFFICES ASSUME \A i \in M : f[i] # r PROVE FALSE
    OBVIOUS
  <2> DEFINE T == (0 .. K - 1) \ {r}
  <2>1. IsFiniteSet(T) /\ Cardinality(T) = K - 1
    BY <1>3, FS_RemoveElement
  <2>2. f \in [M -> T]
    BY <1>2
  <2>3. Cardinality(T) < Cardinality(M)
    BY <1>1, <2>1
  <2> HIDE DEF T
  <2>4. \E x, y \in M : x # y /\ f[x] = f[y]
    BY <2>1, <2>2, <2>3, FS_PigeonHole
  <2> QED
    BY <1>2, <2>4
<1>5. ASSUME NEW n \in 1 .. K
      PROVE  NthOf(M, n) \in M /\ RankIn(M, NthOf(M, n)) = n - 1
  <2>1. n - 1 \in 0 .. K - 1
    BY <1>1
  <2>2. \E i \in M : RankIn(M, i) = n - 1
    BY <1>4, <2>1 DEF f
  <2> QED
    BY <2>2 DEF NthOf, RankIn
<1>6. ASSUME NEW i \in M
      PROVE  RankIn(M, i) + 1 \in 1 .. K /\ NthOf(M, RankIn(M, i) + 1) = i
  <2>1. RankIn(M, i) \in 0 .. K - 1
    BY RankOfElement
  <2>2. RankIn(M, i) + 1 \in 1 .. K
    BY <1>1, <2>1
  <2> DEFINE n == RankIn(M, i) + 1
  <2>3. n - 1 = RankIn(M, i)
    BY <2>1
  <2> HIDE DEF n
  <2>4. n \in 1 .. K
    BY <2>2 DEF n
  <2>5. NthOf(M, n) \in M /\ RankIn(M, NthOf(M, n)) = RankIn(M, i)
    BY <1>5, <2>3, <2>4
  <2>6. NthOf(M, n) = i
    <3>1. \A x, y \in M : RankIn(M, x) = RankIn(M, y) => x = y
      BY RankOfElement
    <3> QED
      BY <2>5, <3>1, Zenon
  <2> QED
    BY <2>2, <2>6 DEF n
<1>7. ASSUME NEW m \in 1 .. K, NEW n \in 1 .. K, m < n
      PROVE  NthOf(M, m) < NthOf(M, n)
  <2> DEFINE x == NthOf(M, m)
             y == NthOf(M, n)
  <2>1. x \in M /\ y \in M /\ RankIn(M, x) = m - 1 /\ RankIn(M, y) = n - 1
    BY <1>5
  <2>2. m \in Nat /\ n \in Nat
    BY <1>1
  <2> HIDE DEF x, y
  <2>3. x # y
    BY <1>7, <2>1, <2>2
  <2>4. ~ (y < x)
    BY <1>7, <2>1, <2>2, RankOfElement
  <2>5. x \in Nat /\ y \in Nat
    BY <2>1
  <2>6. x < y
    BY <2>3, <2>4, <2>5
  <2> QED
    BY <2>6 DEF x, y
<1> QED
  BY <1>5, <1>6, <1>7

-----------------------------------------------------------------------------
(* A finite set in an order of its own.                                    *)

(* Of two different elements one comes before the other, and what comes    *)
(* before an earlier one comes before.                                     *)
Orders(S, L) ==
    /\ \A x, y \in S : x # y => <<x, y>> \in L \/ <<y, x>> \in L
    /\ \A x, y \in S : x # y => ~ (<<x, y>> \in L /\ <<y, x>> \in L)
    /\ \A x, y, z \in S : <<x, y>> \in L /\ <<y, z>> \in L => <<x, z>> \in L

(* The elements before one, how many they are, and the n-th element.       *)
Earlier(S, L, x) == {y \in S \ {x} : <<y, x>> \in L}
OrderRank(S, L, x) == Cardinality(Earlier(S, L, x))
InList(S, L, n) == CHOOSE x \in S : OrderRank(S, L, x) = n - 1

(* A finite set within another one has no more elements.                   *)
LEMMA SmallerSet ==
  ASSUME NEW T, IsFiniteSet(T), NEW S \in SUBSET T
  PROVE  /\ IsFiniteSet(S) /\ Cardinality(S) \in Nat /\ Cardinality(T) \in Nat
         /\ Cardinality(S) <= Cardinality(T)
         /\ S # T => Cardinality(S) < Cardinality(T)
<1>1. IsFiniteSet(S) /\ Cardinality(S) \in Nat /\ Cardinality(T) \in Nat
      /\ Cardinality(S) <= Cardinality(T)
  BY FS_Subset, FS_CardinalityType
<1>2. ASSUME S # T PROVE Cardinality(S) < Cardinality(T)
  <2>1. PICK x \in T : x \notin S
    BY <1>2
  <2>2. S \in SUBSET (T \ {x})
    BY <2>1
  <2>3. IsFiniteSet(T \ {x}) /\ Cardinality(T \ {x}) = Cardinality(T) - 1
    BY <2>1, FS_RemoveElement
  <2>4. Cardinality(S) <= Cardinality(T \ {x})
    BY <2>2, <2>3, FS_Subset
  <2> QED
    BY <1>1, <2>3, <2>4
<1> QED
  BY <1>1, <1>2

(* Two sets without a common element have together as many as each.        *)
LEMMA DisjointSets ==
  ASSUME NEW S, IsFiniteSet(S), NEW T, IsFiniteSet(T), S \cap T = {}
  PROVE  IsFiniteSet(S \cup T) /\ Cardinality(S \cup T) = Cardinality(S) + Cardinality(T)
<1>1. Cardinality(S) \in Nat /\ Cardinality(T) \in Nat
  BY FS_CardinalityType
<1>2. Cardinality(S \cap T) = 0
  BY FS_EmptySet
<1>3. IsFiniteSet(S \cup T)
      /\ Cardinality(S \cup T) = Cardinality(S) + Cardinality(T) - Cardinality(S \cap T)
  BY FS_Union
<1> QED
  BY <1>1, <1>2, <1>3

(* Different elements have different ranks, and the earlier one the lesser.*)
LEMMA RanksDiffer ==
  ASSUME NEW S, IsFiniteSet(S), NEW L, Orders(S, L)
  PROVE  /\ Cardinality(S) \in Nat
         /\ \A x \in S : OrderRank(S, L, x) \in 0 .. Cardinality(S) - 1
         /\ \A x, y \in S : OrderRank(S, L, x) = OrderRank(S, L, y) => x = y
<1>1. ASSUME NEW x \in S
      PROVE  OrderRank(S, L, x) \in Nat /\ OrderRank(S, L, x) < Cardinality(S)
  <2>1. Earlier(S, L, x) \in SUBSET S /\ x \notin Earlier(S, L, x)
    BY DEF Earlier
  <2> QED
    BY <2>1, SmallerSet DEF OrderRank
<1>2. ASSUME NEW x \in S, NEW y \in S, x # y, <<x, y>> \in L
      PROVE  OrderRank(S, L, x) < OrderRank(S, L, y)
  <2>1. Earlier(S, L, y) \in SUBSET S
    BY DEF Earlier
  <2>2. x \in Earlier(S, L, y) /\ x \notin Earlier(S, L, x)
    BY <1>2 DEF Earlier
  <2>3. ASSUME NEW z \in Earlier(S, L, x)
        PROVE  z \in Earlier(S, L, y)
    <3>1. z \in S /\ z # x /\ <<z, x>> \in L
      BY DEF Earlier
    <3>2. <<z, y>> \in L
      BY <1>2, <3>1 DEF Orders
    <3>3. z # y
      BY <1>2, <3>1 DEF Orders
    <3> QED
      BY <3>1, <3>2, <3>3 DEF Earlier
  <2>4. Earlier(S, L, x) \in SUBSET Earlier(S, L, y) /\ Earlier(S, L, x) # Earlier(S, L, y)
    BY <2>2, <2>3
  <2>5. IsFiniteSet(Earlier(S, L, y))
    BY <2>1, SmallerSet
  <2> QED
    BY <2>4, <2>5, SmallerSet DEF OrderRank
<1>3. ASSUME NEW x \in S, NEW y \in S, OrderRank(S, L, x) = OrderRank(S, L, y), x # y
      PROVE  FALSE
  <2>1. <<x, y>> \in L \/ <<y, x>> \in L
    BY <1>3 DEF Orders
  <2>2. ~ (OrderRank(S, L, x) < OrderRank(S, L, y)) /\ ~ (OrderRank(S, L, y) < OrderRank(S, L, x))
    BY <1>1, <1>3
  <2> QED
    BY <1>2, <1>3, <2>1, <2>2
<1>4. Cardinality(S) \in Nat
  BY FS_CardinalityType
<1>5. \A x \in S : OrderRank(S, L, x) \in 0 .. Cardinality(S) - 1
  BY <1>1, <1>4
<1> QED
  BY <1>3, <1>4, <1>5

(* The n-th element is the one before which there are n - 1.               *)
LEMMA ListElement ==
  ASSUME NEW S, IsFiniteSet(S), NEW L, Orders(S, L)
  PROVE  /\ \A n \in 1 .. Cardinality(S) :
                InList(S, L, n) \in S /\ OrderRank(S, L, InList(S, L, n)) = n - 1
         /\ \A x \in S : /\ OrderRank(S, L, x) + 1 \in 1 .. Cardinality(S)
                         /\ InList(S, L, OrderRank(S, L, x) + 1) = x
<1> DEFINE K == Cardinality(S)
           f == [x \in S |-> OrderRank(S, L, x)]
<1>1. K \in Nat
  BY RanksDiffer
<1>2. f \in [S -> 0 .. K - 1] /\ \A x, y \in S : f[x] = f[y] => x = y
  BY RanksDiffer
<1>3. IsFiniteSet(0 .. K - 1) /\ Cardinality(0 .. K - 1) = K
  <2>1. 0 \in Int /\ K - 1 \in Int
    BY <1>1
  <2>2. IsFiniteSet(0 .. K - 1) /\ Cardinality(0 .. K - 1) = IF 0 > K - 1 THEN 0 ELSE (K - 1) - 0 + 1
    BY <2>1, FS_Interval
  <2> HIDE DEF K
  <2> QED
    BY <1>1, <2>2
<1>4. ASSUME NEW r \in 0 .. K - 1
      PROVE  \E x \in S : f[x] = r
  <2> DEFINE Z == 0 .. K - 1
  <2>1. IsFiniteSet(Z) /\ Cardinality(Z) = Cardinality(S)
    BY <1>3
  <2> HIDE DEF f, Z
  <2>2. f \in Injection(S, Z)
    BY <1>2 DEF Injection, IsInjective, Z
  <2>3. f \in Surjection(S, Z)
    BY <2>1, <2>2, FS_Injection
  <2> QED
    BY <2>3 DEF Surjection, Z
<1> HIDE DEF f
<1>5. ASSUME NEW n \in 1 .. K
      PROVE  InList(S, L, n) \in S /\ OrderRank(S, L, InList(S, L, n)) = n - 1
  <2>1. n - 1 \in 0 .. K - 1
    BY <1>1
  <2>2. \E x \in S : OrderRank(S, L, x) = n - 1
    BY <1>4, <2>1 DEF f
  <2> QED
    BY <2>2 DEF InList
<1>6. ASSUME NEW x \in S
      PROVE  OrderRank(S, L, x) + 1 \in 1 .. K /\ InList(S, L, OrderRank(S, L, x) + 1) = x
  <2>1. OrderRank(S, L, x) \in 0 .. K - 1
    BY RanksDiffer
  <2>2. OrderRank(S, L, x) + 1 \in 1 .. K
    BY <1>1, <2>1
  <2> DEFINE n == OrderRank(S, L, x) + 1
  <2>3. n - 1 = OrderRank(S, L, x)
    BY <2>1
  <2> HIDE DEF n
  <2>4. n \in 1 .. K
    BY <2>2 DEF n
  <2>5. InList(S, L, n) \in S /\ OrderRank(S, L, InList(S, L, n)) = OrderRank(S, L, x)
    BY <1>5, <2>3, <2>4
  <2>6. InList(S, L, n) = x
    <3>1. \A y, z \in S : OrderRank(S, L, y) = OrderRank(S, L, z) => y = z
      BY RanksDiffer
    <3> QED
      BY <2>5, <3>1, Zenon
  <2> QED
    BY <2>2, <2>6 DEF n
<1> QED
  BY <1>5, <1>6

(* h takes a set one to one to another one, each in its order.             *)
Carries(h, S, L, T, M) ==
    /\ h \in [S -> T]
    /\ \A x, y \in S : h[x] = h[y] => x = y
    /\ \A z \in T : \E x \in S : h[x] = z
    /\ \A x, y \in S : x # y => (<<x, y>> \in L <=> <<h[x], h[y]>> \in M)

(* The ranks stay as they were.                                            *)
LEMMA RankIsCarried ==
  ASSUME NEW S, IsFiniteSet(S), NEW L, NEW T, NEW M, NEW h, Carries(h, S, L, T, M)
  PROVE  /\ IsFiniteSet(T) /\ Cardinality(T) = Cardinality(S)
         /\ \A x \in S : OrderRank(T, M, h[x]) = OrderRank(S, L, x)
<1>1. h \in Bijection(S, T)
  BY DEF Carries, Bijection, Injection, IsInjective, Surjection
<1>2. IsFiniteSet(T) /\ Cardinality(T) = Cardinality(S)
  BY <1>1, FS_Bijection DEF ExistsBijection
<1>3. ASSUME NEW x \in S
      PROVE  OrderRank(T, M, h[x]) = OrderRank(S, L, x)
  <2> DEFINE A == Earlier(S, L, x)
             B == Earlier(T, M, h[x])
             g == [y \in A |-> h[y]]
  <2>1. A \in SUBSET S /\ B \in SUBSET T
    BY DEF Earlier
  <2>2. \A y \in A : h[y] \in B
    BY DEF Carries, Earlier
  <2>3. \A z \in B : \E y \in A : h[y] = z
    BY DEF Carries, Earlier
  <2>4. IsFiniteSet(A)
    BY <2>1, FS_Subset
  <2> HIDE DEF A, B
  <2>5. g \in Bijection(A, B)
    BY <2>1, <2>2, <2>3 DEF Carries, Bijection, Injection, IsInjective, Surjection
  <2> HIDE DEF g
  <2>6. Cardinality(B) = Cardinality(A)
    BY <2>4, <2>5, FS_Bijection DEF ExistsBijection
  <2> QED
    BY <2>6 DEF OrderRank, A, B
<1> QED
  BY <1>2, <1>3

(* When the elements with a lesser number come before those with a greater *)
(* one, what is before an element are those and the earlier ones of its    *)
(* own number.                                                             *)
Numbered(S, g, n) == {x \in S : g[x] = n}
NumberedBelow(S, g, n) == {x \in S : g[x] < n}

(* So the rank of an element is that among its number, after all of those  *)
(* with lesser numbers.                                                    *)
LEMMA RankInParts ==
  ASSUME NEW S, IsFiniteSet(S), NEW L, Orders(S, L), NEW g \in [S -> Nat],
         \A x, y \in S : g[x] < g[y] => <<x, y>> \in L,
         NEW n \in Nat
  PROVE  /\ Cardinality(NumberedBelow(S, g, n)) \in Nat
         /\ Orders(Numbered(S, g, n), L) /\ IsFiniteSet(Numbered(S, g, n))
         /\ Cardinality(NumberedBelow(S, g, n + 1))
              = Cardinality(NumberedBelow(S, g, n)) + Cardinality(Numbered(S, g, n))
         /\ \A x \in Numbered(S, g, n) :
              OrderRank(S, L, x) = Cardinality(NumberedBelow(S, g, n)) + OrderRank(Numbered(S, g, n), L, x)
<1> DEFINE A == Numbered(S, g, n)
           B == NumberedBelow(S, g, n)
<1>1. A \in SUBSET S /\ B \in SUBSET S /\ A \cap B = {}
  BY DEF Numbered, NumberedBelow
<1>2. IsFiniteSet(A) /\ IsFiniteSet(B) /\ Cardinality(B) \in Nat
  BY <1>1, SmallerSet
<1>3. Orders(A, L)
  <2> HIDE DEF A
  <2> QED
    BY <1>1 DEF Orders
<1>4. NumberedBelow(S, g, n + 1) = B \cup A
  BY DEF Numbered, NumberedBelow
<1>5. Cardinality(NumberedBelow(S, g, n + 1)) = Cardinality(B) + Cardinality(A)
  <2> HIDE DEF A, B
  <2> QED
    BY <1>1, <1>2, <1>4, DisjointSets
<1>6. ASSUME NEW x \in A
      PROVE  OrderRank(S, L, x) = Cardinality(B) + OrderRank(A, L, x)
  <2>1. x \in S /\ g[x] = n
    BY DEF Numbered
  <2>2. ASSUME NEW y \in Earlier(S, L, x) PROVE y \in B \cup Earlier(A, L, x)
    <3>1. y \in S /\ y # x /\ <<y, x>> \in L
      BY DEF Earlier
    <3>2. <<x, y>> \notin L
      BY <2>1, <3>1 DEF Orders
    <3>3. ~ (n < g[y]) /\ g[y] \in Nat
      BY <2>1, <3>1, <3>2
    <3>4. g[y] < n \/ g[y] = n
      BY <3>3
    <3> QED
      BY <3>1, <3>4 DEF Numbered, NumberedBelow, Earlier
  <2>3. ASSUME NEW y \in B PROVE y \in Earlier(S, L, x)
    <3>1. y \in S /\ g[y] < g[x] /\ g[y] \in Nat
      BY <2>1 DEF NumberedBelow
    <3>2. y # x
      BY <3>1
    <3> QED
      BY <2>1, <3>1, <3>2 DEF Earlier
  <2>4. ASSUME NEW y \in Earlier(A, L, x) PROVE y \in Earlier(S, L, x)
    BY <1>1 DEF Earlier
  <2>5. Earlier(S, L, x) = B \cup Earlier(A, L, x) /\ Earlier(A, L, x) \in SUBSET A
    <3>1. Earlier(A, L, x) \in SUBSET A
      BY DEF Earlier
    <3> HIDE DEF A, B
    <3> QED
      BY <2>2, <2>3, <2>4, <3>1
  <2>6. B \cap Earlier(A, L, x) = {} /\ IsFiniteSet(Earlier(A, L, x))
    <3> HIDE DEF A, B
    <3> QED
      BY <1>1, <1>2, <2>5, SmallerSet
  <2> HIDE DEF A, B
  <2> QED
    BY <1>2, <2>5, <2>6, DisjointSets DEF OrderRank
<1> HIDE DEF A, B
<1> QED
  BY <1>2, <1>3, <1>5, <1>6 DEF A, B

(* Sets have together no more elements than a sum of what bounds each.     *)
LEMMA UnionIsBounded ==
  ASSUME NEW S, IsFiniteSet(S), NEW b \in [S -> Nat], NEW f, Adds(f, b, S), NEW A,
         \A x \in S : IsFiniteSet(A[x]) /\ Cardinality(A[x]) <= b[x]
  PROVE  /\ IsFiniteSet(UNION {A[x] : x \in S})
         /\ Cardinality(UNION {A[x] : x \in S}) <= f[S]
<1> DEFINE U(s) == UNION {A[x] : x \in s}
           C == {s \in SUBSET S : ~ (IsFiniteSet(U(s)) /\ Cardinality(U(s)) <= f[s])}
<1> SUFFICES ASSUME C # {} PROVE FALSE
  OBVIOUS
<1>0. \A s \in SUBSET S : f[s] \in Nat
  BY DEF Adds
<1>1. \A s \in C : IsFiniteSet(s)
  BY FS_Subset
<1>2. PICK s \in C : \A V \in C : ~ (Cardinality(V) < Cardinality(s))
  <2> HIDE DEF C
  <2> QED
    BY <1>1, SmallestSet
<1>3. s \in SUBSET S /\ IsFiniteSet(s) /\ ~ (IsFiniteSet(U(s)) /\ Cardinality(U(s)) <= f[s])
  BY <1>1, <1>2
<1>4. s # {}
  <2>1. ASSUME s = {} PROVE FALSE
    <3>1. U(s) = {}
      BY <2>1
    <3>2. f[s] = 0
      BY <2>1 DEF Adds
    <3>3. IsFiniteSet({}) /\ Cardinality({}) = 0
      BY FS_EmptySet
    <3> HIDE DEF U
    <3> QED
      BY <1>3, <3>1, <3>2, <3>3
  <2> QED
    BY <2>1
<1>5. PICK x : x \in s
  BY <1>4
<1>6. Cardinality(s \ {x}) < Cardinality(s)
  <2>1. Cardinality(s \ {x}) = Cardinality(s) - 1 /\ Cardinality(s) \in Nat
    BY <1>3, <1>5, FS_RemoveElement, FS_CardinalityType
  <2> QED
    BY <2>1
<1>7. s \ {x} \in SUBSET S /\ s \ {x} \notin C
  BY <1>2, <1>3, <1>6
<1>8. IsFiniteSet(U(s \ {x})) /\ Cardinality(U(s \ {x})) <= f[s \ {x}]
  BY <1>7
<1>9. U(s) = U(s \ {x}) \cup A[x]
  BY <1>5
<1>10. f[s] = b[x] + f[s \ {x}]
  BY <1>3, <1>5 DEF Adds
<1>11. IsFiniteSet(A[x]) /\ Cardinality(A[x]) <= b[x] /\ b[x] \in Nat
  BY <1>3, <1>5
<1> HIDE DEF U, C
<1>12. /\ IsFiniteSet(U(s))
       /\ Cardinality(U(s)) = Cardinality(U(s \ {x})) + Cardinality(A[x])
                                - Cardinality(U(s \ {x}) \cap A[x])
  BY <1>8, <1>9, <1>11, FS_Union
<1>13. /\ Cardinality(U(s \ {x}) \cap A[x]) \in Nat /\ Cardinality(U(s \ {x})) \in Nat
       /\ Cardinality(A[x]) \in Nat
  <2>1. IsFiniteSet(U(s \ {x}) \cap A[x])
    BY <1>11, FS_Subset
  <2> QED
    BY <1>8, <1>11, <2>1, FS_CardinalityType
<1>14. f[s \ {x}] \in Nat
  BY <1>0, <1>7
<1>15. Cardinality(U(s)) <= f[s]
  BY <1>8, <1>10, <1>11, <1>12, <1>13, <1>14
<1> QED
  BY <1>3, <1>12, <1>15 DEF U
=============================================================================
