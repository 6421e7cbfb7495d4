------------------------ MODULE ProjectCatalogProofs ------------------------
(***************************************************************************)
(* Proofs about ProjectCatalog for any number of projects, generations and *)
(* versions, and any sizes, quota and threshold.                           *)
(***************************************************************************)
EXTENDS ProjectCatalog, FoldLemmas

USE CatalogAssumption
-----------------------------------------------------------------------------
(* The versions a list is arranged into are versions of the list.          *)
LEMMA ArrangedFromList ==
    ASSUME NEW list \in Seq(VersionRecord), NEW I \in SUBSET DOMAIN list,
           NEW kept \in Arranged(list, I)
    PROVE  /\ kept \in Seq(VersionRecord)
           /\ \A n \in DOMAIN kept : \E i \in DOMAIN list : kept[n] = list[i]
<1>1. PICK f \in [1 .. Cardinality(I) -> I] :
        kept = [n \in 1 .. Cardinality(I) |-> list[f[n]]]
  BY DEF Arranged
<1>2. Len(list) \in Nat /\ DOMAIN list = 1 .. Len(list)
  OBVIOUS
<1>3. IsFiniteSet(I)
  <2>1. IsFiniteSet(1 .. Len(list))
    BY <1>2, FS_Interval, 1 \in Int, Len(list) \in Int
  <2> QED
    BY <1>2, <2>1, FS_Subset
<1>4. Cardinality(I) \in Nat
  BY <1>3, FS_CardinalityType
<1>5. \A n \in 1 .. Cardinality(I) : f[n] \in DOMAIN list
  BY <1>1
<1>6. \A n \in 1 .. Cardinality(I) : list[f[n]] \in VersionRecord
  BY <1>2, <1>5
<1>7. kept \in [1 .. Cardinality(I) -> VersionRecord]
  BY <1>1, <1>6
<1>8. kept \in Seq(VersionRecord)
  <2>1. ASSUME NEW n \in Nat, NEW s \in [1 .. n -> VersionRecord]
        PROVE  s \in Seq(VersionRecord)
    OBVIOUS
  <2> QED
    BY <1>4, <1>7, <2>1
<1> QED
  BY <1>1, <1>5, <1>8

(* Types, with what each step of an operation knows of its operands.       *)
Knows(o) ==
    /\ o.step \in {"save", "staged", "restore", "delete"} => o.project \in Projects
    /\ o.step \in {"save", "staged", "open", "restore", "pruneAfterRestore"} =>
         o.target \in Generations
    /\ o.step = "restore" => o.base \in Generations

Operands(p) == Knows(op[p])

TypeInv == TypeOK /\ \A p \in Procs : Operands(p)

(* A version recorded by a save is a record of the catalogue.              *)
LEMMA VersionTyped ==
    ASSUME NEW g \in Generations
    PROVE  Version(g) \in VersionRecord
  BY DEF Version, VersionRecord, Bytes

(* The types hold of an empty store.                                       *)
LEMMA InitTypeInv == Init => TypeInv
  BY DEF Init, TypeInv, TypeOK, Operands, Knows, Idle, OpRecord, Steps

(* Thinning a list of versions gives a list of versions.                   *)
LEMMA FileVersionsTyped ==
    ASSUME TypeOK, NEW p \in Procs, NEW list \in Seq(VersionRecord),
           NEW then \in {"pruneAfterSave", "pruneAfterRestore"},
           FileVersions(p, list, then)
    PROVE  /\ versions' \in [Projects -> Seq(VersionRecord)]
           /\ op' \in [Procs -> OpRecord]
<1>1. PICK I \in SUBSET DOMAIN list :
        /\ \E kept \in Arranged(list, I) :
             versions' = [versions EXCEPT ![op[p].project] = kept]
        /\ op' = [op EXCEPT ![p].step = then,
                            ![p].names = GenerationsAt(list, DOMAIN list \ I)]
  BY DEF FileVersions
<1>2. PICK kept \in Arranged(list, I) :
        versions' = [versions EXCEPT ![op[p].project] = kept]
  BY <1>1
<1>3. versions' \in [Projects -> Seq(VersionRecord)]
  BY <1>2, ArrangedFromList DEF TypeOK
<1>4. \A i \in DOMAIN list : list[i] \in VersionRecord
  OBVIOUS
<1>5. GenerationsAt(list, DOMAIN list \ I) \subseteq Generations
  BY <1>4 DEF GenerationsAt, VersionRecord
<1>6. op[p] \in OpRecord
  BY DEF TypeOK
<1>7. [op[p] EXCEPT !.step = then, !.names = GenerationsAt(list, DOMAIN list \ I)]
        \in OpRecord
  BY <1>5, <1>6 DEF OpRecord, Steps
<1>8. op' \in [Procs -> OpRecord]
  BY <1>1, <1>7 DEF TypeOK
<1> QED
  BY <1>3, <1>8

(* The transaction of a save or a restore keeps the types.                 *)
LEMMA MoveProjectTyped ==
    ASSUME TypeInv, NEW p \in Procs,
           NEW then \in {"pruneAfterSave", "pruneAfterRestore"},
           op[p].project \in Projects, op[p].target \in Generations,
           op[p].base \in Generations,
           MoveProject(p, then), UNCHANGED <<ready, active>>
    PROVE  TypeInv'
<1> DEFINE list == <<Version(op[p].base)>> \o versions[op[p].project]
<1>1. list \in Seq(VersionRecord)
  BY VersionTyped DEF TypeInv, TypeOK
<1>2. FileVersions(p, list, then)
  BY DEF MoveProject
<1>3. versions' \in [Projects -> Seq(VersionRecord)] /\ op' \in [Procs -> OpRecord]
  <2> HIDE DEF list
  <2> QED
    BY <1>1, <1>2, FileVersionsTyped DEF TypeInv
<1>4. TypeOK'
  BY <1>3 DEF MoveProject, TypeInv, TypeOK
<1>5. PICK names : op' = [op EXCEPT ![p].step = then, ![p].names = names]
  BY <1>2 DEF FileVersions
<1>6. op'[p].step = then /\ op'[p].target = op[p].target
  BY <1>5 DEF TypeInv, TypeOK, OpRecord
<1>7. \A q \in Procs : q # p => op'[q] = op[q]
  BY <1>5 DEF TypeInv, TypeOK
<1>8. ASSUME NEW q \in Procs
      PROVE  Operands(q)'
  <2>1. CASE q = p
    BY <1>6, <2>1 DEF Operands, Knows
  <2>2. CASE q # p
    BY <1>7, <2>2 DEF Operands, TypeInv
  <2> QED
    BY <2>1, <2>2
<1> QED
  BY <1>4, <1>8 DEF TypeInv

(* One process moves its operation on.                                     *)
LEMMA OperationTyped ==
    ASSUME TypeInv, NEW p \in Procs, NEW r \in OpRecord, Knows(r),
           op' = [op EXCEPT ![p] = r]
    PROVE  op' \in [Procs -> OpRecord] /\ \A q \in Procs : Operands(q)'
<1>1. op' \in [Procs -> OpRecord]
  BY DEF TypeInv, TypeOK
<1>2. ASSUME NEW q \in Procs
      PROVE  Operands(q)'
  <2>1. op'[q] = r \/ op'[q] = op[q]
    BY DEF TypeInv, TypeOK
  <2> QED
    BY <2>1 DEF Operands, TypeInv
<1> QED
  BY <1>1, <1>2

(* So does the removal of one directory.                                   *)
LEMMA OneNameLess ==
    ASSUME TypeInv, NEW p \in Procs, NEW g,
           op' = [op EXCEPT ![p].names = @ \ {g}]
    PROVE  op' \in [Procs -> OpRecord] /\ \A q \in Procs : Operands(q)'
<1>1. op[p] \in OpRecord /\ Knows(op[p])
  BY DEF TypeInv, TypeOK, Operands
<1>2. ASSUME NEW names \in SUBSET Generations
      PROVE  /\ [op[p] EXCEPT !.names = names] \in OpRecord
             /\ Knows([op[p] EXCEPT !.names = names])
  BY <1>1 DEF OpRecord, Knows
<1>3. op[p].names \ {g} \in SUBSET Generations
  BY <1>1 DEF OpRecord
<1>4. op' = [op EXCEPT ![p] = [op[p] EXCEPT !.names = op[p].names \ {g}]]
  OBVIOUS
<1> QED
  BY <1>2, <1>3, <1>4, OperationTyped

(* So does every step.                                                     *)
LEMMA NextTypeInv == TypeInv /\ [Next]_vars => TypeInv'
<1> SUFFICES ASSUME TypeInv, [Next]_vars PROVE TypeInv'
  OBVIOUS
<1> USE DEF TypeInv, TypeOK, Operands, Knows, At, store, OpRecord, Steps, Idle
<1>1. ASSUME NEW p \in Procs, FindStale(p) PROVE TypeInv'
  <2> DEFINE r == [op[p] EXCEPT !.step = "reconcile", !.names = Stale]
  <2>0. op[p] \in OpRecord /\ Stale \subseteq Generations
    BY DEF Stale
  <2>1. r \in OpRecord /\ Knows(r)
    BY <2>0
  <2>2. op' = [op EXCEPT ![p] = r]
    BY <1>1 DEF FindStale
  <2>3. op' \in [Procs -> OpRecord] /\ \A q \in Procs : Operands(q)'
    BY <2>1, <2>2, OperationTyped
  <2> QED
    BY <1>1, <2>3 DEF FindStale
<1>2. ASSUME NEW p \in Procs, RemoveStale(p) PROVE TypeInv'
  BY <1>2 DEF RemoveStale
<1>3. ASSUME NEW p \in Procs, BeginSave(p) PROVE TypeInv'
  BY <1>3 DEF BeginSave
<1>4. ASSUME NEW p \in Procs, StageGeneration(p) PROVE TypeInv'
  <2> DEFINE r == [op[p] EXCEPT !.step = "staged"]
  <2>0. op[p] \in OpRecord /\ Knows(op[p])
    OBVIOUS
  <2>1. r \in OpRecord /\ Knows(r)
    BY <1>4, <2>0 DEF StageGeneration
  <2>2. op' = [op EXCEPT ![p] = r]
    BY <1>4 DEF StageGeneration
  <2>3. op' \in [Procs -> OpRecord] /\ \A q \in Procs : Operands(q)'
    BY <2>1, <2>2, OperationTyped
  <2> QED
    BY <1>4, <2>3 DEF StageGeneration
<1>5. ASSUME NEW p \in Procs, CommitNewProject(p) PROVE TypeInv'
  <2> DEFINE r == [op[p] EXCEPT !.step = "pruneAfterSave"]
  <2>0. op[p] \in OpRecord /\ Knows(op[p])
    OBVIOUS
  <2>1. r \in OpRecord /\ Knows(r)
    BY <1>5, <2>0 DEF CommitNewProject
  <2>2. op' = [op EXCEPT ![p] = r]
    BY <1>5 DEF CommitNewProject
  <2>3. op' \in [Procs -> OpRecord] /\ \A q \in Procs : Operands(q)'
    BY <2>1, <2>2, OperationTyped
  <2> QED
    BY <1>5, <2>3 DEF CommitNewProject
<1>6. ASSUME NEW p \in Procs, CommitSave(p) PROVE TypeInv'
  <2>1. op[p].base \in Generations
    BY <1>6 DEF CommitSave
  <2> QED
    BY <1>6, <2>1, MoveProjectTyped DEF CommitSave
<1>7. ASSUME NEW p \in Procs, CommitRestore(p) PROVE TypeInv'
  BY <1>7, MoveProjectTyped DEF CommitRestore
<1>8. ASSUME NEW p \in Procs, CleanUp(p) PROVE TypeInv'
  BY <1>8 DEF CleanUp
<1>9. ASSUME NEW p \in Procs, FinishSave(p) PROVE TypeInv'
  BY <1>9 DEF FinishSave
<1>10. ASSUME NEW p \in Procs, BeginOpen(p) PROVE TypeInv'
  <2>1. PICK j \in Projects :
          /\ row[j] \in files
          /\ op' = [op EXCEPT ![p] = [Idle EXCEPT !.step = "open", !.project = j,
                                                 !.target = row[j]]]
    BY <1>10 DEF BeginOpen
  <2> DEFINE r == [Idle EXCEPT !.step = "open", !.project = j, !.target = row[j]]
  <2>2. r \in OpRecord /\ Knows(r)
    BY <2>1
  <2>3. op' \in [Procs -> OpRecord] /\ \A q \in Procs : Operands(q)'
    BY <2>1, <2>2, OperationTyped
  <2> QED
    BY <1>10, <2>3 DEF BeginOpen
<1>11. ASSUME NEW p \in Procs, PublishOpen(p) PROVE TypeInv'
  BY <1>11 DEF PublishOpen, Opened
<1>12. ASSUME NEW p \in Procs, BeginRestore(p) PROVE TypeInv'
  <2>1. PICK j \in Projects : \E i \in DOMAIN versions[j] :
          /\ row[j] # NoGeneration
          /\ op' = [op EXCEPT ![p] = [Idle EXCEPT !.step = "restore", !.project = j,
                                                 !.base = row[j],
                                                 !.target = versions[j][i].generation]]
    BY <1>12 DEF BeginRestore
  <2>2. PICK i \in DOMAIN versions[j] :
          op' = [op EXCEPT ![p] = [Idle EXCEPT !.step = "restore", !.project = j,
                                             !.base = row[j],
                                             !.target = versions[j][i].generation]]
    BY <2>1
  <2>3. row[j] \in Generations
    BY <2>1
  <2>4. versions[j][i] \in VersionRecord
    OBVIOUS
  <2>5. versions[j][i].generation \in Generations
    BY <2>4 DEF VersionRecord
  <2> QED
    BY <1>12, <2>2, <2>3, <2>5 DEF BeginRestore
<1>13. ASSUME NEW p \in Procs, FinishRestore(p) PROVE TypeInv'
  BY <1>13 DEF FinishRestore, Opened
<1>14. ASSUME NEW p \in Procs, BeginDelete(p) PROVE TypeInv'
  <2>1. PICK j \in Projects :
          op' = [op EXCEPT ![p] = [Idle EXCEPT !.step = "delete", !.project = j,
                                             !.names = ReferencedBy(j)]]
    BY <1>14 DEF BeginDelete
  <2> DEFINE r == [Idle EXCEPT !.step = "delete", !.project = j,
                               !.names = ReferencedBy(j)]
  <2>2. r \in OpRecord /\ Knows(r)
    BY DEF ReferencedBy
  <2>3. op' \in [Procs -> OpRecord] /\ \A q \in Procs : Operands(q)'
    BY <2>1, <2>2, OperationTyped
  <2> QED
    BY <1>14, <2>3 DEF BeginDelete
<1>15. ASSUME NEW p \in Procs, CommitDelete(p) PROVE TypeInv'
  <2> DEFINE r == [op[p] EXCEPT !.step = "erase"]
  <2>1. r \in OpRecord /\ Knows(r)
    BY <1>15 DEF CommitDelete
  <2>2. op' = [op EXCEPT ![p] = r]
    BY <1>15 DEF CommitDelete
  <2>3. op' \in [Procs -> OpRecord] /\ \A q \in Procs : Operands(q)'
    BY <2>1, <2>2, OperationTyped
  <2>4. versions' \in [Projects -> Seq(VersionRecord)]
    <3>1. <<>> \in Seq(VersionRecord)
      OBVIOUS
    <3> QED
      BY <1>15, <3>1 DEF CommitDelete
  <2> QED
    BY <1>15, <2>3, <2>4 DEF CommitDelete
<1>16. ASSUME NEW p \in Procs, Erase(p) PROVE TypeInv'
  <2>1. PICK g \in op[p].names :
          /\ files' = files \ {g}
          /\ young' = young \ {g}
          /\ op' = [op EXCEPT ![p].names = @ \ {g}]
    BY <1>16 DEF Erase
  <2>3. op' \in [Procs -> OpRecord] /\ \A q \in Procs : Operands(q)'
    BY <2>1, OneNameLess
  <2>4. UNCHANGED <<row, versions, ready, active>>
    BY <1>16 DEF Erase
  <2>5. files' \subseteq Generations /\ young' \subseteq files'
    BY <2>1
  <2>6. TypeOK'
    BY <2>3, <2>4, <2>5
  <2> QED
    BY <2>3, <2>6
<1>17. ASSUME NEW p \in Procs, FinishDelete(p) PROVE TypeInv'
  BY <1>17 DEF FinishDelete
<1>18. ASSUME NEW p \in Procs, Abandon(p) PROVE TypeInv'
  BY <1>18 DEF Abandon
<1>19. ASSUME NEW p \in Procs, RemovalFails(p) PROVE TypeInv'
  <2>1. CASE \E g \in op[p].names : op' = [op EXCEPT ![p].names = @ \ {g}]
    <3>1. PICK g \in op[p].names : op' = [op EXCEPT ![p].names = @ \ {g}]
      BY <2>1
    <3>3. op' \in [Procs -> OpRecord] /\ \A q \in Procs : Operands(q)'
      BY <3>1, OneNameLess
    <3> QED
      BY <1>19, <3>3 DEF RemovalFails
  <2>2. CASE op' = [op EXCEPT ![p] = Idle]
    BY <1>19, <2>2 DEF RemovalFails
  <2> QED
    BY <1>19, <2>1, <2>2 DEF RemovalFails
<1>20. ASSUME NEW p \in Procs, Crash(p) PROVE TypeInv'
  BY <1>20 DEF Crash
<1>21. ASSUME NEW p \in Procs, LeaveStore(p) PROVE TypeInv'
  BY <1>21 DEF LeaveStore
<1>22. ASSUME NEW g \in Generations, Age(g) PROVE TypeInv'
  BY <1>22 DEF Age
<1>23. CASE UNCHANGED vars
  BY <1>23 DEF vars
<1> QED
  BY <1>1, <1>2, <1>3, <1>4, <1>5, <1>6, <1>7, <1>8, <1>9, <1>10, <1>11, <1>12,
     <1>13, <1>14, <1>15, <1>16, <1>17, <1>18, <1>19, <1>20, <1>21, <1>22, <1>23
     DEF Next, SaveStep, OpenStep, DeleteStep

(* The values of the catalogue, of the directories and of every process's  *)
(* operation are what the code can give them, for any number of processes. *)
THEOREM CatalogTypes == Spec => []TypeOK
<1>1. Spec => []TypeInv
  BY InitTypeInv, NextTypeInv, PTL DEF Spec
<1>2. TypeInv => TypeOK
  BY DEF TypeInv
<1> QED
  BY <1>1, <1>2, PTL
-----------------------------------------------------------------------------
(* Readability of the catalogue, when one process uses the store.          *)

OneProcess == \A p, q \in Procs : p = q

(* What an operation in progress relies on: the generation it is writing   *)
(* is not in the catalogue yet, the row it read is still there, and what   *)
(* it is going to remove has left the catalogue.                           *)
Relies(p) ==
    /\ At(p, {"save", "staged"}) =>
         op[p].target \notin Referenced /\ op[p].base = row[op[p].project]
    /\ At(p, {"staged"}) => op[p].target \in files
    /\ At(p, {"restore"}) =>
         op[p].target \in ReferencedBy(op[p].project) /\ op[p].base = row[op[p].project]
    /\ At(p, {"delete"}) => op[p].names = ReferencedBy(op[p].project)
    /\ At(p, {"reconcile", "erase"}) => op[p].names \cap Referenced = {}

(* No generation belongs to two projects.                                  *)
NotShared ==
    \A i, j \in Projects : \A g \in ReferencedBy(i) \cap ReferencedBy(j) : i = j

ReadInv ==
    /\ TypeInv
    /\ CatalogIsReadable
    /\ NotShared
    /\ \A p \in Procs : Relies(p)

(* What is referenced depends on the catalogue alone.                      *)
LEMMA SameCatalog ==
    ASSUME UNCHANGED <<row, versions>>
    PROVE  Referenced' = Referenced /\ \A j : ReferencedBy(j)' = ReferencedBy(j)
  BY DEF Referenced, ReferencedBy

(* A generation is referenced if it is by some project.                    *)
LEMMA ReferencedIff ==
    \A g : g \in Referenced <=> \E j \in Projects : g \in ReferencedBy(j)
  BY DEF Referenced

(* A step that leaves the catalogue alone keeps the invariant if the       *)
(* directories it removes are not in the catalogue and its operation still *)
(* has what it relies on.                                                  *)
LEMMA SameCatalogStep ==
    ASSUME ReadInv, TypeInv', OneProcess, NEW p \in Procs,
           UNCHANGED <<row, versions>>, files \cap Referenced \subseteq files',
           Relies(p)'
    PROVE  ReadInv'
<1>1. CatalogIsReadable'
  BY SameCatalog DEF ReadInv, CatalogIsReadable
<1>2. NotShared'
  BY SameCatalog DEF ReadInv, NotShared
<1>3. \A q \in Procs : Relies(q)'
  BY DEF OneProcess
<1> QED
  BY <1>1, <1>2, <1>3 DEF ReadInv

(* An empty catalogue names nothing that could be missing.                 *)
LEMMA InitReadInv == Init => ReadInv
<1> SUFFICES ASSUME Init PROVE ReadInv
  OBVIOUS
<1>1. \A j \in Projects : ReferencedBy(j) = {}
  BY DEF Init, ReferencedBy
<1>2. Referenced = {}
  BY <1>1, ReferencedIff
<1> QED
  BY <1>1, <1>2, InitTypeInv
     DEF Init, ReadInv, CatalogIsReadable, NotShared, Relies, At, Idle

(* A project that takes a generation refers to nothing it did not refer to *)
(* but that generation and the one it takes the place of, the cleanup may  *)
(* remove nothing else, and the other projects refer to what they did.     *)
LEMMA MovedReferences ==
    ASSUME TypeInv, NEW p \in Procs, NEW j \in Projects, NEW then,
           op[p].project = j, op[p].target \in Generations,
           op[p].base \in Generations, MoveProject(p, then)
    PROVE  /\ ReferencedBy(j)' \subseteq ReferencedBy(j) \cup {op[p].target, op[p].base}
           /\ op'[p].names \subseteq ReferencedBy(j) \cup {op[p].base}
           /\ \A k \in Projects \ {j} : ReferencedBy(k)' = ReferencedBy(k)
<1> DEFINE list == <<Version(op[p].base)>> \o versions[j]
<1>1. op \in [Procs -> OpRecord] /\ op[p] \in OpRecord
  BY DEF TypeInv, TypeOK
<1>2. versions[j] \in Seq(VersionRecord)
  BY DEF TypeInv, TypeOK
<1>3. list \in Seq(VersionRecord)
  BY <1>2, VersionTyped
<1>4. \A i \in DOMAIN list : list[i].generation \in ReferencedBy(j) \cup {op[p].base}
  <2>1. ASSUME NEW i \in DOMAIN list
        PROVE  list[i] = Version(op[p].base) \/ \E k \in DOMAIN versions[j] : list[i] = versions[j][k]
    <3>1. CASE i = 1
      BY <1>2, <3>1
    <3>2. CASE i # 1
      <4>1. i - 1 \in DOMAIN versions[j] /\ list[i] = versions[j][i - 1]
        BY <1>2, <2>1, <3>2
      <4> QED
        BY <4>1
    <3> QED
      BY <3>1, <3>2
  <2>2. Version(op[p].base).generation = op[p].base
    BY DEF Version
  <2>3. ASSUME NEW i \in DOMAIN versions[j]
        PROVE  versions[j][i].generation \in Generations
    <3>1. versions[j][i] \in VersionRecord
      BY <1>2
    <3> QED
      BY <3>1 DEF VersionRecord
  <2> HIDE DEF list
  <2> QED
    BY <2>1, <2>2, <2>3 DEF ReferencedBy
<1>5. PICK I \in SUBSET DOMAIN list :
        /\ \E kept \in Arranged(list, I) : versions' = [versions EXCEPT ![j] = kept]
        /\ op' = [op EXCEPT ![p].step = then,
                            ![p].names = GenerationsAt(list, DOMAIN list \ I)]
  BY DEF MoveProject, FileVersions
<1>6. PICK kept \in Arranged(list, I) : versions' = [versions EXCEPT ![j] = kept]
  BY <1>5
<1>7. \A n \in DOMAIN kept : \E i \in DOMAIN list : kept[n] = list[i]
  <2> HIDE DEF list
  <2> QED
    BY <1>3, ArrangedFromList
<1>8. versions'[j] = kept
  BY <1>6 DEF TypeInv, TypeOK
<1>9. row'[j] = op[p].target
  BY DEF MoveProject, TypeInv, TypeOK
<1>10. ASSUME NEW g \in ReferencedBy(j)'
      PROVE  g \in ReferencedBy(j) \cup {op[p].target, op[p].base}
  <2>1. g = op[p].target \/ \E n \in DOMAIN kept : g = kept[n].generation
    BY <1>8, <1>9, <1>10 DEF ReferencedBy
  <2> HIDE DEF list
  <2> QED
    BY <2>1, <1>4, <1>7
<1>11. ASSUME NEW k \in Projects \ {j}
       PROVE  ReferencedBy(k)' = ReferencedBy(k)
  <2>1. row'[k] = row[k]
    BY <1>11 DEF MoveProject, TypeInv, TypeOK
  <2>2. versions'[k] = versions[k]
    BY <1>6, <1>11 DEF TypeInv, TypeOK
  <2> QED
    BY <2>1, <2>2 DEF ReferencedBy
<1>12. op'[p].names = GenerationsAt(list, DOMAIN list \ I)
  BY <1>1, <1>5 DEF OpRecord
<1> HIDE DEF list
<1>13. op'[p].names \subseteq ReferencedBy(j) \cup {op[p].base}
  BY <1>4, <1>12 DEF GenerationsAt
<1> QED
  BY <1>10, <1>11, <1>13

(* A step that makes project j refer to g, and to nothing else that is     *)
(* new, keeps the invariant if g is on disk and is not another project's.  *)
LEMMA MovedStep ==
    ASSUME ReadInv, TypeInv', OneProcess, NEW p \in Procs,
           NEW j \in Projects, NEW g \in files,
           g \notin Referenced \/ g \in ReferencedBy(j),
           ReferencedBy(j)' \subseteq ReferencedBy(j) \cup {g},
           \A k \in Projects \ {j} : ReferencedBy(k)' = ReferencedBy(k),
           files' = files, Relies(p)'
    PROVE  ReadInv'
<1>1. \A k \in Projects : ReferencedBy(k) \subseteq files
  BY ReferencedIff DEF ReadInv, CatalogIsReadable
<1>2. \A k \in Projects : ReferencedBy(k)' \subseteq files'
  BY <1>1
<1>3. CatalogIsReadable'
  BY <1>2 DEF CatalogIsReadable, Referenced
<1>4. \A k \in Projects \ {j} : g \notin ReferencedBy(k)
  BY ReferencedIff DEF ReadInv, NotShared
<1>5. NotShared'
  BY <1>4 DEF ReadInv, NotShared
<1>6. \A q \in Procs : Relies(q)'
  BY DEF OneProcess
<1> QED
  BY <1>3, <1>5, <1>6 DEF ReadInv

(* The transaction of a save or a restore puts a generation in the         *)
(* catalogue whose files exist, and schedules for removal only what it     *)
(* took out.                                                               *)
LEMMA MoveProjectReadable ==
    ASSUME ReadInv, TypeInv', OneProcess, NEW p \in Procs,
           NEW then \in {"pruneAfterSave", "pruneAfterRestore"},
           op[p].project \in Projects, op[p].target \in files,
           op[p].base = row[op[p].project],
           op[p].target \notin Referenced \/ op[p].target \in ReferencedBy(op[p].project),
           MoveProject(p, then)
    PROVE  ReadInv'
<1>1. op[p].target \in Generations
  BY DEF ReadInv, TypeInv, TypeOK
<1>2. PICK j \in Projects : j = op[p].project
  OBVIOUS
<1>3. /\ ReferencedBy(j)' \subseteq ReferencedBy(j) \cup {op[p].target}
      /\ \A k \in Projects \ {j} : ReferencedBy(k)' = ReferencedBy(k)
  <2>1. op[p].base \in Generations /\ op[p].base \in ReferencedBy(j)
    BY <1>2 DEF MoveProject, ReadInv, TypeInv, TypeOK, ReferencedBy
  <2> QED
    BY <1>1, <1>2, <2>1, MovedReferences DEF ReadInv
<1>4. op'[p].step = then
  <2>1. PICK names : op' = [op EXCEPT ![p].step = then, ![p].names = names]
    BY DEF MoveProject, FileVersions
  <2> QED
    BY <2>1 DEF ReadInv, TypeInv, TypeOK, OpRecord
<1>5. Relies(p)'
  BY <1>4 DEF Relies, At
<1>6. files' = files
  BY DEF MoveProject
<1> QED
  BY <1>2, <1>3, <1>5, <1>6, MovedStep

(* With one process, every step leaves what the catalogue names.           *)
LEMMA NextReadInv == OneProcess /\ ReadInv /\ [Next]_vars => ReadInv'
<1> SUFFICES ASSUME OneProcess, ReadInv, [Next]_vars PROVE ReadInv'
  OBVIOUS
<1>0. TypeInv /\ TypeInv'
  BY NextTypeInv DEF ReadInv
<1>a. \A p \in Procs : Operands(p) /\ Relies(p) /\ op[p] \in OpRecord
  BY DEF ReadInv, TypeInv, TypeOK
<1>b. op \in [Procs -> OpRecord]
  BY <1>0 DEF TypeInv, TypeOK
<1>1. ASSUME NEW p \in Procs, FindStale(p) PROVE ReadInv'
  <2>1. op'[p].step = "reconcile" /\ op'[p].names = Stale
    BY <1>1, <1>a, <1>b DEF FindStale, OpRecord
  <2>2. Relies(p)'
    BY <1>1, <2>1, SameCatalog DEF FindStale, store, Stale, Relies, At
  <2> QED
    BY <1>0, <1>1, <2>2, SameCatalogStep DEF FindStale, store
<1>2. ASSUME NEW p \in Procs, RemoveStale(p) PROVE ReadInv'
  <2>1. op'[p].step = "idle"
    BY <1>2, <1>b DEF RemoveStale, Idle
  <2>2. op[p].names \cap Referenced = {}
    BY <1>2, <1>a DEF RemoveStale, Relies, At
  <2>3. Relies(p)'
    BY <2>1 DEF Relies, At
  <2> QED
    BY <1>0, <1>2, <2>2, <2>3, SameCatalogStep DEF RemoveStale
<1>3. ASSUME NEW p \in Procs, BeginSave(p) PROVE ReadInv'
  <2>1. PICK j \in Projects, g \in Generations :
          /\ Unheard(g)
          /\ op' = [op EXCEPT ![p] = [step |-> "save", project |-> j, base |-> row[j],
                                     target |-> g, names |-> {}]]
    BY <1>3 DEF BeginSave
  <2>2. op'[p] = [step |-> "save", project |-> j, base |-> row[j], target |-> g,
                  names |-> {}]
    BY <2>1, <1>b
  <2>3. g \notin Referenced'
    BY <1>3, <2>1, SameCatalog DEF BeginSave, store, Unheard
  <2>4. Relies(p)'
    BY <1>3, <2>2, <2>3 DEF BeginSave, store, Relies, At
  <2> QED
    BY <1>0, <1>3, <2>4, SameCatalogStep DEF BeginSave, store
<1>4. ASSUME NEW p \in Procs, StageGeneration(p) PROVE ReadInv'
  <2>1. op'[p] = [op[p] EXCEPT !.step = "staged"]
    BY <1>4, <1>b DEF StageGeneration
  <2>2. /\ op'[p].step = "staged" /\ op'[p].target = op[p].target
        /\ op'[p].base = op[p].base /\ op'[p].project = op[p].project
    BY <2>1, <1>a DEF OpRecord
  <2>3. op[p].target \notin Referenced /\ op[p].base = row[op[p].project]
    BY <1>4, <1>a DEF StageGeneration, Relies, At
  <2>4. Relies(p)'
    BY <1>4, <2>2, <2>3, SameCatalog DEF StageGeneration, Relies, At
  <2> QED
    BY <1>0, <1>4, <2>4, SameCatalogStep DEF StageGeneration
<1>5. ASSUME NEW p \in Procs, CommitNewProject(p) PROVE ReadInv'
  <2>1. PICK j \in Projects : j = op[p].project
    BY <1>5, <1>a DEF CommitNewProject, Operands, Knows, At
  <2>2. op[p].target \in files /\ op[p].target \notin Referenced
    BY <1>5, <1>a DEF CommitNewProject, Relies, At
  <2>3. row' = [row EXCEPT ![j] = op[p].target] /\ versions' = versions
    BY <1>5, <2>1 DEF CommitNewProject
  <2>4. ReferencedBy(j)' \subseteq ReferencedBy(j) \cup {op[p].target}
    BY <1>0, <2>3 DEF ReferencedBy, TypeInv, TypeOK
  <2>5. \A k \in Projects \ {j} : ReferencedBy(k)' = ReferencedBy(k)
    BY <1>0, <2>3 DEF ReferencedBy, TypeInv, TypeOK
  <2>6. op'[p].step = "pruneAfterSave"
    BY <1>5, <1>a, <1>b DEF CommitNewProject, OpRecord
  <2>7. Relies(p)'
    BY <2>6 DEF Relies, At
  <2> QED
    BY <1>0, <1>5, <2>2, <2>4, <2>5, <2>7, MovedStep DEF CommitNewProject
<1>6. ASSUME NEW p \in Procs, CommitSave(p) PROVE ReadInv'
  <2>1. op[p].project \in Projects /\ op[p].target \in files
    BY <1>6, <1>a DEF CommitSave, Operands, Knows, Relies, At
  <2>2. op[p].target \notin Referenced /\ op[p].base = row[op[p].project]
    BY <1>6, <1>a DEF CommitSave, Relies, At
  <2> QED
    BY <1>0, <1>6, <2>1, <2>2, MoveProjectReadable DEF CommitSave
<1>7. ASSUME NEW p \in Procs, CommitRestore(p) PROVE ReadInv'
  <2>1. op[p].project \in Projects
    BY <1>7, <1>a DEF CommitRestore, Operands, Knows, At
  <2>2. /\ op[p].target \in ReferencedBy(op[p].project)
        /\ op[p].base = row[op[p].project]
    BY <1>7, <1>a DEF CommitRestore, Relies, At
  <2>3. op[p].target \in files
    BY <2>1, <2>2, ReferencedIff DEF ReadInv, CatalogIsReadable
  <2> QED
    BY <1>0, <1>7, <2>1, <2>2, <2>3, MoveProjectReadable DEF CommitRestore
<1>8. ASSUME NEW p \in Procs, CleanUp(p) PROVE ReadInv'
  <2>1. PICK g \in op[p].names :
          /\ files' = files \ {h \in {g} : Disposable(h)}
          /\ op' = [op EXCEPT ![p].names = @ \ {g}]
    BY <1>8 DEF CleanUp
  <2>2. files \cap Referenced \subseteq files'
    BY <2>1 DEF Disposable
  <2>3. op'[p].step \in {"pruneAfterSave", "pruneAfterRestore"}
    BY <1>8, <2>1, <1>a, <1>b DEF CleanUp, At, OpRecord
  <2>4. Relies(p)'
    BY <2>3 DEF Relies, At
  <2> QED
    BY <1>0, <1>8, <2>2, <2>4, SameCatalogStep DEF CleanUp
<1>9. ASSUME NEW p \in Procs, op' = [op EXCEPT ![p] = Idle],
             UNCHANGED <<row, versions>>, files \cap Referenced \subseteq files'
      PROVE  ReadInv'
  <2>1. op'[p].step = "idle"
    BY <1>9, <1>b DEF Idle
  <2>2. Relies(p)'
    BY <2>1 DEF Relies, At
  <2> QED
    BY <1>0, <1>9, <2>2, SameCatalogStep
<1>10. ASSUME NEW p \in Procs,
              FinishSave(p) \/ PublishOpen(p) \/ FinishRestore(p)
                \/ FinishDelete(p) \/ Crash(p)
       PROVE  ReadInv'
  BY <1>9, <1>10 DEF FinishSave, PublishOpen, FinishRestore, FinishDelete, Crash, store
<1>11. ASSUME NEW p \in Procs, Abandon(p) PROVE ReadInv'
  <2>1. At(p, {"staged"}) => op[p].target \notin Referenced
    BY <1>a DEF Relies, At
  <2>2. files \cap Referenced \subseteq files'
    BY <1>11, <2>1 DEF Abandon
  <2> QED
    BY <1>9, <1>11, <2>2 DEF Abandon
<1>12. ASSUME NEW p \in Procs, BeginOpen(p) PROVE ReadInv'
  <2>1. op'[p].step = "open"
    BY <1>12, <1>b DEF BeginOpen, Idle
  <2>2. Relies(p)'
    BY <2>1 DEF Relies, At
  <2> QED
    BY <1>0, <1>12, <2>2, SameCatalogStep DEF BeginOpen, store
<1>13. ASSUME NEW p \in Procs, BeginRestore(p) PROVE ReadInv'
  <2>1. PICK j \in Projects : \E i \in DOMAIN versions[j] :
          op' = [op EXCEPT ![p] = [Idle EXCEPT !.step = "restore", !.project = j,
                                             !.base = row[j],
                                             !.target = versions[j][i].generation]]
    BY <1>13 DEF BeginRestore
  <2>2. PICK i \in DOMAIN versions[j] :
          op' = [op EXCEPT ![p] = [Idle EXCEPT !.step = "restore", !.project = j,
                                             !.base = row[j],
                                             !.target = versions[j][i].generation]]
    BY <2>1
  <2>3. /\ op'[p].step = "restore" /\ op'[p].project = j
        /\ op'[p].base = row[j] /\ op'[p].target = versions[j][i].generation
    BY <2>2, <1>b DEF Idle
  <2>4. versions[j][i] \in VersionRecord
    BY <1>0 DEF TypeInv, TypeOK
  <2>5. versions[j][i].generation \in ReferencedBy(j)
    BY <2>4 DEF ReferencedBy, VersionRecord
  <2>6. UNCHANGED <<row, versions, files>>
    BY <1>13 DEF BeginRestore, store
  <2>7. ReferencedBy(op[p].project)' = ReferencedBy(j)
    BY <2>3, <2>6 DEF ReferencedBy
  <2>8. Relies(p)'
    BY <2>3, <2>5, <2>6, <2>7 DEF Relies, At
  <2> QED
    BY <1>0, <2>6, <2>8, SameCatalogStep
<1>14. ASSUME NEW p \in Procs, BeginDelete(p) PROVE ReadInv'
  <2>1. PICK j \in Projects :
          op' = [op EXCEPT ![p] = [Idle EXCEPT !.step = "delete", !.project = j,
                                             !.names = ReferencedBy(j)]]
    BY <1>14 DEF BeginDelete
  <2>2. /\ op'[p].step = "delete" /\ op'[p].project = j
        /\ op'[p].names = ReferencedBy(j)
    BY <2>1, <1>b DEF Idle
  <2>3. UNCHANGED <<row, versions, files>>
    BY <1>14 DEF BeginDelete, store
  <2>4. ReferencedBy(op[p].project)' = ReferencedBy(j)
    BY <2>2, <2>3 DEF ReferencedBy
  <2>5. Relies(p)'
    BY <2>2, <2>4 DEF Relies, At
  <2> QED
    BY <1>0, <2>3, <2>5, SameCatalogStep
<1>15. ASSUME NEW p \in Procs, CommitDelete(p) PROVE ReadInv'
  <2>1. PICK j \in Projects : j = op[p].project
    BY <1>15, <1>a DEF CommitDelete, Operands, Knows, At
  <2>2. op[p].names = ReferencedBy(j)
    BY <1>15, <1>a, <2>1 DEF CommitDelete, Relies, At
  <2>3. /\ row' = [row EXCEPT ![j] = NoGeneration]
        /\ versions' = [versions EXCEPT ![j] = <<>>]
        /\ files' = files
    BY <1>15, <2>1 DEF CommitDelete
  <2>4. ReferencedBy(j)' = {}
    BY <1>0, <2>3 DEF ReferencedBy, TypeInv, TypeOK
  <2>5. \A k \in Projects \ {j} : ReferencedBy(k)' = ReferencedBy(k)
    BY <1>0, <2>3 DEF ReferencedBy, TypeInv, TypeOK
  <2>6. \A g \in Referenced' : \E k \in Projects \ {j} : g \in ReferencedBy(k)
    BY <2>4, <2>5 DEF Referenced
  <2>7. Referenced' \subseteq files'
    BY <2>3, <2>6, ReferencedIff DEF ReadInv, CatalogIsReadable
  <2>8. NotShared'
    BY <2>4, <2>5 DEF ReadInv, NotShared
  <2>9. op'[p].step = "erase" /\ op'[p].names = op[p].names
    BY <1>15, <1>a, <1>b DEF CommitDelete, OpRecord
  <2>10. ReferencedBy(j) \cap Referenced' = {}
    BY <2>6 DEF ReadInv, NotShared
  <2>11. \A q \in Procs : Relies(q)'
    <3>1. Relies(p)'
      BY <2>2, <2>9, <2>10 DEF Relies, At
    <3> QED
      BY <3>1 DEF OneProcess
  <2> QED
    BY <1>0, <2>7, <2>8, <2>11 DEF ReadInv, CatalogIsReadable
<1>16. ASSUME NEW p \in Procs, Erase(p) PROVE ReadInv'
  <2>1. PICK g \in op[p].names :
          files' = files \ {g} /\ op' = [op EXCEPT ![p].names = @ \ {g}]
    BY <1>16 DEF Erase
  <2>2. op[p].step = "erase" /\ op[p].names \cap Referenced = {}
    BY <1>16, <1>a DEF Erase, Relies, At
  <2>3. op'[p].step = "erase" /\ op'[p].names \subseteq op[p].names
    BY <2>1, <2>2, <1>a, <1>b DEF OpRecord
  <2>4. UNCHANGED <<row, versions>>
    BY <1>16 DEF Erase
  <2>5. Relies(p)'
    BY <2>2, <2>3, <2>4, SameCatalog DEF Relies, At
  <2> QED
    BY <1>0, <2>1, <2>2, <2>4, <2>5, SameCatalogStep
<1>17. ASSUME NEW p \in Procs, RemovalFails(p) PROVE ReadInv'
  <2>1. CASE op' = [op EXCEPT ![p] = Idle]
    BY <1>9, <1>17, <2>1 DEF RemovalFails, store
  <2>2. CASE /\ At(p, {"pruneAfterSave", "pruneAfterRestore"})
             /\ \E g \in op[p].names : op' = [op EXCEPT ![p].names = @ \ {g}]
    <3>1. op'[p].step \in {"pruneAfterSave", "pruneAfterRestore"}
      BY <2>2, <1>a, <1>b DEF At, OpRecord
    <3>2. Relies(p)'
      BY <3>1 DEF Relies, At
    <3> QED
      BY <1>0, <1>17, <3>2, SameCatalogStep DEF RemovalFails, store
  <2> QED
    BY <1>17, <2>1, <2>2 DEF RemovalFails
<1>18. ASSUME UNCHANGED <<row, versions, files, op>> PROVE ReadInv'
  <2>1. \A p \in Procs : Relies(p)'
    <3>1. ASSUME NEW p \in Procs PROVE Relies(p)'
      BY <1>18, <1>a, SameCatalog DEF Relies, At, ReferencedBy
    <3> QED
      BY <3>1
  <2>2. CatalogIsReadable' /\ NotShared'
    BY <1>18, SameCatalog DEF ReadInv, CatalogIsReadable, NotShared
  <2> QED
    BY <1>0, <2>1, <2>2 DEF ReadInv
<1>19. ASSUME NEW p \in Procs, LeaveStore(p) PROVE ReadInv'
  BY <1>18, <1>19 DEF LeaveStore, store
<1>20. ASSUME NEW g \in Generations, Age(g) PROVE ReadInv'
  BY <1>18, <1>20 DEF Age
<1>21. CASE UNCHANGED vars
  BY <1>18, <1>21 DEF vars
<1> QED
  BY <1>1, <1>2, <1>3, <1>4, <1>5, <1>6, <1>7, <1>8, <1>10, <1>11, <1>12, <1>13,
     <1>14, <1>15, <1>16, <1>17, <1>19, <1>20, <1>21
     DEF Next, SaveStep, OpenStep, DeleteStep

(* With one process on the store, every generation the catalogue names is  *)
(* on disk, whatever step an operation was cancelled, failed or killed at. *)
THEOREM CatalogReadable == OneProcess => (Spec => []CatalogIsReadable)
<1> SUFFICES ASSUME OneProcess PROVE Spec => []CatalogIsReadable
  OBVIOUS
<1>1. ReadInv /\ [Next]_vars => ReadInv'
  BY NextReadInv
<1>2. Spec => []ReadInv
  BY <1>1, InitReadInv, PTL DEF Spec
<1>3. ReadInv => CatalogIsReadable
  BY DEF ReadInv
<1> QED
  BY <1>2, <1>3, PTL

-----------------------------------------------------------------------------
(* Several processes that have no desktop application among them.          *)

(* A process of the command line saves, deletes and recovers.              *)
Unattended(p) == ~ At(p, {"open", "restore", "pruneAfterRestore"})

(* What a save is writing is no one else's: no row and no version names    *)
(* it, and no operation has it as its own or is going to remove it.        *)
Disjoint(p, q) ==
    At(p, {"save", "staged"}) =>
      /\ op[p].target \notin {op[q].base} \cup op[q].names
      /\ q # p => op[p].target # op[q].target

Written(p) ==
    /\ At(p, {"save", "staged"}) => op[p].target \notin Referenced
    /\ At(p, {"save"}) => op[p].target \notin files
    /\ At(p, {"staged"}) => op[p].target \in files /\ op[p].target \in young

(* A process removes nothing that is the current generation of a project,  *)
(* except that of the project it is about to delete, and knows it only as  *)
(* that of its project.                                                    *)
Spares(q, j) ==
    row[j] # NoGeneration =>
      /\ At(q, {"save", "staged"}) /\ op[q].base = row[j] => op[q].project = j
      /\ At(q, {"reconcile", "erase"}) => row[j] \notin op[q].names
      /\ At(q, {"delete"}) /\ row[j] \in op[q].names => op[q].project = j

(* The current generation of a project is on disk and of no other project. *)
OwnRow(j) ==
    row[j] # NoGeneration =>
      /\ row[j] \in files
      /\ \A k \in Projects : row[j] \in ReferencedBy(k) => j = k

ShareInv ==
    /\ TypeInv
    /\ \A p \in Procs : Unattended(p) /\ Written(p)
    /\ \A p, q \in Procs : Disjoint(p, q)
    /\ \A q \in Procs : \A j \in Projects : Spares(q, j)
    /\ \A j \in Projects : OwnRow(j)

(* What the operation of p does not disturb: the other operations are as   *)
(* they were, and the directories they and the catalogue count on stay.    *)
OthersStand(p) ==
    /\ \A q \in Procs \ {p} : op'[q] = op[q]
    /\ \A q \in Procs \ {p} :
         /\ At(q, {"save"}) => op[q].target \notin files'
         /\ At(q, {"staged"}) => op[q].target \in files' /\ op[q].target \in young'
    /\ \A j \in Projects : row[j] # NoGeneration => row[j] \in files'

(* What an operation claims after a step that leaves the catalogue alone   *)
(* is no other operation's new generation.                                 *)
ClaimsFairly(p) ==
    /\ Unattended(p)' /\ Written(p)'
    /\ \A q \in Procs : Disjoint(p, q)'
    /\ \A q \in Procs \ {p} : At(q, {"save", "staged"}) =>
         op[q].target \notin {op'[p].base, op'[p].target} \cup op'[p].names
    /\ \A j \in Projects : Spares(p, j)'

(* With several processes, a step that leaves the catalogue alone keeps    *)
(* the invariant if it removes nothing of the others and claims nothing of *)
(* theirs.                                                                 *)
LEMMA SharedStep ==
    ASSUME ShareInv, TypeInv', NEW p \in Procs, UNCHANGED <<row, versions>>,
           OthersStand(p), ClaimsFairly(p)
    PROVE  ShareInv'
<1>1. Referenced' = Referenced /\ \A k \in Projects : ReferencedBy(k)' = ReferencedBy(k)
  BY SameCatalog
<1>2. ASSUME NEW q \in Procs \ {p}
      PROVE  /\ Unattended(q)' /\ Written(q)'
             /\ \A r \in Procs : Disjoint(q, r)'
             /\ \A j \in Projects : Spares(q, j)'
  <2>1. op'[q] = op[q]
    BY DEF OthersStand
  <2>2. Unattended(q)'
    BY <2>1 DEF ShareInv, Unattended, At
  <2>3. Written(q)'
    BY <1>1, <2>1 DEF ShareInv, Written, OthersStand, At
  <2>4. ASSUME NEW r \in Procs
        PROVE  Disjoint(q, r)'
    <3>1. CASE r = p
      BY <2>1, <3>1 DEF ClaimsFairly, Disjoint, At
    <3>2. CASE r # p
      <4>1. op'[r] = op[r]
        BY <3>2 DEF OthersStand
      <4> QED
        BY <2>1, <4>1 DEF ShareInv, Disjoint, At
    <3> QED
      BY <3>1, <3>2
  <2>5. \A j \in Projects : Spares(q, j)'
    BY <2>1 DEF ShareInv, Spares, At
  <2> QED
    BY <2>2, <2>3, <2>4, <2>5
<1>3. \A j \in Projects : OwnRow(j)'
  BY <1>1 DEF ShareInv, OwnRow, OthersStand
<1>4. /\ \A q \in Procs : Unattended(q)' /\ Written(q)'
      /\ \A q, r \in Procs : Disjoint(q, r)'
      /\ \A q \in Procs : \A j \in Projects : Spares(q, j)'
  BY <1>2 DEF ClaimsFairly
<1> QED
  BY <1>3, <1>4 DEF ShareInv

(* A step after which the operation is at rest, or removes what it was to  *)
(* remove before.                                                          *)
LEMMA RemovingStep ==
    ASSUME ShareInv, TypeInv', NEW p \in Procs, UNCHANGED <<row, versions>>,
           OthersStand(p),
           \/ op'[p].step \in {"idle", "pruneAfterSave"}
           \/ op'[p].step = op[p].step /\ At(p, {"erase"}),
           op'[p].names \subseteq op[p].names,
           op'[p].base \in {op[p].base, NoGeneration},
           op'[p].target \in {op[p].target, NoGeneration}
    PROVE  ShareInv'
<1>1. ~ (op'[p].step \in {"save", "staged", "open", "restore", "pruneAfterRestore"})
      /\ op'[p].step \notin {"delete", "reconcile"}
      /\ (op'[p].step = "erase" => op[p].step = "erase")
  BY DEF At
<1>2. Unattended(p)' /\ Written(p)' /\ \A q \in Procs : Disjoint(p, q)'
  BY <1>1 DEF Unattended, Written, Disjoint, At
<1>3. ASSUME NEW q \in Procs \ {p}, At(q, {"save", "staged"})
      PROVE  op[q].target \notin {op'[p].base, op'[p].target} \cup op'[p].names
  <2>1. op[q].target \in Generations
    BY <1>3 DEF ShareInv, TypeInv, Operands, Knows, At
  <2>2. op[q].target \notin {op[p].base, op[p].target} \cup op[p].names
    BY <1>3 DEF ShareInv, Disjoint
  <2> QED
    BY <2>1, <2>2
<1>4. \A j \in Projects : Spares(p, j)'
  BY <1>1 DEF ShareInv, Spares, At
<1>5. ClaimsFairly(p)
  BY <1>2, <1>3, <1>4 DEF ClaimsFairly
<1> QED
  BY <1>5, SharedStep

(* What is removed is not in the catalogue and no other operation's.       *)
LEMMA OthersKeep ==
    ASSUME ShareInv, NEW p \in Procs, NEW removed,
           \A q \in Procs \ {p} : op'[q] = op[q],
           files' = files \ removed, young' = young \ removed,
           \A j \in Projects : row[j] # NoGeneration => row[j] \notin removed,
           \A q \in Procs \ {p} : At(q, {"staged"}) => op[q].target \notin removed
    PROVE  OthersStand(p)
<1>1. \A q \in Procs : Written(q)
  BY DEF ShareInv
<1>2. \A j \in Projects : row[j] # NoGeneration => row[j] \in files
  BY DEF ShareInv, OwnRow
<1> QED
  BY <1>1, <1>2 DEF OthersStand, Written

(* A project takes a generation that a save has written: the others are    *)
(* left with what they had, and nothing else becomes theirs.               *)
LEMMA CommittedStep ==
    ASSUME ShareInv, TypeInv', NEW p \in Procs, NEW j \in Projects,
           At(p, {"staged"}), op[p].project = j, NEW old,
           old \in Generations => old = op[p].base,
           row' = [row EXCEPT ![j] = op[p].target],
           ReferencedBy(j)' \subseteq ReferencedBy(j) \cup {op[p].target, old},
           \A k \in Projects \ {j} : ReferencedBy(k)' = ReferencedBy(k),
           files' = files, young' = young,
           \A q \in Procs \ {p} : op'[q] = op[q],
           op'[p].step = "pruneAfterSave", op'[p].base = op[p].base,
           op'[p].target = op[p].target,
           op'[p].names \subseteq op[p].names \cup ReferencedBy(j) \cup {old}
    PROVE  ShareInv'
<1> DEFINE new == op[p].target
<1>1. /\ new \in Generations /\ new \in files
      /\ \A k \in Projects : new \notin ReferencedBy(k)
      /\ \A q \in Procs : new \notin {op[q].base} \cup op[q].names
      /\ \A q \in Procs \ {p} : new # op[q].target
  BY ReferencedIff DEF ShareInv, TypeInv, Operands, Knows, Written, Disjoint, At
<1>2. /\ \A k \in Projects : ReferencedBy(k) \subseteq Generations
      /\ \A k \in Projects : ReferencedBy(k)' \subseteq Generations
  BY DEF ReferencedBy
<1>3. row'[j] = new /\ \A k \in Projects \ {j} : row'[k] = row[k]
  BY DEF ShareInv, TypeInv, TypeOK
<1>4. \A q \in Procs \ {p} : Unattended(q)'
  BY DEF ShareInv, Unattended, At
<1>5. Unattended(p)' /\ Written(p)' /\ \A q \in Procs : Disjoint(p, q)'
  BY DEF Unattended, Written, Disjoint, At
<1> HIDE DEF new
<1>6. ASSUME NEW q \in Procs \ {p}
      PROVE  Written(q)' /\ \A r \in Procs : Disjoint(q, r)'
  <2>1. op'[q] = op[q]
    OBVIOUS
  <2>2. CASE ~ At(q, {"save", "staged"})
    BY <2>1, <2>2 DEF Written, Disjoint, At
  <2>3. CASE At(q, {"save", "staged"})
    <3>1. /\ op[q].target \in Generations /\ op[q].target \notin Referenced
          /\ op[q].target # new /\ op[q].target # op[p].base
          /\ op[q].target \notin op[p].names
      BY <1>1, <2>3 DEF ShareInv, TypeInv, Operands, Knows, Written, Disjoint, At
    <3>2. op[q].target # old
      BY <3>1
    <3>3. \A k \in Projects : op[q].target \notin ReferencedBy(k)
      BY <3>1, ReferencedIff
    <3>4. \A k \in Projects : op[q].target \notin ReferencedBy(k)'
      BY <3>1, <3>2, <3>3 DEF new
    <3>5. op[q].target \notin Referenced'
      BY <3>4 DEF Referenced
    <3>6. Written(q)'
      BY <2>1, <3>5 DEF ShareInv, Written, At
    <3>7. op[q].target \notin {op'[p].base, op'[p].target} \cup op'[p].names
      BY <3>1, <3>2, <3>3 DEF new
    <3>8. ASSUME NEW r \in Procs
          PROVE  Disjoint(q, r)'
      <4>1. CASE r = p
        BY <2>1, <3>7, <4>1 DEF Disjoint, At
      <4>2. CASE r # p
        <5>1. op'[r] = op[r]
          BY <4>2
        <5> QED
          BY <2>1, <5>1 DEF ShareInv, Disjoint, At
      <4> QED
        BY <4>1, <4>2
    <3> QED
      BY <3>6, <3>8
  <2> QED
    BY <2>2, <2>3
<1>7. ASSUME NEW k \in Projects, row'[k] # NoGeneration
      PROVE  /\ row'[k] \in files
             /\ \A l \in Projects : row'[k] \in ReferencedBy(l)' => k = l
             /\ k # j => row'[k] # old
  <2>1. CASE k = j
    <3>1. row'[k] = new
      BY <1>3, <2>1
    <3>2. \A l \in Projects \ {j} : new \notin ReferencedBy(l)'
      BY <1>1
    <3> QED
      BY <1>1, <2>1, <3>1, <3>2
  <2>2. CASE k # j
    <3>1. row'[k] = row[k] /\ row[k] \in Generations
      BY <1>3, <1>7, <2>2 DEF ShareInv, TypeInv, TypeOK
    <3>2. row[k] \in files /\ \A l \in Projects : row[k] \in ReferencedBy(l) => k = l
      BY <1>7, <3>1 DEF ShareInv, OwnRow
    <3>3. row[k] # op[p].base
      BY <1>7, <2>2, <3>1 DEF ShareInv, Spares, At
    <3>4. row[k] # old
      BY <3>1, <3>3
    <3>5. row[k] \in ReferencedBy(k)
      BY <3>1 DEF ReferencedBy
    <3>6. row[k] # new
      BY <1>1, <3>5
    <3>7. row[k] \notin ReferencedBy(j)'
      BY <2>2, <3>2, <3>4, <3>6 DEF new
    <3>8. \A l \in Projects \ {j} : row[k] \in ReferencedBy(l)' => k = l
      BY <3>2
    <3> QED
      BY <3>1, <3>2, <3>4, <3>7, <3>8
  <2> QED
    BY <2>1, <2>2
<1>8. \A k \in Projects : OwnRow(k)'
  BY <1>7 DEF OwnRow
<1>9. ASSUME NEW q \in Procs, NEW k \in Projects
      PROVE  Spares(q, k)'
  <2>1. CASE q = p
    BY <2>1 DEF Spares, At
  <2>2. CASE q # p
    <3>1. op'[q] = op[q]
      BY <2>2
    <3>2. CASE k = j
      BY <1>1, <1>3, <3>1, <3>2 DEF Spares
    <3>3. CASE k # j
      <4>1. row'[k] = row[k]
        BY <1>3, <3>3
      <4> QED
        BY <3>1, <4>1 DEF ShareInv, Spares, At
    <3> QED
      BY <3>2, <3>3
  <2> QED
    BY <2>1, <2>2
<1> QED
  BY <1>4, <1>5, <1>6, <1>8, <1>9 DEF ShareInv

(* Every step of a process without desktop is such a step, or moves a      *)
(* project to a generation that only its save knew.                        *)
LEMMA NextShareInv == Desktop = {} /\ ShareInv /\ [Next]_vars => ShareInv'
<1> SUFFICES ASSUME Desktop = {}, ShareInv, [Next]_vars PROVE ShareInv'
  OBVIOUS
<1>0. TypeInv /\ TypeInv'
  BY NextTypeInv DEF ShareInv
<1>a. /\ op \in [Procs -> OpRecord] /\ files \subseteq Generations
      /\ \A p \in Procs : op[p] \in OpRecord
  BY <1>0 DEF TypeInv, TypeOK
<1>b. \A p \in Procs : Knows(op[p]) /\ Unattended(p) /\ Written(p)
  BY <1>0 DEF ShareInv, TypeInv, Operands
<1>c. /\ \A p, q \in Procs : Disjoint(p, q)
      /\ \A q \in Procs : \A j \in Projects : Spares(q, j)
      /\ \A j \in Projects : OwnRow(j)
  BY DEF ShareInv
<1>d. ASSUME NEW j \in Projects, row[j] # NoGeneration
      PROVE  row[j] \in Referenced /\ row[j] \in files
  BY <1>0, <1>c, <1>d DEF OwnRow, Referenced, ReferencedBy, TypeInv, TypeOK
<1>e. ASSUME NEW p \in Procs, \A q \in Procs \ {p} : op'[q] = op[q],
             files' = files, young' = young
      PROVE  OthersStand(p)
  BY <1>b, <1>d, <1>e DEF OthersStand, Written
<1>1. ASSUME NEW p \in Procs, op' = [op EXCEPT ![p] = Idle], UNCHANGED <<row, versions>>,
             NEW removed, files' = files \ removed, young' = young \ removed,
             \A j \in Projects : row[j] # NoGeneration => row[j] \notin removed,
             \A q \in Procs \ {p} : At(q, {"staged"}) => op[q].target \notin removed
      PROVE  ShareInv'
  <2>1. OthersStand(p)
    BY <1>1, <1>a, OthersKeep
  <2>2. /\ op'[p].step = "idle" /\ op'[p].names = {}
        /\ op'[p].base = NoGeneration /\ op'[p].target = NoGeneration
    BY <1>1, <1>a DEF Idle
  <2> QED
    BY <1>0, <1>1, <2>1, <2>2, RemovingStep
<1>2. ASSUME NEW p \in Procs, op' = [op EXCEPT ![p] = Idle], UNCHANGED store
      PROVE  ShareInv'
  <2>1. files' = files \ {} /\ young' = young \ {}
    BY <1>2 DEF store
  <2>2. UNCHANGED <<row, versions>>
    BY <1>2 DEF store
  <2>3. /\ \A j \in Projects : row[j] # NoGeneration => row[j] \notin {}
        /\ \A q \in Procs \ {p} : At(q, {"staged"}) => op[q].target \notin {}
    OBVIOUS
  <2>4. OthersStand(p)
    BY <1>2, <2>1, <2>2, <2>3, <1>a, OthersKeep
  <2>5. /\ op'[p].step = "idle" /\ op'[p].names = {}
        /\ op'[p].base = NoGeneration /\ op'[p].target = NoGeneration
    BY <1>2, <1>a DEF Idle
  <2> QED
    BY <1>0, <2>1, <2>2, <2>3, <2>4, <2>5, RemovingStep
<1>3. ASSUME NEW p \in Procs, NEW g, op' = [op EXCEPT ![p].names = @ \ {g}],
             UNCHANGED <<row, versions>>, OthersStand(p),
             At(p, {"pruneAfterSave", "erase"})
      PROVE  ShareInv'
  <2>1. /\ op'[p].step = op[p].step /\ op'[p].names \subseteq op[p].names
        /\ op'[p].base = op[p].base /\ op'[p].target = op[p].target
    BY <1>3, <1>a DEF OpRecord
  <2> QED
    BY <1>0, <1>3, <2>1, RemovingStep DEF At
<1>4. ASSUME NEW p \in Procs, FindStale(p) PROVE ShareInv'
  <2>1. op'[p] = [op[p] EXCEPT !.step = "reconcile", !.names = Stale]
    BY <1>4, <1>a DEF FindStale
  <2>2. /\ op'[p].step = "reconcile" /\ op'[p].names = Stale
        /\ op'[p].base = op[p].base /\ op'[p].target = op[p].target
    BY <1>a, <2>1 DEF OpRecord
  <2>3. UNCHANGED <<row, versions, files, young>>
    BY <1>4 DEF FindStale, store
  <2>4. OthersStand(p)
    BY <1>4, <1>a, <1>e, <2>3 DEF FindStale
  <2>5. Unattended(p)' /\ Written(p)' /\ \A q \in Procs : Disjoint(p, q)'
    BY <2>2 DEF Unattended, Written, Disjoint, At
  <2>6. ASSUME NEW q \in Procs \ {p}, At(q, {"save", "staged"})
        PROVE  op[q].target \notin {op'[p].base, op'[p].target} \cup op'[p].names
    <3>1. op[q].target \notin {op[p].base, op[p].target}
      BY <1>c, <2>6 DEF Disjoint
    <3>2. op[q].target \notin Stale
      BY <1>b, <2>6 DEF Written, Stale, At
    <3> QED
      BY <2>2, <3>1, <3>2
  <2>7. \A j \in Projects : Spares(p, j)'
    BY <1>d, <2>2, <2>3 DEF Spares, Stale, At
  <2>8. ClaimsFairly(p)
    BY <2>5, <2>6, <2>7 DEF ClaimsFairly
  <2> QED
    BY <1>0, <2>3, <2>4, <2>8, SharedStep
<1>5. ASSUME NEW p \in Procs, RemoveStale(p) PROVE ShareInv'
  <2>1. PICK removed \in SUBSET op[p].names :
          files' = files \ removed /\ young' = young \ removed
    BY <1>5 DEF RemoveStale
  <2>2. \A j \in Projects : row[j] # NoGeneration => row[j] \notin op[p].names
    BY <1>5, <1>c DEF RemoveStale, Spares, At
  <2>3. \A q \in Procs \ {p} : At(q, {"staged"}) => op[q].target \notin op[p].names
    BY <1>c DEF Disjoint, At
  <2> QED
    BY <1>1, <1>5, <2>1, <2>2, <2>3 DEF RemoveStale
<1>6. ASSUME NEW p \in Procs, BeginSave(p) PROVE ShareInv'
  <2>1. PICK j \in Projects, g \in Generations :
          /\ Unheard(g)
          /\ op' = [op EXCEPT ![p] = [step |-> "save", project |-> j, base |-> row[j],
                                     target |-> g, names |-> {}]]
    BY <1>6 DEF BeginSave
  <2>2. op'[p] = [step |-> "save", project |-> j, base |-> row[j], target |-> g,
                  names |-> {}]
    BY <2>1, <1>a
  <2>3. UNCHANGED <<row, versions, files, young>>
    BY <1>6 DEF BeginSave, store
  <2>4. OthersStand(p)
    BY <1>e, <2>1, <2>3, <1>a
  <2>5. /\ g \notin files /\ g \notin Referenced
        /\ \A q \in Procs : g \notin {op[q].base, op[q].target} \cup op[q].names
    BY <2>1 DEF Unheard
  <2>6. row[j] # g
    BY <1>d, <2>5, <1>0, CatalogAssumption
  <2>7. Referenced' = Referenced
    BY <2>3, SameCatalog
  <2>8. Unattended(p)' /\ Written(p)'
    BY <2>2, <2>3, <2>5, <2>7 DEF Unattended, Written, At
  <2>9. ASSUME NEW q \in Procs
        PROVE  Disjoint(p, q)'
    <3>1. CASE q = p
      BY <2>2, <2>6, <3>1 DEF Disjoint
    <3>2. CASE q # p
      <4>1. op'[q] = op[q]
        BY <2>1, <3>2, <1>a
      <4> QED
        BY <2>2, <2>5, <4>1 DEF Disjoint
    <3> QED
      BY <3>1, <3>2
  <2>10. ASSUME NEW q \in Procs \ {p}, At(q, {"save", "staged"})
         PROVE  op[q].target \notin {op'[p].base, op'[p].target} \cup op'[p].names
    <3>1. op[q].target \in Generations /\ op[q].target \notin Referenced
      BY <1>b, <2>10 DEF Knows, Written, At
    <3>2. op[q].target # row[j]
      BY <1>d, <3>1, CatalogAssumption
    <3>3. op[q].target # g
      BY <2>5
    <3> QED
      BY <2>2, <3>2, <3>3
  <2>11. ASSUME NEW k \in Projects
         PROVE  Spares(p, k)'
    <3>1. ASSUME row[k] # NoGeneration, row[j] = row[k]
          PROVE  j = k
      <4>1. row[k] \in ReferencedBy(k) /\ row[k] \in ReferencedBy(j)
        BY <1>0, <3>1 DEF ReferencedBy, TypeInv, TypeOK
      <4> QED
        BY <1>c, <3>1, <4>1 DEF OwnRow
    <3> QED
      BY <2>2, <2>3, <3>1 DEF Spares, At
  <2>12. ClaimsFairly(p)
    BY <2>8, <2>9, <2>10, <2>11 DEF ClaimsFairly
  <2> QED
    BY <1>0, <2>3, <2>4, <2>12, SharedStep
<1>7. ASSUME NEW p \in Procs, StageGeneration(p) PROVE ShareInv'
  <2>1. op'[p] = [op[p] EXCEPT !.step = "staged"]
    BY <1>7, <1>a DEF StageGeneration
  <2>2. /\ op'[p].step = "staged" /\ op'[p].target = op[p].target
        /\ op'[p].base = op[p].base /\ op'[p].project = op[p].project
        /\ op'[p].names = op[p].names
    BY <2>1, <1>a DEF OpRecord
  <2>3. /\ UNCHANGED <<row, versions>> /\ op[p].step = "save"
        /\ files' = files \cup {op[p].target} /\ young' = young \cup {op[p].target}
        /\ \A q \in Procs \ {p} : op'[q] = op[q]
    BY <1>7, <1>a DEF StageGeneration, At
  <2>4. OthersStand(p)
    <3>1. \A q \in Procs \ {p} : At(q, {"save"}) => op[q].target # op[p].target
      BY <1>c DEF Disjoint, At
    <3> QED
      BY <1>b, <1>d, <2>3, <3>1 DEF OthersStand, Written
  <2>5. Referenced' = Referenced
    BY <2>3, SameCatalog
  <2>6. Unattended(p)' /\ Written(p)'
    BY <1>b, <2>2, <2>3, <2>5 DEF Unattended, Written, At
  <2>7. ASSUME NEW q \in Procs
        PROVE  Disjoint(p, q)'
    <3>1. op'[q].base = op[q].base /\ op'[q].target = op[q].target /\ op'[q].names = op[q].names
      BY <2>2, <2>3
    <3> QED
      BY <1>c, <2>2, <2>3, <3>1 DEF Disjoint, At
  <2>8. \A q \in Procs \ {p} : At(q, {"save", "staged"}) =>
          op[q].target \notin {op'[p].base, op'[p].target} \cup op'[p].names
    BY <1>c, <2>2 DEF Disjoint
  <2>9. \A k \in Projects : Spares(p, k)'
    BY <1>c, <2>2, <2>3 DEF Spares, At
  <2>10. ClaimsFairly(p)
    BY <2>6, <2>7, <2>8, <2>9 DEF ClaimsFairly
  <2> QED
    BY <1>0, <2>3, <2>4, <2>10, SharedStep
<1>8. ASSUME NEW p \in Procs, CommitNewProject(p) PROVE ShareInv'
  <2>1. PICK j \in Projects : j = op[p].project
    BY <1>8, <1>b DEF CommitNewProject, Knows, At
  <2>2. /\ row' = [row EXCEPT ![j] = op[p].target] /\ versions' = versions
        /\ files' = files /\ young' = young /\ At(p, {"staged"})
        /\ op[p].base = NoGeneration
    BY <1>8, <2>1 DEF CommitNewProject
  <2>3. ReferencedBy(j)' \subseteq ReferencedBy(j) \cup {op[p].target, op[p].base}
    BY <1>0, <2>2 DEF ReferencedBy, TypeInv, TypeOK
  <2>4. \A k \in Projects \ {j} : ReferencedBy(k)' = ReferencedBy(k)
    BY <1>0, <2>2 DEF ReferencedBy, TypeInv, TypeOK
  <2>5. op'[p] = [op[p] EXCEPT !.step = "pruneAfterSave"]
    BY <1>8, <1>a DEF CommitNewProject
  <2>6. /\ op'[p].step = "pruneAfterSave" /\ op'[p].base = op[p].base
        /\ op'[p].target = op[p].target /\ op'[p].names = op[p].names
    BY <1>a, <2>5 DEF OpRecord
  <2>7. \A q \in Procs \ {p} : op'[q] = op[q]
    BY <1>8, <1>a DEF CommitNewProject
  <2> QED
    BY <1>0, <2>1, <2>2, <2>3, <2>4, <2>6, <2>7, CommittedStep
<1>9. ASSUME NEW p \in Procs, CommitSave(p) PROVE ShareInv'
  <2>1. PICK j \in Projects : j = op[p].project
    BY <1>9, <1>b DEF CommitSave, Knows, At
  <2>2. At(p, {"staged"}) /\ MoveProject(p, "pruneAfterSave") /\ op[p].base \in Generations
    BY <1>9, <1>a DEF CommitSave, OpRecord
  <2>3. op[p].target \in Generations
    BY <1>b, <2>2 DEF Knows, At
  <2>4. /\ ReferencedBy(j)' \subseteq ReferencedBy(j) \cup {op[p].target, op[p].base}
        /\ op'[p].names \subseteq ReferencedBy(j) \cup {op[p].base}
        /\ \A k \in Projects \ {j} : ReferencedBy(k)' = ReferencedBy(k)
    BY <1>0, <2>1, <2>2, <2>3, MovedReferences
  <2>5. row' = [row EXCEPT ![j] = op[p].target] /\ files' = files /\ young' = young
    BY <2>1, <2>2 DEF MoveProject
  <2>6. PICK names : op' = [op EXCEPT ![p].step = "pruneAfterSave", ![p].names = names]
    BY <2>2 DEF MoveProject, FileVersions
  <2>7. /\ op'[p].step = "pruneAfterSave" /\ op'[p].base = op[p].base
        /\ op'[p].target = op[p].target
    BY <1>a, <2>6 DEF OpRecord
  <2>8. \A q \in Procs \ {p} : op'[q] = op[q]
    BY <1>a, <2>6
  <2> QED
    BY <1>0, <2>1, <2>2, <2>4, <2>5, <2>7, <2>8, CommittedStep
<1>10. ASSUME NEW p \in Procs, CleanUp(p) PROVE ShareInv'
  <2>1. PICK g \in op[p].names :
          /\ files' = files \ {h \in {g} : Disposable(h)}
          /\ young' = young \ {h \in {g} : Disposable(h)}
          /\ op' = [op EXCEPT ![p].names = @ \ {g}]
    BY <1>10 DEF CleanUp
  <2>2. UNCHANGED <<row, versions>> /\ At(p, {"pruneAfterSave", "erase"})
    BY <1>10, <1>b DEF CleanUp, Unattended, At
  <2>3. \A j \in Projects : row[j] # NoGeneration => row[j] \notin {h \in {g} : Disposable(h)}
    BY <1>d DEF Disposable
  <2>4. \A q \in Procs \ {p} : At(q, {"staged"}) => op[q].target \notin {h \in {g} : Disposable(h)}
    BY <1>c, <2>1 DEF Disjoint, At
  <2>5. OthersStand(p)
    BY <1>a, <2>1, <2>3, <2>4, OthersKeep
  <2> QED
    BY <1>3, <2>1, <2>2, <2>5
<1>11. ASSUME NEW p \in Procs, Erase(p) PROVE ShareInv'
  <2>1. PICK g \in op[p].names :
          /\ files' = files \ {g} /\ young' = young \ {g}
          /\ op' = [op EXCEPT ![p].names = @ \ {g}]
    BY <1>11 DEF Erase
  <2>2. UNCHANGED <<row, versions>> /\ At(p, {"erase"})
    BY <1>11 DEF Erase
  <2>3. \A j \in Projects : row[j] # NoGeneration => row[j] \notin {g}
    BY <1>c, <2>1, <2>2 DEF Spares, At
  <2>4. \A q \in Procs \ {p} : At(q, {"staged"}) => op[q].target \notin {g}
    BY <1>c, <2>1 DEF Disjoint, At
  <2>5. OthersStand(p)
    BY <1>a, <2>1, <2>3, <2>4, OthersKeep
  <2> QED
    BY <1>3, <2>1, <2>2, <2>5 DEF At
<1>12. ASSUME NEW p \in Procs, Abandon(p) PROVE ShareInv'
  <2> DEFINE written == IF At(p, {"staged"}) THEN {op[p].target} ELSE {}
  <2>1. /\ files' = files \ written /\ young' = young \ written
        /\ op' = [op EXCEPT ![p] = Idle] /\ UNCHANGED <<row, versions>>
    BY <1>12 DEF Abandon
  <2>2. \A j \in Projects : row[j] # NoGeneration => row[j] \notin written
    BY <1>b, <1>d DEF Written, At
  <2>3. \A q \in Procs \ {p} : At(q, {"staged"}) => op[q].target \notin written
    BY <1>c DEF Disjoint, At
  <2> HIDE DEF written
  <2> QED
    BY <1>1, <2>1, <2>2, <2>3
<1>13. ASSUME NEW p \in Procs, BeginDelete(p) PROVE ShareInv'
  <2>1. PICK j \in Projects :
          op' = [op EXCEPT ![p] = [Idle EXCEPT !.step = "delete", !.project = j,
                                             !.names = ReferencedBy(j)]]
    BY <1>13 DEF BeginDelete
  <2>2. /\ op'[p].step = "delete" /\ op'[p].project = j /\ op'[p].names = ReferencedBy(j)
        /\ op'[p].base = NoGeneration /\ op'[p].target = NoGeneration
    BY <2>1, <1>a DEF Idle
  <2>3. UNCHANGED <<row, versions, files, young>>
    BY <1>13 DEF BeginDelete, store
  <2>4. OthersStand(p)
    BY <1>a, <1>e, <2>1, <2>3
  <2>5. Unattended(p)' /\ Written(p)' /\ \A q \in Procs : Disjoint(p, q)'
    BY <2>2 DEF Unattended, Written, Disjoint, At
  <2>6. ASSUME NEW q \in Procs \ {p}, At(q, {"save", "staged"})
        PROVE  op[q].target \notin {op'[p].base, op'[p].target} \cup op'[p].names
    <3>1. op[q].target \in Generations /\ op[q].target \notin Referenced
      BY <1>b, <2>6 DEF Knows, Written, At
    <3>2. op[q].target \notin ReferencedBy(j)
      BY <3>1, ReferencedIff
    <3> QED
      BY <2>2, <3>1, <3>2
  <2>7. \A k \in Projects : Spares(p, k)'
    BY <1>c, <2>2, <2>3 DEF Spares, OwnRow, At
  <2>8. ClaimsFairly(p)
    BY <2>5, <2>6, <2>7 DEF ClaimsFairly
  <2> QED
    BY <1>0, <2>3, <2>4, <2>8, SharedStep
<1>14. ASSUME NEW p \in Procs, CommitDelete(p) PROVE ShareInv'
  <2>1. PICK j \in Projects : j = op[p].project
    BY <1>14, <1>b DEF CommitDelete, Knows, At
  <2>2. /\ row' = [row EXCEPT ![j] = NoGeneration]
        /\ versions' = [versions EXCEPT ![j] = <<>>]
        /\ files' = files /\ young' = young /\ op[p].step = "delete"
    BY <1>14, <2>1 DEF CommitDelete, At
  <2>3. op'[p] = [op[p] EXCEPT !.step = "erase"]
    BY <1>14, <1>a DEF CommitDelete
  <2>4. /\ op'[p].step = "erase" /\ op'[p].names = op[p].names
        /\ op'[p].base = op[p].base /\ op'[p].target = op[p].target
    BY <1>a, <2>3 DEF OpRecord
  <2>5. \A q \in Procs \ {p} : op'[q] = op[q]
    BY <1>14, <1>a DEF CommitDelete
  <2>6. row'[j] = NoGeneration /\ \A k \in Projects \ {j} : row'[k] = row[k]
    BY <1>0, <2>2 DEF TypeInv, TypeOK
  <2>7. \A k \in Projects : ReferencedBy(k)' \subseteq ReferencedBy(k)
    BY <1>0, <2>2 DEF ReferencedBy, TypeInv, TypeOK
  <2>8. Referenced' \subseteq Referenced
    BY <2>7 DEF Referenced
  <2>9. ASSUME NEW q \in Procs
        PROVE  /\ op'[q].base = op[q].base /\ op'[q].target = op[q].target
               /\ op'[q].names = op[q].names /\ op'[q].project = op[q].project
               /\ q # p => op'[q].step = op[q].step
    BY <1>a, <2>3, <2>5 DEF OpRecord
  <2>10. \A q \in Procs : Unattended(q)' /\ Written(q)'
    <3>1. ASSUME NEW q \in Procs PROVE Unattended(q)' /\ Written(q)'
      BY <1>b, <2>2, <2>4, <2>8, <2>9 DEF Unattended, Written, At
    <3> QED
      BY <3>1
  <2>11. \A q, r \in Procs : Disjoint(q, r)'
    <3>1. ASSUME NEW q \in Procs, NEW r \in Procs PROVE Disjoint(q, r)'
      BY <1>c, <2>4, <2>9 DEF Disjoint, At
    <3> QED
      BY <3>1
  <2>12. \A k \in Projects : OwnRow(k)'
    BY <1>c, <2>2, <2>6, <2>7 DEF OwnRow
  <2>13. ASSUME NEW q \in Procs, NEW k \in Projects
         PROVE  Spares(q, k)'
    <3>1. CASE k = j
      BY <2>6, <3>1 DEF Spares
    <3>2. CASE k # j /\ q = p
      BY <1>c, <2>1, <2>2, <2>4, <2>6, <3>2 DEF Spares, At
    <3>3. CASE k # j /\ q # p
      BY <1>c, <2>6, <2>9, <3>3 DEF Spares, At
    <3> QED
      BY <3>1, <3>2, <3>3
  <2> QED
    BY <1>0, <2>10, <2>11, <2>12, <2>13 DEF ShareInv
<1>15. ASSUME NEW p \in Procs, RemovalFails(p) PROVE ShareInv'
  <2>1. CASE op' = [op EXCEPT ![p] = Idle]
    BY <1>2, <1>15, <2>1 DEF RemovalFails
  <2>2. CASE /\ At(p, {"pruneAfterSave", "pruneAfterRestore"})
             /\ \E g \in op[p].names : op' = [op EXCEPT ![p].names = @ \ {g}]
    <3>1. PICK g \in op[p].names : op' = [op EXCEPT ![p].names = @ \ {g}]
      BY <2>2
    <3>2. UNCHANGED <<row, versions, files, young>>
      BY <1>15 DEF RemovalFails, store
    <3>3. OthersStand(p)
      BY <1>a, <1>e, <3>1, <3>2
    <3>4. At(p, {"pruneAfterSave", "erase"})
      BY <1>b, <2>2 DEF Unattended, At
    <3> QED
      BY <1>3, <3>1, <3>2, <3>3, <3>4
  <2> QED
    BY <1>15, <2>1, <2>2 DEF RemovalFails
<1>16. ASSUME NEW p \in Procs, FinishSave(p) \/ FinishDelete(p) \/ Crash(p) PROVE ShareInv'
  BY <1>2, <1>16 DEF FinishSave, FinishDelete, Crash
<1>17. ASSUME UNCHANGED <<row, versions, files, op>>,
              \A q \in Procs : At(q, {"staged"}) => op[q].target \in young'
       PROVE  ShareInv'
  <2>1. Referenced' = Referenced /\ \A k \in Projects : ReferencedBy(k)' = ReferencedBy(k)
    BY <1>17, SameCatalog
  <2>2. \A q \in Procs : Unattended(q)' /\ Written(q)'
    BY <1>17, <1>b, <2>1 DEF Unattended, Written, At
  <2>3. \A q, r \in Procs : Disjoint(q, r)'
    BY <1>17, <1>c DEF Disjoint, At
  <2>4. \A q \in Procs : \A k \in Projects : Spares(q, k)'
    BY <1>17, <1>c DEF Spares, At
  <2>5. \A k \in Projects : OwnRow(k)'
    BY <1>17, <1>c, <2>1 DEF OwnRow
  <2> QED
    BY <1>0, <2>2, <2>3, <2>4, <2>5 DEF ShareInv
<1>18. ASSUME NEW p \in Procs, LeaveStore(p) PROVE ShareInv'
  BY <1>17, <1>18, <1>b DEF LeaveStore, store, Written
<1>19. ASSUME NEW g \in Generations, Age(g) PROVE ShareInv'
  BY <1>17, <1>19, <1>b DEF Age, Written
<1>20. CASE UNCHANGED vars
  BY <1>17, <1>20, <1>b DEF vars, Written
<1>21. ASSUME NEW p \in Procs, OpenStep(p) PROVE FALSE
  BY <1>21, <1>b
     DEF OpenStep, BeginOpen, PublishOpen, BeginRestore, CommitRestore, FinishRestore,
         Unattended, At
<1>22. ASSUME NEW p \in Procs, SaveStep(p) PROVE ShareInv'
  BY <1>6, <1>7, <1>8, <1>9, <1>10, <1>16, <1>22 DEF SaveStep
<1>23. ASSUME NEW p \in Procs, DeleteStep(p) PROVE ShareInv'
  BY <1>11, <1>13, <1>14, <1>16, <1>23 DEF DeleteStep
<1> QED
  BY <1>4, <1>5, <1>12, <1>15, <1>16, <1>18, <1>19, <1>20, <1>21, <1>22, <1>23 DEF Next

(* However many processes of the command line use the store, and whatever  *)
(* they are interrupted at, none takes the current generation of a project *)
(* away: neither a recovery that runs while another saves, nor a deletion  *)
(* or a cleanup that goes by what it read before.                          *)
THEOREM CurrentStaysReadable == Desktop = {} => (Spec => []CurrentIsReadable)
<1> SUFFICES ASSUME Desktop = {} PROVE Spec => []CurrentIsReadable
  OBVIOUS
<1>1. Init => ShareInv
  BY InitTypeInv
     DEF Init, ShareInv, Unattended, Written, Disjoint, Spares, OwnRow, At, Idle
<1>2. ShareInv /\ [Next]_vars => ShareInv'
  BY NextShareInv
<1>3. ShareInv => CurrentIsReadable
  BY DEF ShareInv, OwnRow, CurrentIsReadable
<1> QED
  BY <1>1, <1>2, <1>3, PTL DEF Spec

-----------------------------------------------------------------------------
(* Every place of the versions that are kept appears once in the list they *)
(* are arranged into.                                                      *)
LEMMA ArrangedOnto ==
  ASSUME NEW list \in Seq(VersionRecord), NEW I \in SUBSET DOMAIN list,
         NEW f \in [1 .. Cardinality(I) -> I], Increasing(f)
  PROVE  /\ IsFiniteSet(I) /\ Cardinality(I) \in Nat
         /\ \A m, n \in 1 .. Cardinality(I) : f[m] = f[n] => m = n
         /\ \A i \in I : \E n \in 1 .. Cardinality(I) : f[n] = i
<1>1. Len(list) \in Nat /\ DOMAIN list = 1 .. Len(list)
  OBVIOUS
<1>2. IsFiniteSet(I)
  <2>1. IsFiniteSet(1 .. Len(list))
    BY <1>1, FS_Interval, 1 \in Int, Len(list) \in Int
  <2> QED
    BY <1>1, <2>1, FS_Subset
<1>3. Cardinality(I) \in Nat
  BY <1>2, FS_CardinalityType
<1>4. ASSUME NEW m \in 1 .. Cardinality(I), NEW n \in 1 .. Cardinality(I), f[m] = f[n]
      PROVE  m = n
  <2>1. f[m] \in Nat /\ f[n] \in Nat
    BY <1>1
  <2>2. DOMAIN f = 1 .. Cardinality(I)
    OBVIOUS
  <2>3. m \in Nat /\ n \in Nat
    BY <1>3
  <2>4. ~ (m < n) /\ ~ (n < m)
    BY <1>4, <2>1, <2>2 DEF Increasing
  <2> QED
    BY <2>3, <2>4
<1>5. ASSUME NEW i \in I
      PROVE  \E n \in 1 .. Cardinality(I) : f[n] = i
  <2> DEFINE S == 1 .. Cardinality(I)
  <2>1. Cardinality(S) = Cardinality(I)
    <3>1. 1 \in Int /\ Cardinality(I) \in Int
      BY <1>3
    <3> QED
      BY <1>3, <3>1, FS_Interval
  <2>2. f \in [S -> I] /\ \A m, n \in S : f[m] = f[n] => m = n
    BY <1>4
  <2> HIDE DEF S
  <2>3. f \in Injection(S, I)
    BY <2>2 DEF Injection, IsInjective
  <2>4. f \in Surjection(S, I)
    BY <1>2, <2>1, <2>3, FS_Injection
  <2>5. \E n \in S : f[n] = i
    BY <2>4 DEF Surjection
  <2> QED
    BY <2>5 DEF S
<1> QED
  BY <1>2, <1>3, <1>4, <1>5
-----------------------------------------------------------------------------
(* Nothing is left behind.                                                 *)

(* What an operation holds is what it may still name or remove: before it  *)
(* writes, its generation is not on disk; when it ends, its generation is  *)
(* in the catalogue; it removes only what a commit took from there.        *)
Settled(p) ==
    /\ At(p, {"idle", "reconcile", "delete", "erase"}) => op[p].target = NoGeneration
    /\ At(p, {"idle", "save", "staged", "open", "restore"}) => op[p].names = {}
    /\ At(p, {"save"}) => op[p].target \notin files
    /\ At(p, {"open", "pruneAfterSave", "pruneAfterRestore"}) => op[p].target \in Referenced

LeakInv == ReadInv /\ \A p \in Procs : Settled(p)

(* With one process, the orphans are what neither the catalogue nor its    *)
(* operation names.                                                        *)
LEMMA OrphansOfOne ==
  ASSUME OneProcess, NEW p \in Procs
  PROVE  Orphans = (files \ Referenced) \ Held(p)
<1>1. UNION {Held(q) : q \in Procs} = Held(p)
  BY DEF OneProcess
<1> QED
  BY <1>1 DEF Orphans

(* The same after the step.                                                *)
LEMMA OrphansOfOneNext ==
  ASSUME OneProcess, NEW p \in Procs
  PROVE  Orphans' = (files' \ Referenced') \ Held(p)'
<1>1. UNION {Held(q) : q \in Procs}' = Held(p)'
  BY DEF OneProcess
<1> QED
  BY <1>1 DEF Orphans

(* A step leaves nothing behind when every directory there is after it is  *)
(* in the catalogue, or still held, or was an orphan already.              *)
Accounted(p) ==
    \A g \in files' :
        \/ g \in Referenced' \cup Held(p)'
        \/ g \in files /\ g \notin Referenced \cup Held(p)

(* A step that accounts for each file and reference it drops leaves no     *)
(* orphan behind.                                                          *)
LEMMA SettledStep ==
  ASSUME OneProcess, ReadInv', NEW p \in Procs, Settled(p)', Accounted(p)
  PROVE  LeakInv' /\ Orphans' \subseteq Orphans
<1>1. Orphans = (files \ Referenced) \ Held(p)
  BY OrphansOfOne
<1>2. Orphans' = (files' \ Referenced') \ Held(p)'
  BY OrphansOfOneNext
<1>3. \A q \in Procs : Settled(q)'
  BY DEF OneProcess
<1> QED
  BY <1>1, <1>2, <1>3 DEF LeakInv, Accounted

(* What a project referred to before a save or a restore and no longer     *)
(* does is noted for the cleanup.                                          *)
LEMMA MovedIsHeld ==
  ASSUME ReadInv, NEW p \in Procs, NEW j \in Projects, NEW then,
         op[p].project = j, op[p].target \in Generations, op[p].base = row[j],
         MoveProject(p, then)
  PROVE  /\ op'[p].step = then /\ op'[p].target = op[p].target
         /\ op[p].target \in ReferencedBy(j)'
         /\ ReferencedBy(j) \subseteq ReferencedBy(j)' \cup op'[p].names
<1> DEFINE list == <<Version(op[p].base)>> \o versions[j]
<1>0. TypeInv /\ op \in [Procs -> OpRecord] /\ op[p] \in OpRecord
  BY DEF ReadInv, TypeInv, TypeOK
<1>1. op[p].base \in Generations
  BY <1>0 DEF MoveProject, TypeInv, TypeOK
<1>2. versions[j] \in Seq(VersionRecord)
  BY <1>0 DEF TypeInv, TypeOK
<1>3. list \in Seq(VersionRecord)
  BY <1>1, <1>2, VersionTyped
<1>4. PICK I \in SUBSET DOMAIN list :
        /\ \E kept \in Arranged(list, I) : versions' = [versions EXCEPT ![j] = kept]
        /\ op' = [op EXCEPT ![p].step = then,
                            ![p].names = GenerationsAt(list, DOMAIN list \ I)]
  BY DEF MoveProject, FileVersions
<1>5. PICK kept \in Arranged(list, I) : versions' = [versions EXCEPT ![j] = kept]
  BY <1>4
<1>6. versions'[j] = kept
  BY <1>0, <1>5 DEF TypeInv, TypeOK
<1>7. /\ op'[p].step = then /\ op'[p].target = op[p].target
      /\ op'[p].names = GenerationsAt(list, DOMAIN list \ I)
  BY <1>0, <1>4 DEF OpRecord
<1>8. op[p].target \in ReferencedBy(j)'
  BY <1>0 DEF MoveProject, TypeInv, TypeOK, ReferencedBy
<1>9. ASSUME NEW g \in ReferencedBy(j)
      PROVE  \E i \in DOMAIN list : g = list[i].generation
  <2>1. CASE g = row[j]
    <3>1. 1 \in DOMAIN list /\ list[1] = Version(op[p].base)
      BY <1>2
    <3>2. list[1].generation = row[j]
      BY <3>1 DEF Version
    <3> QED
      BY <2>1, <3>1, <3>2
  <2>2. CASE \E i \in DOMAIN versions[j] : g = versions[j][i].generation
    <3>1. PICK i \in DOMAIN versions[j] : g = versions[j][i].generation
      BY <2>2
    <3>2. i + 1 \in DOMAIN list /\ list[i + 1] = versions[j][i]
      BY <1>2, <3>1
    <3> QED
      BY <3>1, <3>2
  <2> QED
    BY <1>9, <2>1, <2>2 DEF ReferencedBy
<1>10. ASSUME NEW i \in I
       PROVE  \E n \in DOMAIN kept : kept[n] = list[i]
  <2> HIDE DEF list
  <2>1. PICK f \in [1 .. Cardinality(I) -> I] :
          Increasing(f) /\ kept = [n \in 1 .. Cardinality(I) |-> list[f[n]]]
    BY <1>5 DEF Arranged
  <2>2. PICK n \in 1 .. Cardinality(I) : f[n] = i
    BY <1>3, <2>1, ArrangedOnto
  <2> QED
    BY <2>1, <2>2
<1>11. ASSUME NEW g \in ReferencedBy(j)
       PROVE  g \in ReferencedBy(j)' \cup op'[p].names
  <2> HIDE DEF list
  <2>1. PICK i \in DOMAIN list : g = list[i].generation
    BY <1>9
  <2>2. CASE i \in I
    <3>1. PICK n \in DOMAIN kept : kept[n] = list[i]
      BY <1>10, <2>2
    <3> QED
      BY <1>6, <2>1, <3>1, <1>11 DEF ReferencedBy
  <2>3. CASE i \notin I
    BY <1>7, <2>1, <2>3 DEF GenerationsAt
  <2> QED
    BY <2>2, <2>3
<1> QED
  BY <1>7, <1>8, <1>11

(* An operation ends when what it held is in the catalogue, or removed.    *)
LEMMA EndedStep ==
  ASSUME OneProcess, LeakInv, ReadInv', NEW p \in Procs,
         op' = [op EXCEPT ![p] = Idle], UNCHANGED <<row, versions>>,
         files' \subseteq files, files' \cap Held(p) \subseteq Referenced
  PROVE  LeakInv' /\ Orphans' \subseteq Orphans
<1>1. op'[p] = Idle
  BY DEF LeakInv, ReadInv, TypeInv, TypeOK
<1>2. Settled(p)'
  BY <1>1 DEF Settled, At, Idle
<1>3. Referenced' = Referenced
  BY SameCatalog
<1>4. Accounted(p)
  BY <1>3 DEF Accounted
<1> QED
  BY <1>2, <1>4, SettledStep

(* Every step but a crash and a failed removal is such a step.             *)
LEMMA NothingLeaksStep ==
  OneProcess /\ LeakInv /\ [Next]_vars =>
    /\ LeakInv'
    /\ [\/ Orphans' \subseteq Orphans
        \/ \E p \in Procs : Crash(p) \/ RemovalFails(p)]_vars
<1> SUFFICES ASSUME OneProcess, LeakInv, [Next]_vars
             PROVE  /\ LeakInv'
                    /\ [\/ Orphans' \subseteq Orphans
                        \/ \E p \in Procs : Crash(p) \/ RemovalFails(p)]_vars
  OBVIOUS
<1> DEFINE Clean == LeakInv' /\ Orphans' \subseteq Orphans
<1>0. ReadInv /\ ReadInv' /\ TypeInv
  BY NextReadInv DEF LeakInv, ReadInv
<1>a. \A p \in Procs : Knows(op[p]) /\ Relies(p) /\ Settled(p) /\ op[p] \in OpRecord
  BY <1>0 DEF LeakInv, ReadInv, TypeInv, TypeOK, Operands
<1>b. op \in [Procs -> OpRecord] /\ files \subseteq Generations
  BY <1>0 DEF TypeInv, TypeOK
<1>1. ASSUME NEW p \in Procs, FindStale(p) PROVE Clean
  <2>1. op'[p] = [op[p] EXCEPT !.step = "reconcile", !.names = Stale]
    BY <1>1, <1>b DEF FindStale
  <2>2. op'[p].step = "reconcile" /\ op'[p].target = op[p].target
    BY <1>a, <2>1 DEF OpRecord
  <2>3. UNCHANGED <<row, versions, files>> /\ op[p].names = {} /\ op[p].target = NoGeneration
    BY <1>1, <1>a DEF FindStale, store, Settled, At
  <2>4. Settled(p)'
    BY <2>2, <2>3 DEF Settled, At
  <2>5. Held(p) = {NoGeneration} /\ Referenced' = Referenced
    BY <2>3, SameCatalog DEF Held
  <2>6. Accounted(p)
    BY <1>b, <2>3, <2>5 DEF Accounted
  <2> QED
    BY <1>0, <2>4, <2>6, SettledStep
<1>2. ASSUME NEW p \in Procs, op' = [op EXCEPT ![p] = Idle], UNCHANGED <<row, versions>>,
             files' \subseteq files, files' \cap Held(p) \subseteq Referenced
      PROVE  Clean
  BY <1>0, <1>2, EndedStep
<1>3. ASSUME NEW p \in Procs, RemoveStale(p) PROVE Clean
  <2>1. op[p].target = NoGeneration /\ At(p, {"reconcile"})
    BY <1>3, <1>a DEF RemoveStale, Settled, At
  <2>2. files' \subseteq files
    BY <1>3 DEF RemoveStale
  <2>3. files' \cap Held(p) \subseteq Referenced
    BY <1>b, <2>1, <2>2 DEF Held
  <2> QED
    BY <1>2, <1>3, <2>2, <2>3 DEF RemoveStale
<1>4. ASSUME NEW p \in Procs, BeginSave(p) PROVE Clean
  <2>1. PICK j \in Projects, g \in Generations :
          /\ Unheard(g)
          /\ op' = [op EXCEPT ![p] = [step |-> "save", project |-> j, base |-> row[j],
                                     target |-> g, names |-> {}]]
    BY <1>4 DEF BeginSave
  <2>2. op'[p] = [step |-> "save", project |-> j, base |-> row[j], target |-> g,
                  names |-> {}]
    BY <2>1, <1>b
  <2>3. UNCHANGED <<row, versions, files>> /\ g \notin files
    BY <1>4, <2>1 DEF BeginSave, store, Unheard
  <2>4. Settled(p)'
    BY <2>2, <2>3 DEF Settled, At
  <2>5. op[p].names = {} /\ op[p].target = NoGeneration /\ Referenced' = Referenced
    BY <1>4, <1>a, <2>3, SameCatalog DEF BeginSave, Settled, At
  <2>6. Accounted(p)
    BY <1>b, <2>3, <2>5 DEF Accounted, Held
  <2> QED
    BY <1>0, <2>4, <2>6, SettledStep
<1>5. ASSUME NEW p \in Procs, StageGeneration(p) PROVE Clean
  <2>1. op'[p] = [op[p] EXCEPT !.step = "staged"]
    BY <1>5, <1>b DEF StageGeneration
  <2>2. op'[p].step = "staged" /\ op'[p].target = op[p].target /\ op'[p].names = op[p].names
    BY <2>1, <1>a DEF OpRecord
  <2>3. UNCHANGED <<row, versions>> /\ files' = files \cup {op[p].target} /\ op[p].names = {}
    BY <1>5, <1>a DEF StageGeneration, Settled, At
  <2>4. Settled(p)'
    BY <2>2, <2>3 DEF Settled, At
  <2>5. Held(p)' = {op[p].target} /\ Held(p) = {op[p].target} /\ Referenced' = Referenced
    BY <2>2, <2>3, SameCatalog DEF Held
  <2>6. Accounted(p)
    BY <2>3, <2>5 DEF Accounted
  <2> QED
    BY <1>0, <2>4, <2>6, SettledStep
<1>6. ASSUME NEW p \in Procs, CommitNewProject(p) PROVE Clean
  <2>1. PICK j \in Projects : j = op[p].project
    BY <1>6, <1>a DEF CommitNewProject, Knows, At
  <2>2. op[p].names = {} /\ op[p].base = NoGeneration /\ op[p].base = row[j]
    BY <1>6, <1>a, <2>1 DEF CommitNewProject, Relies, Settled, At
  <2>3. row' = [row EXCEPT ![j] = op[p].target] /\ versions' = versions /\ files' = files
    BY <1>6, <2>1 DEF CommitNewProject
  <2>4. op[p].target \in Generations
    BY <1>6, <1>a DEF CommitNewProject, Knows, At
  <2>5. op[p].target \in ReferencedBy(j)'
    BY <1>0, <2>3, <2>4 DEF ReferencedBy, TypeInv, TypeOK
  <2>6. \A k \in Projects : ReferencedBy(k) \subseteq ReferencedBy(k)'
    BY <1>0, <2>2, <2>3 DEF ReferencedBy, TypeInv, TypeOK
  <2>7. op[p].target \in Referenced' /\ Referenced \subseteq Referenced'
    BY <2>5, <2>6 DEF Referenced
  <2>8. op'[p].step = "pruneAfterSave" /\ op'[p].target = op[p].target
    BY <1>6, <1>a, <1>b DEF CommitNewProject, OpRecord
  <2>9. Settled(p)'
    BY <2>7, <2>8 DEF Settled, At
  <2>10. Held(p) = {op[p].target}
    BY <2>2 DEF Held
  <2>11. Accounted(p)
    BY <2>3, <2>7, <2>10 DEF Accounted
  <2> QED
    BY <1>0, <2>9, <2>11, SettledStep
<1>7. ASSUME NEW p \in Procs, NEW then \in {"pruneAfterSave", "pruneAfterRestore"},
             At(p, {"staged", "restore"}), MoveProject(p, then)
      PROVE  Clean
  <2>1. PICK j \in Projects : j = op[p].project
    BY <1>7, <1>a DEF Knows, At
  <2>2. /\ op[p].target \in Generations /\ op[p].base = row[j]
        /\ op[p].base \in Generations
    BY <1>0, <1>7, <1>a, <2>1 DEF Knows, Relies, At, MoveProject, TypeInv, TypeOK
  <2>3. /\ op'[p].step = then /\ op'[p].target = op[p].target
        /\ op[p].target \in ReferencedBy(j)'
        /\ ReferencedBy(j) \subseteq ReferencedBy(j)' \cup op'[p].names
    BY <1>0, <1>7, <2>1, <2>2, MovedIsHeld
  <2>4. \A k \in Projects \ {j} : ReferencedBy(k)' = ReferencedBy(k)
    BY <1>0, <1>7, <2>1, <2>2, MovedReferences
  <2>5. op[p].target \in Referenced' /\ Referenced \subseteq Referenced' \cup op'[p].names
    BY <2>3, <2>4 DEF Referenced
  <2>6. Settled(p)'
    BY <2>3, <2>5 DEF Settled, At
  <2>7. Held(p) = {op[p].target} /\ op'[p].names \subseteq Held(p)'
    BY <1>7, <1>a, <2>3 DEF Held, Settled, At
  <2>8. files' = files
    BY <1>7 DEF MoveProject
  <2>9. Accounted(p)
    BY <2>5, <2>7, <2>8 DEF Accounted
  <2> QED
    BY <1>0, <2>6, <2>9, SettledStep
<1>8. ASSUME NEW p \in Procs, CommitSave(p) \/ CommitRestore(p) PROVE Clean
  <2>1. CASE CommitSave(p)
    BY <1>7, <2>1 DEF CommitSave, At
  <2>2. CASE CommitRestore(p)
    BY <1>7, <2>2 DEF CommitRestore, At
  <2> QED
    BY <1>8, <2>1, <2>2
<1>9. ASSUME NEW p \in Procs, CleanUp(p) PROVE Clean
  <2>1. PICK g \in op[p].names :
          /\ files' = files \ {h \in {g} : Disposable(h)}
          /\ op' = [op EXCEPT ![p].names = @ \ {g}]
    BY <1>9 DEF CleanUp
  <2>2. UNCHANGED <<row, versions>> /\ op[p].step \in {"pruneAfterSave", "pruneAfterRestore"}
    BY <1>9 DEF CleanUp, At
  <2>3. /\ op'[p].step = op[p].step /\ op'[p].target = op[p].target
        /\ op'[p].names = op[p].names \ {g}
    BY <2>1, <1>a, <1>b DEF OpRecord
  <2>4. Referenced' = Referenced /\ op[p].target \in Referenced
    BY <1>a, <2>2, SameCatalog DEF Settled, At
  <2>5. Settled(p)'
    BY <2>2, <2>3, <2>4 DEF Settled, At
  <2>6. /\ Held(p) = {op[p].target} \cup op[p].names
        /\ Held(p)' = {op[p].target} \cup (op[p].names \ {g})
    BY <2>2, <2>3 DEF Held, At
  <2>7. Accounted(p)
    BY <2>1, <2>4, <2>6 DEF Accounted, Disposable
  <2> QED
    BY <1>0, <2>5, <2>7, SettledStep
<1>10. ASSUME NEW p \in Procs, FinishSave(p) \/ FinishRestore(p) PROVE Clean
  <2>1. op[p].names = {} /\ op[p].target \in Referenced
    BY <1>10, <1>a DEF FinishSave, FinishRestore, Settled, At
  <2>2. Held(p) \subseteq Referenced
    BY <2>1 DEF Held
  <2> QED
    BY <1>2, <1>10, <2>2 DEF FinishSave, FinishRestore, store
<1>11. ASSUME NEW p \in Procs, PublishOpen(p) PROVE Clean
  <2>1. op[p].names = {} /\ op[p].target \in Referenced
    BY <1>11, <1>a DEF PublishOpen, Settled, At
  <2>2. Held(p) \subseteq Referenced
    BY <2>1 DEF Held
  <2> QED
    BY <1>2, <1>11, <2>2 DEF PublishOpen, store
<1>12. ASSUME NEW p \in Procs, FinishDelete(p) PROVE Clean
  <2>1. op[p].names = {} /\ op[p].target = NoGeneration
    BY <1>12, <1>a DEF FinishDelete, Settled, At
  <2>2. files \cap Held(p) = {}
    BY <1>b, <2>1 DEF Held
  <2> QED
    BY <1>2, <1>12, <2>2 DEF FinishDelete, store
<1>13. ASSUME NEW p \in Procs, Abandon(p) PROVE Clean
  <2>1. op' = [op EXCEPT ![p] = Idle] /\ UNCHANGED <<row, versions>> /\ files' \subseteq files
    BY <1>13 DEF Abandon
  <2>2. files' \cap Held(p) \subseteq Referenced
    <3>1. CASE At(p, {"save"})
      BY <1>a, <2>1, <3>1 DEF Settled, Held, At
    <3>2. CASE At(p, {"staged"})
      <4>1. op[p].names = {} /\ files' = files \ {op[p].target}
        BY <1>13, <1>a, <3>2 DEF Abandon, Settled, At
      <4> QED
        BY <4>1 DEF Held
    <3>3. CASE At(p, {"open"})
      BY <1>a, <3>3 DEF Settled, Held, At
    <3>4. CASE At(p, {"restore"})
      <4>1. op[p].names = {} /\ op[p].target \in ReferencedBy(op[p].project)
        BY <1>a, <3>4 DEF Settled, Relies, At
      <4>2. op[p].project \in Projects
        BY <1>a, <3>4 DEF Knows, At
      <4> QED
        BY <4>1, <4>2, ReferencedIff DEF Held
    <3>5. CASE At(p, {"delete"})
      <4>1. op[p].target = NoGeneration /\ op[p].names = ReferencedBy(op[p].project)
        BY <1>a, <3>5 DEF Settled, Relies, At
      <4>2. op[p].project \in Projects
        BY <1>a, <3>5 DEF Knows, At
      <4> QED
        BY <1>b, <2>1, <4>1, <4>2, ReferencedIff DEF Held
    <3> QED
      BY <1>13, <3>1, <3>2, <3>3, <3>4, <3>5 DEF Abandon, At
  <2> QED
    BY <1>2, <2>1, <2>2
<1>14. ASSUME NEW p \in Procs, BeginOpen(p) PROVE Clean
  <2>1. PICK j \in Projects :
          /\ row[j] \in files
          /\ op' = [op EXCEPT ![p] = [Idle EXCEPT !.step = "open", !.project = j,
                                                 !.target = row[j]]]
    BY <1>14 DEF BeginOpen
  <2>2. op'[p].step = "open" /\ op'[p].target = row[j] /\ op'[p].names = {}
    BY <2>1, <1>b DEF Idle
  <2>3. UNCHANGED <<row, versions, files>>
    BY <1>14 DEF BeginOpen, store
  <2>4. row[j] \in Referenced /\ Referenced' = Referenced
    BY <1>b, <2>1, <2>3, SameCatalog DEF Referenced, ReferencedBy
  <2>5. Settled(p)'
    BY <2>2, <2>4 DEF Settled, At
  <2>6. op[p].names = {} /\ op[p].target = NoGeneration
    BY <1>14, <1>a DEF BeginOpen, Settled, At
  <2>7. Accounted(p)
    BY <1>b, <2>3, <2>4, <2>6 DEF Accounted, Held
  <2> QED
    BY <1>0, <2>5, <2>7, SettledStep
<1>15. ASSUME NEW p \in Procs, BeginRestore(p) PROVE Clean
  <2>1. PICK j \in Projects : \E i \in DOMAIN versions[j] :
          op' = [op EXCEPT ![p] = [Idle EXCEPT !.step = "restore", !.project = j,
                                             !.base = row[j],
                                             !.target = versions[j][i].generation]]
    BY <1>15 DEF BeginRestore
  <2>2. op'[p].step = "restore" /\ op'[p].names = {}
    BY <2>1, <1>b DEF Idle
  <2>3. UNCHANGED <<row, versions, files>> /\ Referenced' = Referenced
    BY <1>15, SameCatalog DEF BeginRestore, store
  <2>4. Settled(p)'
    BY <2>2 DEF Settled, At
  <2>5. op[p].names = {} /\ op[p].target = NoGeneration
    BY <1>15, <1>a DEF BeginRestore, Settled, At
  <2>6. Accounted(p)
    BY <1>b, <2>3, <2>5 DEF Accounted, Held
  <2> QED
    BY <1>0, <2>4, <2>6, SettledStep
<1>16. ASSUME NEW p \in Procs, BeginDelete(p) PROVE Clean
  <2>1. PICK j \in Projects :
          op' = [op EXCEPT ![p] = [Idle EXCEPT !.step = "delete", !.project = j,
                                             !.names = ReferencedBy(j)]]
    BY <1>16 DEF BeginDelete
  <2>2. op'[p].step = "delete" /\ op'[p].target = NoGeneration
    BY <2>1, <1>b DEF Idle
  <2>3. UNCHANGED <<row, versions, files>> /\ Referenced' = Referenced
    BY <1>16, SameCatalog DEF BeginDelete, store
  <2>4. Settled(p)'
    BY <2>2 DEF Settled, At
  <2>5. op[p].names = {} /\ op[p].target = NoGeneration
    BY <1>16, <1>a DEF BeginDelete, Settled, At
  <2>6. Accounted(p)
    BY <1>b, <2>3, <2>5 DEF Accounted, Held
  <2> QED
    BY <1>0, <2>4, <2>6, SettledStep
<1>17. ASSUME NEW p \in Procs, CommitDelete(p) PROVE Clean
  <2>1. PICK j \in Projects : j = op[p].project
    BY <1>17, <1>a DEF CommitDelete, Knows, At
  <2>2. op[p].names = ReferencedBy(j) /\ op[p].target = NoGeneration
    BY <1>17, <1>a, <2>1 DEF CommitDelete, Relies, Settled, At
  <2>3. /\ row' = [row EXCEPT ![j] = NoGeneration]
        /\ versions' = [versions EXCEPT ![j] = <<>>]
        /\ files' = files
    BY <1>17, <2>1 DEF CommitDelete
  <2>4. \A k \in Projects \ {j} : ReferencedBy(k)' = ReferencedBy(k)
    BY <1>0, <2>3 DEF ReferencedBy, TypeInv, TypeOK
  <2>5. Referenced \subseteq Referenced' \cup op[p].names
    BY <2>2, <2>4 DEF Referenced
  <2>6. /\ op'[p].step = "erase" /\ op'[p].names = op[p].names
        /\ op'[p].target = op[p].target
    BY <1>17, <1>a, <1>b DEF CommitDelete, OpRecord
  <2>7. Settled(p)'
    BY <2>2, <2>6 DEF Settled, At
  <2>8. Held(p)' = {NoGeneration} \cup op[p].names /\ Held(p) = {NoGeneration} \cup op[p].names
    BY <1>17, <2>2, <2>6 DEF CommitDelete, Held, At
  <2>9. Accounted(p)
    BY <2>3, <2>5, <2>8 DEF Accounted
  <2> QED
    BY <1>0, <2>7, <2>9, SettledStep
<1>18. ASSUME NEW p \in Procs, Erase(p) PROVE Clean
  <2>1. PICK g \in op[p].names :
          files' = files \ {g} /\ op' = [op EXCEPT ![p].names = @ \ {g}]
    BY <1>18 DEF Erase
  <2>2. UNCHANGED <<row, versions>> /\ op[p].step = "erase" /\ op[p].target = NoGeneration
    BY <1>18, <1>a DEF Erase, Settled, At
  <2>3. /\ op'[p].step = "erase" /\ op'[p].target = NoGeneration
        /\ op'[p].names = op[p].names \ {g}
    BY <2>1, <2>2, <1>a, <1>b DEF OpRecord
  <2>4. Settled(p)' /\ Referenced' = Referenced
    BY <2>2, <2>3, SameCatalog DEF Settled, At
  <2>5. /\ Held(p) = {NoGeneration} \cup op[p].names
        /\ Held(p)' = {NoGeneration} \cup (op[p].names \ {g})
    BY <2>2, <2>3 DEF Held, At
  <2>6. Accounted(p)
    BY <2>1, <2>4, <2>5 DEF Accounted
  <2> QED
    BY <1>0, <2>4, <2>6, SettledStep
<1>19. ASSUME NEW p \in Procs, RemovalFails(p) \/ Crash(p) PROVE LeakInv'
  <2>1. UNCHANGED <<row, versions, files>>
    BY <1>19 DEF RemovalFails, Crash, store
  <2>2. CASE op' = [op EXCEPT ![p] = Idle]
    <3>1. op'[p] = Idle
      BY <1>b, <2>2
    <3>2. Settled(p)'
      BY <3>1 DEF Settled, At, Idle
    <3> QED
      BY <1>0, <3>2 DEF LeakInv, OneProcess
  <2>3. CASE /\ At(p, {"pruneAfterSave", "pruneAfterRestore"})
             /\ \E g \in op[p].names : op' = [op EXCEPT ![p].names = @ \ {g}]
    <3>1. op'[p].step = op[p].step /\ op'[p].target = op[p].target
      BY <2>3, <1>a, <1>b DEF OpRecord
    <3>2. op[p].target \in Referenced /\ Referenced' = Referenced
      BY <1>a, <2>1, <2>3, SameCatalog DEF Settled, At
    <3>3. Settled(p)'
      BY <2>3, <3>1, <3>2 DEF Settled, At
    <3> QED
      BY <1>0, <3>3 DEF LeakInv, OneProcess
  <2> QED
    BY <1>19, <2>2, <2>3 DEF RemovalFails, Crash
<1>20. ASSUME UNCHANGED <<row, versions, files, op>> PROVE Clean
  <2>1. Referenced' = Referenced
    BY <1>20, SameCatalog
  <2>2. Orphans' = Orphans
    BY <1>20, <2>1 DEF Orphans, Held, At
  <2>3. \A p \in Procs : Settled(p)'
    BY <1>20, <1>a, <2>1 DEF Settled, At
  <2> QED
    BY <1>0, <2>2, <2>3 DEF LeakInv
<1>21. ASSUME NEW p \in Procs, LeaveStore(p) PROVE Clean
  BY <1>20, <1>21 DEF LeaveStore, store
<1>22. ASSUME NEW g \in Generations, Age(g) PROVE Clean
  BY <1>20, <1>22 DEF Age
<1>23. ASSUME UNCHANGED vars PROVE Clean
  BY <1>20, <1>23 DEF vars
<1> HIDE DEF Clean
<1>24. ASSUME NEW p \in Procs, SaveStep(p) PROVE Clean
  BY <1>4, <1>5, <1>6, <1>8, <1>9, <1>10, <1>24 DEF SaveStep
<1>25. ASSUME NEW p \in Procs, OpenStep(p) PROVE Clean
  BY <1>8, <1>10, <1>11, <1>14, <1>15, <1>25 DEF OpenStep
<1>26. ASSUME NEW p \in Procs, DeleteStep(p) PROVE Clean
  BY <1>12, <1>16, <1>17, <1>18, <1>26 DEF DeleteStep
<1>27. ASSUME NEW p \in Procs, RemovalFails(p) \/ Crash(p)
       PROVE  LeakInv' /\ \E q \in Procs : Crash(q) \/ RemovalFails(q)
  BY <1>19, <1>27
<1>28. Clean \/ (LeakInv' /\ \E p \in Procs : Crash(p) \/ RemovalFails(p))
  BY <1>1, <1>3, <1>13, <1>21, <1>22, <1>23, <1>24, <1>25, <1>26, <1>27 DEF Next
<1> QED
  BY <1>28 DEF Clean

(* With one process on the store, a generation that nothing names and no   *)
(* operation will name or remove appears only at a crash or where a        *)
(* directory could not be removed.                                         *)
THEOREM NothingIsLeftBehind == OneProcess => (Spec => NothingLeaks)
<1> SUFFICES ASSUME OneProcess PROVE Spec => NothingLeaks
  OBVIOUS
<1>1. Init => LeakInv
  BY InitReadInv DEF Init, LeakInv, Settled, At, Idle
<1>2. LeakInv /\ [Next]_vars =>
        /\ LeakInv'
        /\ [\/ Orphans' \subseteq Orphans
            \/ \E p \in Procs : Crash(p) \/ RemovalFails(p)]_vars
  BY NothingLeaksStep
<1> QED
  BY <1>1, <1>2, PTL DEF Spec, NothingLeaks

-----------------------------------------------------------------------------
(* The shelf.                                                              *)

(* What a save or a restore leaves in the list: some places of the list,   *)
(* in their order, the newest always and no more than the policy allows.   *)
LEMMA KeptPlaces ==
  ASSUME NEW list \in Seq(VersionRecord), list # <<>>, NEW I \in SUBSET DOMAIN list,
         Chosen(list, I), NEW kept \in Arranged(list, I)
  PROVE  /\ 1 \in I /\ IsFiniteSet(I)
         /\ Cardinality(I) \in 1 .. MaxVersions
         /\ kept \in Seq(VersionRecord) /\ Len(kept) = Cardinality(I)
         /\ \E f \in [1 .. Cardinality(I) -> I] :
              /\ Increasing(f)
              /\ kept = [n \in 1 .. Cardinality(I) |-> list[f[n]]]
              /\ f[Cardinality(I)] \in I
              /\ \A i \in I : i <= f[Cardinality(I)]
<1>1. Len(list) \in Nat /\ DOMAIN list = 1 .. Len(list) /\ 1 \in DOMAIN list
  OBVIOUS
<1>2. 1 \in I
  <2>1. {k \in I : k < 1} = {}
    BY <1>1
  <2> QED
    BY <1>1, <2>1 DEF Chosen
<1>3. PICK f \in [1 .. Cardinality(I) -> I] :
        Increasing(f) /\ kept = [n \in 1 .. Cardinality(I) |-> list[f[n]]]
  BY DEF Arranged
<1>4. /\ IsFiniteSet(I) /\ Cardinality(I) \in Nat
      /\ \A i \in I : \E n \in 1 .. Cardinality(I) : f[n] = i
  BY <1>3, ArrangedOnto
<1>5. Cardinality(I) >= 1
  BY <1>2, <1>4
<1> DEFINE m == f[Cardinality(I)]
<1>6. m \in I /\ m \in Nat
  BY <1>1, <1>3, <1>4, <1>5
<1>7. ASSUME NEW i \in I
      PROVE  i <= m
  <2>1. PICK n \in 1 .. Cardinality(I) : f[n] = i
    BY <1>4
  <2>2. n = Cardinality(I) \/ n < Cardinality(I)
    BY <1>4
  <2>3. n < Cardinality(I) => f[n] < f[Cardinality(I)]
    BY <1>3, <1>4, <1>5 DEF Increasing
  <2> QED
    BY <1>1, <1>6, <2>1, <2>2, <2>3
<1> HIDE DEF m
<1>8. Cardinality(I) <= MaxVersions
  <2> DEFINE newer == {k \in I : k < m}
  <2>1. newer = I \ {m}
    BY <1>1, <1>6, <1>7
  <2>2. Cardinality(newer) = Cardinality(I) - 1
    BY <1>4, <1>6, <2>1, FS_RemoveElement
  <2>3. newer = {} \/ Cardinality(newer) < MaxVersions
    BY <1>1, <1>6 DEF Chosen
  <2>4. newer = {} => Cardinality(newer) = 0
    BY FS_EmptySet
  <2>5. MaxVersions \in Nat /\ MaxVersions >= 1
    OBVIOUS
  <2> HIDE DEF newer
  <2> QED
    BY <1>4, <2>2, <2>3, <2>4, <2>5
<1>9. kept \in Seq(VersionRecord)
  BY ArrangedFromList
<1>10. Len(kept) = Cardinality(I)
  <2>1. DOMAIN kept = 1 .. Cardinality(I)
    BY <1>3
  <2>2. DOMAIN kept = 1 .. Len(kept) /\ Len(kept) \in Nat
    BY <1>9
  <2> QED
    BY <1>4, <2>1, <2>2
<1>11. Cardinality(I) \in 1 .. MaxVersions
  BY <1>4, <1>5, <1>8
<1> QED
  BY <1>2, <1>3, <1>4, <1>6, <1>7, <1>9, <1>10, <1>11 DEF m

Names(list) == [i \in DOMAIN list |-> list[i].generation]

(* The cardinality that the shelf counts with is the one of the catalogue. *)
LEMMA SameCardinality ==
  \A S : Shelf!Cardinality(S) = Cardinality(S)
BY DEF Shelf!Cardinality, Cardinality

(* The generations kept are those of the list with the oldest thinned out. *)
LEMMA KeptIsThinned ==
  ASSUME NEW g \in Generations, NEW past \in Seq(VersionRecord),
         NEW I \in SUBSET DOMAIN (<<Version(g)>> \o past),
         Chosen(<<Version(g)>> \o past, I),
         NEW kept \in Arranged(<<Version(g)>> \o past, I)
  PROVE  Names(kept) \in Shelf!Thinned(<<g>> \o Names(past))
<1> DEFINE list == <<Version(g)>> \o past
           all == <<g>> \o Names(past)
<1>1. list \in Seq(VersionRecord) /\ list # <<>>
  BY VersionTyped
<1>2. Len(past) \in Nat /\ DOMAIN list = 1 .. Len(past) + 1
  BY VersionTyped
<1>3. Names(past) \in Seq(Generations) /\ Len(Names(past)) = Len(past)
  <2>1. DOMAIN past = 1 .. Len(past) /\ \A i \in DOMAIN past : past[i] \in VersionRecord
    OBVIOUS
  <2>2. Names(past) \in [1 .. Len(past) -> Generations]
    BY <2>1 DEF Names, VersionRecord
  <2>3. ASSUME NEW n \in Nat, NEW s \in [1 .. n -> Generations]
        PROVE  s \in Seq(Generations) /\ Len(s) = n
    OBVIOUS
  <2> QED
    BY <1>2, <2>2, <2>3
<1>4. DOMAIN all = DOMAIN list
  BY <1>2, <1>3
<1>5. ASSUME NEW i \in DOMAIN list
      PROVE  all[i] = list[i].generation
  <2>1. CASE i = 1
    <3>1. all[i] = g /\ list[i] = Version(g)
      BY <1>3, <2>1
    <3>2. Version(g).generation = g
      BY DEF Version
    <3> HIDE DEF list, all
    <3> QED
      BY <3>1, <3>2
  <2>2. CASE i # 1
    <3>1. i - 1 \in 1 .. Len(past)
      BY <1>2, <2>2
    <3>2. list[i] = past[i - 1]
      BY <1>2, <2>2
    <3>3. all[i] = Names(past)[i - 1]
      BY <1>2, <1>3, <2>2
    <3>4. Names(past)[i - 1] = past[i - 1].generation
      BY <3>1 DEF Names
    <3> QED
      BY <3>2, <3>3, <3>4
  <2> QED
    BY <2>1, <2>2
<1>6. I \in SUBSET DOMAIN list /\ Chosen(list, I) /\ kept \in Arranged(list, I)
  OBVIOUS
<1> HIDE DEF list, all
<1>7. PICK f \in [1 .. Cardinality(I) -> I] :
        Increasing(f) /\ kept = [n \in 1 .. Cardinality(I) |-> list[f[n]]]
  BY <1>6 DEF Arranged
<1>8. 1 \in I /\ Cardinality(I) <= MaxVersions
  <2>1. 1 \in I /\ Cardinality(I) \in 1 .. MaxVersions
    BY <1>1, <1>6, KeptPlaces
  <2> QED
    BY <2>1
<1>9. Names(kept) = [n \in 1 .. Cardinality(I) |-> all[f[n]]]
  <2>1. \A n \in 1 .. Cardinality(I) : f[n] \in DOMAIN list
    BY <1>6
  <2>2. DOMAIN kept = 1 .. Cardinality(I)
    BY <1>7
  <2>3. \A n \in 1 .. Cardinality(I) : kept[n].generation = all[f[n]]
    BY <1>5, <1>7, <2>1
  <2> QED
    BY <2>2, <2>3 DEF Names
<1>10. Shelf!Increasing(f)
  BY <1>7 DEF Increasing, Shelf!Increasing
<1>11. Names(kept) \in Shelf!Thinned(all)
  <2>1. Shelf!Cardinality(I) = Cardinality(I)
    BY SameCardinality
  <2>2. I \in {J \in SUBSET DOMAIN all : 1 \in J /\ Shelf!Cardinality(J) <= MaxVersions}
    BY <1>4, <1>6, <1>8, <2>1
  <2>3. f \in {h \in [1 .. Shelf!Cardinality(I) -> I] : Shelf!Increasing(h)}
    BY <1>10, <2>1
  <2>4. Names(kept) = [n \in 1 .. Shelf!Cardinality(I) |-> all[f[n]]]
    BY <1>9, <2>1
  <2>5. Names(kept) \in {[n \in 1 .. Shelf!Cardinality(I) |-> all[h[n]]] :
                           h \in {h \in [1 .. Shelf!Cardinality(I) -> I] : Shelf!Increasing(h)}}
    BY <2>3, <2>4
  <2> QED
    BY <2>2, <2>5 DEF Shelf!Thinned
<1> QED
  BY <1>11 DEF all

OnShow == [j \in Projects |-> ReadableOr(row[j], OutsideStore)]

Behind == [j \in Projects |->
             [i \in DOMAIN versions[j] |->
                 ReadableOr(versions[j][i].generation, OutsideStore)]]

(* Every dataset of the catalogue can be read, so the shelf shows it.      *)
LEMMA ShelfIsCatalog ==
  ReadInv => OnShow = row /\ Behind = [j \in Projects |-> Names(versions[j])]
<1> SUFFICES ASSUME ReadInv
             PROVE  OnShow = row /\ Behind = [j \in Projects |-> Names(versions[j])]
  OBVIOUS
<1>1. TypeOK /\ Referenced \subseteq files
  BY DEF ReadInv, TypeInv, CatalogIsReadable
<1>2. ASSUME NEW j \in Projects
      PROVE  ReadableOr(row[j], OutsideStore) = row[j]
  <2>1. row[j] = NoGeneration \/ row[j] \in Referenced
    BY <1>1 DEF TypeOK, Referenced, ReferencedBy
  <2> QED
    BY <1>1, <2>1 DEF ReadableOr
<1>3. ASSUME NEW j \in Projects, NEW i \in DOMAIN versions[j]
      PROVE  ReadableOr(versions[j][i].generation, OutsideStore) = versions[j][i].generation
  <2>1. versions[j][i] \in VersionRecord
    BY <1>1 DEF TypeOK
  <2>2. versions[j][i].generation \in Referenced
    BY <2>1 DEF VersionRecord, Referenced, ReferencedBy
  <2> QED
    BY <1>1, <2>2 DEF ReadableOr
<1>4. OnShow = row
  BY <1>1, <1>2 DEF OnShow, TypeOK
<1>5. ASSUME NEW j \in Projects
      PROVE  [i \in DOMAIN versions[j] |->
                 ReadableOr(versions[j][i].generation, OutsideStore)] = Names(versions[j])
  BY <1>3 DEF Names
<1>6. Behind = [j \in Projects |-> Names(versions[j])]
  BY <1>5 DEF Behind
<1> QED
  BY <1>4, <1>6

(* The same after the step.                                                *)
LEMMA ShelfIsCatalogNext ==
  ReadInv' => OnShow' = row' /\ Behind' = [j \in Projects |-> Names(versions'[j])]
<1>1. (ReadInv => OnShow = row /\ Behind = [j \in Projects |-> Names(versions[j])])'
  BY ShelfIsCatalog, PTL
<1> QED
  BY <1>1

(* The transaction of a save or a restore replaces a dataset of the shelf. *)
LEMMA MoveIsReplace ==
  ASSUME ReadInv, ReadInv', NEW p \in Procs, NEW j \in Projects, NEW then,
         op[p].project = j, op[p].base = row[j], MoveProject(p, then)
  PROVE  /\ Shelf!Replace(j, op[p].target)
         /\ OnShow[j] # NoGeneration
         /\ OnShow' = [OnShow EXCEPT ![j] = op[p].target]
         /\ \E kept \in Shelf!Thinned(<<OnShow[j]>> \o Behind[j]) :
              Behind' = [Behind EXCEPT ![j] = kept]
<1> DEFINE list == <<Version(op[p].base)>> \o versions[j]
<1>1. /\ OnShow = row /\ Behind = [k \in Projects |-> Names(versions[k])]
      /\ OnShow' = row' /\ Behind' = [k \in Projects |-> Names(versions'[k])]
  BY ShelfIsCatalog, ShelfIsCatalogNext
<1>2. TypeOK /\ row[j] \in Generations /\ versions[j] \in Seq(VersionRecord)
  BY DEF ReadInv, TypeInv, TypeOK, MoveProject
<1>3. row' = [row EXCEPT ![j] = op[p].target]
  BY DEF MoveProject
<1>4. PICK I \in SUBSET DOMAIN list :
        /\ Chosen(list, I)
        /\ \E kept \in Arranged(list, I) : versions' = [versions EXCEPT ![j] = kept]
  BY DEF MoveProject, FileVersions
<1>5. PICK kept \in Arranged(list, I) : versions' = [versions EXCEPT ![j] = kept]
  BY <1>4
<1>6. Names(kept) \in Shelf!Thinned(<<row[j]>> \o Names(versions[j]))
  BY <1>2, <1>4, <1>5, KeptIsThinned
<1>7. Behind' = [Behind EXCEPT ![j] = Names(kept)]
  <2>1. versions'[j] = kept /\ \A k \in Projects \ {j} : versions'[k] = versions[k]
    BY <1>2, <1>5 DEF TypeOK
  <2>2. \A k \in Projects : Names(versions'[k]) = IF k = j THEN Names(kept) ELSE Names(versions[k])
    BY <2>1
  <2> QED
    BY <1>1, <2>2
<1>8. OnShow[j] = row[j] /\ Behind[j] = Names(versions[j])
  BY <1>1
<1>9. OnShow[j] # NoGeneration /\ OnShow' = [OnShow EXCEPT ![j] = op[p].target]
  BY <1>1, <1>2, <1>3
<1>10. \E k \in Shelf!Thinned(<<OnShow[j]>> \o Behind[j]) : Behind' = [Behind EXCEPT ![j] = k]
  BY <1>6, <1>7, <1>8
<1> QED
  BY <1>9, <1>10 DEF Shelf!Replace, OnShow, Behind

(* What is not in the catalogue is not on the shelf.                       *)
LEMMA NotOnTheShelf ==
  ASSUME ReadInv, NEW g \in Generations, g \notin Referenced
  PROVE  ~ Shelf!OnTheShelf(g)
<1>1. OnShow = row /\ Behind = [k \in Projects |-> Names(versions[k])]
  BY ShelfIsCatalog
<1>2. ASSUME NEW j \in Projects
      PROVE  /\ g # OnShow[j]
             /\ \A i \in DOMAIN Behind[j] : g # Behind[j][i]
  BY <1>1 DEF Referenced, ReferencedBy, Names
<1>3. ~ \E j \in Projects : g = OnShow[j] \/ \E i \in DOMAIN Behind[j] : g = Behind[j][i]
  BY <1>2
<1> QED
  BY <1>3 DEF Shelf!OnTheShelf, OnShow, Behind

(* A restore puts back a version of the list.                              *)
Restorable(p) ==
    At(p, {"restore"}) =>
      \E i \in DOMAIN versions[op[p].project] :
          op[p].target = versions[op[p].project][i].generation

ShelfInv == ReadInv /\ \A p \in Procs : Restorable(p)

(* With one process, a restore under way names a version that is still     *)
(* listed, at every step.                                                  *)
LEMMA NextShelfInv == OneProcess /\ ShelfInv /\ [Next]_vars => ShelfInv'
<1> SUFFICES ASSUME OneProcess, ShelfInv, [Next]_vars PROVE ShelfInv'
  OBVIOUS
<1>0. ReadInv /\ ReadInv'
  BY NextReadInv DEF ShelfInv
<1>a. op \in [Procs -> OpRecord] /\ \A p \in Procs : op[p] \in OpRecord
  BY <1>0 DEF ReadInv, TypeInv, TypeOK
<1>1. ASSUME NEW p \in Procs, op'[p].step # "restore" PROVE ShelfInv'
  BY <1>0, <1>1 DEF ShelfInv, Restorable, At, OneProcess
<1>3. ASSUME UNCHANGED <<row, versions, op>> PROVE ShelfInv'
  BY <1>0, <1>3 DEF ShelfInv, Restorable, At
<1>4. ASSUME NEW p \in Procs, op' = [op EXCEPT ![p] = Idle] PROVE ShelfInv'
  BY <1>1, <1>4, <1>a DEF Idle
<1>5. ASSUME NEW p \in Procs, NEW s, NEW names, s # "restore",
             op' = [op EXCEPT ![p].step = s, ![p].names = names]
      PROVE  ShelfInv'
  BY <1>1, <1>5, <1>a DEF OpRecord
<1>6. ASSUME NEW p \in Procs, NEW s, s # "restore", op' = [op EXCEPT ![p].step = s]
      PROVE  ShelfInv'
  BY <1>1, <1>6, <1>a DEF OpRecord
<1>7. ASSUME NEW p \in Procs, NEW g, ~At(p, {"restore"}), op' = [op EXCEPT ![p].names = @ \ {g}]
      PROVE  ShelfInv'
  BY <1>1, <1>7, <1>a DEF OpRecord, At
<1>8. ASSUME NEW p \in Procs, NEW then, then # "restore", MoveProject(p, then) PROVE ShelfInv'
  <2>1. PICK names : op' = [op EXCEPT ![p].step = then, ![p].names = names]
    BY <1>8 DEF MoveProject, FileVersions
  <2> QED
    BY <1>5, <1>8, <2>1
<1>9. ASSUME NEW p \in Procs, SaveStep(p) PROVE ShelfInv'
  <2>1. CASE BeginSave(p)
    <3>1. PICK j \in Projects, g \in Generations :
            op' = [op EXCEPT ![p] = [step |-> "save", project |-> j, base |-> row[j],
                                       target |-> g, names |-> {}]]
      BY <2>1 DEF BeginSave
    <3>2. op'[p].step = "save"
      BY <3>1, <1>a
    <3> QED
      BY <1>1, <3>2
  <2>2. CASE StageGeneration(p)
    BY <1>6, <2>2 DEF StageGeneration
  <2>3. CASE CommitNewProject(p)
    BY <1>6, <2>3 DEF CommitNewProject
  <2>4. CASE CommitSave(p)
    BY <1>8, <2>4 DEF CommitSave
  <2>5. CASE CleanUp(p)
    <3>1. PICK g \in op[p].names : op' = [op EXCEPT ![p].names = @ \ {g}]
      BY <2>5 DEF CleanUp
    <3> QED
      BY <1>7, <2>5, <3>1 DEF CleanUp, At
  <2>6. CASE FinishSave(p)
    BY <1>4, <2>6 DEF FinishSave
  <2> QED
    BY <1>9, <2>1, <2>2, <2>3, <2>4, <2>5, <2>6 DEF SaveStep
<1>10. ASSUME NEW p \in Procs, OpenStep(p) PROVE ShelfInv'
  <2>1. CASE BeginOpen(p)
    <3>1. PICK j \in Projects :
            op' = [op EXCEPT ![p] = [Idle EXCEPT !.step = "open", !.project = j,
                                               !.target = row[j]]]
      BY <2>1 DEF BeginOpen
    <3>2. op'[p].step = "open"
      BY <3>1, <1>a DEF Idle
    <3> QED
      BY <1>1, <3>2
  <2>2. CASE PublishOpen(p)
    BY <1>4, <2>2 DEF PublishOpen
  <2>3. CASE BeginRestore(p)
    <3>1. PICK j \in Projects : \E i \in DOMAIN versions[j] :
            op' = [op EXCEPT ![p] = [Idle EXCEPT !.step = "restore", !.project = j,
                                               !.base = row[j],
                                               !.target = versions[j][i].generation]]
      BY <2>3 DEF BeginRestore
    <3>2. PICK i \in DOMAIN versions[j] :
            op' = [op EXCEPT ![p] = [Idle EXCEPT !.step = "restore", !.project = j,
                                               !.base = row[j],
                                               !.target = versions[j][i].generation]]
      BY <3>1
    <3>3. op'[p].project = j /\ op'[p].target = versions[j][i].generation
      BY <3>2, <1>a DEF Idle
    <3>4. versions' = versions
      BY <2>3 DEF BeginRestore, store
    <3>5. Restorable(p)'
      BY <3>3, <3>4 DEF Restorable
    <3> QED
      BY <1>0, <3>5 DEF ShelfInv, OneProcess
  <2>4. CASE CommitRestore(p)
    BY <1>8, <2>4 DEF CommitRestore
  <2>5. CASE FinishRestore(p)
    BY <1>4, <2>5 DEF FinishRestore
  <2> QED
    BY <1>10, <2>1, <2>2, <2>3, <2>4, <2>5 DEF OpenStep
<1>11. ASSUME NEW p \in Procs, DeleteStep(p) PROVE ShelfInv'
  <2>1. CASE BeginDelete(p)
    <3>1. PICK j \in Projects :
            op' = [op EXCEPT ![p] = [Idle EXCEPT !.step = "delete", !.project = j,
                                               !.names = ReferencedBy(j)]]
      BY <2>1 DEF BeginDelete
    <3>2. op'[p].step = "delete"
      BY <3>1, <1>a DEF Idle
    <3> QED
      BY <1>1, <3>2
  <2>2. CASE CommitDelete(p)
    BY <1>6, <2>2 DEF CommitDelete
  <2>3. CASE Erase(p)
    <3>1. PICK g \in op[p].names : op' = [op EXCEPT ![p].names = @ \ {g}]
      BY <2>3 DEF Erase
    <3> QED
      BY <1>7, <2>3, <3>1 DEF Erase, At
  <2>4. CASE FinishDelete(p)
    BY <1>4, <2>4 DEF FinishDelete
  <2> QED
    BY <1>11, <2>1, <2>2, <2>3, <2>4 DEF DeleteStep
<1>12. ASSUME NEW p \in Procs, FindStale(p) \/ RemoveStale(p) PROVE ShelfInv'
  BY <1>4, <1>5, <1>12 DEF FindStale, RemoveStale
<1>13. ASSUME NEW p \in Procs, Abandon(p) \/ Crash(p) PROVE ShelfInv'
  BY <1>4, <1>13 DEF Abandon, Crash
<1>14. ASSUME NEW p \in Procs, RemovalFails(p) PROVE ShelfInv'
  BY <1>4, <1>7, <1>14 DEF RemovalFails, At
<1>15. ASSUME NEW p \in Procs, LeaveStore(p) PROVE ShelfInv'
  BY <1>3, <1>15 DEF LeaveStore, store
<1>16. ASSUME NEW g \in Generations, Age(g) PROVE ShelfInv'
  BY <1>3, <1>16 DEF Age
<1>17. CASE UNCHANGED vars
  BY <1>3, <1>17 DEF vars
<1> QED
  BY <1>9, <1>10, <1>11, <1>12, <1>13, <1>14, <1>15, <1>16, <1>17 DEF Next

(* A step that leaves the catalogue alone is none of the shelf.            *)
LEMMA CatalogStutters ==
  ASSUME ReadInv, ReadInv', UNCHANGED <<row, versions>>
  PROVE  UNCHANGED Shelf!shelf
<1>1. OnShow' = OnShow /\ Behind' = Behind
  BY ShelfIsCatalog, ShelfIsCatalogNext
<1> QED
  BY <1>1 DEF Shelf!shelf, OnShow, Behind

(* Every step is one of the shelf, or none.                                *)
LEMMA ShelfStep ==
  OneProcess /\ ShelfInv /\ [Next]_vars => [Shelf!Next]_Shelf!shelf
<1> SUFFICES ASSUME OneProcess, ShelfInv, [Next]_vars
             PROVE  [Shelf!Next]_Shelf!shelf
  OBVIOUS
<1>0. ReadInv /\ ReadInv'
  BY NextReadInv DEF ShelfInv
<1>a. /\ OnShow = row /\ Behind = [k \in Projects |-> Names(versions[k])]
      /\ OnShow' = row' /\ Behind' = [k \in Projects |-> Names(versions'[k])]
  BY <1>0, ShelfIsCatalog, ShelfIsCatalogNext
<1>b. TypeOK /\ \A p \in Procs : Knows(op[p]) /\ Relies(p) /\ Restorable(p)
  BY <1>0 DEF ReadInv, TypeInv, Operands, ShelfInv
<1>1. ASSUME NEW p \in Procs, CommitNewProject(p)
      PROVE  \E j \in Projects : Shelf!Create(j)
  <2>1. PICK j \in Projects : j = op[p].project
    BY <1>1, <1>b DEF CommitNewProject, Knows, At
  <2>2. /\ op[p].target \in Generations /\ op[p].target \notin Referenced
        /\ row[j] = NoGeneration
    BY <1>1, <1>b, <2>1 DEF CommitNewProject, Knows, Relies, At
  <2>3. row' = [row EXCEPT ![j] = op[p].target] /\ versions' = versions
    BY <1>1, <2>1 DEF CommitNewProject
  <2>4. OnShow[j] = NoGeneration /\ OnShow' = [OnShow EXCEPT ![j] = op[p].target]
    BY <1>a, <2>2, <2>3
  <2>5. Behind' = Behind
    BY <1>a, <2>3
  <2>6. ~ Shelf!OnTheShelf(op[p].target)
    BY <1>0, <2>2, NotOnTheShelf
  <2>7. Shelf!Create(j)
    BY <2>2, <2>4, <2>5, <2>6 DEF Shelf!Create, OnShow, Behind
  <2> QED
    BY <2>7
<1>2. ASSUME NEW p \in Procs, CommitSave(p)
      PROVE  \E j \in Projects : Shelf!Save(j)
  <2>1. PICK j \in Projects : j = op[p].project
    BY <1>2, <1>b DEF CommitSave, Knows, At
  <2>2. /\ op[p].target \in Generations /\ op[p].target \notin Referenced
        /\ op[p].base = row[j]
    BY <1>2, <1>b, <2>1 DEF CommitSave, Knows, Relies, At
  <2>3. Shelf!Replace(j, op[p].target)
    BY <1>0, <1>2, <2>1, <2>2, MoveIsReplace DEF CommitSave
  <2>4. ~ Shelf!OnTheShelf(op[p].target)
    BY <1>0, <2>2, NotOnTheShelf
  <2>5. \E d \in Generations : ~ Shelf!OnTheShelf(d) /\ Shelf!Replace(j, d)
    BY <2>2, <2>3, <2>4 DEF Shelf!Replace
  <2> QED
    BY <2>5 DEF Shelf!Save
<1>3. ASSUME NEW p \in Procs, CommitRestore(p)
      PROVE  \E j \in Projects : Shelf!Restore(j)
  <2>1. PICK j \in Projects : j = op[p].project
    BY <1>3, <1>b DEF CommitRestore, Knows, At
  <2>2. op[p].base = row[j]
    BY <1>3, <1>b, <2>1 DEF CommitRestore, Relies, At
  <2>3. PICK i \in DOMAIN versions[j] : op[p].target = versions[j][i].generation
    BY <1>3, <1>b, <2>1 DEF CommitRestore, Restorable
  <2>4. /\ OnShow[j] # NoGeneration
        /\ OnShow' = [OnShow EXCEPT ![j] = op[p].target]
        /\ \E kept \in Shelf!Thinned(<<OnShow[j]>> \o Behind[j]) :
             Behind' = [Behind EXCEPT ![j] = kept]
    BY <1>0, <1>3, <2>1, <2>2, MoveIsReplace DEF CommitRestore
  <2>5. i \in DOMAIN Behind[j] /\ Behind[j][i] = op[p].target
    BY <1>a, <2>3 DEF Names
  <2>6. \E k \in DOMAIN Behind[j] :
          /\ OnShow[j] # NoGeneration
          /\ OnShow' = [OnShow EXCEPT ![j] = Behind[j][k]]
          /\ \E kept \in Shelf!Thinned(<<OnShow[j]>> \o Behind[j]) :
               Behind' = [Behind EXCEPT ![j] = kept]
    BY <2>4, <2>5
  <2>7. Shelf!Restore(j)
    BY <2>6 DEF Shelf!Restore, Shelf!Replace, OnShow, Behind
  <2> QED
    BY <2>7
<1>4. ASSUME NEW p \in Procs, CommitDelete(p)
      PROVE  \E j \in Projects : Shelf!Delete(j)
  <2>1. PICK j \in Projects : j = op[p].project
    BY <1>4, <1>b DEF CommitDelete, Knows, At
  <2>2. /\ row[j] # NoGeneration
        /\ row' = [row EXCEPT ![j] = NoGeneration]
        /\ versions' = [versions EXCEPT ![j] = <<>>]
    BY <1>4, <2>1 DEF CommitDelete
  <2>3. OnShow[j] # NoGeneration /\ OnShow' = [OnShow EXCEPT ![j] = NoGeneration]
    BY <1>a, <2>2
  <2>4. Behind' = [Behind EXCEPT ![j] = <<>>]
    <3>1. versions'[j] = <<>> /\ \A k \in Projects \ {j} : versions'[k] = versions[k]
      BY <1>b, <2>2 DEF TypeOK
    <3>2. Names(<<>>) = <<>>
      BY DEF Names
    <3> QED
      BY <1>a, <3>1, <3>2
  <2>5. Shelf!Delete(j)
    BY <2>3, <2>4 DEF Shelf!Delete, OnShow, Behind
  <2> QED
    BY <2>5
<1>5. ASSUME UNCHANGED <<row, versions>> PROVE UNCHANGED Shelf!shelf
  BY <1>0, <1>5, CatalogStutters
<1>6. ASSUME NEW p \in Procs, SaveStep(p) PROVE [Shelf!Next]_Shelf!shelf
  BY <1>1, <1>2, <1>5, <1>6
     DEF SaveStep, BeginSave, StageGeneration, CleanUp, FinishSave, store, Shelf!Next
<1>7. ASSUME NEW p \in Procs, OpenStep(p) PROVE [Shelf!Next]_Shelf!shelf
  BY <1>3, <1>5, <1>7
     DEF OpenStep, BeginOpen, PublishOpen, BeginRestore, FinishRestore, store, Shelf!Next
<1>8. ASSUME NEW p \in Procs, DeleteStep(p) PROVE [Shelf!Next]_Shelf!shelf
  BY <1>4, <1>5, <1>8
     DEF DeleteStep, BeginDelete, Erase, FinishDelete, store, Shelf!Next
<1>9. ASSUME NEW p \in Procs,
             \/ FindStale(p) \/ RemoveStale(p) \/ Abandon(p)
             \/ RemovalFails(p) \/ Crash(p) \/ LeaveStore(p)
      PROVE  [Shelf!Next]_Shelf!shelf
  BY <1>5, <1>9 DEF FindStale, RemoveStale, Abandon, RemovalFails, Crash, LeaveStore, store
<1>10. ASSUME NEW g \in Generations, Age(g) PROVE [Shelf!Next]_Shelf!shelf
  BY <1>5, <1>10 DEF Age
<1>11. CASE UNCHANGED vars
  BY <1>5, <1>11 DEF vars
<1> QED
  BY <1>6, <1>7, <1>8, <1>9, <1>10, <1>11 DEF Next

(* With one process on the store, the catalogue and its directories        *)
(* implement the shelf: saves, restores and deletions are atomic, what is  *)
(* replaced is the newest version one can go back to, and the other        *)
(* versions are only ever thinned out, within the number of the policy.    *)
THEOREM CatalogIsShelf == OneProcess => (Spec => KeepsTheShelf)
<1> SUFFICES ASSUME OneProcess PROVE Spec => KeepsTheShelf
  OBVIOUS
<1>1. Init => ShelfInv
  BY InitReadInv DEF Init, ShelfInv, Restorable, At, Idle
<1>2. Init => Shelf!Init
  <2> SUFFICES ASSUME Init PROVE Shelf!Init
    OBVIOUS
  <2>1. OnShow = row /\ Behind = [j \in Projects |-> Names(versions[j])]
    BY InitReadInv, ShelfIsCatalog
  <2>2. Names(<<>>) = <<>>
    BY DEF Names
  <2>3. OnShow = [j \in Projects |-> NoGeneration] /\ Behind = [j \in Projects |-> <<>>]
    BY <2>1, <2>2 DEF Init
  <2> QED
    BY <2>3 DEF Shelf!Init, OnShow, Behind
<1>3. ShelfInv /\ [Next]_vars => ShelfInv'
  BY NextShelfInv
<1>4. ShelfInv /\ [Next]_vars => [Shelf!Next]_Shelf!shelf
  BY ShelfStep
<1> QED
  BY <1>1, <1>2, <1>3, <1>4, PTL DEF Spec, KeepsTheShelf, Shelf!Spec

-----------------------------------------------------------------------------
Sizes(list) == [k \in DOMAIN list |-> list[k].bytes]

(* The bytes of the versions of a list as recorded, and as they are on     *)
(* disk when the records are right.                                        *)
LEMMA SumOfVersions ==
  ASSUME NEW list, NEW S \in SUBSET DOMAIN list, IsFiniteSet(S),
         NEW f, Adds(f, Sizes(list), S)
  PROVE  MapThenSumSet(LAMBDA k : list[k].bytes, S) = f[S]
<1> DEFINE Iter(g) == g = [s \in SUBSET S |->
                             IF s = {} THEN 0
                             ELSE LET x == CHOOSE y \in s : TRUE
                                  IN  list[x].bytes + g[s \ {x}]]
<1>1. ASSUME NEW g
      PROVE  Iter(g) <=> Folds(g, Sizes(list), S)
  <2>1. ASSUME NEW s \in SUBSET S, s # {}
        PROVE  list[CHOOSE y \in s : TRUE].bytes = Sizes(list)[CHOOSE y \in s : TRUE]
    <3>1. (CHOOSE y \in s : TRUE) \in DOMAIN list
      BY <2>1
    <3> QED
      BY <3>1 DEF Sizes
  <2>2. [s \in SUBSET S |->
            IF s = {} THEN 0
            ELSE LET x == CHOOSE y \in s : TRUE
                 IN  list[x].bytes + g[s \ {x}]]
        = [s \in SUBSET S |->
            IF s = {} THEN 0
            ELSE LET x == CHOOSE y \in s : TRUE
                 IN  Sizes(list)[x] + g[s \ {x}]]
    BY <2>1
  <2> QED
    BY <2>2 DEF Folds
<1>2. MapThenSumSet(LAMBDA k : list[k].bytes, S) = (CHOOSE g : Iter(g))[S]
  BY DEF MapThenSumSet, MapThenFoldSet
<1> HIDE DEF Iter
<1>3. Iter(f)
  BY <1>1, SumFolds
<1>4. Iter(CHOOSE g : Iter(g))
  BY <1>3
<1>5. Folds(CHOOSE g : Iter(g), Sizes(list), S)
  BY <1>1, <1>4
<1> QED
  BY <1>2, <1>5, FoldIsSum

Recorded(list) == \A i \in DOMAIN list : list[i].bytes = Bytes(list[i].generation)

(* The bytes that the versions take on disk are the sum of the sizes       *)
(* recorded with them.                                                     *)
LEMMA SumOnDisk ==
  ASSUME NEW list \in Seq(VersionRecord), Recorded(list),
         NEW f, Adds(f, Sizes(list), DOMAIN list)
  PROVE  MapThenSumSet(LAMBDA i : Bytes(list[i].generation), DOMAIN list) = f[DOMAIN list]
<1> DEFINE Iter(g) == g = [s \in SUBSET DOMAIN list |->
                             IF s = {} THEN 0
                             ELSE LET x == CHOOSE y \in s : TRUE
                                  IN  Bytes(list[x].generation) + g[s \ {x}]]
<1>1. ASSUME NEW g
      PROVE  Iter(g) <=> Folds(g, Sizes(list), DOMAIN list)
  <2>1. ASSUME NEW s \in SUBSET DOMAIN list, s # {}
        PROVE  Bytes(list[CHOOSE y \in s : TRUE].generation)
                 = Sizes(list)[CHOOSE y \in s : TRUE]
    <3>1. (CHOOSE y \in s : TRUE) \in DOMAIN list
      BY <2>1
    <3> QED
      BY <3>1 DEF Sizes, Recorded
  <2>2. [s \in SUBSET DOMAIN list |->
            IF s = {} THEN 0
            ELSE LET x == CHOOSE y \in s : TRUE
                 IN  Bytes(list[x].generation) + g[s \ {x}]]
        = [s \in SUBSET DOMAIN list |->
            IF s = {} THEN 0
            ELSE LET x == CHOOSE y \in s : TRUE
                 IN  Sizes(list)[x] + g[s \ {x}]]
    BY <2>1
  <2> QED
    BY <2>2 DEF Folds
<1>2. MapThenSumSet(LAMBDA i : Bytes(list[i].generation), DOMAIN list)
        = (CHOOSE g : Iter(g))[DOMAIN list]
  BY DEF MapThenSumSet, MapThenFoldSet
<1> HIDE DEF Iter
<1>3. Iter(f)
  BY <1>1, SumFolds
<1>4. Iter(CHOOSE g : Iter(g))
  BY <1>3
<1>5. Folds(CHOOSE g : Iter(g), Sizes(list), DOMAIN list)
  BY <1>1, <1>4
<1>6. IsFiniteSet(DOMAIN list)
  <2>1. Len(list) \in Nat /\ DOMAIN list = 1 .. Len(list)
    OBVIOUS
  <2>2. IsFiniteSet(1 .. Len(list))
    BY <2>1, FS_Interval, 1 \in Int, Len(list) \in Int
  <2> QED
    BY <2>1, <2>2
<1> QED
  BY <1>2, <1>5, <1>6, FoldIsSum

(* Each of the first n naturals stands for one place of I.                 *)
Places(f, n, I) ==
    /\ f \in [1 .. n -> I]
    /\ \A k, l \in 1 .. n : f[k] = f[l] => k = l
    /\ \A i \in I : \E k \in 1 .. n : f[k] = i

PlacedBy(f, n, list) == [k \in 1 .. n |-> list[f[k]]]

(* Arranging versions in another list does not change their sum.           *)
LEMMA SumArranged ==
  ASSUME NEW list, NEW I \in SUBSET DOMAIN list, NEW n \in Nat, NEW f, Places(f, n, I),
         NEW kept, kept = PlacedBy(f, n, list),
         NEW sum, Adds(sum, Sizes(list), I)
  PROVE  \E F : Adds(F, Sizes(kept), 1 .. n) /\ F[1 .. n] = sum[I]
<1> DEFINE Image(s) == {f[k] : k \in s}
           F == [s \in SUBSET (1 .. n) |-> sum[Image(s)]]
<1>0. /\ \A k \in 1 .. n : f[k] \in I
      /\ \A k, l \in 1 .. n : f[k] = f[l] => k = l
      /\ \A i \in I : \E k \in 1 .. n : f[k] = i
  BY DEF Places
<1>1. ASSUME NEW s \in SUBSET (1 .. n)
      PROVE  Image(s) \in SUBSET I
  BY <1>0
<1>2. F \in [SUBSET (1 .. n) -> Nat]
  BY <1>1 DEF Adds
<1>3. F[{}] = 0
  <2>1. Image({}) = {}
    OBVIOUS
  <2>2. F[{}] = sum[Image({})]
    OBVIOUS
  <2> HIDE DEF F, Image
  <2> QED
    BY <2>1, <2>2 DEF Adds
<1>4. ASSUME NEW s \in SUBSET (1 .. n), NEW x \in s
      PROVE  F[s] = Sizes(kept)[x] + F[s \ {x}]
  <2>1. Image(s \ {x}) = Image(s) \ {f[x]}
    <3>1. \A k \in s : k \in 1 .. n /\ (k # x => f[k] # f[x])
      BY <1>0
    <3> QED
      BY <3>1
  <2>2. f[x] \in Image(s) /\ Image(s) \in SUBSET I
    BY <1>1
  <2>3. F[s] = sum[Image(s)] /\ F[s \ {x}] = sum[Image(s \ {x})]
    OBVIOUS
  <2>4. Sizes(kept)[x] = Sizes(list)[f[x]]
    BY <1>0 DEF Sizes, PlacedBy
  <2> HIDE DEF F, Image
  <2>5. sum[Image(s)] = Sizes(list)[f[x]] + sum[Image(s) \ {f[x]}]
    BY <2>2 DEF Adds
  <2> QED
    BY <2>1, <2>3, <2>4, <2>5
<1>5. F[1 .. n] = sum[I]
  <2>1. Image(1 .. n) = I
    BY <1>0
  <2>2. F[1 .. n] = sum[Image(1 .. n)]
    OBVIOUS
  <2> HIDE DEF F, Image
  <2> QED
    BY <2>1, <2>2
<1> HIDE DEF F
<1>6. Adds(F, Sizes(kept), 1 .. n)
  BY <1>2, <1>3, <1>4 DEF Adds
<1> QED
  BY <1>5, <1>6

-----------------------------------------------------------------------------
(* Retention.                                                              *)

(* The policy, for one list of versions.                                   *)
WithinPolicy(list) ==
    /\ Len(list) <= MaxVersions
    /\ Len(list) > 1 =>
         MapThenSumSet(LAMBDA i : Bytes(list[i].generation), DOMAIN list) <= Quota

(* What the walk over a list keeps of it is within the policy.             *)
LEMMA KeptWithinPolicy ==
  ASSUME NEW list \in Seq(VersionRecord), list # <<>>, Recorded(list),
         NEW I \in SUBSET DOMAIN list, Chosen(list, I), NEW kept \in Arranged(list, I)
  PROVE  Recorded(kept) /\ WithinPolicy(kept)
<1> DEFINE n == Cardinality(I)
<1>1. /\ 1 \in I /\ IsFiniteSet(I) /\ n \in 1 .. MaxVersions
      /\ kept \in Seq(VersionRecord) /\ Len(kept) = n
  BY KeptPlaces
<1>2. PICK f \in [1 .. n -> I] :
        /\ Increasing(f)
        /\ kept = [k \in 1 .. n |-> list[f[k]]]
        /\ f[n] \in I
        /\ \A i \in I : i <= f[n]
  BY KeptPlaces
<1>3. n \in Nat /\ Places(f, n, I)
  <2>1. f \in [1 .. Cardinality(I) -> I] /\ Increasing(f)
    BY <1>2
  <2>2. /\ Cardinality(I) \in Nat
        /\ \A k, l \in 1 .. Cardinality(I) : f[k] = f[l] => k = l
        /\ \A i \in I : \E k \in 1 .. Cardinality(I) : f[k] = i
    BY <2>1, ArrangedOnto
  <2> QED
    BY <2>1, <2>2 DEF Places
<1>4. Recorded(kept)
  <2>1. \A k \in 1 .. n : f[k] \in DOMAIN list
    OBVIOUS
  <2>2. DOMAIN kept = 1 .. n /\ \A k \in 1 .. n : kept[k] = list[f[k]]
    BY <1>2
  <2> QED
    BY <2>1, <2>2 DEF Recorded
<1>5. \A k \in DOMAIN list : k \in Nat /\ Sizes(list)[k] \in Nat /\ Sizes(list)[k] = list[k].bytes
  <2>1. \A k \in DOMAIN list : k \in Nat /\ list[k] \in VersionRecord
    OBVIOUS
  <2> QED
    BY <2>1 DEF Sizes, VersionRecord
<1>6. PICK sum : Adds(sum, Sizes(list), I)
  <2>1. PICK s : Adds(s, [k \in I |-> Sizes(list)[k]], I)
    <3>1. [k \in I |-> Sizes(list)[k]] \in [I -> Nat]
      BY <1>5
    <3> QED
      BY <1>1, <3>1, SumExists
  <2>2. Adds(s, Sizes(list), I)
    BY <2>1 DEF Adds
  <2> QED
    BY <2>2
<1>7. PICK F : Adds(F, Sizes(kept), 1 .. n) /\ F[1 .. n] = sum[I]
  <2> HIDE DEF n
  <2>1. kept = PlacedBy(f, n, list)
    BY <1>2 DEF PlacedBy
  <2> QED
    BY <1>3, <1>6, <2>1, SumArranged
<1>8. DOMAIN kept = 1 .. n
  BY <1>2
<1>9. MapThenSumSet(LAMBDA i : Bytes(kept[i].generation), DOMAIN kept) = sum[I]
  <2>1. Adds(F, Sizes(kept), DOMAIN kept)
    BY <1>7, <1>8
  <2>2. MapThenSumSet(LAMBDA i : Bytes(kept[i].generation), DOMAIN kept) = F[DOMAIN kept]
    BY <1>1, <1>4, <2>1, SumOnDisk
  <2> QED
    BY <1>7, <1>8, <2>2
<1>10. ASSUME n > 1
       PROVE  sum[I] <= Quota
  <2> DEFINE m == f[n]
             newer == {k \in I : k < m}
  <2>1. m \in I /\ m \in DOMAIN list
    BY <1>2
  <2>2. newer = I \ {m}
    <3>1. \A k \in I : k \in Nat /\ m \in Nat /\ k <= m
      BY <1>2, <1>5, <2>1
    <3> QED
      BY <3>1
  <2> HIDE DEF m
  <2>3. newer # {}
    <3>1. Cardinality(I \ {m}) = n - 1
      BY <1>1, <2>1, FS_RemoveElement
    <3>2. I \ {m} = {} => Cardinality(I \ {m}) = 0
      BY FS_EmptySet
    <3> HIDE DEF n, newer
    <3> QED
      BY <1>3, <1>10, <2>2, <3>1, <3>2
  <2>4. MapThenSumSet(LAMBDA k : list[k].bytes, newer) + list[m].bytes <= Quota
    BY <2>1, <2>3 DEF Chosen
  <2>5. IsFiniteSet(newer) /\ newer \in SUBSET DOMAIN list /\ newer \in SUBSET I
    BY <1>1, <2>2, FS_Subset
  <2> HIDE DEF newer
  <2> DEFINE part == [s \in SUBSET newer |-> sum[s]]
  <2>6. Adds(part, Sizes(list), newer)
    BY <1>6, <2>5 DEF Adds
  <2>7. part[newer] = sum[newer]
    OBVIOUS
  <2> HIDE DEF part
  <2>8. MapThenSumSet(LAMBDA k : list[k].bytes, newer) = sum[newer]
    BY <2>5, <2>6, <2>7, SumOfVersions
  <2>9. sum[I] = Sizes(list)[m] + sum[newer]
    BY <1>6, <2>1, <2>2 DEF Adds
  <2>10. sum[newer] \in Nat /\ list[m].bytes \in Nat /\ Sizes(list)[m] = list[m].bytes
    BY <1>5, <1>6, <2>1, <2>5 DEF Adds
  <2> QED
    BY <2>4, <2>8, <2>9, <2>10
<1> HIDE DEF n
<1>11. WithinPolicy(kept)
  BY <1>1, <1>9, <1>10 DEF WithinPolicy
<1> QED
  BY <1>4, <1>11

RetInv ==
    /\ ReadInv
    /\ \A j \in Projects : Recorded(versions[j]) /\ WithinPolicy(versions[j])

(* The transaction of a save or a restore leaves the versions within the   *)
(* policy.                                                                 *)
LEMMA MoveWithinPolicy ==
  ASSUME RetInv, ReadInv', NEW p \in Procs, NEW j \in Projects, NEW then,
         op[p].project = j, op[p].base = row[j], MoveProject(p, then)
  PROVE  RetInv'
<1> DEFINE list == <<Version(op[p].base)>> \o versions[j]
<1>1. TypeOK /\ row[j] \in Generations /\ row[j] \in files
      /\ versions[j] \in Seq(VersionRecord)
  <2>1. TypeOK /\ row[j] \in Generations
    BY DEF RetInv, ReadInv, TypeInv, TypeOK, MoveProject
  <2>2. row[j] \in Referenced
    BY <2>1 DEF Referenced, ReferencedBy
  <2> QED
    BY <2>1, <2>2 DEF RetInv, ReadInv, CatalogIsReadable, TypeOK
<1>2. list \in Seq(VersionRecord) /\ list # <<>>
  BY <1>1, VersionTyped
<1>3. Recorded(list)
  <2>1. Version(op[p].base).bytes = Bytes(Version(op[p].base).generation)
    BY <1>1 DEF Version
  <2>2. Recorded(versions[j])
    BY DEF RetInv
  <2>3. ASSUME NEW i \in DOMAIN list
        PROVE  list[i] = Version(op[p].base) \/ \E k \in DOMAIN versions[j] : list[i] = versions[j][k]
    <3>1. CASE i = 1
      BY <1>1, <3>1
    <3>2. CASE i # 1
      <4>1. i - 1 \in DOMAIN versions[j] /\ list[i] = versions[j][i - 1]
        BY <1>1, <2>3, <3>2
      <4> QED
        BY <4>1
    <3> QED
      BY <3>1, <3>2
  <2> HIDE DEF list
  <2> QED
    BY <2>1, <2>2, <2>3 DEF Recorded
<1>4. PICK I \in SUBSET DOMAIN list :
        /\ Chosen(list, I)
        /\ \E kept \in Arranged(list, I) : versions' = [versions EXCEPT ![j] = kept]
  BY DEF MoveProject, FileVersions
<1>5. PICK kept \in Arranged(list, I) : versions' = [versions EXCEPT ![j] = kept]
  BY <1>4
<1> HIDE DEF list
<1>6. Recorded(kept) /\ WithinPolicy(kept)
  BY <1>2, <1>3, <1>4, <1>5, KeptWithinPolicy
<1>7. \A k \in Projects : versions'[k] = IF k = j THEN kept ELSE versions[k]
  BY <1>1, <1>5 DEF TypeOK
<1>8. ASSUME NEW k \in Projects
      PROVE  Recorded(versions'[k]) /\ WithinPolicy(versions'[k])
  <2>1. CASE k = j
    BY <1>6, <1>7, <2>1
  <2>2. CASE k # j
    <3>1. versions'[k] = versions[k]
      BY <1>7, <2>2
    <3>2. Recorded(versions[k]) /\ WithinPolicy(versions[k])
      BY DEF RetInv
    <3> QED
      BY <3>1, <3>2
  <2> QED
    BY <2>1, <2>2
<1>9. \A k \in Projects : (Recorded(versions[k]) /\ WithinPolicy(versions[k]))'
  BY <1>8
<1> QED
  BY <1>9 DEF RetInv

(* With one process, every step keeps to the policy.                       *)
LEMMA NextRetInv == OneProcess /\ RetInv /\ [Next]_vars => RetInv'
<1> SUFFICES ASSUME OneProcess, RetInv, [Next]_vars PROVE RetInv'
  OBVIOUS
<1>0. ReadInv /\ ReadInv'
  BY NextReadInv DEF RetInv
<1>a. TypeOK /\ \A p \in Procs : Knows(op[p]) /\ Relies(p)
  BY <1>0 DEF ReadInv, TypeInv, Operands
<1>1. ASSUME versions' = versions PROVE RetInv'
  <2>1. \A j \in Projects : (Recorded(versions[j]) /\ WithinPolicy(versions[j]))'
    <3>1. ASSUME NEW j \in Projects
          PROVE  Recorded(versions'[j]) /\ WithinPolicy(versions'[j])
      BY <1>1 DEF RetInv
    <3> QED
      BY <3>1
  <2> QED
    BY <1>0, <2>1 DEF RetInv
<1>2. ASSUME NEW p \in Procs, CommitSave(p) \/ CommitRestore(p) PROVE RetInv'
  <2>1. PICK j \in Projects : j = op[p].project
    BY <1>2, <1>a DEF CommitSave, CommitRestore, Knows, At
  <2>2. op[p].base = row[j]
    BY <1>2, <1>a, <2>1 DEF CommitSave, CommitRestore, Relies, At
  <2>3. \E then \in {"pruneAfterSave", "pruneAfterRestore"} : MoveProject(p, then)
    BY <1>2 DEF CommitSave, CommitRestore
  <2> QED
    BY <1>0, <2>1, <2>2, <2>3, MoveWithinPolicy
<1>3. ASSUME NEW p \in Procs, CommitDelete(p) PROVE RetInv'
  <2>1. PICK j \in Projects : j = op[p].project
    BY <1>3, <1>a DEF CommitDelete, Knows, At
  <2>2. versions' = [versions EXCEPT ![j] = <<>>]
    BY <1>3, <2>1 DEF CommitDelete
  <2>3. Recorded(<<>>) /\ WithinPolicy(<<>>)
    BY DEF Recorded, WithinPolicy
  <2>4. ASSUME NEW k \in Projects
        PROVE  Recorded(versions'[k]) /\ WithinPolicy(versions'[k])
    <3>1. CASE k = j
      BY <1>a, <2>2, <2>3, <3>1 DEF TypeOK
    <3>2. CASE k # j
      <4>1. versions'[k] = versions[k]
        BY <1>a, <2>2, <3>2 DEF TypeOK
      <4> QED
        BY <4>1 DEF RetInv
    <3> QED
      BY <3>1, <3>2
  <2>5. \A k \in Projects : (Recorded(versions[k]) /\ WithinPolicy(versions[k]))'
    BY <2>4
  <2> QED
    BY <1>0, <2>5 DEF RetInv
<1>4. ASSUME NEW p \in Procs, SaveStep(p) PROVE RetInv'
  BY <1>1, <1>2, <1>4
     DEF SaveStep, BeginSave, StageGeneration, CommitNewProject, CleanUp, FinishSave, store
<1>5. ASSUME NEW p \in Procs, OpenStep(p) PROVE RetInv'
  BY <1>1, <1>2, <1>5
     DEF OpenStep, BeginOpen, PublishOpen, BeginRestore, FinishRestore, store
<1>6. ASSUME NEW p \in Procs, DeleteStep(p) PROVE RetInv'
  BY <1>1, <1>3, <1>6 DEF DeleteStep, BeginDelete, Erase, FinishDelete, store
<1>7. ASSUME NEW p \in Procs,
             \/ FindStale(p) \/ RemoveStale(p) \/ Abandon(p)
             \/ RemovalFails(p) \/ Crash(p) \/ LeaveStore(p)
      PROVE  RetInv'
  BY <1>1, <1>7 DEF FindStale, RemoveStale, Abandon, RemovalFails, Crash, LeaveStore, store
<1>8. ASSUME NEW g \in Generations, Age(g) PROVE RetInv'
  BY <1>1, <1>8 DEF Age
<1>9. CASE UNCHANGED vars
  BY <1>1, <1>9 DEF vars
<1> QED
  BY <1>4, <1>5, <1>6, <1>7, <1>8, <1>9 DEF Next

(* With one process on the store, the versions of a project stay within    *)
(* the number and, beyond the newest, within the bytes of the policy, for  *)
(* any sizes, quota and number of versions; the bytes are those on disk,   *)
(* because what the catalogue names is there when it is measured.          *)
THEOREM RetentionIsKept == OneProcess => (Spec => []RetentionHolds)
<1> SUFFICES ASSUME OneProcess PROVE Spec => []RetentionHolds
  OBVIOUS
<1>1. Init => RetInv
  <2>1. Recorded(<<>>) /\ WithinPolicy(<<>>)
    BY DEF Recorded, WithinPolicy
  <2> QED
    BY <2>1, InitReadInv DEF Init, RetInv
<1>2. RetInv /\ [Next]_vars => RetInv'
  BY NextRetInv
<1>3. RetInv => RetentionHolds
  BY DEF RetInv, WithinPolicy, RetentionHolds
<1> QED
  BY <1>1, <1>2, <1>3, PTL DEF Spec
=============================================================================
