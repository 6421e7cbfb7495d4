--------------------------- MODULE ProjectCatalog ---------------------------
(***************************************************************************)
(* Durable projects (projects.rs, project_recovery.rs): the SQLite         *)
(* catalogue, the generation directories it names, and the datasets open   *)
(* in the processes that use the store.                                    *)
(*                                                                         *)
(* A save writes a whole new generation, then moves the catalogue to it in *)
(* one transaction that also files the previous generation as a version    *)
(* and prunes old versions, then removes the directories of the pruned     *)
(* ones.  Files and catalogue are two stores with no common commit: a      *)
(* process can die, be cancelled or fail between any two of those steps.   *)
(* A process runs one project operation at a time (ProjectState.operation; *)
(* a CLI process runs one command), so its operation is one record.        *)
(***************************************************************************)
EXTENDS Naturals, Sequences, FiniteSets, FiniteSetsExt

CONSTANTS
    Procs,          \* the processes that use this store
    Desktop,        \* those that are the desktop application
    Projects,       \* project identifiers
    Generations,    \* random generation names
    Shape,          \* bytes of the dataset and of the history saved under each
    LazyThreshold,  \* SOURCE_BACKED_LOAD_THRESHOLD_BYTES
    Quota,          \* AUTOSAVE_QUOTA_BYTES
    MaxVersions,    \* MAX_PROJECT_VERSIONS
    NoGeneration,   \* the generation of a project that is not in the catalogue
    NoDataset,      \* a process with no dataset open
    OutsideStore    \* a dataset open in memory or in the session's own files

ASSUME CatalogAssumption ==
    /\ Desktop \subseteq Procs
    /\ Shape \in [Generations -> [current : Nat, history : Nat]]
    /\ LazyThreshold \in Nat /\ Quota \in Nat /\ MaxVersions \in Nat \ {0}
    /\ NoGeneration \notin Generations
    /\ NoDataset \notin Generations /\ OutsideStore \notin Generations
    /\ NoDataset # OutsideStore

VARIABLES
    row,        \* projects.generation_name of each project
    versions,   \* project_versions of each project, newest first
    files,      \* the generation directories on disk
    young,      \* those modified less than an hour ago
    ready,      \* whether a process has initialised its ProjectStore
    active,     \* what the dataset open in a process reads from
    op          \* the project operation a process is running

vars == <<row, versions, files, young, ready, active, op>>

store == <<row, versions, files, young>>

Idle == [step |-> "idle", project |-> NoGeneration, base |-> NoGeneration,
         target |-> NoGeneration, names |-> {}]

At(p, steps) == op[p].step \in steps

Bytes(g) == Shape[g].current + Shape[g].history

(* A large dataset saved without history is opened in place: the active    *)
(* dataset reads the stored file.  Any other is copied into the session.   *)
OpenedInPlace(g) == Shape[g].current >= LazyThreshold /\ Shape[g].history = 0

Opened(g) == IF OpenedInPlace(g) THEN g ELSE OutsideStore

ReferencedBy(j) ==
    {g \in Generations : g = row[j] \/ \E i \in DOMAIN versions[j] :
                                         g = versions[j][i].generation}

Referenced == UNION {ReferencedBy(j) : j \in Projects}

(* A random name nobody has: reused only when nothing remembers it.        *)
Unheard(g) ==
    /\ g \notin files \cup Referenced
    /\ \A p \in Procs :
         g \notin {active[p], op[p].base, op[p].target} \cup op[p].names

Version(g) ==
    [generation |-> g, bytes |-> IF g \in files THEN Bytes(g) ELSE 0]

(* Fault: the quota is compared before adding the version at hand.         *)
ChosenBeforeAdding(list, I) ==
    \A i \in DOMAIN list :
        LET newer == {k \in I : k < i}
        IN i \in I <=>
             \/ newer = {}
             \/ /\ Cardinality(newer) < MaxVersions
                /\ MapThenSumSet(LAMBDA k : list[k].bytes, newer) <= Quota

(* prune_versions_in_transaction walks from the newest version to the      *)
(* oldest and keeps the newest whatever its size.                          *)
Chosen(list, I) ==
    \A i \in DOMAIN list :
        LET newer == {k \in I : k < i}
        IN i \in I <=>
             \/ newer = {}
             \/ /\ Cardinality(newer) < MaxVersions
                /\ MapThenSumSet(LAMBDA k : list[k].bytes, newer) + list[i].bytes <= Quota

Increasing(f) == \A a, b \in DOMAIN f : a < b => f[a] < f[b]

(* The versions at the places of I, in their order.                        *)
Arranged(list, I) ==
    {[n \in 1 .. Cardinality(I) |-> list[f[n]]] :
        f \in {g \in [1 .. Cardinality(I) -> I] : Increasing(g)}}

GenerationsAt(list, I) == {list[i].generation : i \in I}

(* A list of versions is pruned, and the directories of those that leave   *)
(* it are noted for the cleanup.                                           *)
FileVersions(p, list, then) ==
    \E I \in SUBSET DOMAIN list :
        /\ Chosen(list, I)
        /\ \E kept \in Arranged(list, I) :
             versions' = [versions EXCEPT ![op[p].project] = kept]
        /\ op' = [op EXCEPT ![p].step = then,
                            ![p].names = GenerationsAt(list, DOMAIN list \ I)]

(* Fault: nothing is filed in place of what a restore or a save replaces.  *)
MoveProjectUnfiled(p, then) ==
    /\ row[op[p].project] # NoGeneration
    /\ row' = [row EXCEPT ![op[p].project] = op[p].target]
    /\ FileVersions(p, versions[op[p].project], then)
    /\ UNCHANGED <<files, young>>

(* The transaction of a save or a restore: the project points at the       *)
(* target, what it held becomes its newest version, old versions go.       *)
MoveProject(p, then) ==
    /\ row[op[p].project] # NoGeneration
    /\ row' = [row EXCEPT ![op[p].project] = op[p].target]
    /\ FileVersions(p, <<Version(op[p].base)>> \o versions[op[p].project], then)
    /\ UNCHANGED <<files, young>>
-----------------------------------------------------------------------------
(* Start of a process's use of the store.                                  *)

(* Fault: no grace for what another process is still writing.              *)
StaleWithoutGrace == files \ Referenced

(* Neither named by the catalogue nor modified in the last hour.           *)
Stale == (files \ Referenced) \ young

(* ensure_initialized reads the names in use and the time, and goes        *)
(* through the directories after: what appears later is not stale.         *)
FindStale(p) ==
    /\ At(p, {"idle"}) /\ ~ready[p]
    /\ op' = [op EXCEPT ![p].step = "reconcile", ![p].names = Stale]
    /\ UNCHANGED <<store, ready, active>>

(* Removals may fail, and a cancelled reconciliation is run again.         *)
RemoveStale(p) ==
    /\ At(p, {"reconcile"})
    /\ \E removed \in SUBSET op[p].names :
         /\ files' = files \ removed
         /\ young' = young \ removed
    /\ \E done \in BOOLEAN : ready' = [ready EXCEPT ![p] = done]
    /\ op' = [op EXCEPT ![p] = Idle]
    /\ UNCHANGED <<row, versions, active>>
-----------------------------------------------------------------------------
(* Saving.                                                                 *)

(* The active dataset is captured, then the row it will replace is read.   *)
Saveable(p) == active[p] = OutsideStore \/ active[p] \in files

BeginSave(p) ==
    /\ At(p, {"idle"}) /\ ready[p]
    /\ Saveable(p)
    /\ \E j \in Projects, g \in Generations :
         /\ row[j] = NoGeneration => \A q \in Procs : op[q].project # j
         /\ Unheard(g)
         /\ op' = [op EXCEPT ![p] = [step |-> "save", project |-> j, base |-> row[j],
                                     target |-> g, names |-> {}]]
    /\ UNCHANGED <<store, ready, active>>

(* The generation appears on disk complete, by a rename.                   *)
StageGeneration(p) ==
    /\ At(p, {"save"})
    /\ files' = files \cup {op[p].target}
    /\ young' = young \cup {op[p].target}
    /\ op' = [op EXCEPT ![p].step = "staged"]
    /\ UNCHANGED <<row, versions, ready, active>>

(* Fault: a version is filed although there was no previous generation.    *)
CommitNewFilingPrevious(p) ==
    /\ At(p, {"staged"}) /\ op[p].base = NoGeneration
    /\ row' = [row EXCEPT ![op[p].project] = op[p].target]
    /\ versions' = [versions EXCEPT ![op[p].project] =
                        <<[generation |-> op[p].base, bytes |-> 0]>> \o @]
    /\ op' = [op EXCEPT ![p].step = "pruneAfterSave"]
    /\ UNCHANGED <<files, young, ready, active>>

CommitNewProject(p) ==
    /\ At(p, {"staged"}) /\ op[p].base = NoGeneration
    /\ row' = [row EXCEPT ![op[p].project] = op[p].target]
    /\ op' = [op EXCEPT ![p].step = "pruneAfterSave"]
    /\ UNCHANGED <<versions, files, young, ready, active>>

CommitSave(p) ==
    /\ At(p, {"staged"}) /\ op[p].base # NoGeneration
    /\ MoveProject(p, "pruneAfterSave")
    /\ UNCHANGED <<ready, active>>

(* Fault: the guard is told to keep the generation before the commit.      *)
AbandonKeeping(p) ==
    /\ At(p, {"save", "staged", "open", "restore", "delete"})
    /\ op' = [op EXCEPT ![p] = Idle]
    /\ UNCHANGED <<store, ready, active>>

(* A cancelled or failed operation has changed nothing in the catalogue;   *)
(* StagedGenerationGuard removes what a save wrote.                        *)
Abandon(p) ==
    /\ At(p, {"save", "staged", "open", "restore", "delete"})
    /\ LET written == IF At(p, {"staged"}) THEN {op[p].target} ELSE {}
       IN /\ files' = files \ written
          /\ young' = young \ written
    /\ op' = [op EXCEPT ![p] = Idle]
    /\ UNCHANGED <<row, versions, ready, active>>
-----------------------------------------------------------------------------
(* Directories of pruned versions, after the commit.                       *)

(* Fault: what was pruned is not looked up again.                          *)
DisposableOncePruned(g) == g \in Generations

(* A pruned generation may still be the project's, or another version of   *)
(* it: a restore leaves the restored version in the list.                  *)
Disposable(g) == g \notin Referenced

CleanUp(p) ==
    /\ At(p, {"pruneAfterSave", "pruneAfterRestore"})
    /\ \E g \in op[p].names :
         LET removed == {h \in {g} : Disposable(h)}
         IN /\ files' = files \ removed
            /\ young' = young \ removed
            /\ op' = [op EXCEPT ![p].names = @ \ {g}]
    /\ UNCHANGED <<row, versions, ready, active>>

FinishSave(p) ==
    /\ At(p, {"pruneAfterSave"}) /\ op[p].names = {}
    /\ op' = [op EXCEPT ![p] = Idle]
    /\ UNCHANGED <<store, ready, active>>
-----------------------------------------------------------------------------
(* Opening and restoring, in the desktop application.                      *)

(* The candidate is read and validated before anything is published.       *)
BeginOpen(p) ==
    /\ p \in Desktop /\ At(p, {"idle"}) /\ ready[p]
    /\ \E j \in Projects :
         /\ row[j] \in files
         /\ op' = [op EXCEPT ![p] = [Idle EXCEPT !.step = "open", !.project = j,
                                                !.target = row[j]]]
    /\ UNCHANGED <<store, ready, active>>

(* last_opened_at is updated, and must find the row; then the candidate    *)
(* becomes the active dataset.                                             *)
PublishOpen(p) ==
    /\ At(p, {"open"})
    /\ row[op[p].project] # NoGeneration
    /\ active' = [active EXCEPT ![p] = Opened(op[p].target)]
    /\ op' = [op EXCEPT ![p] = Idle]
    /\ UNCHANGED <<store, ready>>

BeginRestore(p) ==
    /\ p \in Desktop /\ At(p, {"idle"}) /\ ready[p]
    /\ \E j \in Projects : \E i \in DOMAIN versions[j] :
         /\ row[j] # NoGeneration
         /\ versions[j][i].generation \in files
         /\ op' = [op EXCEPT ![p] = [Idle EXCEPT !.step = "restore", !.project = j,
                                                !.base = row[j],
                                                !.target = versions[j][i].generation]]
    /\ UNCHANGED <<store, ready, active>>

CommitRestore(p) ==
    /\ At(p, {"restore"})
    /\ MoveProject(p, "pruneAfterRestore")
    /\ UNCHANGED <<ready, active>>

FinishRestore(p) ==
    /\ At(p, {"pruneAfterRestore"}) /\ op[p].names = {}
    /\ active' = [active EXCEPT ![p] = Opened(op[p].target)]
    /\ op' = [op EXCEPT ![p] = Idle]
    /\ UNCHANGED <<store, ready>>
-----------------------------------------------------------------------------
(* Deleting.                                                               *)

(* The directories of the project and of all its versions are collected,   *)
(* and must exist, before the catalogue row goes.                          *)
BeginDelete(p) ==
    /\ At(p, {"idle"}) /\ ready[p]
    /\ \E j \in Projects :
         /\ row[j] # NoGeneration
         /\ ReferencedBy(j) \subseteq files
         /\ op' = [op EXCEPT ![p] = [Idle EXCEPT !.step = "delete", !.project = j,
                                                !.names = ReferencedBy(j)]]
    /\ UNCHANGED <<store, ready, active>>

(* Deleting the row cascades to its versions.                              *)
CommitDelete(p) ==
    /\ At(p, {"delete"})
    /\ row[op[p].project] # NoGeneration
    /\ row' = [row EXCEPT ![op[p].project] = NoGeneration]
    /\ versions' = [versions EXCEPT ![op[p].project] = <<>>]
    /\ op' = [op EXCEPT ![p].step = "erase"]
    /\ UNCHANGED <<files, young, ready, active>>

(* A directory another process has already removed counts as removed.      *)
Erase(p) ==
    /\ At(p, {"erase"})
    /\ \E g \in op[p].names :
         /\ files' = files \ {g}
         /\ young' = young \ {g}
         /\ op' = [op EXCEPT ![p].names = @ \ {g}]
    /\ UNCHANGED <<row, versions, ready, active>>

FinishDelete(p) ==
    /\ At(p, {"erase"}) /\ op[p].names = {}
    /\ op' = [op EXCEPT ![p] = Idle]
    /\ UNCHANGED <<store, ready, active>>
-----------------------------------------------------------------------------
(* What can go wrong at any step.                                          *)

(* A directory that cannot be removed: a cleanup goes on to the next, a    *)
(* deletion stops there.  (What the guard of a save cannot remove is what  *)
(* a crash at that step leaves.)                                           *)
RemovalFails(p) ==
    /\ op[p].names # {}
    /\ \/ /\ At(p, {"pruneAfterSave", "pruneAfterRestore"})
          /\ \E g \in op[p].names : op' = [op EXCEPT ![p].names = @ \ {g}]
       \/ /\ At(p, {"erase"})
          /\ op' = [op EXCEPT ![p] = Idle]
    /\ UNCHANGED <<store, ready, active>>

(* The process ends, at rest or in the middle of an operation, and a later *)
(* one starts: no guard runs and memory is lost.                           *)
Crash(p) ==
    /\ op' = [op EXCEPT ![p] = Idle]
    /\ ready' = [ready EXCEPT ![p] = FALSE]
    /\ active' = [active EXCEPT ![p] = NoDataset]
    /\ UNCHANGED store

(* A load publishes a dataset of its own, and a Prepare operation turns    *)
(* the active one into files of the session.                               *)
LeaveStore(p) ==
    /\ active[p] # OutsideStore
    /\ active' = [active EXCEPT ![p] = OutsideStore]
    /\ UNCHANGED <<store, ready, op>>

(* An hour goes by.  It is assumed that a save commits within the hour of  *)
(* its rename.                                                             *)
Age(g) ==
    /\ g \in young
    /\ \A p \in Procs : At(p, {"staged"}) => op[p].target # g
    /\ young' = young \ {g}
    /\ UNCHANGED <<row, versions, files, ready, active, op>>
-----------------------------------------------------------------------------
Init ==
    /\ row = [j \in Projects |-> NoGeneration]
    /\ versions = [j \in Projects |-> <<>>]
    /\ files = {} /\ young = {}
    /\ ready = [p \in Procs |-> FALSE]
    /\ active = [p \in Procs |-> NoDataset]
    /\ op = [p \in Procs |-> Idle]

SaveStep(p) ==
    \/ BeginSave(p) \/ StageGeneration(p) \/ CommitNewProject(p)
    \/ CommitSave(p) \/ CleanUp(p) \/ FinishSave(p)

OpenStep(p) ==
    \/ BeginOpen(p) \/ PublishOpen(p)
    \/ BeginRestore(p) \/ CommitRestore(p) \/ FinishRestore(p)

DeleteStep(p) == BeginDelete(p) \/ CommitDelete(p) \/ Erase(p) \/ FinishDelete(p)

Next ==
    \/ \E p \in Procs :
          \/ FindStale(p) \/ RemoveStale(p)
          \/ SaveStep(p) \/ OpenStep(p) \/ DeleteStep(p)
          \/ Abandon(p) \/ RemovalFails(p) \/ Crash(p) \/ LeaveStore(p)
    \/ \E g \in Generations : Age(g)

Spec == Init /\ [][Next]_vars
-----------------------------------------------------------------------------
(* Properties.                                                             *)

Steps == {"idle", "reconcile", "save", "staged", "pruneAfterSave", "open",
          "restore", "pruneAfterRestore", "delete", "erase"}

OpRecord == [step : Steps, project : Projects \cup {NoGeneration},
             base : Generations \cup {NoGeneration},
             target : Generations \cup {NoGeneration},
             names : SUBSET Generations]

VersionRecord == [generation : Generations, bytes : Nat]

(* The variables have the values the code can give them, and a directory   *)
(* is recent only while it exists.                                         *)
TypeOK ==
    /\ row \in [Projects -> Generations \cup {NoGeneration}]
    /\ versions \in [Projects -> Seq(VersionRecord)]
    /\ files \subseteq Generations /\ young \subseteq files
    /\ ready \in [Procs -> BOOLEAN]
    /\ active \in [Procs -> Generations \cup {NoDataset, OutsideStore}]
    /\ op \in [Procs -> OpRecord]

(* Every generation the catalogue names is on disk, whatever step a save,  *)
(* a restore, a deletion or a recovery was cancelled, failed or killed at: *)
(* no project and no version in the list is one that cannot be opened.     *)
CatalogIsReadable == Referenced \subseteq files

(* A process that does nothing but save, delete and recover never takes    *)
(* the current generation of a project away from another one.              *)
CurrentIsReadable == \A j \in Projects : row[j] # NoGeneration => row[j] \in files

(* Beyond the newest version, kept whatever its size, the versions of a    *)
(* project stay within the number and the bytes of the policy, with the    *)
(* bytes that are really on disk.                                          *)
RetentionHolds ==
    \A j \in Projects :
        LET list == versions[j]
        IN /\ Len(list) <= MaxVersions
           /\ Len(list) > 1 =>
                MapThenSumSet(LAMBDA i : Bytes(list[i].generation), DOMAIN list) <= Quota

(* What an operation is still going to name, or to remove.                 *)
Held(p) ==
    {op[p].target} \cup IF At(p, {"reconcile"}) THEN {} ELSE op[p].names

Orphans == (files \ Referenced) \ UNION {Held(p) : p \in Procs}

(* Disk space is lost only to a crash or to a directory that could not be  *)
(* removed: an operation that is cancelled, fails or succeeds leaves no    *)
(* generation behind that nothing names.                                   *)
NothingLeaks ==
    [][\/ Orphans' \subseteq Orphans
       \/ \E p \in Procs : Crash(p) \/ RemovalFails(p)]_vars

(* The dataset that is open stays readable whatever is done with the       *)
(* projects: the interface says so when it deletes one.                    *)
OpenDatasetSurvives == \A p \in Procs : active[p] \in Generations => active[p] \in files

(* The catalogue is a shelf of datasets that can be read.                  *)
ReadableOr(g, unreadable) == IF g \in files \/ g = NoGeneration THEN g ELSE unreadable

Shelf == INSTANCE ProjectShelf WITH
    Datasets <- Generations,
    NoDataset <- NoGeneration,
    Capacity <- MaxVersions,
    current <- [j \in Projects |-> ReadableOr(row[j], OutsideStore)],
    earlier <- [j \in Projects |->
                  [i \in DOMAIN versions[j] |->
                      ReadableOr(versions[j][i].generation, OutsideStore)]]

(* Saving, restoring and deleting are atomic as seen in the catalogue:     *)
(* nothing else changes what a project holds, what is replaced is always   *)
(* the newest version one can go back to, and the other versions are only  *)
(* ever thinned out.                                                       *)
KeepsTheShelf == Shelf!Spec
=============================================================================
