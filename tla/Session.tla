------------------------------- MODULE Session -------------------------------
(***************************************************************************)
(* The desktop session of DatasetState (src-tauri/src/dataset.rs and its   *)
(* submodules) and the project commands that publish into it: the mutexes  *)
(* current, comparison and pending_selection, the commit locks of the      *)
(* cancellable kinds and the operation mutex of ProjectState, with every   *)
(* command as the sequence of critical sections its handler runs.          *)
(*                                                                         *)
(* A task is one issued command on a blocking thread.  Rows are left out:  *)
(* whatever a command publishes is named after its task, so that "the      *)
(* same dataset" is equality of names.  For the same reason a generation   *)
(* counter is the task it last answered to (OperationGate has the counter).*)
(***************************************************************************)
EXTENDS Naturals, Sequences

CONSTANTS Tasks,     \* the commands issued
          NoOne,     \* a free lock, a consumed generation, nothing published
          Loaded,    \* the dataset, selection and comparison of the start
          Pending,   \* the converted copy selected at the start
          Original,  \* a file of the person; every other path is a copy
          Menu       \* Menu[t]: the commands that task t may be

ASSUME SessionAssumption ==
  /\ NoOne \notin Tasks /\ Loaded \notin Tasks /\ NoOne # Loaded
  /\ Pending \notin Tasks \cup {NoOne, Loaded}
  /\ Original \notin Tasks \cup {NoOne, Loaded, Pending}

VARIABLES current,     \* state.current: id, file it reads, dataset profiled
          comparison,  \* state.comparison: id, and whether its snapshot has
                       \* the size recorded for it
          selection,   \* state.pending_selection: id, generation, path
          copies,      \* state.converted_sources: UTF-8 copies on disk
          newest,      \* newest[k]: who holds the generation of kind k
          inFlight,    \* review_mutation_in_flight
          lock,        \* lock[l]: the task that holds it
          task         \* task[t]: command, next step, and what it has read

vars == <<current, comparison, selection, copies, newest, inFlight, lock, task>>
data == <<current, comparison, selection, copies>>

Nothing == [id |-> NoOne]
-----------------------------------------------------------------------------
(***************************************************************************)
(* One critical section: wait for a lock, do something, and drop the guard *)
(* (Use) or keep it until the command ends (Hold).                         *)
(***************************************************************************)
Use(l, effect)  == [lock |-> l, keep |-> FALSE, do |-> effect]
Hold(l, effect) == [lock |-> l, keep |-> TRUE, do |-> effect]
Alone(effect)   == [lock |-> "none", keep |-> FALSE, do |-> effect]

(***************************************************************************)
(* Seeded faults: a critical section or a sequence of them as a plausible  *)
(* slip would leave it; no specification uses them.                        *)
(***************************************************************************)
\* A restore run outside run_project_operation.
RestoreUnserialised ==
  <<Use("open", "begin"), Alone("check"), Hold("current", "pass"),
    Hold("open", "check"), Alone("pass"), Alone("activate"),
    Use("selection", "clearSelection"), Alone("outdate")>>

\* A publication that checks its inputs and lets the locks go in between.
ConsolidateUnguarded ==
  <<Alone("beginReview"), Use("comparison", "copyComparison"),
    Use("current", "readCurrent"), Use("current", "sameDataset"),
    Use("comparison", "sameComparison"), Hold("review", "check"),
    Alone("publishReview")>>

\* inspect_dataset_path_impl: a new selection of a file of the person.
InspectSource ==
  <<Use("load", "begin"), Hold("load", "check"), Use("selection", "select")>>

\* inspect_workbook_sheets_impl: works under the generation of the selection.
InspectWorkbook ==
  <<Use("selection", "readSelectionStep"), Hold("load", "check"),
    Use("selection", "confirmSelection")>>

\* convert_dataset_selection_encoding_impl: a step of the load of its own.
ConvertEncoding ==
  <<Use("selection", "readSelection"), Use("load", "begin"),
    Hold("load", "check"), Hold("current", "pass"), Hold("selection", "useCopy")>>

\* load_dataset_selection_impl.
LoadSelection ==
  <<Use("load", "begin"), Use("selection", "readSelection"), Alone("readFile"),
    Hold("load", "check"), Hold("current", "pass"), Hold("comparison", "pass"),
    Hold("selection", "publishLoad")>>

DiscardSelection == <<Use("selection", "discard")>>

\* open_project: the catalogue commits under the lock that a cancellation
\* takes, and the session is waited for inside it.
OpenProject ==
  <<Use("open", "begin"), Hold("operation", "pass"), Hold("open", "check"),
    Alone("pass"), Hold("current", "activate"),
    Use("selection", "clearSelection"), Alone("outdate")>>

\* restore_project_version: waits for the session before it takes that lock,
\* so that a cancellation can win meanwhile.
RestoreVersion ==
  <<Use("open", "begin"), Hold("operation", "check"), Hold("current", "pass"),
    Hold("open", "check"), Alone("pass"), Alone("activate"),
    Use("selection", "clearSelection"), Alone("outdate")>>

\* save_project and autosave_project: the snapshot is taken under current.
SaveProject ==
  <<Use("save", "begin"), Hold("operation", "check"), Use("current", "readCurrent"),
    Hold("save", "check")>>

\* Every Prepare command, undo and redo: current is held from the first read
\* to the publication.
Prepare ==
  <<Alone("begin"), Hold("current", "check"), Hold("prepare", "check"),
    Alone("edit")>>

\* get_dataset_profile_impl: computes without the lock and polls meanwhile.
Profile ==
  <<Alone("begin"), Use("current", "readCurrent"), Alone("check"),
    Use("current", "cacheProfile")>>

\* compare_dataset_impl.
Compare ==
  <<Alone("begin"), Use("current", "readCurrent"), Hold("compare", "check"),
    Use("comparison", "keepComparison")>>

\* get_dataset_conflict_page_impl: the comparison is checked again at the end.
ConflictPage ==
  <<Alone("begin"), Use("comparison", "readComparison"),
    Use("current", "readCurrent"), Use("comparison", "sameComparison"),
    Hold("compare", "check")>>

ClearComparison == <<Use("comparison", "forget")>>

\* query_dataset: both guards are held while the query runs.
Query == <<Alone("begin"), Hold("current", "pass"), Hold("comparison", "check")>>

\* use_consolidated_dataset and resolve_dataset_conflicts: a private copy of
\* the comparison, the stamp of the dataset, the computation without locks,
\* and then the publication with both inputs checked again.
Consolidate ==
  <<Alone("beginReview"), Use("comparison", "copyComparison"),
    Use("current", "readCurrent"), Hold("current", "sameDataset"),
    Hold("comparison", "sameComparison"), Hold("review", "check"),
    Alone("publishReview")>>

\* join_dataset: its second file comes from a dialog, so no comparison is
\* copied, but the one there is, or its absence, must not change.
Join ==
  <<Alone("beginReview"), Use("current", "readCurrent"),
    Use("comparison", "peekComparison"), Hold("current", "sameDataset"),
    Hold("comparison", "sameComparison"), Hold("review", "check"),
    Alone("publishReview")>>

\* DatasetState::cancel for a kind with a commit lock.
Cancel(k) == <<Use(k, "cancel")>>

Script ==
  [inspect |-> InspectSource, sheets |-> InspectWorkbook,
   convert |-> ConvertEncoding, load |-> LoadSelection,
   discard |-> DiscardSelection, open |-> OpenProject,
   restore |-> RestoreVersion, save |-> SaveProject, prepare |-> Prepare,
   profile |-> Profile, compare |-> Compare, conflicts |-> ConflictPage,
   clear |-> ClearComparison, query |-> Query, consolidate |-> Consolidate,
   join |-> Join, cancelLoad |-> Cancel("load"), cancelOpen |-> Cancel("open"),
   cancelPrepare |-> Cancel("prepare"), cancelReview |-> Cancel("review")]

KindOf ==
  [inspect |-> "load", sheets |-> "load", convert |-> "load", load |-> "load",
   discard |-> "load", open |-> "open", restore |-> "open", save |-> "save",
   prepare |-> "prepare", profile |-> "profile", compare |-> "compare",
   conflicts |-> "compare", clear |-> "compare", query |-> "query",
   consolidate |-> "review", join |-> "review", cancelLoad |-> "load",
   cancelOpen |-> "open", cancelPrepare |-> "prepare", cancelReview |-> "review"]

Commands == DOMAIN Script

ASSUME MenuAssumption == \A t \in Tasks : Menu[t] \subseteq Commands

Kinds == {KindOf[c] : c \in Commands}
\* "none" is held by nobody: a step that waits for nothing names it.
Locks == {"none", "current", "comparison", "selection", "operation"}
           \cup {"load", "open", "save", "prepare", "review", "compare"}
-----------------------------------------------------------------------------
Idle == [at |-> "idle"]

\* A session that reads a converted copy, has another one selected, and may
\* have a comparison with a Parquet file.
Init ==
  /\ current = [id |-> Loaded, source |-> Loaded, profile |-> NoOne]
  /\ comparison \in {Nothing, [id |-> Loaded, sized |-> TRUE]}
  /\ selection = [id |-> Loaded, generation |-> Loaded, path |-> Pending]
  /\ copies = {Loaded, Pending}
  /\ newest = [k \in Kinds |-> IF k = "load" THEN Loaded ELSE NoOne]
  /\ inFlight = FALSE
  /\ lock = [l \in Locks |-> NoOne]
  /\ task = [t \in Tasks |-> Idle]

Running(t) == task[t].at = "running"
NextStep(t) == Script[task[t].command][task[t].step]
Kind(t) == KindOf[task[t].command]

\* Task t is at a step with this effect and has the lock it needs.
Doing(t, effect) ==
  /\ Running(t)
  /\ NextStep(t).do = effect
  /\ lock[NextStep(t).lock] \in {NoOne, t}

\* What is read again inside a critical section.
Superseded(t) == newest[Kind(t)] # task[t].generation
SelectionIsMine(t) == selection # Nothing /\ selection.id = task[t].selection

Freed(t) == [l \in Locks |-> IF lock[l] = t THEN NoOne ELSE lock[l]]

\* The command returns: every guard is dropped, the in-flight flag included.
\* One that says its inputs changed is kept with the inputs it had.
End(t, outcome) ==
  /\ task' = [task EXCEPT ![t] =
       IF outcome = "changed"
       THEN [at |-> outcome, dataset |-> @.dataset, compared |-> @.compared]
       ELSE [at |-> "ended"]]
  /\ lock' = Freed(t)
  /\ inFlight' = (inFlight /\ ~(Kind(t) = "review" /\ task[t].owner))

\* On to the next critical section, or the command returns.  `seen` is what
\* the task remembers of this one.
Onward(t, seen) ==
  IF task[t].step = Len(Script[task[t].command])
  THEN End(t, "done")
  ELSE /\ task' = [task EXCEPT ![t] = [seen EXCEPT !.step = @ + 1]]
       /\ lock' = IF NextStep(t).keep
                  THEN [lock EXCEPT ![NextStep(t).lock] = t] ELSE lock
       /\ UNCHANGED inFlight

Continue(t) == Onward(t, task[t])

Refuse(t, effect, outcome) ==
  Doing(t, effect) /\ End(t, outcome) /\ UNCHANGED <<data, newest>>
-----------------------------------------------------------------------------
(***************************************************************************)
(* The effects.                                                            *)
(***************************************************************************)
\* converted_sources cleared without looking at the active dataset.
UseOnlyCopy(t) ==
  /\ Doing(t, "useCopy") /\ SelectionIsMine(t)
  /\ selection' = [selection EXCEPT !.path = t, !.generation = t]
  /\ copies' = {t}
  /\ Continue(t)
  /\ UNCHANGED <<current, comparison, newest>>

\* A profile cached on whatever dataset is active by then.
CacheProfileUnstamped(t) ==
  /\ Doing(t, "cacheProfile")
  /\ current' = [current EXCEPT !.profile = task[t].dataset]
  /\ Continue(t)
  /\ UNCHANGED <<comparison, selection, copies, newest>>

\* The interface issues a command; one about the selection names it.
Issue(t, c) ==
  /\ task[t] = Idle
  /\ task' = [task EXCEPT ![t] =
       [at |-> "running", command |-> c, step |-> 1, generation |-> NoOne,
        owner |-> FALSE, selection |-> selection.id, path |-> NoOne,
        dataset |-> current.id, compared |-> comparison.id]]
  /\ UNCHANGED <<data, newest, inFlight, lock>>

Pass(t) == Doing(t, "pass") /\ Continue(t) /\ UNCHANGED <<data, newest>>

Begin(t) ==
  /\ Doing(t, "begin")
  /\ newest' = [newest EXCEPT ![Kind(t)] = t]
  /\ Onward(t, [task[t] EXCEPT !.generation = t])
  /\ UNCHANGED data

BeginReview(t) ==
  /\ Doing(t, "beginReview") /\ ~inFlight
  /\ inFlight' = TRUE
  /\ newest' = [newest EXCEPT !["review"] = t]
  /\ task' = [task EXCEPT ![t].generation = t, ![t].owner = TRUE, ![t].step = @ + 1]
  /\ UNCHANGED <<data, lock>>

RefuseSecondReview(t) == inFlight /\ Refuse(t, "beginReview", "refused")

Check(t) ==
  Doing(t, "check") /\ ~Superseded(t) /\ Continue(t) /\ UNCHANGED <<data, newest>>

StopCancelled(t) == Superseded(t) /\ Refuse(t, "check", "cancelled")

AnswerCancel(t) ==
  /\ Doing(t, "cancel")
  /\ newest' = [newest EXCEPT ![Kind(t)] = NoOne]
  /\ Continue(t)
  /\ UNCHANGED data

Select(t) ==
  /\ Doing(t, "select")
  /\ selection' = [id |-> t, generation |-> t, path |-> Original]
  /\ Continue(t)
  /\ UNCHANGED <<current, comparison, copies, newest>>

SelectionEffects == {"readSelection", "readSelectionStep", "confirmSelection",
                     "useCopy", "publishLoad"}

\* "La selección caducó": none is pending, or another one is.
SelectionLapsed(t) ==
  ~SelectionIsMine(t) /\ \E e \in SelectionEffects : Refuse(t, e, "lapsed")

ReadSelection(t) ==
  /\ Doing(t, "readSelection") /\ SelectionIsMine(t)
  /\ Onward(t, [task[t] EXCEPT !.path = selection.path])
  /\ UNCHANGED <<data, newest>>

ReadSelectionStep(t) ==
  /\ Doing(t, "readSelectionStep") /\ SelectionIsMine(t)
  /\ Onward(t, [task[t] EXCEPT !.generation = selection.generation])
  /\ UNCHANGED <<data, newest>>

ConfirmSelection(t) ==
  /\ Doing(t, "confirmSelection") /\ SelectionIsMine(t)
  /\ Continue(t)
  /\ UNCHANGED <<data, newest>>

\* The converted copy replaces the path, the selection now belongs to this
\* step of the load, and only the copy the active dataset reads is kept.
UseCopy(t) ==
  /\ Doing(t, "useCopy") /\ SelectionIsMine(t)
  /\ selection' = [selection EXCEPT !.path = t, !.generation = t]
  /\ copies' = (copies \cap {current.source}) \cup {t}
  /\ Continue(t)
  /\ UNCHANGED <<current, comparison, newest>>

FileExists(path) == path \in copies \cup {Original}

ReadFile(t) ==
  /\ Doing(t, "readFile") /\ FileExists(task[t].path)
  /\ Continue(t)
  /\ UNCHANGED <<data, newest>>

\* The copy went away with a newer conversion, which has cancelled this load.
FileIsGone(t) == ~FileExists(task[t].path) /\ Refuse(t, "readFile", "failed")

PublishLoad(t) ==
  /\ Doing(t, "publishLoad") /\ SelectionIsMine(t)
  /\ current' = [id |-> t, source |-> task[t].path, profile |-> NoOne]
  /\ comparison' = Nothing
  /\ selection' = Nothing
  /\ Continue(t)
  /\ UNCHANGED <<copies, newest>>

Discard(t) ==
  /\ Doing(t, "discard")
  /\ selection' = IF SelectionIsMine(t) THEN Nothing ELSE selection
  /\ Continue(t)
  /\ UNCHANGED <<current, comparison, copies, newest>>

\* `*current = Some(loaded); drop(current)`: the comparison stays.
Activate(t) ==
  /\ Doing(t, "activate")
  /\ current' = [id |-> t, source |-> NoOne, profile |-> NoOne]
  /\ task' = [task EXCEPT ![t].step = @ + 1]
  /\ lock' = [lock EXCEPT !["current"] = NoOne]
  /\ UNCHANGED <<comparison, selection, copies, newest, inFlight>>

ClearSelection(t) ==
  /\ Doing(t, "clearSelection")
  /\ selection' = Nothing
  /\ Continue(t)
  /\ UNCHANGED <<current, comparison, copies, newest>>

\* What was computed for the dataset before is cancelled.
Outdate(t) ==
  /\ Doing(t, "outdate")
  /\ newest' = [newest EXCEPT !["profile"] = NoOne]
  /\ Continue(t)
  /\ UNCHANGED data

ReadCurrent(t) ==
  /\ Doing(t, "readCurrent")
  /\ Onward(t, [task[t] EXCEPT !.dataset = current.id])
  /\ UNCHANGED <<data, newest>>

Edit(t) ==
  /\ Doing(t, "edit")
  /\ current' = [id |-> t, source |-> NoOne, profile |-> NoOne]
  /\ Continue(t)
  /\ UNCHANGED <<comparison, selection, copies, newest>>

SameDataset(t) == current.id = task[t].dataset

\* The profile is answered in any case, and kept if the stamp still matches.
CacheProfile(t) ==
  /\ Doing(t, "cacheProfile")
  /\ current' = IF SameDataset(t)
                THEN [current EXCEPT !.profile = task[t].dataset] ELSE current
  /\ Continue(t)
  /\ UNCHANGED <<comparison, selection, copies, newest>>

\* The size recorded is that of the file chosen; the snapshot is a copy of it
\* only if that file is already Parquet.
KeepComparison(t) ==
  /\ Doing(t, "keepComparison")
  /\ \E isParquet \in BOOLEAN : comparison' = [id |-> t, sized |-> isParquet]
  /\ Continue(t)
  /\ UNCHANGED <<current, selection, copies, newest>>

Forget(t) ==
  /\ Doing(t, "forget")
  /\ comparison' = Nothing
  /\ Continue(t)
  /\ UNCHANGED <<current, selection, copies, newest>>

RememberComparison(t, effect) ==
  /\ Doing(t, effect)
  /\ Onward(t, [task[t] EXCEPT !.compared = comparison.id])
  /\ UNCHANGED <<data, newest>>

PeekComparison(t) == RememberComparison(t, "peekComparison")

ReadComparison(t) ==
  comparison # Nothing /\ RememberComparison(t, "readComparison")

\* snapshot_pending_comparison_for_review: the snapshot must have the size
\* recorded with the comparison.
CopyComparison(t) ==
  /\ comparison # Nothing /\ comparison.sized
  /\ RememberComparison(t, "copyComparison")

NoComparison(t) ==
  /\ comparison = Nothing
  /\ \E e \in {"readComparison", "copyComparison"} : Refuse(t, e, "refused")

SizeDiffers(t) ==
  /\ comparison # Nothing /\ ~comparison.sized
  /\ Refuse(t, "copyComparison", "changed")

KeepDataset(t) ==
  Doing(t, "sameDataset") /\ SameDataset(t) /\ Continue(t) /\ UNCHANGED <<data, newest>>

DatasetChanged(t) == ~SameDataset(t) /\ Refuse(t, "sameDataset", "changed")

SameComparison(t) == comparison.id = task[t].compared

KeepComparisonRead(t) ==
  /\ Doing(t, "sameComparison") /\ SameComparison(t)
  /\ Continue(t)
  /\ UNCHANGED <<data, newest>>

ComparisonChanged(t) == ~SameComparison(t) /\ Refuse(t, "sameComparison", "changed")

PublishReview(t) ==
  /\ Doing(t, "publishReview")
  /\ current' = [id |-> t, source |-> NoOne, profile |-> NoOne]
  /\ comparison' = Nothing
  /\ Continue(t)
  /\ UNCHANGED <<selection, copies, newest>>

\* The work of a command fails, or its dialog is closed: guards are dropped.
\* A project that has been activated is past its last error.
Fail(t) ==
  \E e \in {"pass", "readFile", "readCurrent", "sameDataset", "edit",
            "publishReview"} : Refuse(t, e, "failed")

Step(t) ==
  /\ Running(t)
  /\ \/ Pass(t) \/ Begin(t) \/ BeginReview(t) \/ RefuseSecondReview(t)
     \/ Check(t) \/ StopCancelled(t) \/ AnswerCancel(t)
     \/ Select(t) \/ SelectionLapsed(t) \/ ReadSelection(t) \/ ReadSelectionStep(t)
     \/ ConfirmSelection(t) \/ UseCopy(t) \/ ReadFile(t) \/ FileIsGone(t)
     \/ PublishLoad(t) \/ Discard(t) \/ Activate(t) \/ ClearSelection(t)
     \/ Outdate(t) \/ ReadCurrent(t) \/ Edit(t) \/ CacheProfile(t)
     \/ KeepComparison(t) \/ Forget(t) \/ PeekComparison(t) \/ ReadComparison(t)
     \/ CopyComparison(t) \/ NoComparison(t) \/ SizeDiffers(t)
     \/ KeepDataset(t) \/ DatasetChanged(t) \/ KeepComparisonRead(t)
     \/ ComparisonChanged(t) \/ PublishReview(t) \/ Fail(t)

Next == \E t \in Tasks : Step(t) \/ \E c \in Menu[t] : Issue(t, c)

Spec == Init /\ [][Next]_vars

\* A blocking thread that can go on does; nothing obliges the interface.
FairSpec == Spec /\ \A t \in Tasks : WF_vars(Step(t))
-----------------------------------------------------------------------------
\* Every command that is issued returns.  open_project takes the lock of its
\* commit before `current` and restore_project_version the other way round,
\* queries and loads nest three locks, and cancellations wait for a commit:
\* no order of them leaves two commands waiting for each other.
EveryCommandEnds == \A t \in Tasks : Running(t) ~> ~Running(t)

\* "A copy lives until neither the active dataset nor the pending selection
\* points into it": whatever is selected, converted, discarded or loaded
\* meanwhile, although a conversion drops the copies of earlier ones.
CopyIsKept ==
  \A path \in {current.source} \cup (IF selection = Nothing THEN {} ELSE {selection.path}) :
    path \notin {NoOne, Original} => path \in copies

\* The profile kept with the dataset was computed from that dataset, though
\* it is computed without the session lock while others may replace it.
ProfileIsOfDataset == current.profile \in {NoOne, current.id}

\* A Review mutation replaces the very dataset it read, with the comparison
\* it read still the session's; a load publishes the file that the selection
\* names when it publishes, converted or not.
PublishesWhatItRead ==
  [][\A t \in Tasks :
       current'.id = t /\ current.id # t =>
         /\ task[t].command \in {"consolidate", "join"}
              => SameDataset(t) /\ SameComparison(t)
         /\ task[t].command = "load"
              => SelectionIsMine(t) /\ selection.path = task[t].path]_vars

\* A Review mutation that answers "el snapshot comparado cambió" or "el
\* dataset activo cambió" has met another comparison or dataset.  A
\* comparison with a file that is not Parquet makes the code say it always.
RefusedOnlyIfChanged ==
  \A t \in Tasks :
    task[t].at = "changed" =>
      current.id # task[t].dataset \/ comparison.id # task[t].compared
==============================================================================
