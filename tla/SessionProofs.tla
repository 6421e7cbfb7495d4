---------------------------- MODULE SessionProofs ----------------------------
(***************************************************************************)
(* Theorems about Session, for any commands issued in any combination.     *)
(***************************************************************************)
EXTENDS Session, TLAPS

(* The active dataset is a record of its three fields.                     *)
CurrentShape ==
  current = [id |-> current.id, source |-> current.source, profile |-> current.profile]

ProfileInv == CurrentShape /\ ProfileIsOfDataset

(* What a step may do to the active dataset: replace it by one without a   *)
(* profile, or keep the profile of the one that is there.                  *)
LEMMA DatasetSteps ==
  ASSUME NEW t \in Tasks, Step(t)
  PROVE  \/ UNCHANGED current
         \/ \E id, source : current' = [id |-> id, source |-> source, profile |-> NoOne]
         \/ current' = [current EXCEPT !.profile = current.id]
<1>1. CASE CacheProfile(t)
  BY <1>1 DEF CacheProfile, SameDataset
<1>2. CASE PublishLoad(t) \/ Activate(t) \/ Edit(t) \/ PublishReview(t)
  BY <1>2 DEF PublishLoad, Activate, Edit, PublishReview
<1>3. CASE Pass(t) \/ Begin(t) \/ BeginReview(t) \/ RefuseSecondReview(t)
           \/ Check(t) \/ StopCancelled(t) \/ AnswerCancel(t) \/ Outdate(t)
           \/ ReadCurrent(t) \/ KeepDataset(t) \/ DatasetChanged(t) \/ Fail(t)
  BY <1>3 DEF Pass, Begin, BeginReview, RefuseSecondReview, Check, StopCancelled,
              AnswerCancel, Outdate, ReadCurrent, KeepDataset, DatasetChanged, Fail,
              Refuse, data
<1>4. CASE Select(t) \/ SelectionLapsed(t) \/ ReadSelection(t) \/ ReadSelectionStep(t)
           \/ ConfirmSelection(t) \/ UseCopy(t) \/ ReadFile(t) \/ FileIsGone(t)
           \/ Discard(t) \/ ClearSelection(t)
  BY <1>4 DEF Select, SelectionLapsed, ReadSelection, ReadSelectionStep,
              ConfirmSelection, UseCopy, ReadFile, FileIsGone, Discard,
              ClearSelection, Refuse, data
<1>5. CASE KeepComparison(t) \/ Forget(t) \/ PeekComparison(t) \/ ReadComparison(t)
           \/ CopyComparison(t) \/ NoComparison(t) \/ SizeDiffers(t)
           \/ KeepComparisonRead(t) \/ ComparisonChanged(t)
  BY <1>5 DEF KeepComparison, Forget, PeekComparison, ReadComparison, CopyComparison,
              NoComparison, SizeDiffers, KeepComparisonRead, ComparisonChanged,
              RememberComparison, Refuse, data
<1> QED
  BY <1>1, <1>2, <1>3, <1>4, <1>5 DEF Step

(* The profile kept with the active dataset was computed from it, whatever *)
(* replaces the dataset while the profile is computed.                     *)
THEOREM ProfileOfDataset == Spec => []ProfileIsOfDataset
<1>1. Init => ProfileInv
  BY DEF Init, ProfileInv, CurrentShape, ProfileIsOfDataset
<1>2. ProfileInv /\ [Next]_vars => ProfileInv'
  <2> SUFFICES ASSUME ProfileInv, [Next]_vars
               PROVE  ProfileInv'
    OBVIOUS
  <2>1. CASE UNCHANGED current
    BY <2>1 DEF ProfileInv, CurrentShape, ProfileIsOfDataset
  <2>2. ASSUME NEW t \in Tasks, Step(t)
        PROVE  ProfileInv'
    BY <2>1, <2>2, DatasetSteps DEF ProfileInv, CurrentShape, ProfileIsOfDataset
  <2>3. ASSUME NEW t \in Tasks, NEW c \in Menu[t], Issue(t, c)
        PROVE  ProfileInv'
    BY <2>1, <2>3 DEF Issue, data
  <2> QED
    BY <2>1, <2>2, <2>3 DEF Next, vars
<1> QED
  BY <1>1, <1>2, PTL DEF Spec, ProfileInv
-----------------------------------------------------------------------------
(***************************************************************************)
(* What the scripts say: where an effect is, which guard it needs, and     *)
(* which effect its command is past by then.                               *)
(***************************************************************************)
Loads   == {"inspect", "convert", "load"}
Reviews == {"consolidate", "join"}

\* Effect e, the n-th of command c, comes after effect d, or after a guard of
\* lock l was taken for good.
After(c, n, d) == \E i \in 1..(n - 1) : Script[c][i].do = d
Guard(c, n, l) ==
  \E i \in 1..(n - 1) : Script[c][i].keep /\ Script[c][i].lock = l

Places(c, n, e) ==
  /\ e = "publishLoad" => c = "load" /\ n = Len(Script[c])
  /\ e = "publishReview" => c \in Reviews /\ n = Len(Script[c])
  /\ e = "select" => c = "inspect"
  /\ e = "useCopy" => c = "convert"
  /\ e = "activate" => c \in {"open", "restore"} /\ n < Len(Script[c])
  /\ e = "beginReview" => c \in Reviews /\ n < Len(Script[c])
  /\ e = "edit" => c = "prepare"
  /\ e \in {"keepComparison", "forget"} => c \in {"compare", "clear"}
  /\ e \in {"cancel", "readSelectionStep"} => c \notin Loads
  /\ e = "readSelection" /\ c = "load" => n = 2
  /\ e = "begin" /\ c = "load" => n = 1

Orders(c, n, e) ==
  /\ e = "check" /\ c \in Loads => After(c, n, "begin")
  /\ e \in {"select", "useCopy", "publishLoad"} => After(c, n, "check")
  /\ e = "publishLoad" => After(c, n, "readSelection")
  /\ e = "publishReview" => After(c, n, "sameDataset") /\ After(c, n, "sameComparison")
  /\ e \in {"publishLoad", "publishReview"} => Guard(c, n, "comparison")
  /\ e \in {"publishLoad", "publishReview", "edit"} => Guard(c, n, "current")
  /\ e = "activate" =>
       \/ Script[c][n].lock = "current"
       \/ Script[c][n].lock = "none" /\ Guard(c, n, "current") /\ ~After(c, n, "activate")

Waits(c, s) ==
  /\ s.lock \in Locks
  /\ s.lock = "none" => ~s.keep
  /\ s.do = "beginReview" => ~s.keep
  /\ s.do \in {"keepComparison", "forget"} => s.lock = "comparison"
  /\ s.do \in {"begin", "cancel"} /\ KindOf[c] = "load" => s.lock = "load"
  /\ s.do = "check" /\ c \in Loads => s.keep /\ s.lock = "load"
  /\ s.do = "sameDataset" /\ c \in Reviews => s.keep /\ s.lock = "current"
  /\ s.do = "sameComparison" /\ c \in Reviews => s.keep /\ s.lock = "comparison"
  /\ c \in Loads => KindOf[c] = "load"
  /\ KindOf[c] \in Kinds

(* The tables above hold of every step of every command.                   *)
LEMMA Scripts ==
  ASSUME NEW c \in Commands, NEW n \in 1..Len(Script[c])
  PROVE  /\ Places(c, n, Script[c][n].do)
         /\ Orders(c, n, Script[c][n].do)
         /\ Waits(c, Script[c][n])
<1> USE DEF Places, Orders, Waits, After, Guard, Loads, Reviews, Locks, Use, Hold, Alone
<1>0. KindOf[c] \in Kinds
  BY DEF Kinds
<1>1. c \in {"inspect", "sheets", "convert", "load", "discard", "open", "restore",
             "save", "prepare", "profile", "compare", "conflicts", "clear", "query",
             "consolidate", "join", "cancelLoad", "cancelOpen", "cancelPrepare",
             "cancelReview"}
  BY DEF Commands, Script
<1>2. CASE c = "inspect"
  <2>1. Script[c] = InspectSource /\ KindOf[c] = "load"
    BY <1>2 DEF Script, KindOf
  <2> QED
    BY <1>0, <1>2, <2>1 DEF InspectSource
<1>3. CASE c = "sheets"
  <2>1. Script[c] = InspectWorkbook /\ KindOf[c] = "load"
    BY <1>3 DEF Script, KindOf
  <2> QED
    BY <1>0, <1>3, <2>1 DEF InspectWorkbook
<1>4. CASE c = "convert"
  <2>1. Script[c] = ConvertEncoding /\ KindOf[c] = "load"
    BY <1>4 DEF Script, KindOf
  <2> QED
    BY <1>0, <1>4, <2>1 DEF ConvertEncoding
<1>5. CASE c = "load"
  <2>1. Script[c] = LoadSelection /\ KindOf[c] = "load"
    BY <1>5 DEF Script, KindOf
  <2> QED
    BY <1>0, <1>5, <2>1 DEF LoadSelection
<1>6. CASE c = "discard"
  <2>1. Script[c] = DiscardSelection /\ KindOf[c] = "load"
    BY <1>6 DEF Script, KindOf
  <2> QED
    BY <1>0, <1>6, <2>1 DEF DiscardSelection
<1>7. CASE c = "open"
  <2>1. Script[c] = OpenProject /\ KindOf[c] = "open"
    BY <1>7 DEF Script, KindOf
  <2> QED
    BY <1>0, <1>7, <2>1 DEF OpenProject
<1>8. CASE c = "restore"
  <2>1. Script[c] = RestoreVersion /\ KindOf[c] = "open"
    BY <1>8 DEF Script, KindOf
  <2> QED
    BY <1>0, <1>8, <2>1 DEF RestoreVersion
<1>9. CASE c = "save"
  <2>1. Script[c] = SaveProject /\ KindOf[c] = "save"
    BY <1>9 DEF Script, KindOf
  <2> QED
    BY <1>0, <1>9, <2>1 DEF SaveProject
<1>10. CASE c = "prepare"
  <2>1. Script[c] = Prepare /\ KindOf[c] = "prepare"
    BY <1>10 DEF Script, KindOf
  <2> QED
    BY <1>0, <1>10, <2>1 DEF Prepare
<1>11. CASE c = "profile"
  <2>1. Script[c] = Profile /\ KindOf[c] = "profile"
    BY <1>11 DEF Script, KindOf
  <2> QED
    BY <1>0, <1>11, <2>1 DEF Profile
<1>12. CASE c = "compare"
  <2>1. Script[c] = Compare /\ KindOf[c] = "compare"
    BY <1>12 DEF Script, KindOf
  <2> QED
    BY <1>0, <1>12, <2>1 DEF Compare
<1>13. CASE c = "conflicts"
  <2>1. Script[c] = ConflictPage /\ KindOf[c] = "compare"
    BY <1>13 DEF Script, KindOf
  <2> QED
    BY <1>0, <1>13, <2>1 DEF ConflictPage
<1>14. CASE c = "clear"
  <2>1. Script[c] = ClearComparison /\ KindOf[c] = "compare"
    BY <1>14 DEF Script, KindOf
  <2> QED
    BY <1>0, <1>14, <2>1 DEF ClearComparison
<1>15. CASE c = "query"
  <2>1. Script[c] = Query /\ KindOf[c] = "query"
    BY <1>15 DEF Script, KindOf
  <2> QED
    BY <1>0, <1>15, <2>1 DEF Query
<1>16. CASE c = "consolidate"
  <2>1. Script[c] = Consolidate /\ KindOf[c] = "review"
    BY <1>16 DEF Script, KindOf
  <2> QED
    BY <1>0, <1>16, <2>1 DEF Consolidate
<1>17. CASE c = "join"
  <2>1. Script[c] = Join /\ KindOf[c] = "review"
    BY <1>17 DEF Script, KindOf
  <2> QED
    BY <1>0, <1>17, <2>1 DEF Join
<1>18. CASE c \in {"cancelLoad", "cancelOpen", "cancelPrepare", "cancelReview"}
  <2>1. Script[c] = Cancel(KindOf[c])
        /\ KindOf[c] \in {"load", "open", "prepare", "review"}
    BY <1>18 DEF Script, KindOf
  <2> QED
    BY <1>0, <1>18, <2>1 DEF Cancel
<1> QED
  BY <1>1, <1>2, <1>3, <1>4, <1>5, <1>6, <1>7, <1>8, <1>9, <1>10, <1>11, <1>12,
     <1>13, <1>14, <1>15, <1>16, <1>17, <1>18, Zenon

(* Every command has a first step.                                         *)
LEMMA ScriptsBegin == \A c \in Commands : Len(Script[c]) \in Nat \ {0}
<1> TAKE c \in Commands
<1>1. \/ Script[c] \in {InspectSource, InspectWorkbook, ConvertEncoding, LoadSelection}
      \/ Script[c] \in {DiscardSelection, OpenProject, RestoreVersion, SaveProject}
      \/ Script[c] \in {Prepare, Profile, Compare, ConflictPage, ClearComparison}
      \/ Script[c] \in {Query, Consolidate, Join}
      \/ \E k : Script[c] = Cancel(k)
  BY DEF Commands, Script
<1>2. CASE Script[c] \in {InspectSource, InspectWorkbook, ConvertEncoding, LoadSelection}
  <2>1. /\ Len(InspectSource) = 3 /\ Len(InspectWorkbook) = 3
        /\ Len(ConvertEncoding) = 5
    BY DEF InspectSource, InspectWorkbook, ConvertEncoding
  <2>2. Len(LoadSelection) = 7
    BY DEF LoadSelection
  <2> QED
    BY <1>2, <2>1, <2>2
<1>3. CASE Script[c] \in {DiscardSelection, OpenProject, RestoreVersion, SaveProject}
  BY <1>3 DEF DiscardSelection, OpenProject, RestoreVersion, SaveProject
<1>4. CASE Script[c] \in {Prepare, Profile, Compare, ConflictPage, ClearComparison}
  BY <1>4 DEF Prepare, Profile, Compare, ConflictPage, ClearComparison
<1>5. CASE Script[c] \in {Query, Consolidate, Join}
  BY <1>5 DEF Query, Consolidate, Join
<1>6. CASE \E k : Script[c] = Cancel(k)
  BY <1>6 DEF Cancel
<1> QED
  BY <1>1, <1>2, <1>3, <1>4, <1>5, <1>6
-----------------------------------------------------------------------------
(***************************************************************************)
(* What a step may do to its task, and to what it shares.                  *)
(***************************************************************************)
CommandRecord(r) ==
  r = [at |-> "running", command |-> r.command, step |-> r.step,
       generation |-> r.generation, owner |-> r.owner, selection |-> r.selection,
       path |-> r.path, dataset |-> r.dataset, compared |-> r.compared]

SelectionShape ==
  selection = Nothing \/
  selection = [id |-> selection.id, generation |-> selection.generation,
               path |-> selection.path]

OnScript(t) ==
  /\ CommandRecord(task[t])
  /\ task[t].command \in Commands
  /\ task[t].step \in 1..Len(Script[task[t].command])

Shapes ==
  /\ CurrentShape
  /\ SelectionShape
  /\ newest = [k \in Kinds |-> newest[k]]
  /\ lock = [l \in Locks |-> lock[l]]
  /\ task = [t \in Tasks |-> task[t]]
  /\ \A t \in Tasks : Running(t) => OnScript(t)

Effect(t) == NextStep(t).do

Stands(s) == task'[s] = task[s]

\* Nothing else becomes of the tasks.
Moves(t) ==
  /\ task' = [s \in Tasks |-> task'[s]]
  /\ \A s \in Tasks \ {t} : Stands(s)

\* The command returns.
Stops(t) ==
  /\ ~Running(t)'
  /\ lock' = Freed(t)
  /\ Moves(t)

\* What a task remembers of the section it leaves.
Remembers(t) ==
  /\ task'[t].command = task[t].command
  /\ task'[t].step = task[t].step + 1
  /\ task'[t].selection = task[t].selection
  /\ task'[t].generation =
       IF Effect(t) \in {"begin", "beginReview"} THEN t
       ELSE IF Effect(t) = "readSelectionStep" THEN selection.generation
       ELSE task[t].generation
  /\ task'[t].path = IF Effect(t) = "readSelection" THEN selection.path
                     ELSE task[t].path
  /\ task'[t].dataset = IF Effect(t) = "readCurrent" THEN current.id
                        ELSE task[t].dataset
  /\ task'[t].compared =
       IF Effect(t) \in {"peekComparison", "readComparison", "copyComparison"}
       THEN comparison.id ELSE task[t].compared

\* What a task has seen to be so when it leaves the section.
Sees(t) ==
  /\ Effect(t) = "check" => newest[Kind(t)] = task[t].generation
  /\ Effect(t) = "sameDataset" => SameDataset(t)
  /\ Effect(t) = "sameComparison" => SameComparison(t)
  /\ Effect(t) = "readSelection" => SelectionIsMine(t)

Advances(t) ==
  /\ task[t].step < Len(Script[task[t].command])
  /\ CommandRecord(task'[t])
  /\ Remembers(t)
  /\ Sees(t)
  /\ lock' = IF Effect(t) = "activate" THEN [lock EXCEPT !["current"] = NoOne]
             ELSE IF NextStep(t).keep THEN [lock EXCEPT ![NextStep(t).lock] = t]
             ELSE lock
  /\ Moves(t)

(* To go on with what has been seen is to stop or to advance.              *)
LEMMA OnwardMoves ==
  ASSUME Shapes, NEW t \in Tasks, Running(t), NEW seen, CommandRecord(seen),
         Onward(t, seen), Sees(t), Effect(t) # "activate",
         seen.command = task[t].command, seen.step = task[t].step,
         seen.selection = task[t].selection,
         seen.generation =
           IF Effect(t) \in {"begin", "beginReview"} THEN t
           ELSE IF Effect(t) = "readSelectionStep" THEN selection.generation
           ELSE task[t].generation,
         seen.path = IF Effect(t) = "readSelection" THEN selection.path
                     ELSE task[t].path,
         seen.dataset = IF Effect(t) = "readCurrent" THEN current.id
                        ELSE task[t].dataset,
         seen.compared =
           IF Effect(t) \in {"peekComparison", "readComparison", "copyComparison"}
           THEN comparison.id ELSE task[t].compared
  PROVE  Stops(t) \/ Advances(t)
<1>1. CASE task[t].step = Len(Script[task[t].command])
  BY <1>1 DEF Onward, End, Stops, Moves, Stands, Running, Shapes
<1>2. CASE task[t].step # Len(Script[task[t].command])
  <2>1. task[t].step < Len(Script[task[t].command])
    BY <1>2, ScriptsBegin DEF Shapes, OnScript
  <2>2. /\ task' = [task EXCEPT ![t] = [seen EXCEPT !.step = task[t].step + 1]]
        /\ lock' = IF NextStep(t).keep THEN [lock EXCEPT ![NextStep(t).lock] = t]
                   ELSE lock
    BY <1>2 DEF Onward
  <2>3. /\ task'[t] = [seen EXCEPT !.step = task[t].step + 1]
        /\ Moves(t)
    BY <2>2 DEF Shapes, Moves, Stands
  <2>4. CommandRecord(task'[t]) /\ Remembers(t)
    BY <2>3 DEF CommandRecord, Remembers
  <2> QED
    BY <2>1, <2>2, <2>3, <2>4 DEF Advances
<1> QED
  BY <1>1, <1>2

Remembering == {"begin", "beginReview", "readSelectionStep", "readSelection",
                "readCurrent", "peekComparison", "readComparison", "copyComparison"}

(* A command that notes nothing new.                                       *)
LEMMA ContinueMoves ==
  ASSUME Shapes, NEW t \in Tasks, Running(t), Continue(t), Sees(t),
         Effect(t) \notin Remembering \cup {"activate"}
  PROVE  Stops(t) \/ Advances(t)
<1>1. CommandRecord(task[t])
  BY DEF Shapes, OnScript
<1> QED
  BY <1>1, OnwardMoves DEF Continue, Remembering

(* A command that is refused, cancelled or fails returns and changes       *)
(* nothing else.                                                           *)
LEMMA RefuseMoves ==
  ASSUME Shapes, NEW t \in Tasks, NEW e, NEW outcome, Refuse(t, e, outcome)
  PROVE  /\ Stops(t)
         /\ UNCHANGED <<current, comparison, selection, copies, newest>>
BY DEF Refuse, End, Stops, Moves, Stands, Running, Shapes, data

Replacing == {"publishLoad", "activate", "edit", "publishReview"}

\* What is shared, and which effect changes it.
Changes(t) ==
  /\ lock[NextStep(t).lock] \in {NoOne, t}
  /\ \/ UNCHANGED current
     \/ current' = [current EXCEPT !.profile = current.id]
     \/ /\ Effect(t) \in Replacing
        /\ Effect(t) = "publishLoad" => SelectionIsMine(t)
        /\ current' = [id |-> t, profile |-> NoOne,
                       source |-> IF Effect(t) = "publishLoad" THEN task[t].path
                                  ELSE NoOne]
  /\ \/ UNCHANGED comparison
     \/ Effect(t) \in {"publishLoad", "publishReview", "keepComparison", "forget"}
  /\ \/ UNCHANGED <<selection, copies>>
     \/ selection' = Nothing /\ UNCHANGED copies
     \/ /\ Effect(t) = "select"
        /\ selection' = [id |-> t, generation |-> t, path |-> Original]
        /\ UNCHANGED copies
     \/ /\ Effect(t) = "useCopy" /\ SelectionIsMine(t)
        /\ selection' = [selection EXCEPT !.path = t, !.generation = t]
        /\ copies' = (copies \cap {current.source}) \cup {t}
        /\ UNCHANGED current
  /\ \/ UNCHANGED newest
     \/ Effect(t) = "begin" /\ newest' = [newest EXCEPT ![Kind(t)] = t]
     \/ Effect(t) = "cancel" /\ newest' = [newest EXCEPT ![Kind(t)] = NoOne]
     \/ newest' = [newest EXCEPT !["review"] = t]
     \/ newest' = [newest EXCEPT !["profile"] = NoOne]

(* Every step of a command moves it, and changes what its effect changes.  *)
LEMMA StepMoves ==
  ASSUME Shapes, NEW t \in Tasks, Step(t)
  PROVE  (Stops(t) \/ Advances(t)) /\ Changes(t)
<1> USE DEF Doing
<1>0. Running(t) /\ OnScript(t) /\ CommandRecord(task[t])
  BY DEF Step, Shapes, OnScript
<1>1. ASSUME NEW e, NEW outcome, Refuse(t, e, outcome)
      PROVE  (Stops(t) \/ Advances(t)) /\ Changes(t)
  BY <1>1, RefuseMoves DEF Refuse, Changes, data
<1>2. CASE \/ RefuseSecondReview(t) \/ StopCancelled(t) \/ SelectionLapsed(t)
           \/ FileIsGone(t) \/ NoComparison(t) \/ SizeDiffers(t)
           \/ DatasetChanged(t) \/ ComparisonChanged(t) \/ Fail(t)
  BY <1>1, <1>2 DEF RefuseSecondReview, StopCancelled, SelectionLapsed, FileIsGone,
       NoComparison, SizeDiffers, DatasetChanged, ComparisonChanged, Fail
<1>3. CASE Pass(t) \/ Check(t) \/ ConfirmSelection(t) \/ ReadFile(t)
           \/ KeepDataset(t) \/ KeepComparisonRead(t)
  <2>1. /\ UNCHANGED <<data, newest>> /\ Continue(t)
        /\ Effect(t) \in {"pass", "check", "confirmSelection", "readFile",
                          "sameDataset", "sameComparison"}
        /\ lock[NextStep(t).lock] \in {NoOne, t}
    BY <1>3 DEF Pass, Check, ConfirmSelection, ReadFile, KeepDataset,
         KeepComparisonRead, Effect
  <2>2. Sees(t)
    BY <1>3 DEF Pass, Check, ConfirmSelection, ReadFile, KeepDataset,
         KeepComparisonRead, Effect, Sees, Superseded
  <2> QED
    BY <1>0, <2>1, <2>2, ContinueMoves DEF Changes, data, Remembering
<1>4. CASE AnswerCancel(t) \/ Select(t) \/ UseCopy(t) \/ Discard(t) \/ ClearSelection(t)
           \/ Outdate(t) \/ Edit(t) \/ CacheProfile(t) \/ KeepComparison(t)
           \/ Forget(t) \/ PublishLoad(t) \/ PublishReview(t)
  <2>1. /\ Continue(t)
        /\ Effect(t) \in {"cancel", "select", "useCopy", "discard", "clearSelection",
                          "outdate", "edit", "cacheProfile", "keepComparison",
                          "forget", "publishLoad", "publishReview"}
    BY <1>4 DEF AnswerCancel, Select, UseCopy, Discard, ClearSelection, Outdate, Edit,
         CacheProfile, KeepComparison, Forget, PublishLoad, PublishReview, Effect
  <2>2. Sees(t)
    BY <2>1 DEF Sees
  <2>3. Changes(t)
    <3> USE DEF Changes, Effect, Replacing, data
    <3>1. CASE AnswerCancel(t) \/ Outdate(t)
      BY <3>1 DEF AnswerCancel, Outdate
    <3>2. CASE Select(t) \/ UseCopy(t)
      BY <3>2 DEF Select, UseCopy
    <3>3. CASE Discard(t) \/ ClearSelection(t)
      BY <3>3 DEF Discard, ClearSelection
    <3>4. CASE KeepComparison(t) \/ Forget(t)
      BY <3>4 DEF KeepComparison, Forget
    <3>5. CASE CacheProfile(t)
      BY <3>5 DEF CacheProfile, SameDataset
    <3>6. CASE Edit(t) \/ PublishLoad(t) \/ PublishReview(t)
      BY <3>6 DEF Edit, PublishLoad, PublishReview
    <3> QED
      BY <1>4, <3>1, <3>2, <3>3, <3>4, <3>5, <3>6
  <2> QED
    BY <1>0, <2>1, <2>2, <2>3, ContinueMoves DEF Remembering
<1>5. CASE Begin(t)
  <2> DEFINE seen == [task[t] EXCEPT !.generation = t]
  <2>1. /\ CommandRecord(seen) /\ seen.command = task[t].command
        /\ seen.step = task[t].step /\ seen.selection = task[t].selection
        /\ seen.generation = t /\ seen.path = task[t].path
        /\ seen.dataset = task[t].dataset /\ seen.compared = task[t].compared
    BY <1>0 DEF CommandRecord
  <2>2. Effect(t) = "begin" /\ Onward(t, seen)
    BY <1>5 DEF Begin, Effect
  <2>3. Sees(t)
    BY <2>2 DEF Sees
  <2> HIDE DEF seen
  <2>4. Stops(t) \/ Advances(t)
    BY <1>0, <2>1, <2>2, <2>3, OnwardMoves
  <2> QED
    BY <1>5, <2>4 DEF Begin, Changes, Effect, data
<1>6. CASE ReadSelection(t)
  <2> DEFINE seen == [task[t] EXCEPT !.path = selection.path]
  <2>1. /\ CommandRecord(seen) /\ seen.command = task[t].command
        /\ seen.step = task[t].step /\ seen.selection = task[t].selection
        /\ seen.generation = task[t].generation /\ seen.path = selection.path
        /\ seen.dataset = task[t].dataset /\ seen.compared = task[t].compared
    BY <1>0 DEF CommandRecord
  <2>2. Effect(t) = "readSelection" /\ Onward(t, seen) /\ Sees(t)
    BY <1>6 DEF ReadSelection, Effect, Sees
  <2> HIDE DEF seen
  <2>4. Stops(t) \/ Advances(t)
    BY <1>0, <2>1, <2>2, OnwardMoves
  <2> QED
    BY <1>6, <2>4 DEF ReadSelection, Changes, data
<1>7. CASE ReadSelectionStep(t)
  <2> DEFINE seen == [task[t] EXCEPT !.generation = selection.generation]
  <2>1. /\ CommandRecord(seen) /\ seen.command = task[t].command
        /\ seen.step = task[t].step /\ seen.selection = task[t].selection
        /\ seen.generation = selection.generation /\ seen.path = task[t].path
        /\ seen.dataset = task[t].dataset /\ seen.compared = task[t].compared
    BY <1>0 DEF CommandRecord
  <2>2. Effect(t) = "readSelectionStep" /\ Onward(t, seen)
    BY <1>7 DEF ReadSelectionStep, Effect
  <2>3. Sees(t)
    BY <2>2 DEF Sees
  <2> HIDE DEF seen
  <2>4. Stops(t) \/ Advances(t)
    BY <1>0, <2>1, <2>2, <2>3, OnwardMoves
  <2> QED
    BY <1>7, <2>4 DEF ReadSelectionStep, Changes, data
<1>8. CASE ReadCurrent(t)
  <2> DEFINE seen == [task[t] EXCEPT !.dataset = current.id]
  <2>1. /\ CommandRecord(seen) /\ seen.command = task[t].command
        /\ seen.step = task[t].step /\ seen.selection = task[t].selection
        /\ seen.generation = task[t].generation /\ seen.path = task[t].path
        /\ seen.dataset = current.id /\ seen.compared = task[t].compared
    BY <1>0 DEF CommandRecord
  <2>2. Effect(t) = "readCurrent" /\ Onward(t, seen)
    BY <1>8 DEF ReadCurrent, Effect
  <2>3. Sees(t)
    BY <2>2 DEF Sees
  <2> HIDE DEF seen
  <2>4. Stops(t) \/ Advances(t)
    BY <1>0, <2>1, <2>2, <2>3, OnwardMoves
  <2> QED
    BY <1>8, <2>4 DEF ReadCurrent, Changes, data
<1>9. CASE PeekComparison(t) \/ ReadComparison(t) \/ CopyComparison(t)
  <2> DEFINE seen == [task[t] EXCEPT !.compared = comparison.id]
  <2>1. /\ CommandRecord(seen) /\ seen.command = task[t].command
        /\ seen.step = task[t].step /\ seen.selection = task[t].selection
        /\ seen.generation = task[t].generation /\ seen.path = task[t].path
        /\ seen.dataset = task[t].dataset /\ seen.compared = comparison.id
    BY <1>0 DEF CommandRecord
  <2>2. /\ Effect(t) \in {"peekComparison", "readComparison", "copyComparison"}
        /\ Onward(t, seen) /\ UNCHANGED <<data, newest>>
        /\ lock[NextStep(t).lock] \in {NoOne, t}
    BY <1>9 DEF PeekComparison, ReadComparison, CopyComparison, RememberComparison,
         Effect
  <2>3. Sees(t)
    BY <2>2 DEF Sees
  <2> HIDE DEF seen
  <2>4. Stops(t) \/ Advances(t)
    BY <1>0, <2>1, <2>2, <2>3, OnwardMoves
  <2> QED
    BY <2>2, <2>4 DEF Changes, data
<1>10. CASE BeginReview(t) \/ Activate(t)
  <2>1. task[t].step < Len(Script[task[t].command])
    BY <1>0, <1>10, Scripts DEF BeginReview, Activate, OnScript, NextStep, Places
  <2>2. /\ Effect(t) \in {"beginReview", "activate"}
        /\ lock' = IF Effect(t) = "activate" THEN [lock EXCEPT !["current"] = NoOne]
                   ELSE lock
    BY <1>10 DEF BeginReview, Activate, Effect
  <2>3. CommandRecord(task'[t]) /\ Remembers(t) /\ Moves(t)
    <3>1. CASE Activate(t)
      <4>1. /\ task'[t] = [task[t] EXCEPT !.step = task[t].step + 1]
            /\ Moves(t)
        BY <3>1 DEF Activate, Shapes, Moves, Stands
      <4> QED
        BY <1>0, <3>1, <4>1 DEF Activate, Effect, CommandRecord, Remembers
    <3>2. CASE BeginReview(t)
      <4>1. /\ task'[t] = [task[t] EXCEPT !.generation = t, !.owner = TRUE,
                                          !.step = task[t].step + 1]
            /\ Moves(t)
        BY <3>2 DEF BeginReview, Shapes, Moves, Stands
      <4> DEFINE begun == [task[t] EXCEPT !.generation = t]
                 owning == [begun EXCEPT !.owner = TRUE]
      <4>2. CommandRecord(begun) /\ begun.generation = t
        BY <1>0 DEF CommandRecord
      <4>a. CommandRecord(owning) /\ owning.generation = t
        <5>1. ASSUME NEW r, NEW owner, CommandRecord(r)
              PROVE  LET o == [r EXCEPT !.owner = owner]
                     IN CommandRecord(o) /\ o.generation = r.generation
          BY <5>1 DEF CommandRecord
        <5> HIDE DEF begun
        <5> QED
          BY <4>2, <5>1
      <4>b. task'[t] = [owning EXCEPT !.step = task[t].step + 1]
        BY <4>1
      <4>3. /\ CommandRecord(task'[t]) /\ task'[t].command = task[t].command
            /\ task'[t].step = task[t].step + 1
            /\ task'[t].selection = task[t].selection
            /\ task'[t].generation = t /\ task'[t].path = task[t].path
            /\ task'[t].dataset = task[t].dataset
            /\ task'[t].compared = task[t].compared
        <5>1. /\ owning.command = task[t].command /\ owning.selection = task[t].selection
              /\ owning.path = task[t].path /\ owning.dataset = task[t].dataset
              /\ owning.compared = task[t].compared
          BY <1>0 DEF CommandRecord
        <5> HIDE DEF owning
        <5> QED
          BY <4>a, <4>b, <5>1 DEF CommandRecord
      <4>4. Effect(t) = "beginReview"
        BY <3>2 DEF BeginReview, Effect
      <4> QED
        BY <4>1, <4>3, <4>4 DEF Remembers
    <3> QED
      BY <1>10, <3>1, <3>2
  <2>4. Sees(t)
    BY <2>2 DEF Sees
  <2>5. Effect(t) = "beginReview" => ~NextStep(t).keep
    BY <1>0, Scripts DEF OnScript, NextStep, Effect, Waits
  <2>6. Changes(t)
    BY <1>10 DEF BeginReview, Activate, Effect, Changes, Replacing, data
  <2> QED
    BY <2>1, <2>2, <2>3, <2>4, <2>5, <2>6 DEF Advances
<1> QED
  BY <1>2, <1>3, <1>4, <1>5, <1>6, <1>7, <1>8, <1>9, <1>10 DEF Step

-----------------------------------------------------------------------------
(***************************************************************************)
(* The inductive invariant.                                                *)
(***************************************************************************)
Past(t, e) == After(task[t].command, task[t].step, e)

\* The n-th guard is still held, unless it is that of the session and the
\* project has been activated.
Guarded(t) ==
  \A i \in 1..(task[t].step - 1) :
    LET s == Script[task[t].command][i] IN
    s.keep /\ ~(s.lock = "current" /\ Past(t, "activate")) => lock[s.lock] = t

\* A load works under a generation of its own, and past its check nobody can
\* take that from it.
Answers(t) ==
  task[t].command \in Loads =>
    /\ Past(t, "begin") => task[t].generation = t
    /\ Past(t, "check") => newest["load"] = t

\* What a load has read of the selection stays so while it is the newest.
ReadsTheSelection(t) ==
  task[t].command = "load" /\ Past(t, "readSelection") /\ newest["load"] = t
    /\ SelectionIsMine(t) => selection.path = task[t].path

\* A Review mutation that has found its inputs unchanged keeps them so.
Stamped(t) ==
  task[t].command \in Reviews =>
    /\ Past(t, "sameDataset") => SameDataset(t)
    /\ Past(t, "sameComparison") => SameComparison(t)

SessionInv ==
  /\ Shapes
  /\ \A t \in Tasks :
       Running(t) => Guarded(t) /\ Answers(t) /\ ReadsTheSelection(t) /\ Stamped(t)
  /\ CopyIsKept

(* A guard that a command needs for its effect is its own, so nobody else  *)
(* holds it.                                                               *)
LEMMA GuardsHeld ==
  ASSUME Shapes, NEW t \in Tasks, Running(t), Guarded(t),
         lock[NextStep(t).lock] \in {NoOne, t}
  PROVE  /\ Effect(t) \in Replacing => lock["current"] \in {NoOne, t}
         /\ Effect(t) \in {"publishLoad", "publishReview", "keepComparison", "forget"}
              => lock["comparison"] \in {NoOne, t}
         /\ Effect(t) \in {"begin", "cancel"} /\ Kind(t) = "load"
              => lock["load"] \in {NoOne, t}
<1> DEFINE c == task[t].command
           n == task[t].step
<1>1. /\ c \in Commands /\ n \in 1..Len(Script[c])
      /\ NextStep(t) = Script[c][n] /\ Effect(t) = Script[c][n].do
  BY DEF Shapes, OnScript, NextStep, Effect
<1>2. Places(c, n, Effect(t)) /\ Orders(c, n, Effect(t)) /\ Waits(c, NextStep(t))
  BY <1>1, Scripts
<1>3. ASSUME NEW l, Guard(c, n, l), l = "current" => ~Past(t, "activate")
      PROVE  lock[l] = t
  BY <1>3 DEF Guard, Guarded
<1>4. c \notin {"open", "restore"} => ~Past(t, "activate")
  <2>1. ASSUME NEW i \in 1..(n - 1), Script[c][i].do = "activate"
        PROVE  c \in {"open", "restore"}
    <3>1. i \in 1..Len(Script[c])
      BY <1>1, ScriptsBegin
    <3> QED
      BY <1>1, <2>1, <3>1, Scripts DEF Places
  <2> QED
    BY <2>1 DEF Past, After
<1>5. Effect(t) \in {"publishLoad", "publishReview", "edit"} => lock["current"] = t
  BY <1>2, <1>3, <1>4 DEF Places, Orders, Reviews
<1>6. Effect(t) = "activate" => lock["current"] \in {NoOne, t}
  BY <1>1, <1>2, <1>3 DEF Orders, Past
<1>7. Effect(t) \in {"publishLoad", "publishReview"} => lock["comparison"] = t
  BY <1>2, <1>3 DEF Orders
<1>8. /\ Effect(t) \in {"keepComparison", "forget"} => lock["comparison"] \in {NoOne, t}
      /\ Effect(t) \in {"begin", "cancel"} /\ Kind(t) = "load"
           => lock["load"] \in {NoOne, t}
  BY <1>1, <1>2 DEF Waits, Kind
<1> QED
  BY <1>5, <1>6, <1>7, <1>8 DEF Replacing

(* The guards and stamps a task has are those of its steps: the checks of  *)
(* a load and of a Review mutation leave it with a guard.                  *)
LEMMA ChecksGuard ==
  ASSUME Shapes, NEW t \in Tasks, Running(t), Guarded(t)
  PROVE  /\ task[t].command \in Loads /\ Past(t, "check") => lock["load"] = t
         /\ task[t].command \in Reviews /\ Past(t, "sameDataset") => lock["current"] = t
         /\ task[t].command \in Reviews /\ Past(t, "sameComparison")
              => lock["comparison"] = t
<1> DEFINE c == task[t].command
           n == task[t].step
<1>1. c \in Commands /\ n \in 1..Len(Script[c]) /\ Len(Script[c]) \in Nat
  BY ScriptsBegin DEF Shapes, OnScript
<1>2. ASSUME NEW i \in 1..(n - 1)
      PROVE  Places(c, i, Script[c][i].do) /\ Waits(c, Script[c][i])
  <2>1. i \in 1..Len(Script[c])
    BY <1>1
  <2> QED
    BY <1>1, <2>1, Scripts
<1>3. c \in Reviews => ~Past(t, "activate")
  BY <1>2 DEF Past, After, Places, Reviews
<1>4. ASSUME NEW i \in 1..(n - 1)
      PROVE  /\ c \in Loads /\ Script[c][i].do = "check" => lock["load"] = t
             /\ c \in Reviews /\ Script[c][i].do = "sameDataset" => lock["current"] = t
             /\ c \in Reviews /\ Script[c][i].do = "sameComparison"
                  => lock["comparison"] = t
  BY <1>2, <1>3 DEF Waits, Guarded
<1> QED
  BY <1>4 DEF Past, After

(* What a task is past grows by the effect it leaves.                      *)
LEMMA PastGrows ==
  ASSUME Shapes, NEW t \in Tasks, Running(t), Remembers(t), NEW e
  PROVE  Past(t, e)' <=> Past(t, e) \/ Effect(t) = e
<1> DEFINE c == task[t].command
           n == task[t].step
<1>1. n \in Nat \ {0}
  BY ScriptsBegin DEF Shapes, OnScript
<1>2. task'[t].command = c /\ task'[t].step = n + 1
  BY DEF Remembers
<1>3. Past(t, e)' <=> \E i \in 1..((n + 1) - 1) : Script[c][i].do = e
  BY <1>2 DEF Past, After
<1>4. 1..((n + 1) - 1) = (1..(n - 1)) \cup {n}
  BY <1>1
<1>5. Effect(t) = Script[c][n].do
  BY DEF Effect, NextStep
<1> QED
  BY <1>3, <1>4, <1>5 DEF Past, After

(* A conversion that takes over the selection leaves it a record, with the *)
(* same name and the copy as its path.                                     *)
LEMMA CopySelected ==
  ASSUME SelectionShape, NEW t \in Tasks, Changes(t), Effect(t) = "useCopy",
         ~UNCHANGED selection, selection' # Nothing
  PROVE  selection' = [id |-> selection.id, generation |-> t, path |-> t]
<1>1. /\ selection # Nothing
      /\ selection' = [selection EXCEPT !.path = t, !.generation = t]
  BY DEF Changes, SelectionIsMine
<1> DEFINE moved == [selection EXCEPT !.path = t]
<1>2. moved = [id |-> selection.id, generation |-> selection.generation, path |-> t]
  BY <1>1 DEF SelectionShape
<1>3. selection' = [moved EXCEPT !.generation = t]
  BY <1>1
<1> HIDE DEF moved
<1> QED
  BY <1>2, <1>3

(* Records stay records.                                                   *)
LEMMA StepShapes ==
  ASSUME Shapes, NEW t \in Tasks, Step(t), Stops(t) \/ Advances(t), Changes(t)
  PROVE  Shapes'
<1>0. Running(t) /\ OnScript(t)
  BY DEF Step, Shapes
<1>1. CurrentShape'
  BY DEF Changes, Shapes, CurrentShape
<1>2. SelectionShape'
  <2>1. CASE Effect(t) = "useCopy" /\ ~UNCHANGED selection /\ selection' # Nothing
    BY <2>1, CopySelected DEF Changes, Shapes, SelectionShape
  <2>2. CASE Effect(t) = "select"
    BY <2>2 DEF Changes, Shapes, SelectionShape
  <2>3. CASE UNCHANGED selection \/ selection' = Nothing
    BY <2>3 DEF Shapes, SelectionShape
  <2> QED
    BY <2>1, <2>2, <2>3 DEF Changes
<1>3. newest' = [k \in Kinds |-> newest'[k]]
  BY DEF Changes, Shapes
<1>4. lock' = [l \in Locks |-> lock'[l]]
  BY DEF Stops, Advances, Freed, Shapes
<1>5. task' = [s \in Tasks |-> task'[s]]
  BY DEF Step, Shapes, Stops, Advances, Moves, Stands
<1>6. ASSUME NEW s \in Tasks, Running(s)'
      PROVE  OnScript(s)'
  <2>1. CASE s # t
    BY <1>6, <2>1 DEF Stops, Advances, Moves, Stands, Running, Shapes, OnScript
  <2>2. CASE s = t
    <3>1. Advances(t)
      BY <1>6, <2>2 DEF Stops
    <3> QED
      BY <1>0, <2>2, <3>1, ScriptsBegin DEF Advances, Remembers, OnScript
  <2> QED
    BY <2>1, <2>2
<1> QED
  BY <1>1, <1>2, <1>3, <1>4, <1>5, <1>6 DEF Shapes

(* No step takes a guard from a task that holds it.                        *)
LEMMA StepGuarded ==
  ASSUME SessionInv, NEW t \in Tasks, Step(t), Stops(t) \/ Advances(t), Changes(t),
         NEW s \in Tasks, Running(s)'
  PROVE  Guarded(s)'
<1>0. /\ Shapes /\ Running(t) /\ OnScript(t) /\ Guarded(t)
      /\ lock[NextStep(t).lock] \in {NoOne, t}
  BY DEF Step, SessionInv, Shapes, Changes
<1>a. Effect(t) = "activate" => lock["current"] \in {NoOne, t}
  BY <1>0, GuardsHeld DEF Replacing
<1>1. CASE s # t
  <2>1. Running(s) /\ task'[s] = task[s]
    BY <1>1 DEF Stops, Advances, Moves, Stands, Running
  <2>2. Guarded(s)
    BY <2>1 DEF SessionInv
  <2>3. \A l \in Locks : lock[l] = s => lock'[l] = s
    BY <1>0, <1>1, <1>a, SessionAssumption DEF Stops, Advances, Freed, Shapes
  <2>4. ASSUME NEW i \in 1..(task[s].step - 1)
        PROVE  Script[task[s].command][i].lock \in Locks
    <3>1. /\ task[s].command \in Commands
          /\ i \in 1..Len(Script[task[s].command])
      BY <2>1, <1>0, ScriptsBegin DEF Shapes, OnScript
    <3> QED
      BY <3>1, Scripts DEF Waits
  <2> QED
    BY <2>1, <2>2, <2>3, <2>4 DEF Guarded, Past
<1>2. CASE s = t
  <2> DEFINE c == task[t].command
             n == task[t].step
  <2>1. Advances(t) /\ Remembers(t)
    BY <1>2 DEF Stops, Advances
  <2>2. task'[t].command = c /\ task'[t].step = n + 1 /\ n \in Nat \ {0}
    BY <1>0, <2>1, ScriptsBegin DEF Remembers, OnScript
  <2>3. \A e : Past(t, e)' <=> Past(t, e) \/ Effect(t) = e
    BY <1>0, <2>1, PastGrows
  <2> SUFFICES ASSUME NEW i \in 1..n, Script[c][i].keep,
                      ~(Script[c][i].lock = "current" /\ Past(t, "activate")')
               PROVE  lock'[Script[c][i].lock] = t
    BY <1>2, <2>2 DEF Guarded
  <2> DEFINE l == Script[c][i].lock
  <2>4. i \in 1..Len(Script[c]) /\ c \in Commands
    BY <1>0, ScriptsBegin DEF OnScript
  <2>5. l \in Locks
    BY <2>4, Scripts DEF Waits
  <2>6. CASE i = n
    <3>1. NextStep(t).lock = l /\ NextStep(t).keep /\ Effect(t) = Script[c][n].do
      BY <2>6 DEF NextStep, Effect
    <3>2. Effect(t) # "activate"
      BY <2>3, <2>4, <2>6, <3>1, Scripts DEF Orders, Waits
    <3> QED
      BY <1>0, <2>1, <2>5, <3>1, <3>2 DEF Advances, Shapes
  <2>7. CASE i # n
    <3>1. lock[l] = t
      BY <1>0, <2>2, <2>3, <2>7 DEF Guarded
    <3>2. Effect(t) = "activate" => l # "current"
      BY <2>3
    <3> QED
      BY <1>0, <2>1, <2>5, <3>1, <3>2 DEF Advances, Shapes
  <2> QED
    BY <2>6, <2>7
<1> QED
  BY <1>1, <1>2

(* Loads have a generation counter.                                        *)
LEMMA LoadIsKind == "load" \in Kinds
<1>1. "load" \in Commands /\ KindOf["load"] = "load"
  BY DEF Commands, Script, KindOf
<1> QED
  BY <1>1 DEF Kinds

(* Only a new load, or a cancellation, changes who loads last, and it has  *)
(* the commit lock of the load meanwhile.                                  *)
LEMMA NewestMoves ==
  ASSUME Shapes, NEW t \in Tasks, Running(t), Guarded(t), Changes(t),
         newest'["load"] # newest["load"]
  PROVE  /\ lock["load"] \in {NoOne, t}
         /\ \/ Effect(t) = "begin" /\ newest'["load"] = t
            \/ Effect(t) = "cancel" /\ newest'["load"] = NoOne
<1>1. /\ Effect(t) \in {"begin", "cancel"} /\ Kind(t) = "load"
      /\ \/ Effect(t) = "begin" /\ newest'["load"] = t
         \/ Effect(t) = "cancel" /\ newest'["load"] = NoOne
  <2>1. ASSUME NEW k, NEW holder, newest' = [newest EXCEPT ![k] = holder]
        PROVE  k = "load" /\ newest'["load"] = holder
    BY <2>1, LoadIsKind DEF Shapes
  <2> QED
    BY <2>1 DEF Changes
<1> QED
  BY <1>1, GuardsHeld DEF Changes

(* A load keeps its generation from its check to its end.                  *)
LEMMA StepAnswers ==
  ASSUME SessionInv, NEW t \in Tasks, Step(t), Stops(t) \/ Advances(t), Changes(t),
         NEW s \in Tasks, Running(s)'
  PROVE  Answers(s)'
<1>0. /\ Shapes /\ Running(t) /\ OnScript(t) /\ Guarded(t) /\ Answers(t)
  BY DEF Step, SessionInv, Shapes
<1> DEFINE c == task[t].command
           n == task[t].step
<1>a. /\ c \in Commands /\ n \in 1..Len(Script[c])
      /\ Effect(t) = Script[c][n].do /\ NextStep(t) = Script[c][n]
  BY <1>0 DEF OnScript, Effect, NextStep
<1>b. Places(c, n, Effect(t)) /\ Orders(c, n, Effect(t)) /\ Waits(c, NextStep(t))
  BY <1>a, Scripts
<1>1. CASE s # t
  <2>1. Running(s) /\ task'[s] = task[s] /\ Answers(s) /\ Guarded(s)
    BY <1>1 DEF Stops, Advances, Moves, Stands, Running, SessionInv
  <2>2. \A e : Past(s, e)' <=> Past(s, e)
    BY <2>1 DEF Past
  <2>3. ASSUME s \in Tasks, task[s].command \in Loads, Past(s, "check")
        PROVE  newest'["load"] = newest["load"]
    <3>1. lock["load"] = s
      BY <1>0, <2>1, <2>3, ChecksGuard
    <3> QED
      BY <1>0, <1>1, <3>1, NewestMoves, SessionAssumption
  <2> QED
    BY <2>1, <2>2, <2>3 DEF Answers
<1>2. CASE s = t
  <2>1. Advances(t) /\ Remembers(t) /\ Sees(t)
    BY <1>2 DEF Stops, Advances
  <2>2. \A e : Past(t, e)' <=> Past(t, e) \/ Effect(t) = e
    BY <1>0, <2>1, PastGrows
  <2> SUFFICES ASSUME c \in Loads
               PROVE  /\ Past(t, "begin")' => task'[t].generation = t
                      /\ Past(t, "check")' => newest'["load"] = t
    BY <1>2, <2>1 DEF Answers, Remembers
  <2>3. Kind(t) = "load"
    BY <1>b DEF Waits, Kind
  <2>4. Past(t, "begin")' => task'[t].generation = t
    BY <1>0, <1>b, <2>1, <2>2 DEF Remembers, Answers, Places
  <2>5. Past(t, "check")' => newest["load"] = t
    <3>1. Effect(t) = "check" => Past(t, "begin")
      BY <1>b DEF Orders, Past
    <3> QED
      BY <1>0, <2>1, <2>2, <2>3, <3>1 DEF Answers, Sees
  <2>6. newest'["load"] \in {newest["load"], t}
    BY <1>0, <1>b, NewestMoves DEF Places
  <2> QED
    BY <2>4, <2>5, <2>6
<1> QED
  BY <1>1, <1>2

(* While a load is the newest, its selection names the file it has read.   *)
LEMMA StepReads ==
  ASSUME SessionInv, NEW t \in Tasks, Step(t), Stops(t) \/ Advances(t), Changes(t),
         NEW s \in Tasks, Running(s)'
  PROVE  ReadsTheSelection(s)'
<1>0. /\ Shapes /\ Running(t) /\ OnScript(t) /\ Guarded(t) /\ Answers(t)
      /\ ReadsTheSelection(t)
  BY DEF Step, SessionInv, Shapes
<1> DEFINE c == task[t].command
           n == task[t].step
<1>a. /\ c \in Commands /\ n \in 1..Len(Script[c])
      /\ Effect(t) = Script[c][n].do /\ NextStep(t) = Script[c][n]
  BY <1>0 DEF OnScript, Effect, NextStep
<1>b. Places(c, n, Effect(t)) /\ Orders(c, n, Effect(t)) /\ Waits(c, NextStep(t))
  BY <1>a, Scripts
<1>c. Effect(t) \in {"select", "useCopy"} => newest["load"] = t
  BY <1>0, <1>b DEF Orders, Places, Loads, Answers, Past
<1>1. CASE s # t
  <2>1. Running(s) /\ task'[s] = task[s] /\ ReadsTheSelection(s)
    BY <1>1 DEF Stops, Advances, Moves, Stands, Running, SessionInv
  <2> SUFFICES ASSUME task[s].command = "load", Past(s, "readSelection"),
                      newest'["load"] = s, selection' # Nothing,
                      selection'.id = task[s].selection
               PROVE  selection'.path = task[s].path
    BY <2>1 DEF ReadsTheSelection, Past, SelectionIsMine, Nothing
  <2>2. newest["load"] = s
    BY <1>0, <1>1, NewestMoves, SessionAssumption
  <2>3. UNCHANGED selection
    BY <1>1, <1>c, <2>2 DEF Changes
  <2> QED
    BY <2>1, <2>2, <2>3 DEF ReadsTheSelection, SelectionIsMine
<1>2. CASE s = t
  <2>1. Advances(t) /\ Remembers(t) /\ Sees(t)
    BY <1>2 DEF Stops, Advances
  <2>2. Past(t, "readSelection")' <=> Past(t, "readSelection") \/ Effect(t) = "readSelection"
    BY <1>0, <2>1, PastGrows
  <2> SUFFICES ASSUME c = "load", Past(t, "readSelection")', newest'["load"] = t,
                      selection' # Nothing, selection'.id = task[t].selection
               PROVE  selection'.path = task'[t].path
    BY <1>2, <2>1 DEF ReadsTheSelection, Remembers, SelectionIsMine, Nothing
  <2>3. UNCHANGED selection
    BY <1>b DEF Changes, Places
  <2>4. CASE Effect(t) = "readSelection"
    BY <2>1, <2>3, <2>4 DEF Remembers
  <2>5. CASE Effect(t) # "readSelection"
    <3>1. Past(t, "readSelection") /\ task'[t].path = task[t].path
      BY <2>1, <2>2, <2>5 DEF Remembers
    <3>2. Effect(t) \notin {"begin", "cancel"}
      <4>1. n # 1
        BY <3>1, <1>a DEF Past, After
      <4> QED
        BY <1>b, <4>1 DEF Places, Loads
    <3>3. newest["load"] = t
      BY <1>0, <3>2, NewestMoves
    <3> QED
      BY <1>0, <2>3, <3>1, <3>3 DEF ReadsTheSelection, SelectionIsMine
  <2> QED
    BY <2>4, <2>5
<1> QED
  BY <1>1, <1>2

(* Nobody replaces the inputs of a Review mutation past its checks.        *)
LEMMA StepStamped ==
  ASSUME SessionInv, NEW t \in Tasks, Step(t), Stops(t) \/ Advances(t), Changes(t),
         NEW s \in Tasks, Running(s)'
  PROVE  Stamped(s)'
<1>0. Shapes /\ Running(t) /\ OnScript(t) /\ Guarded(t) /\ Stamped(t)
  BY DEF Step, SessionInv, Shapes
<1> DEFINE c == task[t].command
           n == task[t].step
<1>a. /\ c \in Commands /\ n \in 1..Len(Script[c])
      /\ Effect(t) = Script[c][n].do /\ NextStep(t) = Script[c][n]
  BY <1>0 DEF OnScript, Effect, NextStep
<1>b. Places(c, n, Effect(t))
  BY <1>a, Scripts
<1>c. current'.id # current.id => Effect(t) \in Replacing /\ lock["current"] \in {NoOne, t}
  BY <1>0, GuardsHeld DEF Changes, Shapes, CurrentShape
<1>d. comparison' # comparison => lock["comparison"] \in {NoOne, t}
  BY <1>0, GuardsHeld DEF Changes
<1>1. CASE s # t
  <2>1. Running(s) /\ task'[s] = task[s] /\ Stamped(s) /\ Guarded(s)
    BY <1>1 DEF Stops, Advances, Moves, Stands, Running, SessionInv
  <2>2. \A e : Past(s, e)' <=> Past(s, e)
    BY <2>1 DEF Past
  <2>3. /\ task[s].command \in Reviews /\ Past(s, "sameDataset") => lock["current"] = s
        /\ task[s].command \in Reviews /\ Past(s, "sameComparison")
             => lock["comparison"] = s
    BY <1>0, <2>1, ChecksGuard
  <2> QED
    BY <1>1, <1>c, <1>d, <2>1, <2>2, <2>3, SessionAssumption
    DEF Stamped, SameDataset, SameComparison
<1>2. CASE s = t
  <2>1. Advances(t) /\ Remembers(t) /\ Sees(t) /\ n < Len(Script[c])
    BY <1>2 DEF Stops, Advances
  <2>2. \A e : Past(t, e)' <=> Past(t, e) \/ Effect(t) = e
    BY <1>0, <2>1, PastGrows
  <2> SUFFICES ASSUME c \in Reviews
               PROVE  /\ Past(t, "sameDataset")' => current'.id = task'[t].dataset
                      /\ Past(t, "sameComparison")' => comparison'.id = task'[t].compared
    BY <1>2, <2>1 DEF Stamped, Remembers, SameDataset, SameComparison
  <2>3. Effect(t) \notin Replacing
    BY <1>b, <2>1, ScriptsBegin, <1>a DEF Places, Replacing, Reviews
  <2>4. current'.id = current.id
    BY <1>c, <2>3
  <2>5. Effect(t) \notin {"keepComparison", "forget"}
    BY <1>b DEF Places, Reviews
  <2>6. UNCHANGED comparison
    BY <2>3, <2>5 DEF Changes, Replacing
  <2> QED
    BY <1>0, <2>1, <2>2, <2>4, <2>6 DEF Stamped, Remembers, Sees, SameDataset,
         SameComparison
<1> QED
  BY <1>1, <1>2

(* A load that publishes has read the path that is selected; a Review      *)
(* mutation that publishes has read the dataset and comparison there are.  *)
LEMMA PublishesFresh ==
  ASSUME SessionInv, NEW t \in Tasks, Running(t)
  PROVE  /\ Effect(t) = "publishLoad" /\ SelectionIsMine(t)
              => selection.path = task[t].path
         /\ Effect(t) = "publishReview" => SameDataset(t) /\ SameComparison(t)
<1> DEFINE c == task[t].command
           n == task[t].step
<1>1. /\ c \in Commands /\ n \in 1..Len(Script[c]) /\ Effect(t) = Script[c][n].do
      /\ Answers(t) /\ ReadsTheSelection(t) /\ Stamped(t)
  BY DEF SessionInv, Shapes, OnScript, Effect, NextStep
<1>2. Places(c, n, Effect(t)) /\ Orders(c, n, Effect(t))
  BY <1>1, Scripts
<1>3. CASE Effect(t) = "publishLoad"
  <2>1. c = "load" /\ Past(t, "check") /\ Past(t, "readSelection")
    BY <1>2, <1>3 DEF Places, Orders, Past
  <2> QED
    BY <1>1, <1>3, <2>1 DEF Answers, ReadsTheSelection, Loads
<1>4. CASE Effect(t) = "publishReview"
  <2>1. c \in Reviews /\ Past(t, "sameDataset") /\ Past(t, "sameComparison")
    BY <1>2, <1>4 DEF Places, Orders, Past
  <2> QED
    BY <1>1, <1>4, <2>1 DEF Stamped
<1> QED
  BY <1>3, <1>4

(* A conversion drops the copies of others, but not one still named.       *)
LEMMA StepCopies ==
  ASSUME SessionInv, NEW t \in Tasks, Step(t), Changes(t)
  PROVE  CopyIsKept'
<1>0. Running(t) /\ Shapes /\ CurrentShape /\ SelectionShape
  BY DEF Step, SessionInv, Shapes
<1>1. /\ current.source \notin {NoOne, Original} => current.source \in copies
      /\ selection # Nothing /\ selection.path \notin {NoOne, Original}
           => selection.path \in copies
  BY DEF SessionInv, CopyIsKept
<1>2. \/ current'.source = current.source
      \/ UNCHANGED copies /\ current'.source \in {NoOne, selection.path} /\ selection # Nothing
      \/ UNCHANGED copies /\ current'.source = NoOne
  <2>1. CASE current'.source = current.source
    BY <2>1
  <2>2. CASE /\ Effect(t) \in Replacing
             /\ current'.source = IF Effect(t) = "publishLoad" THEN task[t].path ELSE NoOne
             /\ Effect(t) = "publishLoad" => SelectionIsMine(t)
    <3>1. Effect(t) = "publishLoad" => selection.path = task[t].path /\ selection # Nothing
      BY <1>0, <2>2, PublishesFresh DEF SelectionIsMine
    <3>2. UNCHANGED copies
      BY <2>2 DEF Changes, Replacing
    <3> QED
      BY <2>2, <3>1, <3>2
  <2> QED
    BY <1>0, <2>1, <2>2 DEF Changes, CurrentShape
<1>3. CASE UNCHANGED <<selection, copies>>
  BY <1>1, <1>2, <1>3 DEF CopyIsKept
<1>4. CASE selection' = Nothing /\ UNCHANGED copies
  BY <1>1, <1>2, <1>4 DEF CopyIsKept
<1>5. CASE /\ UNCHANGED copies
           /\ selection' = [id |-> t, generation |-> t, path |-> Original]
  BY <1>1, <1>2, <1>5 DEF CopyIsKept
<1>6. CASE /\ Effect(t) = "useCopy" /\ SelectionIsMine(t) /\ UNCHANGED current
           /\ selection' = [selection EXCEPT !.path = t, !.generation = t]
           /\ copies' = (copies \cap {current.source}) \cup {t}
  <2>1. selection'.path = t
    BY <1>0, <1>6 DEF SelectionShape, SelectionIsMine
  <2> QED
    BY <1>1, <1>6, <2>1 DEF CopyIsKept
<1> QED
  BY <1>3, <1>4, <1>5, <1>6 DEF Changes

(* Nothing is lost, or taken, when a command is issued.                    *)
LEMMA IssueKeeps ==
  ASSUME SessionInv, NEW t \in Tasks, NEW c \in Menu[t], Issue(t, c)
  PROVE  SessionInv'
<1>1. c \in Commands /\ ~Running(t)
  BY MenuAssumption DEF Issue, Idle, Running
<1>2. /\ UNCHANGED <<current, comparison, selection, copies, newest, lock>>
      /\ task'[t] = [at |-> "running", command |-> c, step |-> 1, generation |-> NoOne,
                     owner |-> FALSE, selection |-> selection.id, path |-> NoOne,
                     dataset |-> current.id, compared |-> comparison.id]
      /\ task' = [s \in Tasks |-> task'[s]]
      /\ \A s \in Tasks \ {t} : task'[s] = task[s]
  BY DEF Issue, data, SessionInv, Shapes
<1>3. OnScript(t)'
  BY <1>1, <1>2, ScriptsBegin DEF OnScript, CommandRecord
<1>4. Shapes'
  BY <1>2, <1>3 DEF SessionInv, Shapes, CurrentShape, SelectionShape, Running, OnScript
<1>5. ASSUME NEW s \in Tasks, Running(s)'
      PROVE  (Guarded(s) /\ Answers(s) /\ ReadsTheSelection(s) /\ Stamped(s))'
  <2>1. CASE s = t
    <3>1. task'[t].step = 1
      BY <1>2
    <3>2. \A e : ~Past(t, e)'
      BY <3>1 DEF Past, After
    <3> QED
      BY <2>1, <3>1, <3>2 DEF Guarded, Answers, ReadsTheSelection, Stamped
  <2>2. CASE s # t
    BY <1>2, <1>5, <2>2 DEF SessionInv, Running, Guarded, Answers, ReadsTheSelection,
         Stamped, Past, SelectionIsMine, SameDataset, SameComparison
  <2> QED
    BY <2>1, <2>2
<1>6. CopyIsKept'
  BY <1>2 DEF SessionInv, CopyIsKept
<1> QED
  BY <1>4, <1>5, <1>6 DEF SessionInv

(* The invariant is one.                                                   *)
LEMMA NextSessionInv == SessionInv /\ [Next]_vars => SessionInv'
<1> SUFFICES ASSUME SessionInv, [Next]_vars PROVE SessionInv'
  OBVIOUS
<1>1. ASSUME NEW t \in Tasks, Step(t) PROVE SessionInv'
  <2>1. Shapes
    BY DEF SessionInv
  <2>2. (Stops(t) \/ Advances(t)) /\ Changes(t)
    BY <1>1, <2>1, StepMoves
  <2>3. Shapes'
    BY <1>1, <2>1, <2>2, StepShapes
  <2>4. ASSUME NEW s \in Tasks, Running(s)'
        PROVE  (Guarded(s) /\ Answers(s) /\ ReadsTheSelection(s) /\ Stamped(s))'
    BY <1>1, <2>2, <2>4, StepGuarded, StepAnswers, StepReads, StepStamped
  <2>5. CopyIsKept'
    BY <1>1, <2>2, StepCopies
  <2> QED
    BY <2>3, <2>4, <2>5 DEF SessionInv
<1>2. ASSUME NEW t \in Tasks, NEW c \in Menu[t], Issue(t, c) PROVE SessionInv'
  BY <1>2, IssueKeeps
<1>3. CASE UNCHANGED vars
  BY <1>3 DEF vars, SessionInv, Shapes, CurrentShape, SelectionShape, Running, OnScript,
       Guarded, Answers, ReadsTheSelection, Stamped, Past, SelectionIsMine, SameDataset,
       SameComparison, CopyIsKept
<1> QED
  BY <1>1, <1>2, <1>3 DEF Next

(* The invariant holds of every behaviour.                                 *)
LEMMA SessionInvariant == Spec => []SessionInv
<1>1. Init => SessionInv
  <2> SUFFICES ASSUME Init PROVE SessionInv
    OBVIOUS
  <2>1. \A t \in Tasks : ~Running(t)
    BY DEF Init, Running, Idle
  <2>2. Shapes
    BY <2>1 DEF Init, Shapes, CurrentShape, SelectionShape
  <2>3. CopyIsKept
    BY DEF Init, CopyIsKept
  <2> QED
    BY <2>1, <2>2, <2>3 DEF SessionInv
<1> QED
  BY <1>1, NextSessionInv, PTL DEF Spec

(* The UTF-8 copy that the active dataset or the pending selection reads   *)
(* is kept, whichever conversions, loads and openings are under way.       *)
THEOREM CopyStays == Spec => []CopyIsKept
<1>1. SessionInv => CopyIsKept
  BY DEF SessionInv
<1> QED
  BY <1>1, SessionInvariant, PTL

(* A Review mutation replaces the dataset it read, under the comparison it *)
(* read, and a load publishes the file that is selected: between the last  *)
(* check and the publication nobody else gets past the guards held.        *)
THEOREM PublicationsAreRead == Spec => PublishesWhatItRead
<1> DEFINE Publishes ==
      \A t \in Tasks :
        current'.id = t /\ current.id # t =>
          /\ task[t].command \in {"consolidate", "join"}
               => SameDataset(t) /\ SameComparison(t)
          /\ task[t].command = "load"
               => SelectionIsMine(t) /\ selection.path = task[t].path
<1>1. ASSUME SessionInv, Next PROVE Publishes
  <2>1. ASSUME NEW t \in Tasks, current'.id = t, current.id # t, NEW s \in Tasks, Step(s)
        PROVE  /\ task[t].command \in {"consolidate", "join"}
                    => SameDataset(t) /\ SameComparison(t)
               /\ task[t].command = "load"
                    => SelectionIsMine(t) /\ selection.path = task[t].path
    <3>1. Changes(s) /\ Running(s) /\ Shapes /\ OnScript(s)
      BY <1>1, <2>1, StepMoves DEF SessionInv, Shapes, Step
    <3>2. /\ s = t /\ Effect(t) \in Replacing
          /\ Effect(t) = "publishLoad" => SelectionIsMine(t)
      BY <2>1, <3>1 DEF Changes, Shapes, CurrentShape
    <3>3. Places(task[t].command, task[t].step, Effect(t))
      BY <3>1, <3>2, Scripts DEF OnScript, Effect, NextStep
    <3>4. /\ task[t].command \in {"consolidate", "join"} => Effect(t) = "publishReview"
          /\ task[t].command = "load" => Effect(t) = "publishLoad"
      BY <3>2, <3>3 DEF Places, Replacing, Reviews
    <3> QED
      BY <1>1, <3>1, <3>2, <3>4, PublishesFresh
  <2>2. ASSUME NEW s \in Tasks, NEW c \in Menu[s], Issue(s, c)
        PROVE  UNCHANGED current
    BY <2>2 DEF Issue, data
  <2> QED
    BY <1>1, <2>1, <2>2 DEF Next
<1>2. SessionInv /\ [Next]_vars => [Publishes]_vars
  BY <1>1
<1>3. Spec => [][Publishes]_vars
  BY <1>2, SessionInvariant, PTL DEF Spec
<1> QED
  BY <1>3 DEF PublishesWhatItRead
==============================================================================
