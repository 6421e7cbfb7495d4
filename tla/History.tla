------------------------------- MODULE History -------------------------------
(***************************************************************************)
(* The undo history of the active dataset and the files it lives on        *)
(* (dataset/history.rs and the publication functions of dataset.rs).       *)
(*                                                                         *)
(* A dataset is either eager (its rows are in `frame`) or source-backed    *)
(* (`frame` holds the schema only, the rows are in `sourcePath`).  The     *)
(* history keeps one Parquet snapshot per revision in a directory of its   *)
(* own.  Every command below holds the lock of the active dataset from its *)
(* first read to its last file removal, so each is one action; Review      *)
(* commands compute their result with the lock released and are several.   *)
(*                                                                         *)
(* What a file or a frame holds is a version number: 0 is what was loaded, *)
(* and every result a command computes is a number never used before.      *)
(***************************************************************************)
EXTENDS Naturals, Sequences, FiniteSets, FiniteSetsExt

CONSTANTS
    MaxEntries,     \* HistoryManager::max_entries
    DiskBudget,     \* HistoryManager::disk_budget_bytes
    Sizes,          \* the sizes a Parquet file can take
    MaxVersion,     \* bound: how many results the commands compute
    MaxId,          \* the largest snapshot identifier (u64::MAX in the code)
    MaxFiles,       \* bound: how many files may exist when one stays behind
    NoPath,         \* Option<PathBuf>::None
    NoContent,      \* rows that are not in memory
    Foreign         \* what another program wrote over the source file

ASSUME HistoryAssumption ==
    /\ MaxEntries \in Nat \ {0}
    /\ DiskBudget \in Nat
    /\ Sizes \subseteq Nat \ {0}
    /\ MaxVersion \in Nat
    /\ MaxId \in Nat
    /\ MaxFiles \in Nat
    /\ NoContent \notin Nat
    /\ Foreign \notin Nat \cup {NoContent}
    /\ NoPath \notin {"external", "converted", "snapshot", "output"} \X Nat

VARIABLES
    disk,           \* the files that exist: path -> content and size
    entries,        \* HistoryManager::entries
    cursor,         \* HistoryManager::cursor, counted from 0
    enabled,        \* HistoryManager::snapshots_enabled
    nextId,         \* HistoryManager::next_id
    sourceSnapshot, \* HistoryManager::source_snapshot_path
    sourcePath,     \* LoadedDataset::source_path
    fileBytes,      \* LoadedDataset::file_size_bytes
    sourceBacked,   \* LoadedDataset::source_backed
    frame,          \* LoadedDataset::frame
    shown,          \* the version the last preview showed to the user
    latest,         \* the newest version any command has computed
    review          \* the Review command that is computing, if any

history == <<entries, cursor, enabled, nextId>>
dataset == <<sourceSnapshot, sourcePath, fileBytes, sourceBacked, frame, shown>>
vars == <<disk, history, dataset, latest, review>>

-----------------------------------------------------------------------------
(* Files.                                                                  *)

External == <<"external", 0>>       \* the file the user picked
Converted == <<"converted", 0>>     \* source.parquet, its converted copy
Snapshot(id) == <<"snapshot", id>>  \* snapshot-<id>.parquet
Output(v) == <<"output", v>>        \* the result file of a DuckDB query

Path == {"external", "converted", "snapshot", "output"} \X Nat
Content == Nat \cup {Foreign}
NoReview == [stamp |-> <<>>]

InDirectory(p) == p \notin {NoPath, External}

File(v, b) == [content |-> v, bytes |-> b]

With(files, p, file) ==
    [q \in DOMAIN files \cup {p} |-> IF q = p THEN file ELSE files[q]]

Without(files, gone) == [q \in DOMAIN files \ gone |-> files[q]]

PathsOf(log) == {log[i].path : i \in DOMAIN log}

-----------------------------------------------------------------------------
(* Reading.                                                                *)

CursorEntry == entries[cursor + 1]

(* The source is trusted while it has the size it was loaded with; the     *)
(* rows are then read from its converted copy when there is one.           *)
Backing == IF sourceSnapshot # NoPath THEN sourceSnapshot ELSE sourcePath

(* Fault for checking: the size is not compared. *)
SourceExists == sourcePath \in DOMAIN disk /\ Backing \in DOMAIN disk

SourceReadable ==
    /\ sourcePath \in DOMAIN disk
    /\ disk[sourcePath].bytes = fileBytes
    /\ Backing \in DOMAIN disk

CanUndo == enabled /\ cursor > 0
CanRedo == enabled /\ cursor + 1 < Len(entries)

-----------------------------------------------------------------------------
(* The revision log.                                                       *)

TotalBytes(log) == MapThenSumSet(LAMBDA i : log[i].bytes, DOMAIN log)

WithinLimits(log) == Len(log) <= MaxEntries /\ TotalBytes(log) <= DiskBudget

(* The oldest revisions are dropped until the rest is within the limits.   *)
(* The newest never is: its size was compared with the budget before.      *)
Trim(log) ==
    LET enough == {i \in DOMAIN log :
                     i = Len(log) \/ WithinLimits(SubSeq(log, i, Len(log)))}
        first == CHOOSE i \in enough : \A j \in enough : i <= j
    IN  SubSeq(log, first, Len(log))

(* Fault for checking: a change that leaves the redo branch in place.      *)
KeptBranchWithRedo == entries

(* What a change keeps of the log: the redo branch is cut.                 *)
KeptBranch == SubSeq(entries, 1, cursor + 1)

(* Fault for checking: the file system is not asked.                       *)
FreeIdsUnchecked(from, reserved) ==
    {id \in from .. MaxId : Snapshot(id) \notin PathsOf(entries) \cup reserved}

(* The smallest identifier from `from` on that no file and no revision has *)
(* taken; none is left past MaxId.                                         *)
FreeIds(from, reserved) ==
    {id \in from .. MaxId : Snapshot(id) \notin DOMAIN disk \cup PathsOf(entries) \cup reserved}

NextDestination(from, reserved) ==
    CHOOSE id \in FreeIds(from, reserved) :
        \A other \in FreeIds(from, reserved) : id <= other

(* Fault for checking: the list of revisions is not consulted.             *)
DiscardedUnchecked(sources, newEntries) ==
    (PathsOf(entries) \ PathsOf(newEntries)) \cup sources

(* The files a publication removes once it is committed: the revisions it  *)
(* retired and the sources it replaced, unless the history still lists     *)
(* them.                                                                   *)
Discarded(sources, newEntries) ==
    (PathsOf(entries) \ PathsOf(newEntries)) \cup (sources \ PathsOf(newEntries))

PreviousSources == {p \in {sourcePath, sourceSnapshot} : InDirectory(p)}

(* Removing a file may fail; the failure is ignored and the file stays.    *)
Removing(files, unwanted) ==
    \E stuck \in SUBSET (unwanted \cap DOMAIN files) :
        /\ stuck # {} => Cardinality(DOMAIN files \ (unwanted \ stuck)) <= MaxFiles
        /\ disk' = Without(files, unwanted \ stuck)

Revision(id, b) == [path |-> Snapshot(id), bytes |-> b]

(* The log becomes `log`, trimmed, with its newest revision on screen.     *)
Revise(log, id, files, sources) ==
    /\ entries' = Trim(log)
    /\ cursor' = Len(Trim(log)) - 1
    /\ enabled' = TRUE
    /\ nextId' = (id + 1) % (MaxId + 1)
    /\ Removing(files, Discarded(sources, Trim(log)))

(* A result too large to keep switches the history off.                    *)
ForgetHistory(files) ==
    /\ entries' = <<>>
    /\ cursor' = 0
    /\ enabled' = FALSE
    /\ UNCHANGED nextId
    /\ Removing(files, Discarded(PreviousSources, <<>>))

-----------------------------------------------------------------------------
(* Publishing a result held in memory.                                     *)

(* Fault for checking: the old source stays registered.                    *)
ShowFrameKeepingSource(v) ==
    /\ frame' = v
    /\ sourceBacked' = FALSE
    /\ UNCHANGED <<sourcePath, sourceSnapshot>>
    /\ shown' = v
    /\ latest' = v

ShowFrame(v) ==
    /\ frame' = v
    /\ sourceBacked' = FALSE
    /\ sourcePath' = NoPath
    /\ sourceSnapshot' = NoPath
    /\ shown' = v
    /\ latest' = v

InstallFrame(v) ==
    \/ /\ ~enabled
       /\ UNCHANGED history
       /\ Removing(disk, Discarded(PreviousSources, entries))
    \/ \E b \in Sizes :
         /\ enabled
         /\ b > DiskBudget
         /\ ForgetHistory(disk)
    \/ \E b \in Sizes :
         /\ enabled
         /\ b <= DiskBudget
         /\ FreeIds(nextId, {}) # {}
         /\ LET id == NextDestination(nextId, {})
            IN  Revise(Append(KeptBranch, Revision(id, b)), id,
                       With(disk, Snapshot(id), File(v, b)), PreviousSources)

(* An eager Prepare command.  The rows of a source-backed dataset are read *)
(* into memory first; a file that changed stops the command.               *)
PublishFrame ==
    /\ latest < MaxVersion
    /\ sourceBacked => SourceReadable
    /\ InstallFrame(latest + 1)
    /\ ShowFrame(latest + 1)
    /\ UNCHANGED <<fileBytes, review>>

(* The same command when it finds nothing to change, fails or is cancelled *)
(* after its rows were read.                                               *)
Materialize ==
    /\ sourceBacked
    /\ SourceReadable
    /\ frame' = disk[Backing].content
    /\ sourceBacked' = FALSE
    /\ UNCHANGED <<disk, history, sourceSnapshot, sourcePath, fileBytes, shown, latest, review>>

-----------------------------------------------------------------------------
(* Publishing the result file of a DuckDB query over the source.           *)

ShowFile(v, p, b) ==
    /\ frame' = NoContent
    /\ sourceBacked' = TRUE
    /\ sourcePath' = p
    /\ fileBytes' = b
    /\ sourceSnapshot' = NoPath
    /\ shown' = v
    /\ latest' = v

(* The first change of a dataset without history also keeps what it        *)
(* replaces: a copy of the Parquet source, or the source converted.        *)
BaselineBytes == IF Backing = External THEN Sizes ELSE {disk[Backing].bytes}

FirstId == NextDestination(nextId, {})
SecondId == NextDestination(FirstId + 1, {Snapshot(FirstId)})
BothIdsAreFree ==
    /\ FreeIds(nextId, {}) # {}
    /\ FreeIds(FirstId + 1, {Snapshot(FirstId)}) # {}

RecordFile(v, b, sources) ==
    \/ /\ enabled
       /\ b <= DiskBudget
       /\ FreeIds(nextId, {}) # {}
       /\ Revise(Append(KeptBranch, Revision(FirstId, b)), FirstId,
                 With(disk, Snapshot(FirstId), File(v, b)), sources)
       /\ ShowFile(v, Snapshot(FirstId), b)
    \/ /\ ~enabled
       /\ BothIdsAreFree
       /\ b <= DiskBudget
       /\ \E base \in {size \in BaselineBytes : size <= DiskBudget} :
            Revise(<<Revision(FirstId, base), Revision(SecondId, b)>>, SecondId,
                   With(With(disk, Snapshot(FirstId), File(disk[Backing].content, base)),
                        Snapshot(SecondId), File(v, b)),
                   sources)
       /\ ShowFile(v, Snapshot(SecondId), b)

(* A source-backed Prepare command.                                        *)
PublishFile ==
    /\ sourceBacked /\ SourceReadable
    /\ latest < MaxVersion
    /\ \E b \in Sizes : RecordFile(latest + 1, b, PreviousSources)
    /\ UNCHANGED review

(* Fault for checking: the result file is removed with the temporaries.    *)
OutputRemoved(v, b) == disk

OutputKept(v, b) == With(disk, Output(v), File(v, b))

(* Its result, or the baseline, is over the budget: the result file itself *)
(* becomes the source and the history is switched off.                     *)
PublishFileOverBudget ==
    /\ sourceBacked /\ SourceReadable
    /\ latest < MaxVersion
    /\ \E b \in Sizes :
         /\ \/ b > DiskBudget
            \/ ~enabled /\ \E base \in BaselineBytes : base > DiskBudget
         /\ ForgetHistory(OutputKept(latest + 1, b))
         /\ ShowFile(latest + 1, Output(latest + 1), b)
    /\ UNCHANGED review

(* The baseline is installed, the result is not, and removing the baseline *)
(* fails as well: an unlisted file stays behind under the next identifier. *)
LeaveBaselineBehind ==
    /\ sourceBacked /\ SourceReadable
    /\ ~enabled
    /\ Cardinality(DOMAIN disk) < MaxFiles
    /\ \E base \in BaselineBytes :
         /\ base <= DiskBudget
         /\ BothIdsAreFree
         /\ disk' = With(disk, Snapshot(FirstId), File(disk[Backing].content, base))
    /\ UNCHANGED <<history, dataset, latest, review>>

-----------------------------------------------------------------------------
(* Undo and redo.                                                          *)

ShowRevision(target) ==
    LET p == entries[target + 1].path
    IN  /\ p \in DOMAIN disk
        /\ cursor' = target
        /\ shown' = disk[p].content
        /\ IF sourceBacked
           THEN /\ frame' = NoContent
                /\ sourcePath' = p
                /\ fileBytes' = disk[p].bytes
                /\ sourceSnapshot' = NoPath
           ELSE /\ frame' = disk[p].content
                /\ UNCHANGED <<sourcePath, fileBytes, sourceSnapshot>>
        /\ UNCHANGED <<disk, entries, enabled, nextId, sourceBacked, latest, review>>

UndoLastChange == CanUndo /\ ShowRevision(cursor - 1)
RedoLastChange == CanRedo /\ ShowRevision(cursor + 1)

-----------------------------------------------------------------------------
(* A Review command (join, conflict resolution, key adoption) notes which  *)
(* dataset it starts from, computes with the lock released, and publishes  *)
(* only if the note still describes the active dataset.                    *)

Stamp ==
    [source |-> sourcePath, converted |-> sourceSnapshot,
     revision |-> IF cursor < Len(entries) THEN CursorEntry.path ELSE NoPath,
     bytes |-> fileBytes, backed |-> sourceBacked, frame |-> frame,
     cursor |-> cursor, count |-> Len(entries), next |-> nextId]

(* Fault for checking: only the source and the log are compared.           *)
StampMatchesLoosely ==
    /\ review.stamp.source = sourcePath
    /\ review.stamp.count = Len(entries)
    /\ review.stamp.next = nextId

StampMatches == review.stamp = Stamp

(* The file a DuckDB query can read: the source, or the revision on screen *)
(* of an eager dataset.                                                    *)
JoinFile ==
    IF sourceBacked THEN IF SourceReadable THEN Backing ELSE NoPath
    ELSE IF enabled THEN CursorEntry.path ELSE NoPath

BeginReview ==
    /\ review = NoReview
    /\ review' = [stamp |-> Stamp, path |-> JoinFile, read |-> NoContent,
                  held |-> IF sourceBacked THEN NoContent ELSE frame]
    /\ UNCHANGED <<disk, history, dataset, latest>>

(* The query runs without the lock: the file is whatever the path names.   *)
QueryForReview ==
    /\ review # NoReview
    /\ review.read = NoContent
    /\ review.path \in DOMAIN disk
    /\ review' = [review EXCEPT !.read = disk[review.path].content]
    /\ UNCHANGED <<disk, history, dataset, latest>>

(* No query can do it: the rows are read into memory, under the lock.      *)
MaterializeForReview ==
    /\ review # NoReview
    /\ review.held = NoContent
    /\ StampMatches
    /\ sourceBacked /\ SourceReadable
    /\ review' = [review EXCEPT !.held = disk[Backing].content]
    /\ UNCHANGED <<disk, history, dataset, latest>>

PublishReviewFile ==
    /\ review # NoReview
    /\ review.read # NoContent
    /\ StampMatches
    /\ sourceBacked => SourceReadable
    /\ review.path \in DOMAIN disk
    /\ latest < MaxVersion
    /\ \E b \in Sizes : RecordFile(latest + 1, b, {})
    /\ review' = NoReview

PublishReviewFrame ==
    /\ review # NoReview
    /\ review.held # NoContent
    /\ StampMatches
    /\ latest < MaxVersion
    /\ InstallFrame(latest + 1)
    /\ ShowFrame(latest + 1)
    /\ fileBytes' \in Sizes     \* the sizes of both datasets, added
    /\ review' = NoReview

(* Cancelled, failed, or refused because the stamp no longer matches.      *)
EndReview ==
    /\ review # NoReview
    /\ review' = NoReview
    /\ UNCHANGED <<disk, history, dataset, latest>>

-----------------------------------------------------------------------------
(* Another program rewrites or removes the source file.                    *)
ExternalChange ==
    /\ External \in DOMAIN disk
    /\ disk[External].content = 0
    /\ \/ disk' = Without(disk, {External})
       \/ \E b \in Sizes \ {disk[External].bytes} :
            disk' = With(disk, External, File(Foreign, b))
    /\ UNCHANGED <<history, dataset, latest, review>>

(* A load leaves a dataset of one of two kinds.  An eager one records its  *)
(* first revision at once (HistoryManager::new); a source-backed one has   *)
(* no history until its first change (HistoryManager::deferred), and a     *)
(* converted copy when DuckDB cannot read the format of its source.        *)
InitEager(size) ==
    /\ sourceBacked = FALSE
    /\ frame = 0
    /\ sourceSnapshot = NoPath
    /\ cursor = 0
    /\ \E b \in Sizes :
         IF b > DiskBudget
         THEN /\ entries = <<>>
              /\ enabled = FALSE
              /\ nextId = 0
              /\ disk = [p \in {External} |-> File(0, size)]
         ELSE /\ entries = <<Revision(0, b)>>
              /\ enabled = TRUE
              /\ nextId = 1 % (MaxId + 1)
              /\ disk = [p \in {External, Snapshot(0)} |->
                           File(0, IF p = External THEN size ELSE b)]

InitSourceBacked(size) ==
    /\ sourceBacked = TRUE
    /\ frame = NoContent
    /\ entries = <<>>
    /\ cursor = 0
    /\ enabled = FALSE
    /\ nextId = 0
    /\ \/ /\ sourceSnapshot = NoPath
          /\ disk = [p \in {External} |-> File(0, size)]
       \/ \E b \in Sizes :
            /\ sourceSnapshot = Converted
            /\ disk = [p \in {External, Converted} |->
                         File(0, IF p = External THEN size ELSE b)]

Init ==
    /\ \E size \in Sizes :
         /\ fileBytes = size
         /\ InitEager(size) \/ InitSourceBacked(size)
    /\ sourcePath = External
    /\ shown = 0
    /\ latest = 0
    /\ review = NoReview

PrepareStep ==
    \/ PublishFrame \/ Materialize
    \/ PublishFile \/ PublishFileOverBudget \/ LeaveBaselineBehind
    \/ UndoLastChange \/ RedoLastChange

ReviewStep ==
    \/ BeginReview \/ QueryForReview \/ MaterializeForReview
    \/ PublishReviewFile \/ PublishReviewFrame \/ EndReview

Next == PrepareStep \/ ReviewStep \/ ExternalChange

Spec == Init /\ [][Next]_vars

-----------------------------------------------------------------------------
(* Properties.                                                             *)

Entry == [path : Path, bytes : Sizes]

TypeOK ==
    /\ DOMAIN disk \subseteq Path
    /\ \A p \in DOMAIN disk : disk[p] \in [content : Content, bytes : Sizes]
    /\ entries \in Seq(Entry)
    /\ cursor \in Nat
    /\ enabled \in BOOLEAN
    /\ nextId \in 0 .. MaxId
    /\ sourceSnapshot \in {NoPath, Converted}
    /\ sourcePath \in Path \cup {NoPath}
    /\ fileBytes \in Sizes
    /\ sourceBacked \in BOOLEAN
    /\ frame \in Nat \cup {NoContent}
    /\ shown \in Nat
    /\ latest \in 0 .. MaxVersion

(* The history on disk is whole: every revision it lists has its own file, *)
(* of the recorded size; the cursor is on a revision while the history is  *)
(* on, nothing is listed while it is off, and the limits hold.             *)
HistoryIsWhole ==
    /\ \A i \in DOMAIN entries :
         /\ entries[i].path \in DOMAIN disk
         /\ disk[entries[i].path].bytes = entries[i].bytes
         /\ \A j \in DOMAIN entries : entries[i].path = entries[j].path => i = j
    /\ IF enabled THEN cursor < Len(entries) ELSE entries = <<>> /\ cursor = 0
    /\ WithinLimits(entries)

(* Whatever a reader turns to, it finds the version on screen: the         *)
(* revision under the cursor, the source while it is unchanged (the page   *)
(* reader falls back to it without history), or the frame in memory.       *)
ReadersAgree ==
    /\ enabled => disk[CursorEntry.path].content = shown
    /\ (sourceBacked \/ ~enabled) /\ SourceReadable => disk[Backing].content = shown
    /\ ~sourceBacked => frame = shown

(* A source-backed dataset that no longer lives on the user's file is the  *)
(* only copy of its rows: nothing the program does takes the file away.    *)
OnlyCopyIsSafe ==
    sourceBacked /\ InDirectory(sourcePath) => SourceReadable

(* A file of the history directory never changes its content: whoever      *)
(* still reads a path sees what it saw, or no file.                        *)
FilesAreImmutable ==
    [][\A p \in DOMAIN disk \cap DOMAIN disk' : InDirectory(p) => disk'[p] = disk[p]]_disk

(* A Review result replaces the version it was computed from, although the *)
(* dataset was not locked while it was computed: nothing is lost under it. *)
ReviewReplacesWhatItRead ==
    [][review # NoReview /\ review' = NoReview /\ shown' # shown
         => shown = IF sourceBacked' THEN review.read ELSE review.held]_vars

(* The history implements the undo log: a change, an undo and a redo show  *)
(* what they should, read from the files themselves; every other step, a   *)
(* failed or cancelled publication included, changes nothing.              *)
ContentOf(entry) ==
    IF entry.path \in DOMAIN disk THEN disk[entry.path].content ELSE NoContent

Undoable == [i \in 1 .. (IF enabled THEN cursor ELSE 0) |-> ContentOf(entries[i])]
Redoable == [i \in 1 .. (IF enabled THEN Len(entries) - cursor - 1 ELSE 0) |->
               ContentOf(entries[cursor + 1 + i])]

Undo == INSTANCE UndoLog WITH
            Versions <- 0 .. MaxVersion,
            Capacity <- MaxEntries,
            past <- Undoable, present <- shown, future <- Redoable

KeepsTheUndoLog == Undo!Spec
=============================================================================
