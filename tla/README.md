# Columnia: specifications and proofs

Columnia is a local-first desktop application for tabular data: a Tauri backend
in Rust (`src-tauri/src`) and a React interface (`src/`). A person loads a file,
reviews and prepares it, keeps the result in a project and delivers it to a file
or to a remote database. A command-line program (`columnia-cli`) works on a
project store given to it.

This directory models the parts of the backend where the order of things matters:
who may publish, which file is the only copy of something, what survives a crash,
what a retry repeats; and the computations the backend writes more than once (in
memory, in blocks from disk, in SQL), which have to give the same rows.

## 1. Inventory

| Part | State it keeps | Operations | What is hard | What makes it correct |
|---|---|---|---|---|
| Operation cancellation (`dataset/operation_state.rs`, `operation_cancellation.rs`) | a generation counter per kind, a commit lock for some kinds, the in-flight flag of Review | begin, poll, commit, cancel | cancel against commit, old operations against new ones, early returns that must release | an answered cancel is final; the newest commits; one Review mutation |
| Edit history (`dataset/history.rs`, publication functions of `dataset.rs`) | the revision log, its cursor, snapshot files, the source path, the frame | record, undo, redo, jump, disable for size, materialise, Review publication | trimming at two limits, deletion after commit, two representations of the same rows, computing with the lock released | no revision without its file; all readers see the same rows; the log is an undo log |
| Projects (`projects.rs`, `project_recovery.rs`) | SQLite rows, generation directories, the open dataset | save, open, restore, delete, prune, reconcile | two stores without a common commit, crashes, other processes | the catalogue names only what can be read; retention; no leaks |
| Remote delivery (`remote_databases.rs`, `remote_delivery_ledger.rs`) | `remote-deliveries.json`, the remote table | send, record, commit, record again | unknown outcome of a commit, crash, bounded record, identity of a content | what was saved is on record; nothing is repeated without asking |
| Updater (`updater.rs`, `UpdatePanel.tsx`) | check in progress, pending update and its bytes | check, download, cancel, install | results that arrive in another state than they left, a reload of the window | the version installed is the one shown; no mark stays up |
| Session locks (`DatasetState`, `ProjectState`) | the active dataset, the comparison, the pending selection, converted copies, the operation mutex | load, convert, open, restore, save, compare, consolidate, join, profile | lock order, publication between two locks, results computed with the locks released | every command ends; what is published follows from what was read |
| Load and import (`dataset/import_*.rs`, readers) | the pending selection | select, preview, convert, load | previews that race a load, formats | the file loaded is the one selected; a copy in use stays |
| Prepare (`dataset.rs`, `dataset/recipe_*.rs`, `column_cleanup.rs`) | none of its own | recipes, corrections | three evaluators of a recipe, two of a correction | all evaluators agree, and count what they did |
| Review (`dataset/comparison_*.rs`, `query_execution.rs`) | the comparison | compare, page conflicts, consolidate, resolve, join | spilled buckets, null keys, numbering of conflicts, results computed outside the lock | the routes agree; see also Edit history and Session locks |
| Local query and pages (`dataset/local_query.rs`, `query_execution.rs`, `duckdb_query.rs`) | none | query, join query, page | limits, offsets and groups across blocks | the engines agree |
| Quality and profile | the profile kept with the dataset | read | computed without the lock | the profile is of the dataset it is kept with |
| Local export (`dataset/export_io.rs`) | the file written | export | partial files, replacing a file | the destination is old or new, never partial |
| Automation and CLI | a store of its own, or the shared one | batch recipes, project commands | second process | see Projects |
| Task and preset catalogues | SQLite rows | list, save, open, delete | none: one transaction each | versioned contracts |
| Session guard, diagnostics, privacy, resources | a marker file, logs, settings | start, end, report | an unclean exit | the next start says so |
| Interface controllers (`src/features`) | request ids, revisions, in-flight flags | issue commands, take answers | late answers | a late answer changes nothing |

How they meet. Every command runs on a thread of its own and gets a *generation*
from the operation counters. Load, Prepare and Review publish into the active
dataset under its lock, and record in the edit history. A project save copies
that history into a generation directory; opening one puts another dataset in
its place and cancels what worked on the old one. Large projects without history
are not copied: the open dataset then reads from the store, which ties the two.
A delivery reads the active dataset's file or rows while both may change. The
interface sees only answers, which may come late.

`PROJECT.json` lists every component with its status and every hazard with its
line and the properties that watch it.

## 2. Modules

| Module | Models | Kind |
|---|---|---|
| `CancellableOperations` | what the session promises about a cancellable command | abstract |
| `OperationGate` | the counters, commit locks and in-flight flag | detailed; implements the former |
| `OperationGateProofs` | its theorems | proofs |
| `UndoLog` | a log of revisions with a cursor | abstract |
| `History` | revision log, snapshot files and source of the active dataset | detailed; implements `UndoLog` |
| `HistoryProofs` | its theorems; that it implements `UndoLog` | proofs |
| `ProjectShelf` | projects with their versions, atomically changed | abstract |
| `ProjectCatalog` | the SQLite catalogue, generation directories, open datasets | detailed; implements `ProjectShelf` |
| `ProjectCatalogProofs` | its types, what it keeps readable, leaks, retention, and that it implements `ProjectShelf` | proofs |
| `RemoteDelivery` | deliveries to one table and the ledger | detailed |
| `RemoteDeliveryProofs` | its theorems | proofs |
| `Updater` | the updater and its panel | detailed |
| `UpdaterProofs` | its theorems | proofs |
| `Session` | the commands of the session as sequences of critical sections | composition of the locks |
| `SessionProofs` | its theorems | proofs |
| `Cells` | the null cell and the answer of a refusal | shared |
| `Comparison`, `Joins` | summary, conflicts, consolidation, resolution and joins, each by every route | calculation |
| `LocalQuery` | queries of a dataset or a join, each by every route, and the choice of the route | calculation |
| `Recipes` | a recipe row by row, and decisions about failed conversions | calculation; the reference of the next |
| `RecipePlans` | the same recipe as a lazy plan and in DuckDB, and the choice of the route | calculation |
| `Cleaning` | the corrections of Prepare in memory and on disk | calculation |
| `Calculations` | the datasets they are asked of, and that the routes agree | composition of the six before |
| `CalculationProofs` | that the routes of Review, of joins and of queries agree | proofs |
| `FoldLemmas` | least elements, sums, ranks and listings that the proofs share | proofs |
| `MC*` | definitions the configurations need | model checking |

Each detailed module holds its *seeded faults* beside the definitions they
imitate: a dropped guard, a missing reset, a swapped order. No specification
uses them; put in place of the definition, each violates the property it is
paired with in `PROJECT.json`.

### OperationGate

`generation[k]`, `holder[k]` and `inFlight[k]` are the fields of `DatasetState`
for kind `k`; `pc`, `kind` and `mine` are the command of each thread and the
generation it got. `answered` is a history variable. Kinds that take the commit
lock when they begin (`BeginLocked`): load, projectOpen, projectSave,
projectDelete. Kinds that take it to commit only: prepare, reviewMutation,
datasetComparison. Kinds without one: profile, temporal, export, query,
snapshotComparison, datasetPage, qualityValidation, databasePreflight,
databaseConnection, projectCatalog, projectVersions. A panic while the lock is
held is `CommitFails`: `lock_recovering` clears the poison.

The promise (`CancellableOperations`) says that a command is live until a
cancellation or a newer command dooms it, and that only a live one takes effect.
For kinds with a commit lock the doom is final (`Final`); for the others an
answered cancellation may come too late, and the module says so instead of
hiding it.

### History

`disk` maps every file to its content and size; a content is the number of the
result it holds. `frame`, `sourcePath`, `sourceSnapshot` and `sourceBacked` are
the fields of `LoadedDataset` that decide what a reader sees. Commands that hold
the lock of the active dataset throughout are one action, including the removal
of files after the publication; Review commands are begin, query or materialise,
publish, end. Row counts, labels and names are left out. An external change that
keeps the size of the source is not detected by the code either, so the model
changes the size or removes the file. Left out: loading a dataset while Review
computes, which is in `Session`.

### ProjectCatalog

`row` and `versions` are the two SQLite tables, `files` the directories, `young`
those less than an hour old, `active` what each open dataset reads from, `op`
the operation of each process. One operation per process is
`ProjectState.operation`. A transaction is one action; staging, cleanup and each
removal are their own, and a process can crash before any of them. `Shape` gives
a generation its size when its name is chosen; random names never repeat, so a
name is reused only when nothing remembers it. `Age` lets a directory grow older
than an hour only when no save is about to commit it, which is the code's own
assumption. A check and the removal of one directory are one step, and a
removal either happens or not.

### RemoteDelivery

A file is a number standing for its path, size and modification time; every
write makes a new one, with its content in `written`. `delivery` is the request
being served, `ledger` the JSON record, `exists`, `added` and `saved` the remote
table. `forgotten` holds the keys that the limit or the loss of the file removed
from the record; it follows the limit, not the code, so a code that forgets more
is caught. One target table. `Load`, `Prepare` and `ShowRevision` keep of the
dataset only which file or rows a delivery would read; `History` has them in
full. Changes an administrator makes to the table, connection profiles, the
privacy variant and the preflight on columns are left out.

### Updater

`check` and `pending` are the two mutexes of `UpdaterState`, `cancelled` the
tokens, `work` the asynchronous commands, `panel` the React state. A token is
named by its command. Waiting for the network happens between actions; a reload
of the window forgets the panel and leaves the commands running.

### Session

A command is a `Script`: the critical sections its handler runs, in order, each
with the mutex it waits for, whether the guard is kept until the command returns,
and its effect. `current`, `comparison`, `selection` and `copies` are the fields
of `DatasetState` (`converted_sources` is the last), `lock[l]` who holds each
mutex, `newest[k]` the command that got the last generation of a kind, `task[t]`
a command with what it has read so far. A dataset, a comparison or a converted
copy has the name of the task that made it; equality of names stands for the
stamp `DatasetMutationStamp` and for the path of a comparison's snapshot. A panic
is `Fail`. `EveryCommandEnds` is where a deadlock would show: `open_project`
nests the commit lock and `current` one way, `restore_project_version` the other.

### Comparison, Joins and LocalQuery

A row is a function from columns to small values or null; blocks have
`BlockRows` rows, and `BucketOf` stands for the hash that spreads keys over
spill files. Each operator follows one function of the code: what it reads block
by block is read block by block, what it groups by bucket is grouped by bucket,
and a SQL query is the relation it denotes, with its explicit order. A decision
about a conflict names its number, as in the code. `QueryDataset` is the cascade
of `query_dataset`: DuckDB, blocks of the snapshot, rows in memory, a refusal.

Observed and abstracted: `local_compare` compares texts that look like numbers
as numbers, DuckDB as texts (values here are of one type); groups of a join are
ordered by first occurrence locally and by the least order of the SQL view, so
`JoinQueriesAgree` compares groups as sets; the limit on aggregated rows exists
in the local engine only, and is an exception of `QueryRoutesAgree` and of
`JoinQueriesAgree`. The local engine may refuse a join for its limits and for
nothing else: `MayRefuseJoin` counts the pairs of rows with equal keys directly,
where the engine adds them up by bucket.

### Recipes and RecipePlans

A recipe is a record of its parts (renames, casts, dates, filters, replacement,
kept columns, calculations, split, merge, outliers, contacts, extractions,
summary). `EagerRecipe` is the evaluation row by row; `LazyRecipe` the plan of
Polars with its own validation, its order of stages and its counts; `DiskRecipe`
the projection in SQL. Each route is a list of named stages that `AfterStages` runs
one on the frame of the other; the counts are read from the frames before and
after a stage. Conversions of one text (`Convert`, `NumberIn`, patterns,
segments) are parameters. `ApplyRecipe` chooses the route as the code does.

`RecipeRoutesAgree` names where the code lets the routes differ:
`RefusedByLazyPlan` (filters and calculations are validated against rows that
the recipe leaves out), `RefusedByDiskPlan` (cyclic renames, a literal divisor
0, operands that are not numbers in a row with a null, a summary of extracted
columns), `ReplacesDates` ("every text" turns parsed dates into texts on disk and
is refused by the lazy plan), `OverwritesRenamed` (a calculated column with the
new name of another replaces it in the lazy plan), `TreatsDropped` (on disk a
column that is not kept is treated too), `WithEmptySums` (the sum of no values
is null on disk and 0 in memory), and `TreatsRenamed`, which is finding 4. A
lazy plan counts the rows it removes as outliers among the filtered ones too; a
test of the repository expects it.

### Cleaning

Every correction of Prepare (duplicates, near duplicates, empty rows, columns,
masks, names, audit, texts, numbers, dates, missing values, outliers, and the
plan of proposed corrections) as what it makes of a frame in memory and as what
DuckDB makes of the same rows. What both decide by the same condition is written
once. Texts are model values; what normalises, trims, reads as a boolean or a
number is a parameter, with a text for each case the code tells apart (markers,
blank, tabs, leading zeros, decimals, integers beyond 2^53, doubtful encodings).

`CleaningRoutesAgree` names the differences: a lone row has constant columns on
disk only (`LoneRow`); in memory imputed integers pass through floats, and
integer columns of other widths are filled too (`FillsOtherwise`); on disk
markers of no value weigh against the suggested type (`WeighsMarkers`), white
space other than spaces is a value where a column is filled or typed
(`TakesTabsForText`), and limiting outliers makes numbers floats (`ShownAnswer`).
No document says otherwise of these. Of two more cases it says nothing
(`Claimed`), because there the code contradicts what the program says, and
agreement is not what it does: the proposed plan that DuckDB makes over a
dataset with `_cambios` (`PlannedOnDisk`) and the removal of a row that is empty
but for white space other than spaces (`RowsOfTabs`); section 4 describes both.
The same plan without that column, and every other removal of empty rows, must
agree; with `_cambios` on, every other correction must give the same labels too.

What an answer says is checked on each route by itself (`TellsTheTruth`): it
publishes exactly when something changed, counts the rows that are gone, and
labels every row that stays, changed or not, as `append_audit_label` does and
`dataset/tests.rs:11410-11440` expects.

### Calculations

Three machines in one: `current` and `compared`, `table`, or `soiled` is filled a
row at a time from a small universe of rows, so that every small dataset is a
state; the properties compare the routes in each.

## 3. Runs

| Run | Instance | What it asks |
|---|---|---|
| `OperationGate` | 3 threads, kinds open (locked begin), review (exclusive), export (no lock), 2 commands per kind | `GateInv`, `AnsweredCancelIsFinal`, `OnlyTheNewestCommits`, `OneReviewMutation`, `KeepsThePromise` |
| `History` | 3 entries, budget 4, files of 1, 3 or 5, 4 results, with Review | `TypeOK`, `HistoryIsWhole`, `ReadersAgree`, `OnlyCopyIsSafe`, `KeepsTheUndoLog`, `FilesAreImmutable`, `ReviewReplacesWhatItRead` |
| `ProjectCatalog` | one desktop process, 2 projects, 5 generations, 2 versions, quota 3 | `TypeOK`, `CatalogIsReadable`, `RetentionHolds`, `NothingLeaks`, `KeepsTheShelf` |
| `SharedStore` | two command-line processes, 1 project, 4 generations | `CurrentIsReadable` |
| `OpenDataset` | one desktop process, 1 project, 3 large generations | finding 1 |
| `RemoteDelivery` | 1 content, 2 requests, 2 records, 3 files | `TypeOK`, `SavedIsOnRecord`, `CommittedWasSaved`, `NoKeyIsRepeatedSilently` |
| `RepeatedAppend` | 1 content, 1 request, 2 records, 3 files | finding 2 |
| `Session` | 3 commands of 5, 8 and 8 kinds, fairness | `CopyIsKept`, `ProfileIsOfDataset`, `EveryCommandEnds`, `PublishesWhatItRead` |
| `Consolidation` | the same | finding 3 |
| `Calculations` | up to 3 + 3 rows (4 in all) of 7 to compare, 4 of 5 to prepare, 4 of 15 (2 different) to clean | the nine properties named `...Agree` and `ExceptionsLeaveNoTrace` |
| `RenamedOutliers` | up to 4 rows of 5 to prepare | finding 4 |
| `Updater` | 3 commands, 2 versions, fairness | `TypeOK`, `MarksNameRunningWork`, `InstallsWhatItShows`, `PanelMatchesPending`, `CancelIsObeyed` |

Why the bounds are enough:

- *OperationGate.* Two operations of a kind and a canceller are the actors of
  every race here; `MaxGeneration` (a bound on the commands issued, not in the
  code, where the counter is 64 bits wide) lets each kind be begun and cancelled
  twice. The safety properties are also proved for any number of each.
- *History.* Three entries let the log trim, cut a redo branch and undo twice;
  the sizes contain one file over the whole budget (history disabled), one that
  forces a trim and one that does not. The real limits are 12 entries and 1 GiB.
  `MaxVersion` bounds the results computed, `MaxFiles` the files that may exist
  when a degraded operation leaves one behind, `MaxId` the snapshot ids, high
  enough never to wrap. Deadlock is not checked: a person may stop.
- *ProjectCatalog.* Two projects and two versions let a save prune, a restore
  swap, and one project's cleanup meet the other's rows; the five generations
  are small ones, large ones opened in place and the quota is exceeded by two.
- *SharedStore.* Two processes are enough for one to reconcile while the other
  saves.
- *RemoteDelivery.* Three file identities and the rows themselves make four keys,
  more than the two records, so the record evicts. One content suffices: the
  properties compare keys, and two files of equal content are the interesting
  case. The interface runs one delivery at a time (`exportInFlightRef`), so the
  requests never overlap. The real limit is 200 records.
- *Session.* A cycle of waits or a publication over something newer takes two
  commands, and a third to cancel, discard or replace; each task has the kinds
  that matter in its place (`MCMenu`), each issued once. Deadlock is not checked
  as such: when all commands have returned nothing is left to do, and
  `EveryCommandEnds` says that they return.
- *Calculations.* Blocks of two rows, two buckets and pages of two put every
  boundary inside four rows; the rows to compare have repeated, different and
  null keys and payloads, those to prepare and to clean have one text for each
  case a function distinguishes. The quartiles need four numbers; `MaxDistinct`
  lets two kinds of dirty row meet. The thresholds of the code (samples of 25,
  80 or 90 %) are parameters with values that four rows can cross. There is
  nothing to do when the datasets are full, so deadlock is not checked.
- *Updater.* A check, a download it meets and a third command of the reloaded
  panel are the longest overlap the marks allow.

Fairness. `Session` assumes that a blocking thread that can go on does (weak
fairness of each command); it assumes nothing of the interface. The standard
library's mutex is not first-in first-out: weak fairness suffices here because
the competing commands are bounded. `Updater` assumes that a command
that has what it waits for goes on, and nothing of the network, the installer or
the person; in the code the wait on the token and the wait on the network are
arms of one `select!`.

## 4. Findings

1. **An open project deleted under the person** (`OpenDataset`,
   `projects.rs:1749`). A project of 512 MiB or more without history is opened
   in place. Deleting it, or saving it until the version opened is pruned,
   removes the only file the open dataset has. The interface announces that the
   open dataset is kept (`useProjectsController.ts:494`,
   `ProjectsPanel.tsx:385`), and the test of it uses a small project.
2. **An append repeated without a question** (`RepeatedAppend`,
   `dataset.rs:9308`). "Same content" is the same *file* (path, size, time), or
   the same rows on the other route. The same rows get another key after a
   reload, a restart, a materialisation, or when rules or privacy change the
   route. `remote_delivery_ledger.rs:4-6`, `dataset.rs:9292` and
   `THREAT_MODEL.md:80` promise the dialog for the same content. What does hold
   is `NoKeyIsRepeatedSilently`: the same key always asks.

3. **A comparison that cannot be consolidated** (`Consolidation`,
   `dataset.rs:1796`). The comparison remembers the size of the file chosen;
   consolidating and resolving conflicts check it against the snapshot, which is
   another file unless the one chosen was Parquet. After a comparison with CSV,
   TSV, TXT, JSON or Excel both always answer that the snapshot changed.
   `docs/reference/feature-parity.md:171-178` describes the consolidation from
   that snapshot; the tests put the snapshot's own size in by hand.
4. **Outliers of a renamed column** (`RenamedOutliers`,
   `recipe_engine.rs:1452`). Without filters the bounds are looked up by the new
   name in the columns of the source: the recipe is refused, or takes the bounds
   of the column that had that name. `tests.rs:15415` asserts that treatments
   follow renames, on a recipe that another route evaluates.

Two disagreements have no run, and no passing property covers them: they are
what `CleaningRoutesAgree` leaves out.

- *Changes without a label* (`PlannedOnDisk`, `dataset.rs:5442-5462`). Once
  `_cambios` is on, `PreparePhase.tsx:400` says that every later correction adds
  its operation to the affected row. The proposed plan that DuckDB makes over a
  dataset backed by its source has a projection of its own, which carries the
  column as it is: in the model a row whose white space it trims gets no label.
  The other corrections on disk, and the plan in memory, label.
- *Rows of tabs* (`RowsOfTabs`, `dataset.rs:2240`). `PreparePhase.tsx:464` and
  `feature-parity.md:231-233` say that rows of nulls and blank text are removed,
  on disk too. `TRIM` of SQL takes only spaces away: in the model DuckDB keeps a
  row with a tab and two nulls, which the frame in memory loses.

Also seen and not promised otherwise by any document, hence not in a run: with
two processes that restore or save on one store, the catalogue can name a
directory that the other removed (see the hazards).

## 5. Proofs

Every safety property, action property and refinement that a passing run checks
is a theorem, except four of those of `Calculations`. The assumptions are those the
modules declare on their constants; where a theorem needs more, it says so.

`OperationGateProofs`, for any threads, kinds and bound, from `GateAssumption`:

- `GateInvariant`: `Spec => []GateInv`. The inductive invariant adds to the
  properties who owns a commit lock (`LockOwnership`), that a thread has a kind
  exactly while it runs (`KindWhileRunning`), and that generations handed out
  are fresh (`GenerationsAreFresh`). Without ownership, a cancel could slip
  between the check and the publication of another thread; without freshness, a
  new command could be taken for one that was cancelled.
- `CancelFinality`, `NewestCommits`: its two parts as properties of `Spec`.
- `ReviewIsExclusive`: the in-flight flag, by an invariant of its own.
- `GateRefinesPromise`: every step is a step of `CancellableOperations` or a
  stutter, under `StatusOf`.

`HistoryProofs`, from `HistoryAssumption` (any limits, sizes, versions, files and
identifiers, none of them assumed finite or ordered in any way):

- `HistoryTypes`, `HistoryStaysWhole`, `ReadersShowTheSame`, `OnlyCopyStays` come
  from one invariant, `IInv`. To `HistoryIsWhole` and `ReadersAgree` it adds that
  every file is of a result already computed and only the file of the person
  holds anything else (`FilesAreDated`: otherwise a new result could find an old
  file under its name), that the source is what is on screen, with the size noted
  for it (`SourceIsShown`: otherwise a rewritten source would become a baseline),
  and that a Review command reads what its stamp names (`ReviewIsStamped`). Free
  identifiers are searched cyclically in the code; the proof only uses that the
  one found names no file.
- `FilesStayAsWritten`: no step gives a file of the directory other content.
- `ReviewLosesNothing`: a Review result replaces the version it was computed
  from. It has the hypothesis `[]LastIdIsFree`: no revision has the identifier
  2^64 - 1. Past it identifiers are used again, and a stamp could match a
  dataset that is another one.

- `UndoLogIsKept`: each step is one of `UndoLog` or none; the log is read through
  the files, so that a revision whose file had other content would not do.

`ProjectCatalogProofs`, from `CatalogAssumption`:

- `CatalogTypes`: the type invariant, strengthened with the operands an
  operation has at each step.
- `CatalogReadable`: with one process on the store (`OneProcess`), every
  generation the catalogue names has its directory, through crashes at any step.
  The invariant adds what is about to be named is on disk, and what is about to
  be removed is referenced by nothing; the hard step is that pruning notes
  exactly the names that left the list. With two processes this is not so, see
  the hazards.
- `CurrentStaysReadable`: with any number of processes but no desktop
  (`Desktop = {}`: nothing is opened or restored, as with `columnia-cli`), the
  current generation of each project has its directory. The invariant `ShareInv`
  says that the target of a save is nobody else's (`Disjoint`), that once staged
  it is on disk and too young to be stale (`Written`), and that no list of names
  to remove holds the current generation of another project (`Spares`), although
  such lists are made before the transaction of another process.

- `NothingIsLeftBehind`, again for one process: each step accounts for the files and references it
  drops (`Accounted`), so only a crash or a directory that cannot be removed
  loses disk space.
- `CatalogIsShelf`, for one process: the catalogue implements `ProjectShelf`; the addition to the
  invariant is that a restore under way names a version that is still listed.
- `RetentionIsKept`, for one process: versions stay within their number and bytes. The bytes
  recorded with a version are those on disk because what the catalogue names was
  there when it was measured. The sum over a list is a fold of the community
  modules; that it exists, is unique and splits is shown by taking a smallest
  counterexample among the finite sets (`SmallestSet` of `FoldLemmas`, from
  `WFMin`), which needs no induction theorem.

`RemoteDeliveryProofs`, from `DeliveryAssumption`:

- `DeliveryTypesHold`, `SavedStaysOnRecord`, `CommittedMeansSaved`,
  `NoSilentRepetition`: for any contents, requests and limit of the record. The
  invariant follows a delivery between its two records: it is on record before
  its commit (`OnRecordBeforeCommit`), what it is about to record as committed
  was saved (`SavedWhenCommitted`), and it is of a key not saved before unless
  the person agreed (`NewUnlessAgreed`), which no other delivery can undo because
  there is one at a time (`OneDelivery`).

`UpdaterProofs`, from `UpdaterAssumption`:

- `UpdaterTypes`, `MarksAreHonest`, `InstalledWasShown`, `PanelIsCurrent`: the
  four safety properties of the run, for any commands and versions. The panel
  and the pending update change in different steps, so the invariant says what
  is pending while an answer is on its way to the panel (`AwaitedIsPending`),
  what is pending while the panel shows a version (`ShownIsPending`), and whose
  bytes a download carries (`DownloadsPending`, `BytesArePending`).

`SessionProofs`, from `SessionAssumption` and `MenuAssumption`, for any number of
commands of any kind:

- `ProfileOfDataset`: the profile kept with the active dataset was computed
  from it. The lemma it rests on (`DatasetSteps`) says that a step leaves the
  dataset, replaces it by one without a profile, or keeps the profile of the one
  that is there, which holds because the id is compared under the session lock.
- `CopyStays`, `PublicationsAreRead`: the copy in use is kept, and what is
  published follows from what was read. The lemma `Scripts` reads off the twenty
  scripts which guard and which check come before which effect; `StepMoves` says
  what a step does to its task and to what it shares. `SessionInv` then has four
  parts: a command holds the guards it took (`Guarded`), a load past its check is
  the newest and holds the commit lock (`Answers`), while it is the newest the
  selection names the file it read (`ReadsTheSelection`), and the inputs of a
  Review mutation past its checks are those it read (`Stamped`). Each is kept
  because whoever could change it waits for a guard that is held.

`CalculationProofs`, for any rows, any number of them, any keys and decisions and
any size of the blocks. The theorems rest on `CalculationsAssumption` (every key has
a bucket, decisions are those the program accepts, cells are numbers or null, queries
have been parsed), `ComparisonAssumption` (there are finitely many buckets),
`JoinsAssumption` and `LocalQueryAssumption`. Each is a fact about every dataset, so the state machine
contributes only that `current` and `compared` are datasets:

- `ReviewIsOneAnswer`: the summary of a comparison is the same from rows in memory
  and from spilled buckets, and three ways of listing its conflicts number them
  alike. The index of a route and its groups are shown to be the same relation
  on keys; what is counted per bucket adds up to what is counted at once, because
  the buckets divide the keys (`CountOverBuckets`); and a list of conflicts is
  determined by its set and its order (`ListElement`), so that it is enough that
  the routes order the same conflicts alike.
- `ConsolidationIsOneAnswer`: the same refusals, the active rows first, and then
  the compared rows of new keys, so that keys stay unique.
- `ResolutionIsOneAnswer`: a decision names a number; both routes give the
  numbers to the same conflicts, hence replace the same rows. Settling all of them leaves no conflict.
- `JoinIsOneAnswer`: a joined row is a pair of places, one of which may be
  `NoRow`, and the order of the result is a strict order on pairs. A list made
  block by block is the list of the whole when every pair of an earlier block
  comes before every pair of a later one (`ListingOfParts`); the blocks of the
  active rows are such parts, and so are the blocks of rows without partner,
  which come after. The order of the SQL view agrees with that order on the pairs
  there are. The rows are no more than the bound checked before joining, which
  is a sum over buckets and keys (`UnionIsSummed`).
- `QueriesAreOneAnswer`: the matches of the blocks are pieces of the matches of
  the dataset (`MatchesOfPieces`). The window of rows is a fold over the blocks,
  whose invariant is where it stands after the matches passed (`WindowAfter`). The
  groups are a fold over the rows of a block within a fold over the blocks; its
  invariant `Grouped` says that the keys are those met, in the order of their first
  rows (`InTurn`, `Known`), and that each state is that of the rows of its group
  that the aggregate counts (`StatesAre`). A list of keys with `InTurn` is the one
  the other engine sorts (`OrderedGroups`, by `RankIsCarried`), and a state finishes
  as the value over its rows (`StateFinishes`). The folds are those of the community
  modules, each shown to exist and to go one step at a time (`FoldUpExists`).

`FoldLemmas` holds what these proofs and `RetentionIsKept` share. None of it uses
an induction theorem: where an induction over numbers or finite sets is called for,
the proof takes a least counterexample (`LeastElement`, `SmallestSet`) and shows
that there is none.

Only model-checked:

- liveness (`EveryCommandEnds`, `CancelIsObeyed`), which is out of the prover's
  reach;
- `JoinQueriesAgree`: the rows of a join in blocks are those of the view, by
  `JoinIsOneAnswer`, but its window is another fold and its groups come in another
  order;
- `RecipeRoutesAgree`, `ExceptionsLeaveNoTrace`, `CleaningRoutesAgree`: recipes and
  corrections pass a frame through up to twenty stages, and filter and sort
  sequences with library operators that are recursive or defined by a choice. Each
  stage would be a theorem like those above.

The findings are counterexamples, which need no proof.

## 6. Plan

Done, in this order: OperationGate, History, ProjectCatalog, their abstract
specifications, RemoteDelivery, Updater, Session, the calculations of Review, of
queries and of Prepare, and the proofs of section 5, those about the
calculations of Review, about joins and about queries last. Next:

1. The remaining proofs about calculations: queries over joins, then recipes and
   corrections.
2. No cycle of waits in `Session` as a safety property, with its proof, beside
   `EveryCommandEnds`.
3. Local export: the temporary file, its validation and the rename, against
   cancellation and crash.
4. Request ids and revisions of the interface controllers against the backend.
5. Date inference and quality rules against a reference.
6. Session guard, task and preset catalogues, if they turn out to have hazards.

Not modelled and not planned: parsing of file formats, the text of the SQL, rendering,
statistics, privacy transforms, packaging. They are conversions of data or pure
input and output; their tests are the right tool.
