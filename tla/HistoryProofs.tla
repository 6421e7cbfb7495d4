---------------------------- MODULE HistoryProofs ----------------------------
(***************************************************************************)
(* Theorems about History, for any limits, budget, sizes and numbers of    *)
(* versions, identifiers and files.                                        *)
(***************************************************************************)
EXTENDS History, FoldLemmas, SequenceTheorems

(* The size of a log of one revision.                                      *)
LEMMA TotalBytesOfOne ==
  ASSUME NEW log, DOMAIN log = {1}, log[1].bytes \in Nat
  PROVE  TotalBytes(log) = log[1].bytes
<1> DEFINE b == log[1].bytes
           Iter(f) == f = [s \in SUBSET {1} |->
                             IF s = {} THEN 0
                             ELSE LET x == CHOOSE y \in s : TRUE
                                  IN  log[x].bytes + f[s \ {x}]]
           f0 == [s \in SUBSET {1} |-> IF s = {} THEN 0 ELSE b]
<1>1. \A s \in SUBSET {1} : s # {} => s = {1} /\ (CHOOSE y \in s : TRUE) = 1
  OBVIOUS
<1>2. Iter(f0)
  <2>1. \A s \in SUBSET {1} : s # {} =>
           LET x == CHOOSE y \in s : TRUE
           IN  log[x].bytes + f0[s \ {x}] = b
    BY <1>1
  <2> QED
    BY <2>1
<1>3. ASSUME NEW f, Iter(f)
      PROVE  f[{1}] = b
  <2>1. f[{}] = 0
    BY <1>3
  <2>2. f[{1}] = log[1].bytes + f[{}]
    BY <1>1, <1>3
  <2> QED
    BY <2>1, <2>2
<1>4. TotalBytes(log) = (CHOOSE f : Iter(f))[{1}]
  BY DEF TotalBytes, MapThenSumSet, MapThenFoldSet
<1> HIDE DEF Iter
<1> QED
  BY <1>2, <1>3, <1>4

-----------------------------------------------------------------------------
(* The inductive invariant.                                                *)

(* A path names no file that is still to be written: identifiers and       *)
(* versions are taken in order.                                            *)
Dated(p) == p \in Path /\ p[1] = "output" => p[2] <= latest

Snapshots == {Snapshot(id) : id \in 0 .. MaxId}

(* Every revision is a snapshot, and no file holds a version newer than    *)
(* the newest; only the file of the user holds what no command computed.   *)
FilesAreDated ==
    /\ PathsOf(entries) \subseteq Snapshots
    /\ \A p \in DOMAIN disk \cup {sourcePath} : Dated(p)
    /\ \A p \in DOMAIN disk : /\ disk[p].content \in (0 .. latest) \cup {Foreign}
                              /\ p # External => disk[p].content # Foreign
    /\ shown <= latest
    /\ Converted \in DOMAIN disk => disk[Converted].content = 0
    /\ External \in DOMAIN disk => disk[External].content \in {0, Foreign}

(* The file of the user is what the dataset shows until its first change;  *)
(* another program that rewrites it changes its size.  Afterwards the      *)
(* dataset lives on a file of the session.                                 *)
SourceIsShown ==
    /\ sourceSnapshot # NoPath => sourcePath = External
    /\ sourcePath = External =>
         /\ shown = 0 /\ Len(entries) <= 1
         /\ External \in DOMAIN disk /\ disk[External].bytes = fileBytes
              => disk[External].content = 0
         /\ External \in DOMAIN disk /\ disk[External].content = 0
              => disk[External].bytes = fileBytes
    /\ sourceBacked => sourcePath # NoPath
    /\ sourceBacked /\ sourcePath # External =>
         /\ sourcePath \in DOMAIN disk
         /\ disk[sourcePath].bytes = fileBytes
         /\ disk[sourcePath].content = shown

(* While the identifiers do not wrap around, what a revision, the source   *)
(* or a review refers to was written before the next identifier.           *)
Written(p) == p \in Path /\ p[1] = "snapshot" => p[2] < nextId

ReviewPaths == IF review = NoReview THEN {} ELSE {review.path, review.stamp.source}

IdsAreUsed ==
    /\ \A p \in PathsOf(entries) \cup {sourcePath} \cup ReviewPaths : Written(p)
    /\ \A p \in ReviewPaths : p \in Path \cup {NoPath} /\ Dated(p)

(* What the note of a review says it started from.                         *)
StampedBacking == IF review.stamp.converted # NoPath THEN review.stamp.converted
                                                     ELSE review.stamp.source

(* The note of a review names what it may read, and an eager review holds  *)
(* the rows it started from.                                               *)
ReviewIsStamped ==
    review # NoReview =>
      /\ review = [stamp |-> review.stamp, path |-> review.path,
                   read |-> review.read, held |-> review.held]
      /\ review.stamp.backed => review.path \in {NoPath, StampedBacking}
      /\ ~review.stamp.backed => /\ review.path \in {NoPath, review.stamp.revision}
                                 /\ review.held = review.stamp.frame

(* What a review has read is still what its file holds.                    *)
ReviewReads ==
    review # NoReview =>
      /\ /\ review.read # NoContent
         /\ review.path \in DOMAIN disk
         /\ review.path = External => disk[External].content = 0
         => review.read = disk[review.path].content
      /\ review.stamp.backed /\ review.held # NoContent =>
           /\ review.stamp.source = External => review.held = 0
           /\ review.stamp.source # External /\ review.stamp.source \in DOMAIN disk
                => review.held = disk[review.stamp.source].content

IInv ==
    /\ TypeOK
    /\ HistoryIsWhole
    /\ ReadersAgree
    /\ FilesAreDated
    /\ SourceIsShown
    /\ ReviewIsStamped

-----------------------------------------------------------------------------
(* The log of the revisions.                                               *)

(* A sequence without its first elements.                                  *)
LEMMA EndOfLog ==
  ASSUME NEW log \in Seq(Entry), NEW k \in 1 .. Len(log)
  PROVE  /\ SubSeq(log, k, Len(log)) \in Seq(Entry)
         /\ Len(SubSeq(log, k, Len(log))) = Len(log) - k + 1
         /\ DOMAIN SubSeq(log, k, Len(log)) = 1 .. Len(log) - k + 1
         /\ \A i \in 1 .. Len(log) - k + 1 : SubSeq(log, k, Len(log))[i] = log[k + i - 1]
<1>1. Len(log) \in Nat /\ \A i \in k .. Len(log) : log[i] \in Entry
  BY LenProperties, ElementOfSeq
<1>2. /\ SubSeq(log, k, Len(log)) \in Seq(Entry)
      /\ Len(SubSeq(log, k, Len(log))) = Len(log) - k + 1
      /\ \A i \in 1 .. Len(log) - k + 1 : SubSeq(log, k, Len(log))[i] = log[k + i - 1]
  BY <1>1, SubSeqProperties
<1> QED
  BY <1>2, LenProperties

(* A log whose newest revision is within the budget is cut to its newest   *)
(* revisions, within the limits.                                           *)
LEMMA TrimmedLog ==
  ASSUME NEW log \in Seq(Entry), log # <<>>, log[Len(log)].bytes <= DiskBudget
  PROVE  \E k \in 1 .. Len(log) :
            Trim(log) = SubSeq(log, k, Len(log)) /\ WithinLimits(Trim(log))
<1> DEFINE enough == {i \in DOMAIN log :
                        i = Len(log) \/ WithinLimits(SubSeq(log, i, Len(log)))}
           first == CHOOSE i \in enough : \A j \in enough : i <= j
<1>1. /\ Len(log) \in Nat /\ Len(log) >= 1 /\ DOMAIN log = 1 .. Len(log)
      /\ log[Len(log)] \in Entry
  BY LenProperties, EmptySeq, ElementOfSeq
<1>2. Len(log) \in enough /\ enough \subseteq 1 .. Len(log) /\ enough \in SUBSET Nat
  BY <1>1
<1>3. first \in enough
  <2> HIDE DEF enough
  <2> QED
    BY <1>2, LeastElement
<1>4. Trim(log) = SubSeq(log, first, Len(log))
  BY DEF Trim
<1>5. first \in 1 .. Len(log) /\ (first = Len(log) \/ WithinLimits(SubSeq(log, first, Len(log))))
  BY <1>1, <1>3
<1> HIDE DEF first, enough
<1>6. CASE first = Len(log)
  <2> DEFINE one == SubSeq(log, first, Len(log))
  <2>1. Len(one) = 1 /\ DOMAIN one = {1} /\ one[1] = log[Len(log)]
    BY <1>1, <1>6, EndOfLog
  <2> HIDE DEF one
  <2>2. one[1].bytes \in Nat
    BY <1>1, <2>1, HistoryAssumption DEF Entry
  <2>3. TotalBytes(one) <= DiskBudget
    BY <2>1, <2>2, TotalBytesOfOne
  <2>4. WithinLimits(one)
    BY <2>1, <2>3, HistoryAssumption DEF WithinLimits
  <2> QED
    BY <1>4, <1>5, <2>4 DEF one
<1> QED
  BY <1>4, <1>5, <1>6

(* The identifier taken for a revision is one that no file, no revision    *)
(* and no other destination has.                                           *)
LEMMA FreeDestination ==
  ASSUME NEW from \in Nat, NEW reserved, FreeIds(from, reserved) # {}
  PROVE  NextDestination(from, reserved) \in FreeIds(from, reserved)
<1>1. FreeIds(from, reserved) \in SUBSET Nat
  BY HistoryAssumption DEF FreeIds
<1> QED
  BY <1>1, LeastElement DEF NextDestination

(* The files there are now are some of `files`, as they were.              *)
Remain(files) ==
    /\ DOMAIN disk' \subseteq DOMAIN files
    /\ \A p \in DOMAIN disk' : disk'[p] = files[p]

(* What is removed is unwanted; what stays is as it was.                   *)
LEMMA FilesRemoved ==
  ASSUME NEW files, NEW unwanted, Removing(files, unwanted)
  PROVE  Remain(files) /\ DOMAIN files \ unwanted \subseteq DOMAIN disk'
BY DEF Removing, Without, Remain

(* Every revision of a log has a file of its own, of its size.             *)
WholeLog(log, files) ==
    \A i \in DOMAIN log :
        /\ log[i].path \in DOMAIN files
        /\ files[log[i].path].bytes = log[i].bytes
        /\ \A j \in DOMAIN log : log[i].path = log[j].path => i = j

(* The history that takes a log whose files exist is whole: what it keeps  *)
(* is the end of the log, its newest revision is on screen, and the files  *)
(* it removes are of none of those it keeps.                               *)
LEMMA Revised ==
  ASSUME NEW log \in Seq(Entry), log # <<>>, log[Len(log)].bytes <= DiskBudget,
         NEW id \in 0 .. MaxId, NEW files, NEW sources, WholeLog(log, files),
         Revise(log, id, files, sources)
  PROVE  /\ entries' \in Seq(Entry) /\ cursor' \in Nat /\ enabled' = TRUE
         /\ nextId' = (id + 1) % (MaxId + 1) /\ nextId' \in 0 .. MaxId
         /\ HistoryIsWhole'
         /\ \E k \in 1 .. Len(log) : entries' = SubSeq(log, k, Len(log)) /\ cursor' = Len(log) - k
         /\ PathsOf(entries') \subseteq PathsOf(log)
         /\ CursorEntry' = log[Len(log)]
         /\ log[Len(log)].path \in DOMAIN disk'
         /\ Remain(files)
<1>1. /\ Len(log) \in Nat /\ DOMAIN log = 1 .. Len(log)
      /\ \A i \in DOMAIN log : log[i] \in Entry
  BY LenProperties, ElementOfSeq
<1>2. PICK k \in 1 .. Len(log) :
         Trim(log) = SubSeq(log, k, Len(log)) /\ WithinLimits(Trim(log))
  BY TrimmedLog
<1>3. /\ entries' = SubSeq(log, k, Len(log))
      /\ cursor' = Len(entries') - 1
      /\ enabled' = TRUE
      /\ nextId' = (id + 1) % (MaxId + 1)
      /\ Removing(files, Discarded(sources, entries'))
      /\ WithinLimits(entries')
  BY <1>2 DEF Revise
<1>4. /\ entries' \in Seq(Entry)
      /\ Len(entries') = Len(log) - k + 1
      /\ DOMAIN entries' = 1 .. Len(log) - k + 1
      /\ \A i \in 1 .. Len(log) - k + 1 : entries'[i] = log[k + i - 1]
  BY <1>3, EndOfLog
<1>5. nextId' \in 0 .. MaxId
  BY <1>3, HistoryAssumption
<1>6. cursor' \in Nat /\ cursor' = Len(log) - k
  BY <1>1, <1>3, <1>4
<1>7. CursorEntry' = log[Len(log)]
  <2>1. cursor' + 1 = Len(log) - k + 1 /\ Len(log) - k + 1 \in 1 .. Len(log) - k + 1
    BY <1>1, <1>6
  <2>2. k + (Len(log) - k + 1) - 1 = Len(log)
    BY <1>1
  <2> QED
    BY <1>4, <2>1, <2>2 DEF CursorEntry
<1>8. ASSUME NEW i \in DOMAIN entries'
      PROVE  k + i - 1 \in DOMAIN log /\ entries'[i] = log[k + i - 1]
  BY <1>1, <1>4
<1>9. PathsOf(entries') \subseteq PathsOf(log)
  BY <1>8 DEF PathsOf
<1>10. Remain(files) /\ DOMAIN files \ Discarded(sources, entries') \subseteq DOMAIN disk'
  BY <1>3, FilesRemoved
<1>11. PathsOf(entries') \cap Discarded(sources, entries') = {}
  BY DEF Discarded
<1>12. ASSUME NEW i \in DOMAIN entries'
       PROVE  /\ entries'[i].path \in DOMAIN disk'
              /\ disk'[entries'[i].path].bytes = entries'[i].bytes
              /\ \A j \in DOMAIN entries' : entries'[i].path = entries'[j].path => i = j
  <2>1. entries'[i].path \in PathsOf(entries')
    BY DEF PathsOf
  <2>2. entries'[i].path \in DOMAIN files /\ files[entries'[i].path].bytes = entries'[i].bytes
    BY <1>8 DEF WholeLog
  <2>3. entries'[i].path \in DOMAIN disk'
    BY <1>10, <1>11, <2>1, <2>2
  <2>4. ASSUME NEW j \in DOMAIN entries', entries'[i].path = entries'[j].path
        PROVE  i = j
    <3>1. k + i - 1 = k + j - 1
      BY <1>8, <2>4 DEF WholeLog
    <3> QED
      BY <1>1, <1>4, <3>1
  <2> QED
    BY <1>10, <2>2, <2>3, <2>4 DEF Remain
<1>13. HistoryIsWhole'
  <2>1. WithinLimits(entries)'
    BY <1>3
  <2>2. enabled' /\ cursor' < Len(entries')
    BY <1>1, <1>3, <1>4, <1>6
  <2> QED
    BY <1>12, <2>1, <2>2 DEF HistoryIsWhole
<1>14. log[Len(log)].path \in DOMAIN disk'
  <2>1. cursor' + 1 \in DOMAIN entries'
    BY <1>1, <1>4, <1>6
  <2> QED
    BY <1>7, <1>12, <2>1 DEF CursorEntry
<1> QED
  BY <1>3, <1>4, <1>5, <1>6, <1>7, <1>9, <1>10, <1>13, <1>14

-----------------------------------------------------------------------------
(* What a change does to the history and its files.                        *)

(* It keeps the newest versions that can be undone to, the one it replaces *)
(* last.                                                                   *)
PastKept ==
    LET n == IF enabled THEN cursor ELSE 0
    IN  \E k \in 1 .. n + 2 :
          /\ cursor' = n + 2 - k
          /\ Len(entries') = cursor' + 1
          /\ \A i \in 1 .. cursor' :
               disk'[entries'[i].path].content =
                 IF k + i - 1 <= n THEN disk[entries[k + i - 1].path].content ELSE shown

(* A revision of the new version, of b bytes, is the newest; the files     *)
(* that were there are as they were, or gone, and the only other new one   *)
(* is a copy of what was on screen.                                        *)
Changed(id, b) ==
    /\ id \in nextId .. MaxId /\ Snapshot(id) \notin DOMAIN disk
    /\ entries' \in Seq(Entry) /\ cursor' \in Nat /\ enabled' = TRUE
    /\ nextId' = (id + 1) % (MaxId + 1) /\ nextId' \in 0 .. MaxId
    /\ HistoryIsWhole'
    /\ PathsOf(entries') \subseteq PathsOf(entries) \cup {Snapshot(i) : i \in nextId .. id}
    /\ CursorEntry' = Revision(id, b)
    /\ Snapshot(id) \in DOMAIN disk' /\ disk'[Snapshot(id)] = File(latest + 1, b)
    /\ \A p \in DOMAIN disk' \ {Snapshot(id)} :
         \/ p \in DOMAIN disk /\ disk'[p] = disk[p]
         \/ /\ p \notin DOMAIN disk
            /\ \E i \in nextId .. MaxId, base \in Sizes :
                 p = Snapshot(i) /\ disk'[p] = File(shown, base)
    /\ PastKept

(* The revisions of the history are revisions.                             *)
LEMMA EntryFacts ==
  ASSUME IInv
  PROVE  /\ Len(entries) \in Nat /\ DOMAIN entries = 1 .. Len(entries)
         /\ \A i \in 1 .. Len(entries) : /\ entries[i] \in Entry
                                         /\ entries[i].path \in PathsOf(entries)
                                         /\ entries[i].path \in DOMAIN disk
                                         /\ disk[entries[i].path].bytes = entries[i].bytes
         /\ enabled => cursor + 1 \in 1 .. Len(entries)
         /\ ~enabled => entries = <<>> /\ PathsOf(entries) = {} /\ cursor = 0
<1>1. Len(entries) \in Nat /\ DOMAIN entries = 1 .. Len(entries)
      /\ \A i \in 1 .. Len(entries) : entries[i] \in Entry
  BY LenProperties, ElementOfSeq DEF IInv, TypeOK
<1>2. cursor \in Nat /\ enabled \in BOOLEAN
  BY DEF IInv, TypeOK
<1> QED
  BY <1>1, <1>2 DEF IInv, HistoryIsWhole, PathsOf

(* A change of a dataset with history.                                     *)
LEMMA ChangedWithHistory ==
  ASSUME IInv, enabled, NEW id \in FreeIds(nextId, {}), NEW b \in Sizes, b <= DiskBudget,
         NEW sources,
         Revise(Append(KeptBranch, Revision(id, b)), id,
                With(disk, Snapshot(id), File(latest + 1, b)), sources)
  PROVE  Changed(id, b)
<1> DEFINE log == Append(KeptBranch, Revision(id, b))
           files == With(disk, Snapshot(id), File(latest + 1, b))
<1>1. /\ nextId \in Nat /\ id \in nextId .. MaxId /\ id \in 0 .. MaxId
      /\ Snapshot(id) \notin DOMAIN disk /\ Snapshot(id) \notin PathsOf(entries)
  BY HistoryAssumption DEF FreeIds, IInv, TypeOK
<1>2. Revision(id, b) \in Entry
  BY <1>1 DEF Revision, Snapshot, Entry, Path
<1>3. cursor \in Nat
  BY DEF IInv, TypeOK
<1>4. /\ KeptBranch \in Seq(Entry) /\ Len(KeptBranch) = cursor + 1
      /\ \A i \in 1 .. cursor + 1 : KeptBranch[i] = entries[i]
  <2>1. cursor + 1 \in 1 .. Len(entries) /\ \A i \in 1 .. cursor + 1 : entries[i] \in Entry
    BY <1>3, EntryFacts
  <2> QED
    BY <1>3, <2>1, SubSeqProperties DEF KeptBranch
<1>5. /\ log \in Seq(Entry) /\ log # <<>> /\ Len(log) = cursor + 2
      /\ DOMAIN log = 1 .. cursor + 2
      /\ \A i \in 1 .. cursor + 1 : log[i] = entries[i]
      /\ log[cursor + 2] = Revision(id, b)
  BY <1>2, <1>3, <1>4, AppendProperties, LenProperties
<1>6. /\ DOMAIN files = DOMAIN disk \cup {Snapshot(id)}
      /\ files[Snapshot(id)] = File(latest + 1, b)
      /\ \A q \in DOMAIN disk : q # Snapshot(id) => files[q] = disk[q]
  BY DEF With
<1> HIDE DEF log, files
<1>7. \A i \in 1 .. cursor + 1 : /\ i \in 1 .. Len(entries)
                                 /\ log[i].path \in PathsOf(entries)
                                 /\ log[i].path \in DOMAIN disk
                                 /\ disk[log[i].path].bytes = log[i].bytes
  BY <1>3, <1>5, EntryFacts
<1>8. PathsOf(log) \subseteq PathsOf(entries) \cup {Snapshot(id)}
  BY <1>3, <1>5, <1>7 DEF PathsOf, Revision
<1>9. WholeLog(log, files)
  <2>1. ASSUME NEW i \in 1 .. cursor + 2
        PROVE  log[i].path \in DOMAIN files /\ files[log[i].path].bytes = log[i].bytes
    <3>1. CASE i = cursor + 2
      BY <1>5, <1>6, <3>1 DEF Revision, File
    <3>2. CASE i # cursor + 2
      BY <1>1, <1>3, <1>6, <1>7, <3>2
    <3> QED
      BY <3>1, <3>2
  <2>2. ASSUME NEW i \in 1 .. cursor + 2, NEW j \in 1 .. cursor + 2,
               log[i].path = log[j].path
        PROVE  i = j
    <3>1. \A m \in 1 .. cursor + 1 : log[m].path # Snapshot(id)
      BY <1>1, <1>7
    <3>2. log[cursor + 2].path = Snapshot(id)
      BY <1>5 DEF Revision
    <3>3. \A m, n \in 1 .. cursor + 1 : log[m].path = log[n].path => m = n
      BY <1>3, <1>5, <1>7, EntryFacts DEF IInv, HistoryIsWhole
    <3> QED
      BY <1>3, <2>2, <3>1, <3>2, <3>3
  <2> QED
    BY <1>5, <2>1, <2>2 DEF WholeLog
<1>10. log[Len(log)] = Revision(id, b) /\ log[Len(log)].bytes <= DiskBudget
  BY <1>5 DEF Revision
<1>11. /\ entries' \in Seq(Entry) /\ cursor' \in Nat /\ enabled' = TRUE
       /\ nextId' = (id + 1) % (MaxId + 1) /\ nextId' \in 0 .. MaxId
       /\ HistoryIsWhole'
       /\ \E k \in 1 .. Len(log) : entries' = SubSeq(log, k, Len(log)) /\ cursor' = Len(log) - k
       /\ PathsOf(entries') \subseteq PathsOf(log)
       /\ CursorEntry' = log[Len(log)]
       /\ log[Len(log)].path \in DOMAIN disk'
       /\ Remain(files)
  <2>1. Revise(log, id, files, sources)
    BY DEF log, files
  <2> QED
    BY <1>1, <1>5, <1>9, <1>10, <2>1, Revised
<1>12. PathsOf(entries') \subseteq PathsOf(entries) \cup {Snapshot(i) : i \in nextId .. id}
  BY <1>1, <1>8, <1>11
<1>13. Snapshot(id) \in DOMAIN disk' /\ disk'[Snapshot(id)] = File(latest + 1, b)
  BY <1>6, <1>10, <1>11 DEF Revision, Remain
<1>14. \A p \in DOMAIN disk' \ {Snapshot(id)} : p \in DOMAIN disk /\ disk'[p] = disk[p]
  BY <1>6, <1>11 DEF Remain
<1>15. PastKept
  <2>1. PICK k \in 1 .. cursor + 2 : entries' = SubSeq(log, k, Len(log)) /\ cursor' = cursor + 2 - k
    <3>1. PICK k \in 1 .. Len(log) : entries' = SubSeq(log, k, Len(log)) /\ cursor' = Len(log) - k
      BY <1>11
    <3> QED
      BY <1>3, <1>5, <3>1
  <2>2. /\ Len(entries') = cursor' + 1
        /\ \A i \in 1 .. cursor' + 1 : entries'[i] = log[k + i - 1]
    BY <1>3, <1>5, <2>1, EndOfLog
  <2>3. ASSUME NEW i \in 1 .. cursor'
        PROVE  disk'[entries'[i].path].content =
                 IF k + i - 1 <= cursor THEN disk[entries[k + i - 1].path].content ELSE shown
    <3>1. k + i - 1 \in 1 .. cursor + 1 /\ entries'[i] = entries[k + i - 1]
      BY <1>3, <1>5, <2>1, <2>2
    <3>2. entries'[i].path \in DOMAIN disk'
      <4>1. i \in DOMAIN entries'
        BY <1>3, <1>11, <2>1, <2>2, LenProperties
      <4> QED
        BY <1>11, <4>1 DEF HistoryIsWhole
    <3>3. disk'[entries'[i].path] = disk[entries[k + i - 1].path]
      BY <1>1, <1>5, <1>7, <1>14, <3>1, <3>2
    <3>4. k + i - 1 = cursor + 1 => disk[entries[k + i - 1].path].content = shown
      BY DEF IInv, ReadersAgree, CursorEntry
    <3> QED
      BY <1>3, <3>1, <3>3, <3>4
  <2> QED
    BY <2>1, <2>2, <2>3 DEF PastKept
<1> QED
  BY <1>1, <1>10, <1>11, <1>12, <1>13, <1>14, <1>15 DEF Changed

(* A change of a dataset without history, which also keeps what it         *)
(* replaces.                                                               *)
LEMMA ChangedWithoutHistory ==
  ASSUME IInv, ~enabled, SourceReadable, NEW sources,
         NEW base \in Sizes, NEW b \in Sizes, base <= DiskBudget, b <= DiskBudget,
         NEW fst \in FreeIds(nextId, {}), NEW id \in FreeIds(fst + 1, {Snapshot(fst)}),
         Revise(<<Revision(fst, base), Revision(id, b)>>, id,
                With(With(disk, Snapshot(fst), File(disk[Backing].content, base)),
                     Snapshot(id), File(latest + 1, b)),
                sources)
  PROVE  Changed(id, b)
<1> DEFINE log == <<Revision(fst, base), Revision(id, b)>>
           files == With(With(disk, Snapshot(fst), File(disk[Backing].content, base)),
                         Snapshot(id), File(latest + 1, b))
<1>1. /\ nextId \in Nat /\ fst \in nextId .. MaxId /\ id \in fst + 1 .. MaxId
      /\ id \in nextId .. MaxId /\ id \in 0 .. MaxId
      /\ Snapshot(fst) \notin DOMAIN disk
      /\ Snapshot(id) \notin DOMAIN disk
      /\ Snapshot(id) # Snapshot(fst)
  BY HistoryAssumption DEF FreeIds, IInv, TypeOK
<1>2. Revision(fst, base) \in Entry /\ Revision(id, b) \in Entry
  BY <1>1 DEF Revision, Snapshot, Entry, Path
<1>3. /\ log \in Seq(Entry) /\ log # <<>> /\ Len(log) = 2 /\ DOMAIN log = 1 .. 2
      /\ log[1] = Revision(fst, base) /\ log[2] = Revision(id, b)
  BY <1>2
<1>4. disk[Backing].content = shown
  BY DEF IInv, ReadersAgree
<1>5. /\ DOMAIN files = DOMAIN disk \cup {Snapshot(fst), Snapshot(id)}
      /\ files[Snapshot(id)] = File(latest + 1, b)
      /\ files[Snapshot(fst)] = File(shown, base)
      /\ \A q \in DOMAIN disk : files[q] = disk[q]
  BY <1>1, <1>4 DEF With
<1>6. Revise(log, id, files, sources)
  OBVIOUS
<1> HIDE DEF log, files
<1>7. WholeLog(log, files)
  <2>1. ASSUME NEW i \in 1 .. 2
        PROVE  log[i].path \in DOMAIN files /\ files[log[i].path].bytes = log[i].bytes
    BY <1>3, <1>5 DEF Revision, File
  <2>2. ASSUME NEW i \in 1 .. 2, NEW j \in 1 .. 2, log[i].path = log[j].path
        PROVE  i = j
    <3>1. log[1].path # log[2].path
      BY <1>1, <1>3 DEF Revision
    <3> QED
      BY <2>2, <3>1
  <2> QED
    BY <1>3, <2>1, <2>2 DEF WholeLog
<1>8. log[Len(log)] = Revision(id, b) /\ log[Len(log)].bytes <= DiskBudget
  BY <1>3 DEF Revision
<1>9. /\ entries' \in Seq(Entry) /\ cursor' \in Nat /\ enabled' = TRUE
      /\ nextId' = (id + 1) % (MaxId + 1) /\ nextId' \in 0 .. MaxId
      /\ HistoryIsWhole'
      /\ \E k \in 1 .. Len(log) : entries' = SubSeq(log, k, Len(log)) /\ cursor' = Len(log) - k
      /\ PathsOf(entries') \subseteq PathsOf(log)
      /\ CursorEntry' = log[Len(log)]
      /\ log[Len(log)].path \in DOMAIN disk'
      /\ Remain(files)
  BY <1>1, <1>3, <1>6, <1>7, <1>8, Revised
<1>10. PathsOf(log) = {Snapshot(fst), Snapshot(id)}
  BY <1>3 DEF PathsOf, Revision
<1>11. PathsOf(entries') \subseteq PathsOf(entries) \cup {Snapshot(i) : i \in nextId .. id}
  <2>1. fst \in nextId .. id /\ id \in nextId .. id
    BY <1>1, HistoryAssumption
  <2> QED
    BY <1>9, <1>10, <2>1
<1>12. Snapshot(id) \in DOMAIN disk' /\ disk'[Snapshot(id)] = File(latest + 1, b)
  BY <1>5, <1>8, <1>9 DEF Revision, Remain
<1>13. ASSUME NEW p \in DOMAIN disk' \ {Snapshot(id)}
       PROVE  \/ p \in DOMAIN disk /\ disk'[p] = disk[p]
              \/ /\ p \notin DOMAIN disk
                 /\ \E i \in nextId .. MaxId, size \in Sizes :
                      p = Snapshot(i) /\ disk'[p] = File(shown, size)
  BY <1>1, <1>5, <1>9, <1>13 DEF Remain
<1>14. PastKept
  <2>1. PICK k \in 1 .. 2 : entries' = SubSeq(log, k, Len(log)) /\ cursor' = 2 - k
    BY <1>3, <1>9
  <2>2. /\ Len(entries') = cursor' + 1
        /\ \A i \in 1 .. cursor' + 1 : entries'[i] = log[k + i - 1]
    BY <1>3, <2>1, EndOfLog
  <2>3. ASSUME NEW i \in 1 .. cursor'
        PROVE  disk'[entries'[i].path].content = shown
    <3>1. k + i - 1 = 1 /\ i \in 1 .. cursor' + 1
      BY <2>1
    <3>2. entries'[i].path = Snapshot(fst)
      BY <1>3, <2>2, <3>1 DEF Revision
    <3>3. entries'[i].path \in DOMAIN disk'
      <4>1. i \in DOMAIN entries'
        BY <1>9, <2>1, <2>2, LenProperties
      <4> QED
        BY <1>9, <4>1 DEF HistoryIsWhole
    <3> QED
      BY <1>5, <1>9, <3>2, <3>3 DEF Remain, File
  <2>4. \A i \in 1 .. cursor' : ~ (k + i - 1 <= 0)
    BY <2>1
  <2>5. cursor' = 0 + 2 - k /\ k \in 1 .. 0 + 2
    BY <2>1
  <2> QED
    BY <2>2, <2>3, <2>4, <2>5 DEF PastKept
<1> QED
  BY <1>1, <1>8, <1>9, <1>11, <1>12, <1>13, <1>14 DEF Changed

(* The size of a log without revisions.                                    *)
LEMMA TotalBytesOfNone ==
  TotalBytes(<<>>) = 0
<1> DEFINE Iter(f) == f = [s \in SUBSET {} |->
                             IF s = {} THEN 0
                             ELSE LET x == CHOOSE y \in s : TRUE
                                  IN  <<>>[x].bytes + f[s \ {x}]]
           f0 == [s \in SUBSET {} |-> 0]
<1>1. \A s \in SUBSET {} : s = {}
  OBVIOUS
<1>2. Iter(f0)
  BY <1>1
<1>3. ASSUME NEW f, Iter(f)
      PROVE  f[{}] = 0
  BY <1>3
<1>4. TotalBytes(<<>>) = (CHOOSE f : Iter(f))[{}]
  BY DEF TotalBytes, MapThenSumSet, MapThenFoldSet
<1> HIDE DEF Iter
<1> QED
  BY <1>2, <1>3, <1>4

(* A history that lists nothing is whole.                                  *)
LEMMA NothingListed ==
  /\ WithinLimits(<<>>)
  /\ (enabled = FALSE /\ entries = <<>> /\ cursor = 0) => HistoryIsWhole
<1>1. WithinLimits(<<>>)
  BY TotalBytesOfNone, HistoryAssumption DEF WithinLimits
<1> QED
  BY <1>1 DEF HistoryIsWhole

-----------------------------------------------------------------------------
(* The paths no file had before: snapshots from the next identifier on,    *)
(* and the result files of new versions.                                   *)
NewPaths ==
    {Snapshot(i) : i \in nextId .. MaxId} \cup {Output(v) : v \in latest + 1 .. latest'}

(* Every command leaves the files that stay as they were, and writes only  *)
(* new ones.                                                               *)
Grown ==
    \A p \in DOMAIN disk' :
        IF p \in DOMAIN disk
        THEN disk'[p] = disk[p]
        ELSE /\ p \in NewPaths
             /\ disk'[p] \in [content : 0 .. latest', bytes : Sizes]

FilesAreTyped ==
    /\ DOMAIN disk \subseteq Path
    /\ \A p \in DOMAIN disk : disk[p] \in [content : Content, bytes : Sizes]

DiskIsDated ==
    /\ \A p \in DOMAIN disk : Dated(p)
    /\ \A p \in DOMAIN disk : /\ disk[p].content \in (0 .. latest) \cup {Foreign}
                              /\ p # External => disk[p].content # Foreign
    /\ Converted \in DOMAIN disk => disk[Converted].content = 0
    /\ External \in DOMAIN disk => disk[External].content \in {0, Foreign}

(* The paths of the session's files.                                       *)
LEMMA SessionPaths ==
  /\ \A p \in Snapshots : p \in Path /\ p[1] = "snapshot" /\ p \notin {NoPath, External, Converted}
  /\ \A v \in Nat : /\ Output(v) \in Path /\ Output(v)[1] = "output" /\ Output(v)[2] = v
                    /\ Output(v) \notin {NoPath, External, Converted} \cup Snapshots
  /\ External \in Path /\ Converted \in Path /\ External # Converted
  /\ External # NoPath /\ Converted # NoPath /\ NoPath \notin Path
  /\ External[1] = "external" /\ Converted[1] = "converted"
<1>1. NoPath \notin Path
  BY HistoryAssumption DEF Path
<1>2. MaxId \in Nat
  BY HistoryAssumption
<1>3. ASSUME NEW p \in Snapshots
      PROVE  p \in Path /\ p[1] = "snapshot" /\ p \notin {NoPath, External, Converted}
  <2>1. PICK id \in 0 .. MaxId : p = Snapshot(id)
    BY DEF Snapshots
  <2>2. p \in Path
    BY <1>2, <2>1 DEF Snapshot, Path
  <2>3. p[1] = "snapshot"
    BY <2>1 DEF Snapshot
  <2>4. External[1] = "external" /\ Converted[1] = "converted"
    BY DEF External, Converted
  <2> QED
    BY <1>1, <2>2, <2>3, <2>4
<1>4. External[1] = "external" /\ Converted[1] = "converted" /\ External \in Path /\ Converted \in Path
  BY DEF External, Converted, Path
<1>5. ASSUME NEW v \in Nat
      PROVE  /\ Output(v) \in Path /\ Output(v)[1] = "output" /\ Output(v)[2] = v
             /\ Output(v) \notin {NoPath, External, Converted} \cup Snapshots
  <2>1. Output(v) \in Path /\ Output(v)[1] = "output" /\ Output(v)[2] = v
    BY DEF Output, Path
  <2> QED
    BY <1>1, <1>3, <1>4, <2>1
<1>6. External # Converted
  BY <1>4
<1> QED
  BY <1>1, <1>3, <1>4, <1>5, <1>6

(* A new version is shown; what can be undone to is kept, or the history   *)
(* is off.                                                                 *)
Replaced == shown' = latest + 1 /\ (enabled' => PastKept)

(* The dataset moves to the paths the step took, the ones it had, or none. *)
(* The identifiers taken end before the next one.                          *)
Named ==
    /\ latest' = latest + 1
    /\ \/ /\ nextId' = nextId
          /\ PathsOf(entries') \cup {sourcePath'} \subseteq
               PathsOf(entries) \cup {NoPath, Output(latest + 1)}
       \/ \E id \in nextId .. MaxId :
            /\ nextId' = (id + 1) % (MaxId + 1)
            /\ Snapshot(id) \in PathsOf(entries')
            /\ PathsOf(entries') \cup {sourcePath'} \subseteq
                 PathsOf(entries) \cup {NoPath} \cup {Snapshot(i) : i \in nextId .. id}

(* Files that grow so are typed and dated.                                 *)
LEMMA GrownFiles ==
  ASSUME IInv, Grown, latest' \in latest .. MaxVersion
  PROVE  FilesAreTyped' /\ DiskIsDated'
<1>1. /\ latest \in Nat /\ latest' \in Nat /\ latest <= latest'
      /\ FilesAreTyped /\ DiskIsDated
  BY HistoryAssumption DEF IInv, TypeOK, FilesAreDated, FilesAreTyped, DiskIsDated
<1>2. ASSUME NEW p \in DOMAIN disk'
      PROVE  /\ p \in Path /\ disk'[p] \in [content : Content, bytes : Sizes]
             /\ Dated(p)'
             /\ disk'[p].content \in (0 .. latest') \cup {Foreign}
             /\ p # External => disk'[p].content # Foreign
             /\ p \notin DOMAIN disk => p \notin {External, Converted}
  <2>1. CASE p \in DOMAIN disk
    <3>1. disk'[p] = disk[p]
      BY <2>1 DEF Grown
    <3>2. p \in Path /\ disk[p] \in [content : Content, bytes : Sizes]
      BY <1>1, <2>1 DEF FilesAreTyped
    <3>3. p[1] = "output" => p[2] <= latest /\ p[2] \in Nat
      BY <1>1, <2>1, <3>2 DEF DiskIsDated, Dated, Path
    <3>4. Dated(p)'
      BY <1>1, <3>3 DEF Dated
    <3>5. /\ disk[p].content \in (0 .. latest) \cup {Foreign}
          /\ p # External => disk[p].content # Foreign
      BY <1>1, <2>1 DEF DiskIsDated
    <3>6. disk[p].content \in (0 .. latest') \cup {Foreign}
      BY <1>1, <3>5
    <3> QED
      BY <2>1, <3>1, <3>2, <3>4, <3>5, <3>6
  <2>2. CASE p \notin DOMAIN disk
    <3>1. /\ p \in NewPaths
          /\ disk'[p] \in [content : 0 .. latest', bytes : Sizes]
      BY <2>2 DEF Grown
    <3>2. /\ p \in Path /\ p \notin {External, Converted}
          /\ p[1] = "output" => p[2] <= latest'
      <4>1. CASE p \in Snapshots
        BY <4>1, SessionPaths
      <4>2. ASSUME NEW v \in latest + 1 .. latest', p = Output(v)
            PROVE  /\ p \in Path /\ p \notin {External, Converted}
                   /\ p[1] = "output" => p[2] <= latest'
        BY <1>1, <4>2, SessionPaths
      <4>3. \A i \in nextId .. MaxId : Snapshot(i) \in Snapshots
        BY HistoryAssumption DEF Snapshots, IInv, TypeOK
      <4> QED
        BY <3>1, <4>1, <4>2, <4>3 DEF NewPaths
    <3>3. Dated(p)'
      BY <3>2 DEF Dated
    <3>4. disk'[p].content \in 0 .. latest' /\ disk'[p].content # Foreign
          /\ disk'[p] \in [content : Content, bytes : Sizes]
      BY <1>1, <3>1, HistoryAssumption DEF Content
    <3> QED
      BY <3>2, <3>3, <3>4
  <2> QED
    BY <2>1, <2>2
<1>3. FilesAreTyped'
  BY <1>2 DEF FilesAreTyped
<1>4. /\ Converted \in DOMAIN disk' => disk'[Converted].content = 0
      /\ External \in DOMAIN disk' => disk'[External].content \in {0, Foreign}
  BY <1>1, <1>2 DEF Grown, DiskIsDated
<1>5. DiskIsDated'
  BY <1>2, <1>4 DEF DiskIsDated
<1> QED
  BY <1>3, <1>5

(* What a change writes is new, and computed before.                       *)
LEMMA ChangedFilesGrow ==
  ASSUME IInv, NEW id, NEW b \in Sizes, Changed(id, b), latest' = latest + 1
  PROVE  /\ Grown
         /\ Snapshot(id) \in Snapshots
         /\ PathsOf(entries') \subseteq Snapshots
<1>1. latest \in Nat /\ nextId \in Nat /\ shown \in Nat /\ shown <= latest /\ MaxId \in Nat
  BY HistoryAssumption DEF IInv, TypeOK, FilesAreDated
<1>2. id \in nextId .. MaxId
  BY DEF Changed
<1>3. \A i \in nextId .. MaxId : Snapshot(i) \in Snapshots
  BY <1>1 DEF Snapshots
<1>4. \A i \in nextId .. id : i \in nextId .. MaxId
  BY <1>1, <1>2
<1>5. PathsOf(entries') \subseteq Snapshots
  BY <1>3, <1>4 DEF Changed, IInv, FilesAreDated
<1>6. \A size \in Sizes : /\ File(latest + 1, size) \in [content : 0 .. latest', bytes : Sizes]
                          /\ File(shown, size) \in [content : 0 .. latest', bytes : Sizes]
  BY <1>1 DEF File
<1>7. ASSUME NEW p \in DOMAIN disk', p \notin DOMAIN disk
      PROVE  p \in NewPaths /\ disk'[p] \in [content : 0 .. latest', bytes : Sizes]
  <2>1. CASE p = Snapshot(id)
    BY <1>2, <1>6, <2>1 DEF Changed, NewPaths
  <2>2. CASE p # Snapshot(id)
    <3>1. \E i \in nextId .. MaxId, base \in Sizes :
             p = Snapshot(i) /\ disk'[p] = File(shown, base)
      BY <1>7, <2>2 DEF Changed
    <3> QED
      BY <1>6, <3>1 DEF NewPaths
  <2> QED
    BY <2>1, <2>2
<1>8. ASSUME NEW p \in DOMAIN disk', p \in DOMAIN disk
      PROVE  disk'[p] = disk[p]
  BY <1>8 DEF Changed
<1>9. Grown
  BY <1>7, <1>8 DEF Grown
<1> QED
  BY <1>2, <1>3, <1>5, <1>9

(* What the note of a review says is of the review alone.                  *)
LEMMA ReviewStaysStamped ==
  ASSUME ReviewIsStamped, review' \in {review, NoReview}
  PROVE  ReviewIsStamped'
BY DEF ReviewIsStamped, StampedBacking

(* A log, and what it says of the state when it changes.                   *)
LogIsTyped ==
    /\ entries \in Seq(Entry)
    /\ cursor \in Nat
    /\ enabled \in BOOLEAN
    /\ nextId \in 0 .. MaxId
    /\ PathsOf(entries) \subseteq Snapshots

(* The dataset that lives on a file the change wrote.                      *)
LEMMA FileShown ==
  ASSUME IInv, Grown, latest < MaxVersion, NEW b \in Sizes,
         NEW p \in Snapshots \cup {Output(latest + 1)},
         ShowFile(latest + 1, p, b), LogIsTyped', HistoryIsWhole',
         p \in DOMAIN disk', disk'[p] = File(latest + 1, b),
         enabled' => CursorEntry'.path = p,
         review' \in {review, NoReview}
  PROVE  IInv'
<1>1. /\ frame' = NoContent /\ sourceBacked' = TRUE /\ sourcePath' = p
      /\ fileBytes' = b /\ sourceSnapshot' = NoPath
      /\ shown' = latest + 1 /\ latest' = latest + 1
  BY DEF ShowFile
<1>2. /\ latest \in Nat /\ latest' \in latest .. MaxVersion /\ latest' \in 0 .. MaxVersion
      /\ shown' \in Nat /\ shown' = latest'
  BY <1>1, HistoryAssumption DEF IInv, TypeOK
<1>3. FilesAreTyped' /\ DiskIsDated'
  BY <1>2, GrownFiles
<1>4. /\ p \in Path /\ p \notin {NoPath, External, Converted}
      /\ p[1] = "output" => p[2] <= latest'
  <2>1. CASE p \in Snapshots
    BY <2>1, SessionPaths
  <2>2. CASE p = Output(latest + 1)
    BY <1>1, <1>2, <2>2, SessionPaths
  <2> QED
    BY <2>1, <2>2
<1>5. TypeOK'
  <2>1. sourceSnapshot' \in {NoPath, Converted} /\ sourcePath' \in Path \cup {NoPath}
        /\ fileBytes' \in Sizes /\ sourceBacked' \in BOOLEAN /\ frame' \in Nat \cup {NoContent}
    BY <1>1, <1>4
  <2> QED
    BY <1>2, <1>3, <2>1 DEF TypeOK, FilesAreTyped, LogIsTyped
<1>6. Backing' = p
  BY <1>1 DEF Backing
<1>7. disk'[p].content = shown' /\ disk'[p].bytes = b
  BY <1>1 DEF File
<1>8. ReadersAgree'
  BY <1>1, <1>6, <1>7 DEF ReadersAgree
<1>9. FilesAreDated'
  <2>1. Dated(p)'
    BY <1>4 DEF Dated
  <2>2. \A q \in DOMAIN disk' \cup {sourcePath'} : Dated(q)'
    BY <1>1, <1>3, <2>1 DEF DiskIsDated
  <2>3. shown' <= latest'
    BY <1>1, <1>2
  <2> QED
    BY <1>3, <2>2, <2>3 DEF FilesAreDated, DiskIsDated, LogIsTyped
<1>10. SourceIsShown'
  BY <1>1, <1>4, <1>7 DEF SourceIsShown
<1>11. ReviewIsStamped'
  BY ReviewStaysStamped DEF IInv
<1> QED
  BY <1>5, <1>8, <1>9, <1>10, <1>11 DEF IInv

(* The dataset whose rows are in memory.                                   *)
LEMMA FrameShown ==
  ASSUME IInv, Grown, latest < MaxVersion,
         ShowFrame(latest + 1), fileBytes' \in Sizes, LogIsTyped', HistoryIsWhole',
         enabled' => disk'[CursorEntry'.path].content = latest + 1,
         review' \in {review, NoReview}
  PROVE  IInv'
<1>1. /\ frame' = latest + 1 /\ sourceBacked' = FALSE /\ sourcePath' = NoPath
      /\ sourceSnapshot' = NoPath
      /\ shown' = latest + 1 /\ latest' = latest + 1
  BY DEF ShowFrame
<1>2. /\ latest \in Nat /\ latest' \in latest .. MaxVersion /\ latest' \in 0 .. MaxVersion
      /\ shown' \in Nat /\ shown' = latest'
  BY <1>1, HistoryAssumption DEF IInv, TypeOK
<1>3. FilesAreTyped' /\ DiskIsDated'
  BY <1>2, GrownFiles
<1>4. NoPath \notin Path /\ External \in Path
  BY SessionPaths
<1>5. TypeOK'
  <2>1. sourceSnapshot' \in {NoPath, Converted} /\ sourcePath' \in Path \cup {NoPath}
        /\ sourceBacked' \in BOOLEAN /\ frame' \in Nat \cup {NoContent}
    BY <1>1, <1>2
  <2> QED
    BY <1>2, <1>3, <2>1 DEF TypeOK, FilesAreTyped, LogIsTyped
<1>6. ~ SourceReadable'
  BY <1>1, <1>3, <1>4 DEF SourceReadable, FilesAreTyped
<1>7. ReadersAgree'
  BY <1>1, <1>6 DEF ReadersAgree
<1>8. FilesAreDated'
  <2>1. Dated(sourcePath)'
    BY <1>1, <1>4 DEF Dated
  <2>2. \A q \in DOMAIN disk' \cup {sourcePath'} : Dated(q)'
    BY <1>3, <2>1 DEF DiskIsDated
  <2>3. shown' <= latest'
    BY <1>1, <1>2
  <2> QED
    BY <1>3, <2>2, <2>3 DEF FilesAreDated, DiskIsDated, LogIsTyped
<1>9. SourceIsShown'
  BY <1>1, <1>4 DEF SourceIsShown
<1>10. ReviewIsStamped'
  BY ReviewStaysStamped DEF IInv
<1> QED
  BY <1>5, <1>7, <1>8, <1>9, <1>10 DEF IInv

(* The history that forgets its revisions removes files only.              *)
LEMMA Forgotten ==
  ASSUME IInv, NEW files, ForgetHistory(files)
  PROVE  /\ LogIsTyped' /\ HistoryIsWhole' /\ enabled' = FALSE /\ entries' = <<>>
         /\ Remain(files)
         /\ DOMAIN files \ (PathsOf(entries) \cup PreviousSources) \subseteq DOMAIN disk'
<1>1. entries' = <<>> /\ cursor' = 0 /\ enabled' = FALSE /\ nextId' = nextId
      /\ Removing(files, Discarded(PreviousSources, <<>>))
  BY DEF ForgetHistory
<1>2. PathsOf(<<>>) = {}
  BY DEF PathsOf
<1>3. Discarded(PreviousSources, <<>>) = PathsOf(entries) \cup PreviousSources
  BY <1>2 DEF Discarded
<1>4. LogIsTyped'
  <2>1. nextId' \in 0 .. MaxId
    BY <1>1 DEF IInv, TypeOK
  <2>2. entries' \in Seq(Entry) /\ PathsOf(entries') = {}
    BY <1>1, <1>2
  <2> QED
    BY <1>1, <2>1, <2>2 DEF LogIsTyped
<1>5. HistoryIsWhole'
  BY <1>1, NothingListed DEF HistoryIsWhole
<1>6. Remain(files) /\ DOMAIN files \ Discarded(PreviousSources, <<>>) \subseteq DOMAIN disk'
  BY <1>1, FilesRemoved
<1> QED
  BY <1>1, <1>3, <1>4, <1>5, <1>6

-----------------------------------------------------------------------------
(* Each step keeps the invariant and only grows the files.                 *)

(* Files that only remain are files that only grow.                        *)
LEMMA RemainingGrown ==
  ASSUME Remain(disk)
  PROVE  Grown
BY DEF Remain, Grown

(* A change that names its new revision, or no file, as the source.        *)
LEMMA ChangedIsNamed ==
  ASSUME IInv, NEW id, NEW b, Changed(id, b), latest' = latest + 1,
         sourcePath' \in {NoPath, Snapshot(id)}
  PROVE  Named
<1>1. /\ id \in nextId .. MaxId /\ nextId \in Nat /\ MaxId \in Nat
      /\ nextId' = (id + 1) % (MaxId + 1)
  BY HistoryAssumption DEF Changed, IInv, TypeOK
<1>2. Snapshot(id) \in {Snapshot(i) : i \in nextId .. id}
  BY <1>1
<1>3. Snapshot(id) \in PathsOf(entries')
  <2>1. /\ entries' \in Seq(Entry) /\ cursor' \in Nat /\ cursor' < Len(entries')
        /\ entries'[cursor' + 1] = Revision(id, b)
    BY DEF Changed, HistoryIsWhole, CursorEntry
  <2>2. cursor' + 1 \in DOMAIN entries'
    BY <2>1, LenProperties
  <2> QED
    BY <2>1, <2>2 DEF PathsOf, Revision
<1> QED
  BY <1>1, <1>2, <1>3 DEF Changed, Named

(* A result held in memory, published.                                     *)
LEMMA FrameInstalled ==
  ASSUME IInv, latest < MaxVersion, InstallFrame(latest + 1), ShowFrame(latest + 1),
         fileBytes' \in Sizes, review' \in {review, NoReview}
  PROVE  IInv' /\ Grown /\ Replaced /\ Named
<1>1. latest' = latest + 1 /\ shown' = latest + 1 /\ sourcePath' = NoPath
  BY DEF ShowFrame
<1>2. CASE ~enabled /\ UNCHANGED history /\ Removing(disk, Discarded(PreviousSources, entries))
  <2>1. entries' = entries /\ cursor' = cursor /\ enabled' = enabled /\ nextId' = nextId
    BY <1>2 DEF history
  <2>2. Remain(disk)
    BY <1>2, FilesRemoved
  <2>3. LogIsTyped'
    BY <2>1 DEF LogIsTyped, IInv, TypeOK, FilesAreDated
  <2>4. entries' = <<>> /\ cursor' = 0 /\ enabled' = FALSE
    BY <1>2, <2>1 DEF IInv, HistoryIsWhole, TypeOK
  <2>5. HistoryIsWhole'
    BY <2>4, NothingListed DEF HistoryIsWhole
  <2> QED
    BY <1>1, <2>1, <2>2, <2>3, <2>4, <2>5, RemainingGrown, FrameShown DEF Replaced, Named
<1>3. CASE ForgetHistory(disk)
  <2>1. PathsOf(entries') = {} /\ nextId' = nextId
    BY <1>3 DEF ForgetHistory, PathsOf
  <2>2. Named
    BY <1>1, <2>1 DEF Named
  <2> QED
    BY <1>1, <1>3, <2>2, Forgotten, RemainingGrown, FrameShown DEF Replaced
<1>4. ASSUME NEW b \in Sizes, enabled, b <= DiskBudget, FreeIds(nextId, {}) # {},
             Revise(Append(KeptBranch, Revision(NextDestination(nextId, {}), b)),
                    NextDestination(nextId, {}),
                    With(disk, Snapshot(NextDestination(nextId, {})), File(latest + 1, b)),
                    PreviousSources)
      PROVE  IInv' /\ Grown /\ Replaced /\ Named
  <2> DEFINE id == NextDestination(nextId, {})
  <2>1. id \in FreeIds(nextId, {})
    BY <1>4, FreeDestination DEF IInv, TypeOK
  <2>2. Changed(id, b)
    BY <1>4, <2>1, ChangedWithHistory
  <2> HIDE DEF id
  <2>3. Grown /\ PathsOf(entries') \subseteq Snapshots
    BY <1>1, <2>2, ChangedFilesGrow
  <2>4. LogIsTyped' /\ HistoryIsWhole'
    BY <2>2, <2>3 DEF Changed, LogIsTyped
  <2>5. disk'[CursorEntry'.path].content = latest + 1
    BY <2>2 DEF Changed, Revision, File
  <2>6. Replaced /\ Named
    BY <1>1, <2>2, ChangedIsNamed DEF Changed, Replaced
  <2> QED
    BY <2>3, <2>4, <2>5, <2>6, FrameShown
<1> QED
  BY <1>2, <1>3, <1>4 DEF InstallFrame

(* A result file, recorded and published.                                  *)
LEMMA FileRecorded ==
  ASSUME IInv, latest < MaxVersion, NEW b \in Sizes, NEW sources,
         RecordFile(latest + 1, b, sources), ~enabled => SourceReadable,
         review' \in {review, NoReview}
  PROVE  IInv' /\ Grown /\ Replaced /\ Named
<1>1. ASSUME NEW id, Changed(id, b), ShowFile(latest + 1, Snapshot(id), b)
      PROVE  IInv' /\ Grown /\ Replaced /\ Named
  <2>1. latest' = latest + 1
    BY <1>1 DEF ShowFile
  <2>2. Grown /\ PathsOf(entries') \subseteq Snapshots /\ Snapshot(id) \in Snapshots
    BY <1>1, <2>1, ChangedFilesGrow
  <2>3. LogIsTyped' /\ HistoryIsWhole'
    BY <1>1, <2>2 DEF Changed, LogIsTyped
  <2>4. /\ Snapshot(id) \in DOMAIN disk' /\ disk'[Snapshot(id)] = File(latest + 1, b)
        /\ CursorEntry'.path = Snapshot(id)
    BY <1>1 DEF Changed, Revision
  <2>5. Replaced /\ Named
    BY <1>1, <2>1, ChangedIsNamed DEF Changed, ShowFile, Replaced
  <2> QED
    BY <1>1, <2>2, <2>3, <2>4, <2>5, FileShown
<1>2. CASE /\ enabled
           /\ b <= DiskBudget
           /\ FreeIds(nextId, {}) # {}
           /\ Revise(Append(KeptBranch, Revision(FirstId, b)), FirstId,
                     With(disk, Snapshot(FirstId), File(latest + 1, b)), sources)
           /\ ShowFile(latest + 1, Snapshot(FirstId), b)
  <2>1. FreeIds(nextId, {}) # {} /\ nextId \in Nat
    BY <1>2, HistoryAssumption DEF IInv, TypeOK
  <2>2. FirstId \in FreeIds(nextId, {})
    BY <2>1, FreeDestination DEF FirstId
  <2> QED
    BY <1>1, <1>2, <2>2, ChangedWithHistory
<1>3. ASSUME ~enabled, BothIdsAreFree, b <= DiskBudget,
             NEW base \in BaselineBytes, base <= DiskBudget,
             Revise(<<Revision(FirstId, base), Revision(SecondId, b)>>, SecondId,
                    With(With(disk, Snapshot(FirstId), File(disk[Backing].content, base)),
                         Snapshot(SecondId), File(latest + 1, b)),
                    sources),
             ShowFile(latest + 1, Snapshot(SecondId), b)
      PROVE  IInv' /\ Grown /\ Replaced /\ Named
  <2>1. FirstId \in FreeIds(nextId, {})
    BY <1>3, FreeDestination DEF FirstId, BothIdsAreFree, IInv, TypeOK
  <2>2. FirstId + 1 \in Nat
    BY <2>1, HistoryAssumption DEF FreeIds, IInv, TypeOK
  <2>3. SecondId \in FreeIds(FirstId + 1, {Snapshot(FirstId)})
    BY <1>3, <2>2, FreeDestination DEF SecondId, BothIdsAreFree
  <2>4. base \in Sizes
    BY <1>3 DEF BaselineBytes, SourceReadable, IInv, TypeOK
  <2> QED
    BY <1>1, <1>3, <2>1, <2>3, <2>4, ChangedWithoutHistory
<1> QED
  BY <1>2, <1>3 DEF RecordFile

(* A command that publishes a frame keeps the invariant.                   *)
LEMMA PublishFrameStep ==
  ASSUME IInv, PublishFrame
  PROVE  IInv' /\ Grown /\ Replaced /\ Named
<1>1. fileBytes' \in Sizes /\ review' = review
  BY DEF PublishFrame, IInv, TypeOK
<1> QED
  BY <1>1, FrameInstalled DEF PublishFrame

(* A command that publishes a file within the budget keeps the invariant.  *)
LEMMA PublishFileStep ==
  ASSUME IInv, PublishFile
  PROVE  IInv' /\ Grown /\ Replaced /\ Named
BY FileRecorded DEF PublishFile

(* A command whose file does not fit forgets the history and keeps the     *)
(* invariant.                                                              *)
LEMMA PublishFileOverBudgetStep ==
  ASSUME IInv, PublishFileOverBudget
  PROVE  IInv' /\ Grown /\ Replaced /\ Named
<1>1. PICK b \in Sizes : /\ ForgetHistory(OutputKept(latest + 1, b))
                         /\ ShowFile(latest + 1, Output(latest + 1), b)
  BY DEF PublishFileOverBudget
<1> DEFINE p == Output(latest + 1)
           files == OutputKept(latest + 1, b)
<1>2. latest \in Nat /\ latest + 1 \in Nat /\ latest' = latest + 1 /\ latest < MaxVersion
      /\ ~ (latest + 1 <= latest) /\ review' = review
  BY <1>1, HistoryAssumption DEF ShowFile, PublishFileOverBudget, IInv, TypeOK
<1>3. /\ p \in Path /\ p[1] = "output" /\ p[2] = latest + 1
      /\ p \notin {NoPath, External, Converted} \cup Snapshots
  BY <1>2, SessionPaths
<1>4. ~ Dated(p)
  BY <1>2, <1>3 DEF Dated
<1>5. p \notin DOMAIN disk /\ p # sourcePath /\ p # sourceSnapshot /\ p \notin PathsOf(entries)
  BY <1>3, <1>4 DEF IInv, FilesAreDated, TypeOK
<1>6. /\ DOMAIN files = DOMAIN disk \cup {p}
      /\ files[p] = File(latest + 1, b)
      /\ \A q \in DOMAIN disk : files[q] = disk[q]
  BY <1>5 DEF OutputKept, With
<1>7. p \notin PathsOf(entries) \cup PreviousSources
  BY <1>5 DEF PreviousSources
<1>8. ForgetHistory(files)
  BY <1>1
<1> HIDE DEF files, p
<1>9. /\ LogIsTyped' /\ HistoryIsWhole' /\ enabled' = FALSE
      /\ Remain(files)
      /\ DOMAIN files \ (PathsOf(entries) \cup PreviousSources) \subseteq DOMAIN disk'
  BY <1>8, Forgotten
<1>10. p \in DOMAIN disk' /\ disk'[p] = File(latest + 1, b)
  BY <1>6, <1>7, <1>9 DEF Remain
<1>11. Grown
  <2>1. File(latest + 1, b) \in [content : 0 .. latest', bytes : Sizes]
    BY <1>2 DEF File
  <2>2. p \in NewPaths
    BY <1>2 DEF p, NewPaths
  <2> QED
    BY <1>6, <1>9, <2>1, <2>2 DEF Remain, Grown
<1>12. p \in Snapshots \cup {Output(latest + 1)} /\ ShowFile(latest + 1, p, b)
  BY <1>1 DEF p
<1>13. Replaced /\ Named
  <2>1. PathsOf(entries') = {} /\ nextId' = nextId
    BY <1>8 DEF ForgetHistory, PathsOf
  <2> QED
    BY <1>1, <1>9, <2>1 DEF ShowFile, Replaced, Named
<1> QED
  BY <1>2, <1>9, <1>10, <1>11, <1>12, <1>13, FileShown

(* A step that changes neither the files nor the dataset.                  *)
LEMMA QuietStep ==
  ASSUME IInv, UNCHANGED <<disk, history, dataset, latest>>, ReviewIsStamped'
  PROVE  IInv' /\ Grown
<1>1. /\ disk' = disk /\ entries' = entries /\ cursor' = cursor /\ enabled' = enabled
      /\ nextId' = nextId /\ sourceSnapshot' = sourceSnapshot /\ sourcePath' = sourcePath
      /\ fileBytes' = fileBytes /\ sourceBacked' = sourceBacked /\ frame' = frame
      /\ shown' = shown /\ latest' = latest
  BY DEF history, dataset
<1>2. TypeOK'
  BY <1>1 DEF IInv, TypeOK
<1>3. HistoryIsWhole'
  BY <1>1 DEF IInv, HistoryIsWhole
<1>4. ReadersAgree'
  BY <1>1 DEF IInv, ReadersAgree, SourceReadable, Backing, CursorEntry
<1>5. FilesAreDated'
  BY <1>1 DEF IInv, FilesAreDated, Dated
<1>6. SourceIsShown'
  BY <1>1 DEF IInv, SourceIsShown
<1>7. Grown
  BY <1>1 DEF Grown
<1> QED
  BY <1>2, <1>3, <1>4, <1>5, <1>6, <1>7 DEF IInv

(* Reading the source into memory leaves every file and revision where it  *)
(* is.                                                                     *)
LEMMA MaterializeStep ==
  ASSUME IInv, Materialize
  PROVE  IInv' /\ Grown
<1>1. /\ disk' = disk /\ entries' = entries /\ cursor' = cursor /\ enabled' = enabled
      /\ nextId' = nextId /\ sourceSnapshot' = sourceSnapshot /\ sourcePath' = sourcePath
      /\ fileBytes' = fileBytes /\ sourceBacked' = FALSE /\ sourceBacked
      /\ frame' = disk[Backing].content /\ review' = review
      /\ shown' = shown /\ latest' = latest
  BY DEF Materialize, history
<1>2. frame' = shown
  BY <1>1 DEF Materialize, IInv, ReadersAgree
<1>3. TypeOK'
  BY <1>1, <1>2 DEF IInv, TypeOK
<1>4. HistoryIsWhole'
  BY <1>1 DEF IInv, HistoryIsWhole
<1>5. ReadersAgree'
  BY <1>1, <1>2 DEF IInv, ReadersAgree, SourceReadable, Backing, CursorEntry
<1>6. FilesAreDated'
  BY <1>1 DEF IInv, FilesAreDated, Dated
<1>7. SourceIsShown'
  BY <1>1 DEF IInv, SourceIsShown
<1>8. ReviewIsStamped'
  BY <1>1, ReviewStaysStamped DEF IInv
<1>9. Grown
  BY <1>1 DEF Grown
<1> QED
  BY <1>3, <1>4, <1>5, <1>6, <1>7, <1>8, <1>9 DEF IInv

(* A baseline installed for a result that was not, and could not be        *)
(* removed, is a file that nothing names.                                  *)
LEMMA LeaveBaselineBehindStep ==
  ASSUME IInv, LeaveBaselineBehind
  PROVE  IInv' /\ Grown
<1>1. /\ entries' = entries /\ cursor' = cursor /\ enabled' = enabled /\ ~enabled
      /\ nextId' = nextId /\ sourceSnapshot' = sourceSnapshot /\ sourcePath' = sourcePath
      /\ fileBytes' = fileBytes /\ sourceBacked' = sourceBacked /\ frame' = frame
      /\ shown' = shown /\ latest' = latest /\ review' = review
  BY DEF LeaveBaselineBehind, history, dataset
<1>2. PICK base \in BaselineBytes :
         /\ BothIdsAreFree
         /\ disk' = With(disk, Snapshot(FirstId), File(disk[Backing].content, base))
  BY DEF LeaveBaselineBehind
<1>3. FirstId \in FreeIds(nextId, {})
  BY <1>2, FreeDestination DEF FirstId, BothIdsAreFree, IInv, TypeOK
<1>4. /\ Snapshot(FirstId) \notin DOMAIN disk
      /\ Snapshot(FirstId) \in Snapshots /\ Snapshot(FirstId) \in NewPaths
  BY <1>3, HistoryAssumption DEF FreeIds, Snapshots, NewPaths, IInv, TypeOK
<1>5. base \in Sizes /\ disk[Backing].content = shown
  BY <1>2 DEF LeaveBaselineBehind, BaselineBytes, SourceReadable, IInv, TypeOK, ReadersAgree
<1>6. shown \in 0 .. latest /\ latest' \in latest .. MaxVersion
  BY <1>1, HistoryAssumption DEF IInv, TypeOK, FilesAreDated
<1>7. /\ DOMAIN disk' = DOMAIN disk \cup {Snapshot(FirstId)}
      /\ disk'[Snapshot(FirstId)] = File(shown, base)
      /\ \A q \in DOMAIN disk : disk'[q] = disk[q]
  BY <1>2, <1>4, <1>5 DEF With
<1>8. Grown
  <2>1. File(shown, base) \in [content : 0 .. latest', bytes : Sizes]
    BY <1>1, <1>5, <1>6 DEF File
  <2> QED
    BY <1>4, <1>7, <2>1 DEF Grown
<1>9. FilesAreTyped' /\ DiskIsDated'
  BY <1>6, <1>8, GrownFiles
<1>10. TypeOK'
  BY <1>1, <1>9 DEF IInv, TypeOK, FilesAreTyped
<1>11. HistoryIsWhole'
  <2>1. entries' = <<>> /\ cursor' = 0 /\ enabled' = FALSE
    BY <1>1 DEF IInv, HistoryIsWhole, TypeOK
  <2> QED
    BY <2>1, NothingListed DEF HistoryIsWhole
<1>12. ReadersAgree'
  <2>1. Backing' = Backing /\ Backing \in DOMAIN disk
    BY <1>1 DEF Backing, LeaveBaselineBehind, SourceReadable
  <2>2. disk'[Backing'].content = shown'
    BY <1>1, <1>5, <1>7, <2>1
  <2> QED
    BY <1>1, <2>2 DEF IInv, ReadersAgree
<1>13. FilesAreDated'
  <2>1. Dated(sourcePath)'
    BY <1>1 DEF IInv, FilesAreDated, Dated
  <2> QED
    BY <1>1, <1>9, <2>1 DEF IInv, FilesAreDated, DiskIsDated
<1>14. SourceIsShown'
  <2>1. External # Snapshot(FirstId)
    BY <1>4, SessionPaths
  <2> QED
    BY <1>1, <1>7, <2>1 DEF IInv, SourceIsShown
<1>15. ReviewIsStamped'
  BY <1>1, ReviewStaysStamped DEF IInv
<1> QED
  BY <1>8, <1>10, <1>11, <1>12, <1>13, <1>14, <1>15 DEF IInv

(* Undo and redo.                                                          *)
LEMMA ShowRevisionStep ==
  ASSUME IInv, NEW target \in Nat, target < Len(entries), Len(entries) > 1,
         enabled, ShowRevision(target)
  PROVE  IInv' /\ Grown
<1> DEFINE p == entries[target + 1].path
<1>1. /\ disk' = disk /\ entries' = entries /\ cursor' = target /\ enabled' = enabled
      /\ nextId' = nextId /\ sourceBacked' = sourceBacked
      /\ shown' = disk[p].content /\ latest' = latest /\ review' = review
      /\ p \in DOMAIN disk
  BY DEF ShowRevision
<1>2. /\ sourceBacked => /\ frame' = NoContent /\ sourcePath' = p
                         /\ fileBytes' = disk[p].bytes /\ sourceSnapshot' = NoPath
      /\ ~sourceBacked => /\ frame' = disk[p].content /\ sourcePath' = sourcePath
                          /\ fileBytes' = fileBytes /\ sourceSnapshot' = sourceSnapshot
  BY DEF ShowRevision
<1>3. target + 1 \in 1 .. Len(entries)
  BY EntryFacts
<1>4. p \in Snapshots
  BY <1>3, EntryFacts DEF IInv, FilesAreDated
<1>5. p \in Path /\ p \notin {NoPath, External, Converted} /\ CursorEntry'.path = p
  BY <1>1, <1>4, SessionPaths DEF CursorEntry
<1>6. sourcePath # External /\ sourceSnapshot = NoPath
  BY EntryFacts DEF IInv, SourceIsShown
<1>7. latest \in Nat /\ disk[p].content \in 0 .. latest /\ disk[p].bytes \in Sizes
  <2>1. latest \in Nat /\ disk[p] \in [content : Content, bytes : Sizes]
    BY <1>1, HistoryAssumption DEF IInv, TypeOK
  <2>2. disk[p].content \in (0 .. latest) \cup {Foreign} /\ disk[p].content # Foreign
    BY <1>1, <1>5 DEF IInv, FilesAreDated
  <2> QED
    BY <2>1, <2>2
<1> HIDE DEF p
<1>8. TypeOK'
  <2>1. frame' \in Nat \cup {NoContent}
    BY <1>2, <1>7 DEF IInv, TypeOK
  <2>2. /\ sourceSnapshot' \in {NoPath, Converted} /\ sourcePath' \in Path \cup {NoPath}
        /\ fileBytes' \in Sizes
    BY <1>2, <1>5, <1>7 DEF IInv, TypeOK
  <2>3. shown' \in Nat /\ cursor' \in Nat
    BY <1>1, <1>7
  <2> QED
    BY <1>1, <2>1, <2>2, <2>3 DEF IInv, TypeOK
<1>9. HistoryIsWhole'
  BY <1>1 DEF IInv, HistoryIsWhole
<1>10. ReadersAgree'
  BY <1>1, <1>2, <1>5 DEF ReadersAgree, Backing, IInv, TypeOK
<1>11. FilesAreDated'
  <2>1. Dated(p)
    BY <1>1 DEF IInv, FilesAreDated
  <2>2. sourcePath' \in {p, sourcePath}
    BY <1>2 DEF IInv, TypeOK
  <2>3. \A q \in DOMAIN disk \cup {sourcePath'} : Dated(q)
    BY <2>1, <2>2 DEF IInv, FilesAreDated
  <2>4. \A q \in DOMAIN disk' \cup {sourcePath'} : Dated(q)'
    BY <1>1, <2>3 DEF Dated
  <2>5. shown' <= latest'
    BY <1>1, <1>7
  <2> QED
    BY <1>1, <2>4, <2>5 DEF IInv, FilesAreDated
<1>12. SourceIsShown'
  BY <1>1, <1>2, <1>5, <1>6 DEF IInv, SourceIsShown, TypeOK
<1>13. ReviewIsStamped'
  BY <1>1, ReviewStaysStamped DEF IInv
<1>14. Grown
  BY <1>1 DEF Grown
<1> QED
  BY <1>8, <1>9, <1>10, <1>11, <1>12, <1>13, <1>14 DEF IInv

(* Undo moves the cursor to a revision that has its file.                  *)
LEMMA UndoStep ==
  ASSUME IInv, UndoLastChange
  PROVE  IInv' /\ Grown
<1>1. cursor \in Nat /\ enabled /\ cursor > 0 /\ ShowRevision(cursor - 1)
  BY DEF UndoLastChange, CanUndo, IInv, TypeOK
<1>2. cursor - 1 \in Nat /\ cursor - 1 < Len(entries) /\ Len(entries) > 1
  BY <1>1, EntryFacts
<1> QED
  BY <1>1, <1>2, ShowRevisionStep

(* Redo moves it to one that was not trimmed.                              *)
LEMMA RedoStep ==
  ASSUME IInv, RedoLastChange
  PROVE  IInv' /\ Grown
<1>1. cursor \in Nat /\ enabled /\ cursor + 1 < Len(entries) /\ ShowRevision(cursor + 1)
  BY DEF RedoLastChange, CanRedo, IInv, TypeOK
<1>2. cursor + 1 \in Nat /\ Len(entries) > 1
  BY <1>1, EntryFacts
<1> QED
  BY <1>1, <1>2, ShowRevisionStep

(* A review command starts, reads and ends without a change.               *)
LEMMA BeginReviewStep ==
  ASSUME IInv, BeginReview
  PROVE  IInv' /\ Grown
<1>1. review' = [stamp |-> Stamp, path |-> JoinFile, read |-> NoContent,
                 held |-> IF sourceBacked THEN NoContent ELSE frame]
  BY DEF BeginReview
<1>2. /\ review'.stamp = Stamp /\ review'.path = JoinFile
      /\ review'.held = IF sourceBacked THEN NoContent ELSE frame
      /\ review' = [stamp |-> review'.stamp, path |-> review'.path,
                    read |-> review'.read, held |-> review'.held]
  BY <1>1
<1>3. /\ Stamp.converted = sourceSnapshot /\ Stamp.source = sourcePath
      /\ Stamp.backed = sourceBacked /\ Stamp.frame = frame
      /\ Stamp.revision = IF cursor < Len(entries) THEN CursorEntry.path ELSE NoPath
  BY DEF Stamp
<1>4. Stamp.backed => review'.path \in {NoPath, StampedBacking'}
  BY <1>2, <1>3 DEF StampedBacking, JoinFile, Backing
<1>5. ~Stamp.backed => review'.path \in {NoPath, Stamp.revision}
  BY <1>2, <1>3 DEF JoinFile, IInv, HistoryIsWhole
<1>6. ReviewIsStamped'
  BY <1>2, <1>3, <1>4, <1>5 DEF ReviewIsStamped
<1> QED
  BY <1>6, QuietStep DEF BeginReview

(* A Review command that keeps a private query publishes nothing yet.      *)
LEMMA QueryForReviewStep ==
  ASSUME IInv, QueryForReview
  PROVE  IInv' /\ Grown
<1>1. /\ review # NoReview
      /\ review = [stamp |-> review.stamp, path |-> review.path,
                   read |-> review.read, held |-> review.held]
      /\ review' = [review EXCEPT !.read = disk[review.path].content]
  BY DEF QueryForReview, IInv, ReviewIsStamped
<1>2. review' = [stamp |-> review.stamp, path |-> review.path,
                 read |-> disk[review.path].content, held |-> review.held]
  BY <1>1
<1>3. ReviewIsStamped'
  BY <1>1, <1>2 DEF IInv, ReviewIsStamped, StampedBacking
<1> QED
  BY <1>3, QuietStep DEF QueryForReview

(* Nor does one that reads the dataset into a frame of its own.            *)
LEMMA MaterializeForReviewStep ==
  ASSUME IInv, MaterializeForReview
  PROVE  IInv' /\ Grown
<1>1. /\ review # NoReview
      /\ review = [stamp |-> review.stamp, path |-> review.path,
                   read |-> review.read, held |-> review.held]
      /\ review' = [review EXCEPT !.held = disk[Backing].content]
  BY DEF MaterializeForReview, IInv, ReviewIsStamped
<1>2. review' = [stamp |-> review.stamp, path |-> review.path,
                 read |-> review.read, held |-> disk[Backing].content]
  BY <1>1
<1>3. review.stamp.backed
  BY DEF MaterializeForReview, StampMatches, Stamp
<1>4. ReviewIsStamped'
  BY <1>1, <1>2, <1>3 DEF IInv, ReviewIsStamped, StampedBacking
<1> QED
  BY <1>4, QuietStep DEF MaterializeForReview

(* A Review command that gives up changes nothing else.                    *)
LEMMA EndReviewStep ==
  ASSUME IInv, EndReview
  PROVE  IInv' /\ Grown
BY ReviewStaysStamped, QuietStep DEF EndReview, IInv

(* A review publishes over a dataset without history only when its source  *)
(* can be read: an eager dataset without history gave it no path.          *)
LEMMA PublishReviewFileStep ==
  ASSUME IInv, PublishReviewFile
  PROVE  IInv' /\ Grown /\ Replaced /\ Named
<1>1. review # NoReview /\ review.stamp = Stamp /\ review.path \in DOMAIN disk
  BY DEF PublishReviewFile, StampMatches
<1>2. review.path # NoPath
  BY <1>1, SessionPaths DEF IInv, TypeOK
<1>3. CASE sourceBacked
  <2>1. SourceReadable
    BY <1>3 DEF PublishReviewFile
  <2> QED
    BY <2>1, FileRecorded DEF PublishReviewFile
<1>4. CASE ~sourceBacked
  <2>1. review.stamp.revision = review.path
    BY <1>1, <1>2, <1>4 DEF Stamp, IInv, ReviewIsStamped
  <2>2. cursor < Len(entries)
    BY <1>1, <1>2, <2>1 DEF Stamp
  <2>3. enabled
    BY <2>2, EntryFacts
  <2> QED
    BY <2>3, FileRecorded DEF PublishReviewFile
<1> QED
  BY <1>3, <1>4

(* A Review result enters the history as any other change.                 *)
LEMMA PublishReviewFrameStep ==
  ASSUME IInv, PublishReviewFrame
  PROVE  IInv' /\ Grown /\ Replaced /\ Named
BY FrameInstalled DEF PublishReviewFrame

(* Another program at the file of the user changes no other file, and what *)
(* the dataset would read there it no longer trusts.                       *)
LEMMA ExternalChangeStep ==
  ASSUME IInv, ExternalChange
  PROVE  /\ IInv'
         /\ DOMAIN disk \ {External} \subseteq DOMAIN disk'
         /\ \A p \in DOMAIN disk' : p \in DOMAIN disk /\ (p # External => disk'[p] = disk[p])
         /\ External \in DOMAIN disk' => disk'[External].content = Foreign
<1>1. /\ entries' = entries /\ cursor' = cursor /\ enabled' = enabled
      /\ nextId' = nextId /\ sourceSnapshot' = sourceSnapshot /\ sourcePath' = sourcePath
      /\ fileBytes' = fileBytes /\ sourceBacked' = sourceBacked /\ frame' = frame
      /\ shown' = shown /\ latest' = latest /\ review' = review
      /\ External \in DOMAIN disk /\ disk[External].content = 0
  BY DEF ExternalChange, history, dataset
<1>2. /\ DOMAIN disk \ {External} \subseteq DOMAIN disk'
      /\ DOMAIN disk' \subseteq DOMAIN disk
      /\ \A p \in DOMAIN disk' : p # External => disk'[p] = disk[p]
      /\ External \in DOMAIN disk' =>
           /\ disk'[External].content = Foreign
           /\ disk'[External].bytes \in Sizes
           /\ disk'[External].bytes # disk[External].bytes
           /\ disk'[External] \in [content : Content, bytes : Sizes]
  <2>1. CASE disk' = Without(disk, {External})
    BY <2>1 DEF Without
  <2>2. ASSUME NEW b \in Sizes \ {disk[External].bytes},
               disk' = With(disk, External, File(Foreign, b))
        PROVE  /\ DOMAIN disk' = DOMAIN disk
               /\ \A p \in DOMAIN disk' : p # External => disk'[p] = disk[p]
               /\ disk'[External] = File(Foreign, b)
    BY <1>1, <2>2 DEF With
  <2>3. \A b \in Sizes : /\ File(Foreign, b).content = Foreign /\ File(Foreign, b).bytes = b
                         /\ File(Foreign, b) \in [content : Content, bytes : Sizes]
    BY DEF File, Content
  <2> QED
    BY <2>1, <2>2, <2>3 DEF ExternalChange
<1>3. TypeOK'
  <2>1. DOMAIN disk' \subseteq Path /\ \A p \in DOMAIN disk' : disk'[p] \in [content : Content, bytes : Sizes]
    BY <1>2 DEF IInv, TypeOK
  <2> QED
    BY <1>1, <2>1 DEF IInv, TypeOK
<1>4. \A p \in PathsOf(entries) : p # External
  BY SessionPaths DEF IInv, FilesAreDated
<1>5. HistoryIsWhole'
  <2>1. ASSUME NEW i \in DOMAIN entries
        PROVE  /\ entries[i].path \in DOMAIN disk'
               /\ disk'[entries[i].path].bytes = entries[i].bytes
    BY <1>2, <1>4, EntryFacts
  <2> QED
    BY <1>1, <2>1 DEF IInv, HistoryIsWhole
<1>6. sourcePath # External => sourceSnapshot = NoPath
  BY DEF IInv, SourceIsShown
<1>7. Foreign # 0
  BY HistoryAssumption
<1>8. sourcePath = External => ~ SourceReadable'
  BY <1>1, <1>2, <1>7 DEF SourceReadable, IInv, SourceIsShown
<1>9. ReadersAgree'
  <2>1. enabled => disk'[CursorEntry.path].content = shown
    <3>1. ASSUME enabled
          PROVE  CursorEntry.path # External /\ CursorEntry.path \in DOMAIN disk'
      BY <1>2, <1>4, <3>1, EntryFacts DEF CursorEntry
    <3> QED
      BY <1>2, <3>1 DEF IInv, ReadersAgree
  <2>2. ASSUME sourceBacked \/ ~enabled, SourceReadable', sourcePath # External
        PROVE  disk'[Backing].content = shown
    <3>1. Backing = sourcePath /\ sourcePath \in DOMAIN disk' /\ disk'[sourcePath].bytes = fileBytes
      BY <1>1, <1>6, <2>2 DEF Backing, SourceReadable
    <3>2. disk'[sourcePath] = disk[sourcePath] /\ SourceReadable
      BY <1>2, <2>2, <3>1 DEF SourceReadable
    <3> QED
      BY <2>2, <3>1, <3>2 DEF IInv, ReadersAgree
  <2>3. Backing' = Backing /\ CursorEntry' = CursorEntry
    BY <1>1 DEF Backing, CursorEntry
  <2> QED
    BY <1>1, <1>8, <2>1, <2>2, <2>3 DEF IInv, ReadersAgree
<1>10. FilesAreDated'
  <2>1. \A q \in DOMAIN disk' \cup {sourcePath'} : Dated(q)'
    BY <1>1, <1>2 DEF IInv, FilesAreDated, Dated
  <2>2. \A p \in DOMAIN disk' : /\ disk'[p].content \in (0 .. latest) \cup {Foreign}
                                /\ p # External => disk'[p].content # Foreign
    BY <1>2 DEF IInv, FilesAreDated
  <2>3. Converted \in DOMAIN disk' => disk'[Converted].content = 0
    BY <1>2, SessionPaths DEF IInv, FilesAreDated
  <2> QED
    BY <1>1, <1>2, <2>1, <2>2, <2>3 DEF IInv, FilesAreDated
<1>11. SourceIsShown'
  BY <1>1, <1>2, <1>7 DEF IInv, SourceIsShown
<1>12. ReviewIsStamped'
  BY <1>1, ReviewStaysStamped DEF IInv
<1> QED
  BY <1>2, <1>3, <1>5, <1>9, <1>10, <1>11, <1>12 DEF IInv

(* A step that changes no variable of the module.                          *)
LEMMA StutteringStep ==
  ASSUME IInv, UNCHANGED vars
  PROVE  IInv' /\ Grown
BY ReviewStaysStamped, QuietStep DEF vars, IInv

(* What a load leaves behind.                                              *)
LEMMA LoadedHistory ==
  ASSUME Init
  PROVE  IInv
<1>1. PICK size \in Sizes : fileBytes = size /\ (InitEager(size) \/ InitSourceBacked(size))
  BY DEF Init
<1>2. /\ sourcePath = External /\ shown = 0 /\ latest = 0 /\ review = NoReview /\ cursor = 0
      /\ fileBytes \in Sizes /\ MaxId \in Nat /\ 0 \in 0 .. MaxVersion /\ 0 \in 0 .. MaxId
  BY <1>1, HistoryAssumption DEF Init, InitEager, InitSourceBacked
<1>3. ReviewIsStamped
  BY <1>2 DEF ReviewIsStamped
<1>4. \A b : File(0, b).content = 0 /\ File(0, b).bytes = b
  BY DEF File
<1>5. \A b \in Sizes : File(0, b) \in [content : Content, bytes : Sizes]
  BY DEF File, Content
<1>6. \A p \in {External, Converted} \cup Snapshots : Dated(p) /\ p \in Path
  BY SessionPaths DEF Dated
<1>7. Foreign # 0
  BY HistoryAssumption
<1>8. CASE entries = <<>> /\ enabled = FALSE /\ nextId = 0
           /\ \/ sourceBacked = FALSE /\ frame = 0 /\ sourceSnapshot = NoPath
              \/ sourceBacked = TRUE /\ frame = NoContent /\ sourceSnapshot \in {NoPath, Converted}
           /\ DOMAIN disk = {External} \cup ({sourceSnapshot} \ {NoPath})
           /\ disk[External] = File(0, fileBytes)
           /\ \A p \in DOMAIN disk : \E b \in Sizes : disk[p] = File(0, b)
  <2>1. DOMAIN disk \subseteq {External, Converted} /\ External \in DOMAIN disk
    BY <1>8
  <2>2. TypeOK
    <3>1. DOMAIN disk \subseteq Path
          /\ \A p \in DOMAIN disk : disk[p] \in [content : Content, bytes : Sizes]
      BY <1>5, <1>6, <1>8, <2>1
    <3>2. /\ entries \in Seq(Entry) /\ cursor \in Nat /\ enabled \in BOOLEAN
          /\ nextId \in 0 .. MaxId
      <4>1. entries = <<>> /\ enabled = FALSE /\ nextId = 0
        BY <1>8
      <4>2. enabled \in BOOLEAN
        BY <4>1
      <4>3. entries \in Seq(Entry) /\ cursor \in Nat /\ nextId \in 0 .. MaxId
        BY <1>2, <4>1
      <4> QED
        BY <4>2, <4>3
    <3>3. /\ sourceSnapshot \in {NoPath, Converted} /\ sourcePath \in Path \cup {NoPath}
          /\ sourceBacked \in BOOLEAN /\ frame \in Nat \cup {NoContent}
      <4>1. \/ sourceBacked = FALSE /\ frame = 0 /\ sourceSnapshot = NoPath
            \/ sourceBacked = TRUE /\ frame = NoContent /\ sourceSnapshot \in {NoPath, Converted}
        BY <1>8
      <4>2. sourceBacked \in BOOLEAN
        BY <4>1
      <4>3. sourceSnapshot \in {NoPath, Converted} /\ sourcePath \in Path \cup {NoPath}
        BY <1>2, <1>6, <4>1
      <4>4. frame \in Nat \cup {NoContent}
        BY <4>1
      <4> QED
        BY <4>2, <4>3, <4>4
    <3> QED
      BY <1>2, <3>1, <3>2, <3>3 DEF TypeOK
  <2>3. HistoryIsWhole
    BY <1>2, <1>8, NothingListed
  <2>4. \A p \in DOMAIN disk : disk[p].content = 0
    BY <1>4, <1>8
  <2>5. Backing \in DOMAIN disk
    BY <1>2, <1>8, <2>1 DEF Backing
  <2>6. ReadersAgree
    BY <1>2, <1>8, <2>4, <2>5 DEF ReadersAgree
  <2>7. PathsOf(entries) = {}
    BY <1>8 DEF PathsOf
  <2>8. FilesAreDated
    BY <1>2, <1>6, <1>7, <1>8, <2>1, <2>4, <2>7 DEF FilesAreDated
  <2>9. SourceIsShown
    BY <1>2, <1>4, <1>8, <2>1, <2>4, SessionPaths DEF SourceIsShown
  <2> QED
    BY <1>3, <2>2, <2>3, <2>6, <2>8, <2>9 DEF IInv
<1>9. ASSUME NEW b \in Sizes, b <= DiskBudget, entries = <<Revision(0, b)>>, enabled = TRUE,
             nextId = 1 % (MaxId + 1),
             sourceBacked = FALSE, frame = 0, sourceSnapshot = NoPath,
             disk = [p \in {External, Snapshot(0)} |->
                        File(0, IF p = External THEN fileBytes ELSE b)]
      PROVE  IInv
  <2>1. Snapshot(0) \in Snapshots /\ Snapshot(0) # External
    BY <1>2, SessionPaths DEF Snapshots
  <2>2. /\ DOMAIN disk = {External, Snapshot(0)} /\ disk[External] = File(0, fileBytes)
        /\ disk[Snapshot(0)] = File(0, b)
    BY <1>9, <2>1
  <2>3. nextId \in 0 .. MaxId
    BY <1>2, <1>9
  <2>4. Revision(0, b) \in Entry
    BY <1>6, <2>1 DEF Revision, Entry
  <2>5. entries \in Seq(Entry) /\ Len(entries) = 1 /\ DOMAIN entries = {1}
        /\ entries[1] = Revision(0, b)
    BY <1>9, <2>4
  <2>6. TypeOK
    BY <1>2, <1>5, <1>6, <1>9, <2>1, <2>2, <2>3, <2>5 DEF TypeOK
  <2>7. entries[1].path = Snapshot(0) /\ entries[1].bytes = b
    BY <2>5 DEF Revision
  <2>8. WithinLimits(entries)
    <3>1. entries[1].bytes \in Nat
      BY <2>7, HistoryAssumption
    <3>2. TotalBytes(entries) = b
      BY <2>5, <2>7, <3>1, TotalBytesOfOne
    <3> QED
      BY <1>9, <2>5, <3>2, HistoryAssumption DEF WithinLimits
  <2>9. HistoryIsWhole
    BY <1>2, <1>4, <1>9, <2>2, <2>5, <2>7, <2>8 DEF HistoryIsWhole
  <2>10. CursorEntry = Revision(0, b)
    BY <1>2, <2>5 DEF CursorEntry
  <2>11. ReadersAgree
    BY <1>2, <1>4, <1>9, <2>2, <2>10 DEF ReadersAgree, Backing, Revision
  <2>12. PathsOf(entries) = {Snapshot(0)}
    BY <2>5, <2>7 DEF PathsOf
  <2>13. \A p \in DOMAIN disk : disk[p].content = 0
    BY <1>4, <2>2
  <2>14. Converted \notin DOMAIN disk
    BY <2>1, <2>2, SessionPaths
  <2>15. FilesAreDated
    BY <1>2, <1>6, <1>7, <2>1, <2>2, <2>12, <2>13, <2>14 DEF FilesAreDated
  <2>16. SourceIsShown
    BY <1>2, <1>4, <1>9, <2>2, <2>5, SessionPaths DEF SourceIsShown
  <2> QED
    BY <1>3, <2>6, <2>9, <2>11, <2>15, <2>16 DEF IInv
<1>10. CASE InitEager(size)
  <2>1. PICK b \in Sizes :
           IF b > DiskBudget
           THEN /\ entries = <<>>
                /\ enabled = FALSE
                /\ nextId = 0
                /\ disk = [p \in {External} |-> File(0, size)]
           ELSE /\ entries = <<Revision(0, b)>>
                /\ enabled = TRUE
                /\ nextId = 1 % (MaxId + 1)
                /\ disk = [p \in {External, Snapshot(0)} |->
                             File(0, IF p = External THEN size ELSE b)]
    BY <1>10 DEF InitEager
  <2>2. sourceBacked = FALSE /\ frame = 0 /\ sourceSnapshot = NoPath
    BY <1>10 DEF InitEager
  <2>3. CASE b > DiskBudget
    BY <1>1, <1>8, <2>1, <2>2, <2>3
  <2>4. CASE b <= DiskBudget
    <3>1. ~ (b > DiskBudget)
      BY <2>4, HistoryAssumption
    <3> QED
      BY <1>1, <1>9, <2>1, <2>2, <2>4, <3>1
  <2> QED
    BY <2>3, <2>4, HistoryAssumption
<1>11. CASE InitSourceBacked(size)
  <2>1. /\ sourceBacked = TRUE /\ frame = NoContent /\ entries = <<>> /\ enabled = FALSE
        /\ nextId = 0
    BY <1>11 DEF InitSourceBacked
  <2>2. CASE sourceSnapshot = NoPath /\ disk = [p \in {External} |-> File(0, size)]
    BY <1>1, <1>8, <2>1, <2>2
  <2>3. ASSUME NEW b \in Sizes, sourceSnapshot = Converted,
               disk = [p \in {External, Converted} |-> File(0, IF p = External THEN size ELSE b)]
        PROVE  IInv
    <3>1. Converted # NoPath /\ External # Converted
      BY SessionPaths
    <3>2. DOMAIN disk = {External} \cup ({sourceSnapshot} \ {NoPath})
          /\ disk[External] = File(0, fileBytes)
      BY <1>1, <2>3, <3>1
    <3>3. \A p \in DOMAIN disk : \E c \in Sizes : disk[p] = File(0, c)
      BY <1>1, <2>3
    <3> QED
      BY <1>8, <2>1, <2>3, <3>2, <3>3
  <2> QED
    BY <1>11, <2>2, <2>3 DEF InitSourceBacked
<1> QED
  BY <1>1, <1>10, <1>11

-----------------------------------------------------------------------------
(* The theorems.                                                           *)

(* What a step may do to the files: those of the session's directory stay  *)
(* as they are, or go.                                                     *)
FilesKept == \A p \in DOMAIN disk \cap DOMAIN disk' : InDirectory(p) => disk'[p] = disk[p]

(* The invariant is one, and no step rewrites a file of the directory.     *)
LEMMA EveryStep ==
  ASSUME IInv, [Next]_vars
  PROVE  IInv' /\ FilesKept
<1>1. Grown => FilesKept
  BY DEF Grown, FilesKept
<1>2. CASE PrepareStep
  BY <1>1, <1>2, PublishFrameStep, MaterializeStep, PublishFileStep, PublishFileOverBudgetStep,
     LeaveBaselineBehindStep, UndoStep, RedoStep DEF PrepareStep
<1>3. CASE ReviewStep
  BY <1>1, <1>3, BeginReviewStep, QueryForReviewStep, MaterializeForReviewStep,
     PublishReviewFileStep, PublishReviewFrameStep, EndReviewStep DEF ReviewStep
<1>4. CASE ExternalChange
  BY <1>4, ExternalChangeStep DEF FilesKept, InDirectory
<1>5. CASE UNCHANGED vars
  BY <1>1, <1>5, StutteringStep
<1> QED
  BY <1>2, <1>3, <1>4, <1>5 DEF Next

(* The invariant holds of every behaviour.                                 *)
LEMMA HistoryInvariant ==
  Spec => []IInv
<1>1. IInv /\ [Next]_vars => IInv'
  BY EveryStep
<1> QED
  BY <1>1, LoadedHistory, PTL DEF Spec

(* The state has its types (the dataset, the history and the files they    *)
(* live on).                                                               *)
THEOREM HistoryTypes ==
  Spec => []TypeOK
<1>1. IInv => TypeOK
  BY DEF IInv
<1> QED
  BY <1>1, HistoryInvariant, PTL

(* Whatever commands ran, failed or were cancelled: every listed revision  *)
(* has its own file of the recorded size, the cursor is on a revision, and *)
(* the count and the disk budget are respected.                            *)
THEOREM HistoryStaysWhole ==
  Spec => []HistoryIsWhole
<1>1. IInv => HistoryIsWhole
  BY DEF IInv
<1> QED
  BY <1>1, HistoryInvariant, PTL

(* The page reader, the history and the source never disagree about the    *)
(* version on screen.                                                      *)
THEOREM ReadersShowTheSame ==
  Spec => []ReadersAgree
<1>1. IInv => ReadersAgree
  BY DEF IInv
<1> QED
  BY <1>1, HistoryInvariant, PTL

(* The only copy of a dataset's rows is never removed.                     *)
THEOREM OnlyCopyStays ==
  Spec => []OnlyCopyIsSafe
<1>1. ASSUME IInv
      PROVE  OnlyCopyIsSafe
  <2>1. sourceBacked /\ InDirectory(sourcePath) =>
          /\ sourcePath \in DOMAIN disk /\ disk[sourcePath].bytes = fileBytes
          /\ sourceSnapshot = NoPath
    BY <1>1 DEF IInv, SourceIsShown, InDirectory
  <2> QED
    BY <2>1 DEF OnlyCopyIsSafe, SourceReadable, Backing
<1> QED
  BY <1>1, HistoryInvariant, PTL

(* A file of the history directory never changes while it exists.          *)
THEOREM FilesStayAsWritten ==
  Spec => FilesAreImmutable
<1>1. IInv /\ [Next]_vars => [FilesKept]_disk
  BY EveryStep
<1> QED
  BY <1>1, HistoryInvariant, PTL DEF Spec, FilesAreImmutable, FilesKept

-----------------------------------------------------------------------------
(* Review commands, until the identifiers wrap around.                     *)

(* The last identifier has not been taken (u64::MAX in the code).          *)
LastIdIsFree == Snapshot(MaxId) \notin PathsOf(entries)

ReviewInv == IInv /\ IdsAreUsed /\ ReviewReads

(* A change takes identifiers past every one in use.                       *)
LEMMA UsedWhenNamed ==
  ASSUME IInv, IInv', IdsAreUsed, LastIdIsFree', Named, review' \in {review, NoReview}
  PROVE  IdsAreUsed'
<1>1. nextId \in Nat /\ latest \in Nat /\ MaxId \in Nat /\ nextId' \in Nat /\ latest' = latest + 1
  BY HistoryAssumption DEF IInv, TypeOK, Named
<1>2. CASE /\ nextId' = nextId
           /\ PathsOf(entries') \cup {sourcePath'} \subseteq
                PathsOf(entries) \cup {NoPath, Output(latest + 1)}
  <2>1. ~ (NoPath \in Path) /\ Output(latest + 1)[1] = "output"
    BY <1>1, SessionPaths
  <2>2. \A p \in PathsOf(entries') \cup {sourcePath'} : Written(p)'
    BY <1>2, <2>1 DEF IdsAreUsed, Written
  <2>3. \A p \in ReviewPaths' : p \in ReviewPaths
    BY DEF ReviewPaths
  <2>4. \A p \in ReviewPaths' : Written(p)' /\ Dated(p)' /\ p \in Path \cup {NoPath}
    BY <1>1, <1>2, <2>3 DEF IdsAreUsed, Written, Dated, Path
  <2> QED
    BY <2>2, <2>4 DEF IdsAreUsed
<1>3. ASSUME NEW id \in nextId .. MaxId, nextId' = (id + 1) % (MaxId + 1),
             Snapshot(id) \in PathsOf(entries'),
             PathsOf(entries') \cup {sourcePath'} \subseteq
               PathsOf(entries) \cup {NoPath} \cup {Snapshot(i) : i \in nextId .. id}
      PROVE  IdsAreUsed'
  <2>1. id # MaxId
    BY <1>3 DEF LastIdIsFree
  <2>2. nextId' = id + 1 /\ nextId <= nextId'
    BY <1>1, <1>3, <2>1
  <2>3. \A i \in nextId .. id : Snapshot(i)[1] = "snapshot" /\ Snapshot(i)[2] = i /\ i < nextId'
    BY <1>1, <2>2 DEF Snapshot
  <2>4. ~ (NoPath \in Path)
    BY SessionPaths
  <2>5. \A p \in PathsOf(entries) : Written(p)'
    BY <1>1, <2>2 DEF IdsAreUsed, Written, Path
  <2>6. \A i \in nextId .. id : Written(Snapshot(i))'
    BY <2>3 DEF Written
  <2>7. Written(NoPath)'
    BY <2>4 DEF Written
  <2>8. \A p \in PathsOf(entries') \cup {sourcePath'} : Written(p)'
    BY <1>3, <2>5, <2>6, <2>7
  <2>9. \A p \in ReviewPaths' : p \in ReviewPaths
    BY DEF ReviewPaths
  <2>10. \A p \in ReviewPaths' : Written(p)' /\ Dated(p)' /\ p \in Path \cup {NoPath}
    BY <1>1, <2>2, <2>9 DEF IdsAreUsed, Written, Dated, Path
  <2> QED
    BY <2>8, <2>10 DEF IdsAreUsed
<1> QED
  BY <1>2, <1>3 DEF Named

(* Steps that take no identifier.                                          *)
LEMMA UsedWhenSame ==
  ASSUME IInv, IdsAreUsed, nextId' = nextId, latest' = latest,
         PathsOf(entries') \cup {sourcePath'} \subseteq PathsOf(entries) \cup {sourcePath},
         ReviewPaths' \subseteq
           ReviewPaths \cup PathsOf(entries) \cup {sourcePath, NoPath, Converted}
  PROVE  IdsAreUsed'
<1>1. \A p \in PathsOf(entries) : p \in Path /\ Dated(p)
  <2>1. \A p \in Snapshots : p \in Path /\ Dated(p)
    BY SessionPaths DEF Dated
  <2> QED
    BY <2>1 DEF IInv, FilesAreDated
<1>2. sourcePath \in Path \cup {NoPath} /\ Dated(sourcePath)
  BY DEF IInv, TypeOK, FilesAreDated
<1>3. /\ Converted \in Path /\ Dated(Converted) /\ Written(Converted)
      /\ Dated(NoPath) /\ Written(NoPath)
  BY SessionPaths DEF Dated, Written
<1>4. \A p : (Written(p) => Written(p)') /\ (Dated(p) => Dated(p)')
  BY DEF Written, Dated
<1>5. \A p \in PathsOf(entries') \cup {sourcePath'} : Written(p)'
  BY <1>4 DEF IdsAreUsed
<1>6. \A p \in ReviewPaths' : p \in Path \cup {NoPath} /\ Written(p) /\ Dated(p)
  BY <1>1, <1>2, <1>3 DEF IdsAreUsed
<1> QED
  BY <1>4, <1>5, <1>6 DEF IdsAreUsed

(* What a review names was written before; no new file takes its place.    *)
LEMMA ReadsStay ==
  ASSUME IInv, IdsAreUsed, ReviewReads, Grown, latest' \in Nat, review' \in {review, NoReview}
  PROVE  ReviewReads'
<1>1. nextId \in Nat /\ latest \in Nat /\ MaxId \in Nat
  BY HistoryAssumption DEF IInv, TypeOK
<1>2. ASSUME NEW p \in ReviewPaths
      PROVE  p \notin NewPaths
  <2>1. Written(p) /\ Dated(p)
    BY DEF IdsAreUsed
  <2>2. ASSUME NEW i \in nextId .. MaxId, p = Snapshot(i)
        PROVE  FALSE
    <3>1. p \in Path /\ p[1] = "snapshot" /\ p[2] = i /\ ~ (i < nextId)
      BY <1>1, <2>2 DEF Snapshot, Path
    <3> QED
      BY <2>1, <3>1 DEF Written
  <2>3. ASSUME NEW v \in latest + 1 .. latest', p = Output(v)
        PROVE  FALSE
    <3>1. p \in Path /\ p[1] = "output" /\ p[2] = v /\ ~ (v <= latest)
      BY <1>1, <2>3 DEF Output, Path
    <3> QED
      BY <2>1, <3>1 DEF Dated
  <2> QED
    BY <2>2, <2>3 DEF NewPaths
<1>3. ASSUME NEW p \in ReviewPaths, p \in DOMAIN disk'
      PROVE  p \in DOMAIN disk /\ disk'[p] = disk[p]
  BY <1>2, <1>3 DEF Grown
<1>4. External \in DOMAIN disk' => External \in DOMAIN disk /\ disk'[External] = disk[External]
  <2>1. External \notin NewPaths
    <3>1. \A i \in nextId .. MaxId : Snapshot(i) # External
      BY DEF Snapshot, External
    <3>2. \A v \in latest + 1 .. latest' : Output(v) # External
      BY DEF Output, External
    <3> QED
      BY <3>1, <3>2 DEF NewPaths
  <2> QED
    BY <2>1 DEF Grown
<1>5. CASE review' = NoReview
  BY <1>5 DEF ReviewReads
<1>6. CASE review' = review /\ review # NoReview
  <2>1. review.path \in ReviewPaths /\ review.stamp.source \in ReviewPaths
    BY <1>6 DEF ReviewPaths
  <2>2. review.path \in DOMAIN disk' =>
           review.path \in DOMAIN disk /\ disk'[review.path] = disk[review.path]
    BY <1>3, <2>1
  <2>3. review.stamp.source \in DOMAIN disk' =>
           /\ review.stamp.source \in DOMAIN disk
           /\ disk'[review.stamp.source] = disk[review.stamp.source]
    BY <1>3, <2>1
  <2>4. \/ review.read = NoContent
        \/ review.path \notin DOMAIN disk'
        \/ review.path = External /\ disk'[External].content # 0
        \/ review.read = disk'[review.path].content
    BY <1>4, <1>6, <2>2 DEF ReviewReads
  <2>5. review.stamp.backed /\ review.held # NoContent =>
           /\ review.stamp.source = External => review.held = 0
           /\ review.stamp.source # External /\ review.stamp.source \in DOMAIN disk'
                => review.held = disk'[review.stamp.source].content
    BY <1>6, <2>3 DEF ReviewReads
  <2> QED
    BY <1>6, <2>4, <2>5 DEF ReviewReads
<1> QED
  BY <1>5, <1>6

(* What a review publishes over is what it computed from.                  *)
LEMMA ReviewFileIsOfShown ==
  ASSUME ReviewInv, PublishReviewFile
  PROVE  review.read = shown
<1>1. /\ review # NoReview /\ review.read # NoContent /\ review.stamp = Stamp
      /\ review.path \in DOMAIN disk /\ (sourceBacked => SourceReadable)
  BY DEF PublishReviewFile, StampMatches
<1>2. review.path # NoPath
  BY <1>1, SessionPaths DEF ReviewInv, IInv, TypeOK
<1>3. /\ Stamp.converted = sourceSnapshot /\ Stamp.source = sourcePath
      /\ Stamp.backed = sourceBacked
      /\ Stamp.revision = IF cursor < Len(entries) THEN CursorEntry.path ELSE NoPath
  BY DEF Stamp
<1>4. (review.path = External => disk[External].content = 0)
         => review.read = disk[review.path].content
  BY <1>1 DEF ReviewInv, ReviewReads
<1>5. CASE sourceBacked
  <2>1. review.path = Backing
    BY <1>1, <1>2, <1>3, <1>5 DEF ReviewInv, IInv, ReviewIsStamped, StampedBacking, Backing
  <2>2. disk[Backing].content = shown
    BY <1>1, <1>5 DEF ReviewInv, IInv, ReadersAgree
  <2>3. Backing = External => sourcePath = External
    BY SessionPaths DEF Backing, ReviewInv, IInv, TypeOK
  <2>4. Backing = External => disk[External].content = 0
    BY <1>1, <1>5, <2>3 DEF SourceReadable, ReviewInv, IInv, SourceIsShown
  <2> QED
    BY <1>4, <2>1, <2>2, <2>4
<1>6. CASE ~sourceBacked
  <2>1. review.path = review.stamp.revision
    BY <1>1, <1>2, <1>3, <1>6 DEF ReviewInv, IInv, ReviewIsStamped
  <2>2. cursor < Len(entries) /\ review.path = CursorEntry.path
    BY <1>1, <1>2, <1>3, <2>1
  <2>3. enabled /\ CursorEntry.path \in PathsOf(entries)
    BY <2>2, EntryFacts DEF ReviewInv, CursorEntry
  <2>4. review.path # External
    BY <2>2, <2>3, SessionPaths DEF ReviewInv, IInv, FilesAreDated
  <2>5. disk[CursorEntry.path].content = shown
    BY <2>3 DEF ReviewInv, IInv, ReadersAgree
  <2> QED
    BY <1>4, <2>2, <2>4, <2>5
<1> QED
  BY <1>5, <1>6

(* With an unchanged stamp, the frame that a Review command holds is of    *)
(* the version on screen.                                                  *)
LEMMA ReviewFrameIsOfShown ==
  ASSUME ReviewInv, PublishReviewFrame
  PROVE  review.held = shown
<1>1. review # NoReview /\ review.held # NoContent /\ review.stamp = Stamp
  BY DEF PublishReviewFrame, StampMatches
<1>2. Stamp.source = sourcePath /\ Stamp.backed = sourceBacked /\ Stamp.frame = frame
  BY DEF Stamp
<1>3. CASE sourceBacked
  <2>1. /\ sourcePath = External => review.held = 0
        /\ sourcePath # External /\ sourcePath \in DOMAIN disk
             => review.held = disk[sourcePath].content
    BY <1>1, <1>2, <1>3 DEF ReviewInv, ReviewReads
  <2> QED
    BY <1>3, <2>1 DEF ReviewInv, IInv, SourceIsShown
<1>4. CASE ~sourceBacked
  BY <1>1, <1>2, <1>4 DEF ReviewInv, IInv, ReviewIsStamped, ReadersAgree
<1> QED
  BY <1>3, <1>4

(* A dataset just loaded has no Review command under way and no file of an *)
(* identifier to come.                                                     *)
LEMMA ReviewStart ==
  ASSUME Init, LastIdIsFree
  PROVE  ReviewInv
<1>1. IInv /\ review = NoReview /\ sourcePath = External /\ MaxId \in Nat
  BY LoadedHistory, HistoryAssumption DEF Init
<1>2. ReviewPaths = {} /\ ReviewReads
  BY <1>1 DEF ReviewPaths, ReviewReads
<1>3. Written(External)
  BY SessionPaths DEF Written
<1>4. \A p \in PathsOf(entries) : p = Snapshot(0) /\ nextId = 1 % (MaxId + 1)
  <2>1. PICK size \in Sizes : InitEager(size) \/ InitSourceBacked(size)
    BY DEF Init
  <2>2. \/ entries = <<>>
        \/ nextId = 1 % (MaxId + 1) /\ \E b \in Sizes : entries = <<Revision(0, b)>>
    BY <2>1 DEF InitEager, InitSourceBacked
  <2> QED
    BY <2>2 DEF PathsOf, Revision
<1>5. \A p \in PathsOf(entries) : Written(p)
  <2>1. ASSUME NEW p \in PathsOf(entries)
        PROVE  Written(p)
    <3>1. p = Snapshot(0) /\ nextId = 1 % (MaxId + 1) /\ MaxId # 0
      BY <1>4 DEF LastIdIsFree
    <3>2. nextId = 1 /\ p[2] = 0
      BY <1>1, <3>1 DEF Snapshot
    <3> QED
      BY <3>2 DEF Written
  <2> QED
    BY <2>1
<1> QED
  BY <1>1, <1>2, <1>3, <1>5 DEF ReviewInv, IdsAreUsed

(* A step of which the review only sees that its files stay.               *)
LEMMA ReviewWaits ==
  ASSUME ReviewInv, LastIdIsFree', [Next]_vars,
         ~ (BeginReview \/ QueryForReview \/ MaterializeForReview)
  PROVE  ReviewInv'
<1>1. IInv' /\ IInv /\ IdsAreUsed /\ ReviewReads /\ latest' \in Nat
  BY EveryStep, HistoryAssumption DEF ReviewInv, IInv, TypeOK
<1>0. /\ PublishFrame \/ PublishFile \/ PublishFileOverBudget \/ Materialize
           \/ LeaveBaselineBehind \/ UndoLastChange \/ RedoLastChange \/ PublishReviewFile
           \/ PublishReviewFrame \/ EndReview \/ ExternalChange \/ UNCHANGED vars
      /\ review' \in {review, NoReview}
  BY DEF Next, PrepareStep, ReviewStep, PublishFrame, PublishFile, PublishFileOverBudget,
         Materialize, LeaveBaselineBehind, UndoLastChange, RedoLastChange, ShowRevision,
         PublishReviewFile, PublishReviewFrame, EndReview, ExternalChange, vars
<1>2. CASE PublishFrame \/ PublishFile \/ PublishFileOverBudget
           \/ PublishReviewFile \/ PublishReviewFrame
  <2>1. Grown /\ Named
    BY <1>1, <1>2, PublishFrameStep, PublishFileStep, PublishFileOverBudgetStep,
       PublishReviewFileStep, PublishReviewFrameStep
  <2> QED
    BY <1>0, <1>1, <2>1, UsedWhenNamed, ReadsStay DEF ReviewInv
<1>3. ReviewPaths' \subseteq ReviewPaths
  BY <1>0 DEF ReviewPaths
<1>4. CASE Materialize \/ LeaveBaselineBehind \/ EndReview \/ UNCHANGED vars
  <2>1. nextId' = nextId /\ latest' = latest /\ entries' = entries /\ sourcePath' = sourcePath
    BY <1>4 DEF Materialize, LeaveBaselineBehind, EndReview, vars, history, dataset
  <2>2. Grown
    BY <1>1, <1>4, MaterializeStep, LeaveBaselineBehindStep, EndReviewStep, StutteringStep
  <2>3. IdsAreUsed'
    BY <1>1, <1>3, <2>1, UsedWhenSame
  <2> QED
    BY <1>0, <1>1, <2>2, <2>3, ReadsStay DEF ReviewInv
<1>5. ASSUME NEW target \in Nat, target < Len(entries), ShowRevision(target), Grown
      PROVE  ReviewInv'
  <2>1. nextId' = nextId /\ latest' = latest /\ entries' = entries
        /\ sourcePath' \in {sourcePath, entries[target + 1].path}
    BY <1>5 DEF ShowRevision
  <2>2. entries[target + 1].path \in PathsOf(entries)
    <3>1. target + 1 \in 1 .. Len(entries)
      BY <1>1, <1>5, EntryFacts
    <3> QED
      BY <1>1, <3>1, EntryFacts
  <2>3. IdsAreUsed'
    BY <1>1, <1>3, <2>1, <2>2, UsedWhenSame
  <2> QED
    BY <1>0, <1>1, <1>5, <2>3, ReadsStay DEF ReviewInv
<1>6. CASE UndoLastChange
  <2>1. cursor - 1 \in Nat /\ cursor - 1 < Len(entries) /\ ShowRevision(cursor - 1)
    BY <1>1, <1>6, EntryFacts DEF UndoLastChange, CanUndo, IInv, TypeOK
  <2> QED
    BY <1>1, <1>5, <1>6, <2>1, UndoStep
<1>7. CASE RedoLastChange
  <2>1. cursor + 1 \in Nat /\ cursor + 1 < Len(entries) /\ ShowRevision(cursor + 1)
    BY <1>1, <1>7, EntryFacts DEF RedoLastChange, CanRedo, IInv, TypeOK
  <2> QED
    BY <1>1, <1>5, <1>7, <2>1, RedoStep
<1>8. CASE ExternalChange
  <2>1. nextId' = nextId /\ latest' = latest /\ entries' = entries /\ sourcePath' = sourcePath
        /\ review' = review
    BY <1>8 DEF ExternalChange, history, dataset
  <2>2. /\ \A p \in DOMAIN disk' : p \in DOMAIN disk /\ (p # External => disk'[p] = disk[p])
        /\ External \in DOMAIN disk' => disk'[External].content = Foreign
    BY <1>1, <1>8, ExternalChangeStep
  <2>3. IdsAreUsed'
    BY <1>1, <1>3, <2>1, UsedWhenSame
  <2>4. Foreign # 0
    BY HistoryAssumption
  <2>5. ReviewReads'
    BY <1>1, <2>1, <2>2, <2>4 DEF ReviewReads
  <2> QED
    BY <1>1, <2>3, <2>5 DEF ReviewInv
<1> QED
  BY <1>0, <1>2, <1>4, <1>6, <1>7, <1>8

(* A review notes, reads under no lock, or reads under the lock.           *)
LEMMA ReviewBegins ==
  ASSUME ReviewInv, BeginReview
  PROVE  ReviewInv'
<1>1. IInv' /\ IInv /\ IdsAreUsed
  BY BeginReviewStep DEF ReviewInv
<1>2. /\ nextId' = nextId /\ latest' = latest /\ entries' = entries /\ sourcePath' = sourcePath
      /\ disk' = disk
      /\ review' = [stamp |-> Stamp, path |-> JoinFile, read |-> NoContent,
                    held |-> IF sourceBacked THEN NoContent ELSE frame]
  BY DEF BeginReview, history, dataset
<1>3. /\ review'.stamp.source = sourcePath /\ review'.stamp.backed = sourceBacked
      /\ review'.path = JoinFile /\ review'.read = NoContent
      /\ sourceBacked => review'.held = NoContent
  BY <1>2 DEF Stamp
<1>4. JoinFile \in PathsOf(entries) \cup {sourcePath, NoPath, Converted}
  BY <1>1, EntryFacts DEF JoinFile, Backing, CursorEntry, IInv, TypeOK
<1>5. ReviewPaths' \subseteq ReviewPaths \cup PathsOf(entries) \cup {sourcePath, NoPath, Converted}
  BY <1>3, <1>4 DEF ReviewPaths
<1>6. IdsAreUsed'
  BY <1>1, <1>2, <1>5, UsedWhenSame
<1>7. ReviewReads'
  BY <1>3 DEF ReviewReads
<1> QED
  BY <1>1, <1>6, <1>7 DEF ReviewInv

(* A private query reads the file the stamp names.                         *)
LEMMA ReviewQueries ==
  ASSUME ReviewInv, QueryForReview
  PROVE  ReviewInv'
<1>1. IInv' /\ IInv /\ IdsAreUsed
  BY QueryForReviewStep DEF ReviewInv
<1>2. /\ nextId' = nextId /\ latest' = latest /\ entries' = entries /\ sourcePath' = sourcePath
      /\ disk' = disk /\ review # NoReview
      /\ review' = [review EXCEPT !.read = disk[review.path].content]
  BY DEF QueryForReview, history, dataset
<1>3. review = [stamp |-> review.stamp, path |-> review.path,
                read |-> review.read, held |-> review.held]
  BY <1>2 DEF ReviewInv, IInv, ReviewIsStamped
<1>4. /\ review'.stamp = review.stamp /\ review'.path = review.path /\ review'.held = review.held
      /\ review'.read = disk[review.path].content
  BY <1>2, <1>3
<1>5. ReviewPaths' \subseteq ReviewPaths
  BY <1>2, <1>4 DEF ReviewPaths
<1>6. IdsAreUsed'
  BY <1>1, <1>2, <1>5, UsedWhenSame
<1>7. ReviewReads'
  BY <1>2, <1>4 DEF ReviewInv, ReviewReads
<1> QED
  BY <1>1, <1>6, <1>7 DEF ReviewInv

(* The rows read into memory are those of the file the stamp names.        *)
LEMMA ReviewMaterializes ==
  ASSUME ReviewInv, MaterializeForReview
  PROVE  ReviewInv'
<1>1. IInv' /\ IInv /\ IdsAreUsed
  BY MaterializeForReviewStep DEF ReviewInv
<1>2. /\ nextId' = nextId /\ latest' = latest /\ entries' = entries /\ sourcePath' = sourcePath
      /\ disk' = disk /\ review # NoReview /\ review.stamp = Stamp
      /\ sourceBacked /\ SourceReadable
      /\ review' = [review EXCEPT !.held = disk[Backing].content]
  BY DEF MaterializeForReview, StampMatches, history, dataset
<1>3. review = [stamp |-> review.stamp, path |-> review.path,
                read |-> review.read, held |-> review.held]
  BY <1>2 DEF ReviewInv, IInv, ReviewIsStamped
<1>4. /\ review'.stamp = review.stamp /\ review'.path = review.path /\ review'.read = review.read
      /\ review'.held = disk[Backing].content
  BY <1>2, <1>3
<1>5. ReviewPaths' \subseteq ReviewPaths
  BY <1>2, <1>4 DEF ReviewPaths
<1>6. IdsAreUsed'
  BY <1>1, <1>2, <1>5, UsedWhenSame
<1>7. review.stamp.source = sourcePath
  BY <1>2 DEF Stamp
<1>8. disk[Backing].content = shown
  BY <1>1, <1>2 DEF IInv, ReadersAgree
<1>9. sourcePath = External => disk[Backing].content = 0
  BY <1>1, <1>8 DEF IInv, SourceIsShown
<1>10. sourcePath # External => Backing = sourcePath
  BY <1>1 DEF IInv, SourceIsShown, Backing
<1>11. ReviewReads'
  BY <1>2, <1>4, <1>7, <1>9, <1>10 DEF ReviewInv, ReviewReads
<1> QED
  BY <1>1, <1>6, <1>11 DEF ReviewInv

(* A review replaces the version it was computed from, although nothing    *)
(* was locked while it was computed, as long as identifiers are not used   *)
(* again: a path it noted then names the same file or none.                *)
THEOREM ReviewLosesNothing ==
  Spec /\ []LastIdIsFree => ReviewReplacesWhatItRead
<1> DEFINE Replaces ==
             review # NoReview /\ review' = NoReview /\ shown' # shown
               => shown = IF sourceBacked' THEN review.read ELSE review.held
<1>1. Init /\ LastIdIsFree => ReviewInv
  BY ReviewStart
<1>2. ReviewInv /\ LastIdIsFree' /\ [Next]_vars => ReviewInv'
  BY ReviewWaits, ReviewBegins, ReviewQueries, ReviewMaterializes
<1>3. ReviewInv /\ [Next]_vars => [Replaces]_vars
  <2> SUFFICES ASSUME ReviewInv, [Next]_vars, review # NoReview, review' = NoReview, shown' # shown
               PROVE  shown = IF sourceBacked' THEN review.read ELSE review.held
    OBVIOUS
  <2>1. CASE PublishReviewFile
    <3>1. sourceBacked' = TRUE
      BY <2>1 DEF PublishReviewFile, RecordFile, ShowFile
    <3> QED
      BY <2>1, <3>1, ReviewFileIsOfShown
  <2>2. CASE PublishReviewFrame
    <3>1. sourceBacked' = FALSE
      BY <2>2 DEF PublishReviewFrame, ShowFrame
    <3> QED
      BY <2>2, <3>1, ReviewFrameIsOfShown
  <2>3. ~ (BeginReview \/ QueryForReview \/ MaterializeForReview \/ EndReview)
    BY DEF BeginReview, QueryForReview, MaterializeForReview, EndReview, dataset
  <2>4. ~ (PrepareStep \/ ExternalChange \/ UNCHANGED vars)
    BY DEF PrepareStep, PublishFrame, PublishFile, PublishFileOverBudget, Materialize,
           LeaveBaselineBehind, UndoLastChange, RedoLastChange, ShowRevision,
           ExternalChange, vars
  <2> QED
    BY <2>1, <2>2, <2>3, <2>4 DEF Next, ReviewStep
<1> QED
  BY <1>1, <1>2, <1>3, PTL DEF Spec, ReviewReplacesWhatItRead

-----------------------------------------------------------------------------
(* The undo log: the versions that UndoLog calls past and future are read  *)
(* from the files themselves.                                              *)

Undos == IF enabled THEN cursor ELSE 0
Redos == IF enabled THEN Len(entries) - cursor - 1 ELSE 0

(* The log as it is read: every version in it was computed, and is in the  *)
(* file of its revision.                                                   *)
LogRead ==
    /\ latest \in 0 .. MaxVersion /\ shown \in 0 .. latest
    /\ Undos \in Nat
    /\ Undoable \in Seq(Nat) /\ Len(Undoable) = Undos
    /\ \A i \in 1 .. Undos : /\ Undoable[i] \in 0 .. latest
                             /\ Undoable[i] = disk[entries[i].path].content
    /\ Redos \in Nat
    /\ Redoable \in Seq(Nat) /\ Len(Redoable) = Redos
    /\ \A i \in 1 .. Redos : /\ Redoable[i] \in 0 .. latest
                             /\ Redoable[i] = disk[entries[cursor + 1 + i].path].content

(* A sequence is a function of the first naturals.                         *)
LEMMA FunctionIsSequence ==
  ASSUME NEW S, NEW n \in Nat, NEW f \in [1 .. n -> S]
  PROVE  f \in Seq(S) /\ Len(f) = n
OBVIOUS

(* The undo log read through the files has the versions of the entries on  *)
(* both sides of the cursor.                                               *)
LEMMA LogIsRead ==
  IInv => LogRead
<1> SUFFICES ASSUME IInv PROVE LogRead
  OBVIOUS
<1>1. /\ latest \in 0 .. MaxVersion /\ latest \in Nat /\ shown \in 0 .. latest
      /\ cursor \in Nat /\ enabled \in BOOLEAN /\ Len(entries) \in Nat
      /\ enabled => cursor + 1 \in 1 .. Len(entries)
  BY EntryFacts, HistoryAssumption DEF IInv, TypeOK, FilesAreDated
<1>2. ASSUME NEW i \in 1 .. Len(entries)
      PROVE  /\ ContentOf(entries[i]) = disk[entries[i].path].content
             /\ ContentOf(entries[i]) \in 0 .. latest
  <2>1. entries[i].path \in DOMAIN disk /\ entries[i].path # External
    BY EntryFacts, SessionPaths DEF IInv, FilesAreDated
  <2>2. disk[entries[i].path].content \in 0 .. latest
    BY <2>1 DEF IInv, FilesAreDated
  <2> QED
    BY <2>1, <2>2 DEF ContentOf
<1>3. Undos \in Nat /\ \A i \in 1 .. Undos : i \in 1 .. Len(entries)
  BY <1>1 DEF Undos
<1>4. Redos \in Nat /\ \A i \in 1 .. Redos : cursor + 1 + i \in 1 .. Len(entries)
  BY <1>1 DEF Redos
<1>5. Undoable = [i \in 1 .. Undos |-> ContentOf(entries[i])]
  BY DEF Undoable, Undos
<1>6. Redoable = [i \in 1 .. Redos |-> ContentOf(entries[cursor + 1 + i])]
  BY DEF Redoable, Redos
<1>7. Undoable \in [1 .. Undos -> Nat] /\ Redoable \in [1 .. Redos -> Nat]
  <2>1. \A i \in 1 .. Len(entries) : ContentOf(entries[i]) \in Nat
    BY <1>1, <1>2
  <2> QED
    BY <1>3, <1>4, <1>5, <1>6, <2>1
<1>8. /\ Undoable \in Seq(Nat) /\ Len(Undoable) = Undos
      /\ Redoable \in Seq(Nat) /\ Len(Redoable) = Redos
  BY <1>3, <1>4, <1>7, FunctionIsSequence
<1>9. \A i \in 1 .. Undos : /\ Undoable[i] \in 0 .. latest
                            /\ Undoable[i] = disk[entries[i].path].content
  BY <1>2, <1>3, <1>5
<1>10. \A i \in 1 .. Redos : /\ Redoable[i] \in 0 .. latest
                             /\ Redoable[i] = disk[entries[cursor + 1 + i].path].content
  BY <1>2, <1>4, <1>6
<1> QED
  BY <1>1, <1>3, <1>4, <1>8, <1>9, <1>10 DEF LogRead

(* The same after the step.                                                *)
LEMMA LogIsReadNext ==
  IInv' => LogRead'
BY LogIsRead, PTL

(* A change is one of the undo log.                                        *)
LEMMA ReplacedApplies ==
  ASSUME IInv, IInv', Replaced
  PROVE  Undo!Apply
<1> DEFINE all == Append(Undoable, shown)
<1>1. /\ LogRead /\ LogRead'
  BY LogIsRead, LogIsReadNext
<1>2. /\ latest \in Nat /\ shown' = latest + 1 /\ latest' \in 0 .. MaxVersion
      /\ latest + 1 <= latest' /\ shown \in 0 .. latest /\ shown \in Nat
  BY <1>1, HistoryAssumption DEF LogRead, Replaced
<1>3. /\ shown' \in 0 .. MaxVersion /\ shown' # shown
      /\ ~ Undo!Occurs(shown', Undoable) /\ ~ Undo!Occurs(shown', Redoable)
  <2>1. \A i \in DOMAIN Undoable : Undoable[i] \in 0 .. latest
    BY <1>1, LenProperties DEF LogRead
  <2>2. \A i \in DOMAIN Redoable : Redoable[i] \in 0 .. latest
    BY <1>1, LenProperties DEF LogRead
  <2>3. ~ (latest + 1 \in 0 .. latest) /\ latest + 1 \in 0 .. MaxVersion
    BY <1>2, HistoryAssumption
  <2> QED
    BY <1>2, <2>1, <2>2, <2>3 DEF Undo!Occurs
<1>4. /\ all \in Seq(Nat) /\ Len(all) = Undos + 1
      /\ \A i \in 1 .. Undos : all[i] = Undoable[i]
      /\ all[Undos + 1] = shown
  BY <1>1, <1>2, AppendProperties DEF LogRead
<1> HIDE DEF all
<1>5. CASE ~enabled'
  <2>1. Undos' = 0 /\ Redos' = 0
    BY <1>5 DEF Undos, Redos
  <2>2. Undoable' = <<>> /\ Redoable' = <<>>
    BY <1>1, <2>1, EmptySeq DEF LogRead
  <2>3. SubSeq(all, Len(all) + 1, Len(all)) = <<>> /\ Len(all) + 1 \in 1 .. Len(all) + 1
    BY <1>1, <1>4, SubSeqEmpty DEF LogRead
  <2>4. <<>> \in Undo!Recent(all)
    BY <2>3 DEF Undo!Recent
  <2>5. Len(<<>>) < MaxEntries
    BY HistoryAssumption
  <2> QED
    BY <1>3, <2>2, <2>4, <2>5 DEF Undo!Apply, all
<1>6. CASE enabled'
  <2>1. PastKept
    BY <1>6 DEF Replaced
  <2>2. PICK k \in 1 .. Undos + 2 :
          /\ cursor' = Undos + 2 - k
          /\ Len(entries') = cursor' + 1
          /\ \A i \in 1 .. cursor' :
               disk'[entries'[i].path].content =
                 IF k + i - 1 <= Undos THEN disk[entries[k + i - 1].path].content ELSE shown
    BY <2>1 DEF PastKept, Undos
  <2>3. Undos \in Nat /\ cursor' \in Nat /\ Undos' = cursor' /\ Redos' = 0
    BY <1>1, <1>6, <2>2 DEF LogRead, Undos, Redos
  <2>4. Len(all) = Undos + 1 /\ k \in 1 .. Len(all) + 1 /\ k \in Int /\ Len(all) \in Int
        /\ \A i \in k .. Len(all) : i \in 1 .. Undos + 1
    BY <1>4, <2>3
  <2>5. \A i \in k .. Len(all) : all[i] \in Nat
    BY <1>4, <2>4, ElementOfSeq
  <2>6. /\ SubSeq(all, k, Len(all)) \in Seq(Nat)
        /\ Len(SubSeq(all, k, Len(all))) = cursor'
        /\ \A i \in 1 .. cursor' : SubSeq(all, k, Len(all))[i] = all[k + i - 1]
    <3>1. /\ SubSeq(all, k, Len(all)) \in Seq(Nat)
          /\ Len(SubSeq(all, k, Len(all))) = IF k <= Len(all) THEN Len(all) - k + 1 ELSE 0
          /\ \A i \in 1 .. Len(all) - k + 1 : SubSeq(all, k, Len(all))[i] = all[k + i - 1]
      BY <2>4, <2>5, SubSeqProperties
    <3>2. Len(all) - k + 1 = cursor'
      BY <2>2, <2>3, <2>4
    <3>3. k > Len(all) => cursor' = 0
      BY <2>2, <2>3, <2>4
    <3> QED
      BY <2>3, <2>4, <3>1, <3>2, <3>3
  <2>7. Undoable' = SubSeq(all, k, Len(all))
    <3>1. ASSUME NEW i \in 1 .. cursor'
          PROVE  Undoable'[i] = all[k + i - 1]
      <4>1. Undoable'[i] = disk'[entries'[i].path].content
        BY <1>1, <2>3 DEF LogRead
      <4>2. k + i - 1 \in 1 .. Undos + 1
        BY <2>2, <2>3
      <4>3. CASE k + i - 1 <= Undos
        <5>1. k + i - 1 \in 1 .. Undos
          BY <2>3, <4>2, <4>3
        <5>2. all[k + i - 1] = disk[entries[k + i - 1].path].content
          BY <1>1, <1>4, <5>1 DEF LogRead
        <5> QED
          BY <2>2, <4>1, <4>3, <5>2
      <4>4. CASE ~ (k + i - 1 <= Undos)
        <5>1. k + i - 1 = Undos + 1
          BY <2>3, <4>2, <4>4
        <5> QED
          BY <1>4, <2>2, <4>1, <4>4, <5>1
      <4> QED
        BY <4>3, <4>4
    <3>2. Undoable' \in Seq(Nat) /\ Len(Undoable') = cursor'
      BY <1>1, <2>3 DEF LogRead
    <3> QED
      BY <2>6, <3>1, <3>2, SeqEqual
  <2>8. Undoable' \in Undo!Recent(all)
    BY <2>4, <2>7 DEF Undo!Recent
  <2>9. Len(Undoable') < MaxEntries
    <3>1. Len(entries') <= MaxEntries
      BY DEF IInv, HistoryIsWhole, WithinLimits
    <3> QED
      BY <1>1, <2>2, <2>3, <3>1, HistoryAssumption DEF LogRead
  <2>10. Redoable' = <<>>
    BY <1>1, <2>3, EmptySeq DEF LogRead
  <2> QED
    BY <1>3, <2>8, <2>9, <2>10 DEF Undo!Apply, all
<1> QED
  BY <1>5, <1>6

(* A step that leaves the log and the files of its revisions alone.        *)
LogUnchanged ==
    /\ entries' = entries /\ cursor' = cursor /\ enabled' = enabled /\ shown' = shown
    /\ \A p \in PathsOf(entries) : p \in DOMAIN disk' /\ disk'[p] = disk[p]

(* A step that leaves entries, cursor and version alone is none of the     *)
(* undo log.                                                               *)
LEMMA UnchangedStutters ==
  ASSUME IInv, IInv', LogUnchanged
  PROVE  UNCHANGED Undo!log
<1>1. LogRead /\ LogRead'
  BY LogIsRead, LogIsReadNext
<1>2. Undos' = Undos /\ Redos' = Redos
  BY DEF LogUnchanged, Undos, Redos
<1>3. cursor \in Nat /\ Len(entries) \in Nat /\ (enabled => cursor + 1 \in 1 .. Len(entries))
      /\ \A i \in 1 .. Len(entries) : entries[i].path \in PathsOf(entries)
  BY EntryFacts DEF IInv, TypeOK
<1>4. \A i \in 1 .. Len(entries) : disk'[entries'[i].path].content = disk[entries[i].path].content
  BY <1>3 DEF LogUnchanged
<1>5. (\A i \in 1 .. Undos : i \in 1 .. Len(entries))
      /\ (\A i \in 1 .. Redos : cursor + 1 + i \in 1 .. Len(entries))
  BY <1>3 DEF Undos, Redos
<1>6. Undoable' = Undoable
  <2>1. \A i \in 1 .. Undos : Undoable'[i] = Undoable[i]
    BY <1>1, <1>2, <1>4, <1>5 DEF LogRead
  <2> QED
    BY <1>1, <1>2, <2>1, SeqEqual DEF LogRead
<1>7. Redoable' = Redoable
  <2>1. \A i \in 1 .. Redos : Redoable'[i] = Redoable[i]
    BY <1>1, <1>2, <1>4, <1>5 DEF LogRead, LogUnchanged
  <2> QED
    BY <1>1, <1>2, <2>1, SeqEqual DEF LogRead
<1> QED
  BY <1>6, <1>7 DEF LogUnchanged, Undo!log

(* A step of the cursor reads the same files.                              *)
LEMMA CursorMoved ==
  ASSUME IInv, IInv', enabled, NEW target \in Nat, target < Len(entries),
         ShowRevision(target)
  PROVE  /\ LogRead /\ LogRead' /\ cursor \in Nat /\ Len(entries) \in Nat
         /\ Undos = cursor /\ Undos' = target
         /\ Redos = Len(entries) - cursor - 1 /\ Redos' = Len(entries) - target - 1
         /\ cursor < Len(entries)
         /\ \A i \in 1 .. cursor : Undoable[i] = disk[entries[i].path].content
         /\ disk[entries[cursor + 1].path].content = shown
         /\ \A i \in 1 .. Redos : Redoable[i] = disk[entries[cursor + 1 + i].path].content
         /\ \A i \in 1 .. target : Undoable'[i] = disk[entries[i].path].content
         /\ shown' = disk[entries[target + 1].path].content
         /\ \A i \in 1 .. Redos' : Redoable'[i] = disk[entries[target + 1 + i].path].content
<1>1. LogRead /\ LogRead'
  BY LogIsRead, LogIsReadNext
<1>2. /\ disk' = disk /\ entries' = entries /\ cursor' = target /\ enabled' = enabled
      /\ shown' = disk[entries[target + 1].path].content
  BY DEF ShowRevision
<1>3. cursor \in Nat /\ Len(entries) \in Nat /\ cursor < Len(entries)
  BY EntryFacts DEF IInv, TypeOK
<1>4. Undos = cursor /\ Undos' = target
      /\ Redos = Len(entries) - cursor - 1 /\ Redos' = Len(entries) - target - 1
  BY <1>2 DEF Undos, Redos
<1>5. disk[entries[cursor + 1].path].content = shown
  BY DEF IInv, ReadersAgree, CursorEntry
<1> QED
  BY <1>1, <1>2, <1>3, <1>4, <1>5 DEF LogRead

(* Undo in the history is undo in the log.                                 *)
LEMMA UndoRefines ==
  ASSUME IInv, IInv', UndoLastChange
  PROVE  Undo!Undo
<1>1. enabled /\ cursor \in Nat /\ cursor > 0 /\ ShowRevision(cursor - 1)
      /\ cursor - 1 \in Nat /\ cursor - 1 < Len(entries) /\ cursor - 1 + 1 = cursor
  BY EntryFacts DEF UndoLastChange, CanUndo, IInv, TypeOK
<1> DEFINE before == SubSeq(Undoable, 1, Len(Undoable) - 1)
           after == <<shown>> \o Redoable
<1>2. /\ LogRead /\ LogRead' /\ Len(entries) \in Nat /\ cursor < Len(entries)
      /\ Undos = cursor /\ Undos' = cursor - 1
      /\ Redos = Len(entries) - cursor - 1 /\ Redos' = Len(entries) - cursor
      /\ \A i \in 1 .. cursor : Undoable[i] = disk[entries[i].path].content
      /\ disk[entries[cursor + 1].path].content = shown
      /\ \A i \in 1 .. Redos : Redoable[i] = disk[entries[cursor + 1 + i].path].content
      /\ \A i \in 1 .. cursor - 1 : Undoable'[i] = disk[entries[i].path].content
      /\ shown' = disk[entries[cursor].path].content
      /\ \A i \in 1 .. Redos' : Redoable'[i] = disk[entries[cursor + i].path].content
  <2> DEFINE target == cursor - 1
  <2>1. target \in Nat /\ target < Len(entries) /\ ShowRevision(target) /\ target + 1 = cursor
    BY <1>1
  <2> HIDE DEF target
  <2>2. Len(entries) - target - 1 = Len(entries) - cursor
    BY <1>1, <2>1, EntryFacts
  <2>3. /\ LogRead /\ LogRead' /\ Len(entries) \in Nat /\ cursor < Len(entries)
        /\ Undos = cursor /\ Undos' = target
        /\ Redos = Len(entries) - cursor - 1 /\ Redos' = Len(entries) - target - 1
        /\ \A i \in 1 .. cursor : Undoable[i] = disk[entries[i].path].content
        /\ disk[entries[cursor + 1].path].content = shown
        /\ \A i \in 1 .. Redos : Redoable[i] = disk[entries[cursor + 1 + i].path].content
        /\ \A i \in 1 .. target : Undoable'[i] = disk[entries[i].path].content
        /\ shown' = disk[entries[target + 1].path].content
        /\ \A i \in 1 .. Redos' : Redoable'[i] = disk[entries[target + 1 + i].path].content
    BY <1>1, <2>1, CursorMoved
  <2> QED
    BY <2>1, <2>2, <2>3 DEF target
<1>3. /\ Undoable \in Seq(Nat) /\ Len(Undoable) = cursor /\ Undoable # <<>>
      /\ Redoable \in Seq(Nat) /\ Len(Redoable) = Redos
      /\ Undoable' \in Seq(Nat) /\ Len(Undoable') = cursor - 1
      /\ Redoable' \in Seq(Nat) /\ Len(Redoable') = Redos + 1
      /\ shown \in Nat /\ Redos \in Nat
  BY <1>1, <1>2, EmptySeq, HistoryAssumption DEF LogRead
<1>4. shown' = Undoable[Len(Undoable)]
  <2>1. cursor \in 1 .. cursor
    BY <1>1
  <2> QED
    BY <1>2, <1>3, <2>1
<1>5. Undoable' = before
  <2>1. \A i \in 1 .. cursor - 1 : Undoable[i] \in Nat
    BY <1>1, <1>3, ElementOfSeq
  <2>2. /\ before \in Seq(Nat) /\ Len(before) = cursor - 1
        /\ \A i \in 1 .. cursor - 1 : before[i] = Undoable[i]
    <3>1. /\ SubSeq(Undoable, 1, cursor - 1) \in Seq(Nat)
          /\ Len(SubSeq(Undoable, 1, cursor - 1)) = IF 1 <= cursor - 1 THEN cursor - 1 - 1 + 1 ELSE 0
          /\ \A i \in 1 .. cursor - 1 - 1 + 1 : SubSeq(Undoable, 1, cursor - 1)[i] = Undoable[1 + i - 1]
      BY <1>1, <2>1, SubSeqProperties
    <3> QED
      BY <1>1, <1>3, <3>1
  <2> HIDE DEF before
  <2>3. \A i \in 1 .. cursor - 1 : i \in 1 .. cursor /\ Undoable'[i] = before[i]
    BY <1>1, <1>2, <2>2
  <2> QED
    BY <1>3, <2>2, <2>3, SeqEqual
<1>6. Redoable' = after
  <2>1. <<shown>> \in Seq(Nat) /\ Len(<<shown>>) = 1 /\ <<shown>>[1] = shown
    BY <1>3
  <2>2. /\ after \in Seq(Nat) /\ Len(after) = 1 + Redos
        /\ \A i \in 1 .. 1 + Redos : after[i] = IF i <= 1 THEN <<shown>>[i] ELSE Redoable[i - 1]
    BY <1>3, <2>1, ConcatProperties
  <2> HIDE DEF after
  <2>3. ASSUME NEW i \in 1 .. Redos + 1
        PROVE  Redoable'[i] = after[i]
    <3>1. Redoable'[i] = disk[entries[cursor + i].path].content
      BY <1>1, <1>2, <1>3
    <3>2. CASE i = 1
      BY <1>2, <2>1, <2>2, <3>1, <3>2
    <3>3. CASE i # 1
      <4>1. i - 1 \in 1 .. Redos /\ cursor + 1 + (i - 1) = cursor + i /\ ~ (i <= 1) /\ i \in 1 .. 1 + Redos
        BY <1>1, <1>3, <3>3
      <4> QED
        BY <1>2, <2>2, <3>1, <4>1
    <3> QED
      BY <3>2, <3>3
  <2>4. \A i \in 1 .. Len(Redoable') : Redoable'[i] = after[i]
    BY <1>3, <2>3
  <2>5. Redoable' \in Seq(Nat) /\ Len(Redoable') = Len(after)
    BY <1>3, <2>2
  <2> QED
    BY <2>2, <2>4, <2>5, SeqEqual
<1> QED
  BY <1>3, <1>4, <1>5, <1>6 DEF Undo!Undo

(* Redo in the history is redo in the log.                                 *)
LEMMA RedoRefines ==
  ASSUME IInv, IInv', RedoLastChange
  PROVE  Undo!Redo
<1>1. enabled /\ cursor \in Nat /\ cursor + 1 \in Nat /\ cursor + 1 < Len(entries)
      /\ ShowRevision(cursor + 1)
  BY DEF RedoLastChange, CanRedo, IInv, TypeOK
<1> DEFINE before == Append(Undoable, shown)
           after == Tail(Redoable)
<1>2. /\ LogRead /\ LogRead' /\ Len(entries) \in Nat /\ cursor < Len(entries)
      /\ Undos = cursor /\ Undos' = cursor + 1
      /\ Redos = Len(entries) - cursor - 1 /\ Redos' = Redos - 1 /\ Redos >= 1
      /\ \A i \in 1 .. cursor : Undoable[i] = disk[entries[i].path].content
      /\ disk[entries[cursor + 1].path].content = shown
      /\ \A i \in 1 .. Redos : Redoable[i] = disk[entries[cursor + 1 + i].path].content
      /\ \A i \in 1 .. cursor + 1 : Undoable'[i] = disk[entries[i].path].content
      /\ shown' = disk[entries[cursor + 1 + 1].path].content
      /\ \A i \in 1 .. Redos' : Redoable'[i] = disk[entries[cursor + 1 + 1 + i].path].content
  <2> DEFINE target == cursor + 1
  <2>1. target \in Nat /\ target < Len(entries) /\ ShowRevision(target) /\ target = cursor + 1
    BY <1>1
  <2> HIDE DEF target
  <2>2. Len(entries) \in Nat
    BY EntryFacts
  <2>3. Len(entries) - target - 1 = (Len(entries) - cursor - 1) - 1 /\ Len(entries) - cursor - 1 >= 1
    BY <1>1, <2>1, <2>2
  <2>4. Redos' = Redos - 1 /\ Redos >= 1
    BY <1>1, <2>1, <2>3, CursorMoved
  <2> QED
    BY <1>1, <2>1, <2>4, CursorMoved
<1>3. /\ Undoable \in Seq(Nat) /\ Len(Undoable) = cursor
      /\ Redoable \in Seq(Nat) /\ Len(Redoable) = Redos /\ Redoable # <<>>
      /\ Undoable' \in Seq(Nat) /\ Len(Undoable') = cursor + 1
      /\ Redoable' \in Seq(Nat) /\ Len(Redoable') = Redos - 1
      /\ shown \in Nat /\ Redos \in Nat
  BY <1>1, <1>2, EmptySeq, HistoryAssumption DEF LogRead
<1>4. shown' = Head(Redoable)
  <2>1. 1 \in 1 .. Redos
    BY <1>2, <1>3
  <2>2. Redoable[1] = disk[entries[cursor + 1 + 1].path].content
    BY <1>2, <2>1
  <2>3. Head(Redoable) = Redoable[1]
    BY <1>3
  <2> QED
    BY <1>2, <2>2, <2>3
<1>5. Undoable' = before
  <2>1. /\ before \in Seq(Nat) /\ Len(before) = cursor + 1
        /\ \A i \in 1 .. cursor : before[i] = Undoable[i]
        /\ before[cursor + 1] = shown
    BY <1>3, AppendProperties
  <2> HIDE DEF before
  <2>2. ASSUME NEW i \in 1 .. cursor + 1
        PROVE  Undoable'[i] = before[i]
    <3>1. CASE i = cursor + 1
      BY <1>2, <2>1, <3>1
    <3>2. CASE i # cursor + 1
      BY <1>1, <1>2, <2>1, <3>2
    <3> QED
      BY <3>1, <3>2
  <2> QED
    BY <1>3, <2>1, <2>2, SeqEqual
<1>6. Redoable' = after
  <2>1. /\ after \in Seq(Nat) /\ Len(after) = Redos - 1
        /\ \A i \in 1 .. Redos - 1 : after[i] = Redoable[i + 1]
    BY <1>3, HeadTailProperties
  <2> HIDE DEF after
  <2>2. ASSUME NEW i \in 1 .. Redos - 1
        PROVE  Redoable'[i] = after[i]
    <3>1. i + 1 \in 1 .. Redos /\ cursor + 1 + (i + 1) = cursor + 1 + 1 + i
      BY <1>1, <1>3
    <3> QED
      BY <1>2, <2>1, <3>1
  <2> QED
    BY <1>3, <2>1, <2>2, SeqEqual
<1> QED
  BY <1>3, <1>4, <1>5, <1>6 DEF Undo!Redo

(* A load leaves nothing to undo and nothing to redo.                      *)
LEMMA LoadedLog ==
  ASSUME Init
  PROVE  Undo!Init
<1>1. IInv
  BY LoadedHistory
<1>2. LogRead
  BY <1>1, LogIsRead
<1>3. cursor = 0 /\ shown = 0
  BY DEF Init, InitEager, InitSourceBacked
<1>4. enabled => Len(entries) = 1
  <2>1. ASSUME enabled
        PROVE  Len(entries) = 1
    <3>1. PICK size \in Sizes : InitEager(size) \/ InitSourceBacked(size)
      BY DEF Init
    <3>2. entries = <<>> => FALSE
      BY <1>1, <1>3, <2>1 DEF IInv, HistoryIsWhole
    <3>3. \E b \in Sizes : entries = <<Revision(0, b)>>
      BY <3>1, <3>2 DEF InitEager, InitSourceBacked
    <3> QED
      BY <3>3
  <2> QED
    BY <2>1
<1>5. Undos = 0 /\ Redos = 0
  BY <1>3, <1>4 DEF Undos, Redos
<1>6. Undoable = <<>> /\ Redoable = <<>>
  BY <1>2, <1>5, EmptySeq DEF LogRead
<1>7. shown \in 0 .. MaxVersion
  BY <1>3, HistoryAssumption
<1> QED
  BY <1>6, <1>7 DEF Undo!Init

(* Every step of the history is one of the log, or none.                   *)
LEMMA EveryStepRefines ==
  ASSUME IInv, [Next]_vars
  PROVE  [Undo!Next]_(Undo!log)
<1>1. IInv'
  BY EveryStep
<1>2. ASSUME disk' = disk, UNCHANGED history, shown' = shown
      PROVE  LogUnchanged
  BY <1>2, EntryFacts DEF LogUnchanged, history, PathsOf
<1>3. CASE PublishFrame \/ PublishFile \/ PublishFileOverBudget
           \/ PublishReviewFile \/ PublishReviewFrame
  <2>1. Replaced
    BY <1>3, PublishFrameStep, PublishFileStep, PublishFileOverBudgetStep,
       PublishReviewFileStep, PublishReviewFrameStep
  <2> QED
    BY <1>1, <2>1, ReplacedApplies DEF Undo!Next
<1>4. CASE UndoLastChange
  BY <1>1, <1>4, UndoRefines DEF Undo!Next
<1>5. CASE RedoLastChange
  BY <1>1, <1>5, RedoRefines DEF Undo!Next
<1>6. CASE Materialize \/ BeginReview \/ QueryForReview \/ MaterializeForReview \/ EndReview
           \/ UNCHANGED vars
  <2>1. disk' = disk /\ UNCHANGED history /\ shown' = shown
    BY <1>6 DEF Materialize, BeginReview, QueryForReview, MaterializeForReview, EndReview,
                vars, dataset
  <2> QED
    BY <1>1, <1>2, <2>1, UnchangedStutters
<1>7. CASE LeaveBaselineBehind
  <2>1. UNCHANGED history /\ shown' = shown /\ entries' = entries
        /\ cursor' = cursor /\ enabled' = enabled /\ ~enabled
    BY <1>7 DEF LeaveBaselineBehind, dataset, history
  <2>2. PathsOf(entries) = {}
    BY <2>1, EntryFacts
  <2> QED
    BY <1>1, <2>1, <2>2, UnchangedStutters DEF LogUnchanged
<1>8. CASE ExternalChange
  <2>1. /\ entries' = entries /\ cursor' = cursor /\ enabled' = enabled /\ shown' = shown
    BY <1>8 DEF ExternalChange, dataset, history
  <2>2. /\ DOMAIN disk \ {External} \subseteq DOMAIN disk'
        /\ \A p \in DOMAIN disk' : p # External => disk'[p] = disk[p]
    BY <1>8, ExternalChangeStep
  <2>3. \A p \in PathsOf(entries) : p \in DOMAIN disk /\ p # External
    BY EntryFacts, SessionPaths DEF IInv, FilesAreDated, PathsOf
  <2> QED
    BY <1>1, <2>1, <2>2, <2>3, UnchangedStutters DEF LogUnchanged
<1> QED
  BY <1>3, <1>4, <1>5, <1>6, <1>7, <1>8 DEF Next, PrepareStep, ReviewStep

(* Seen through the files, every command of the dataset is a change, an    *)
(* undo, a redo or nothing at all: commands that fail, are cancelled or    *)
(* find their dataset changed included.                                    *)
THEOREM UndoLogIsKept ==
  Spec => KeepsTheUndoLog
<1>1. IInv /\ [Next]_vars => [Undo!Next]_(Undo!log)
  BY EveryStepRefines
<1> QED
  BY <1>1, LoadedLog, HistoryInvariant, PTL DEF Spec, KeepsTheUndoLog, Undo!Spec
=============================================================================
