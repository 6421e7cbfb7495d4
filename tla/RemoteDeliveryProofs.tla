------------------------ MODULE RemoteDeliveryProofs ------------------------
(***************************************************************************)
(* Theorems about RemoteDelivery, for any contents, any requests, any      *)
(* limit of the record and any number of files.                            *)
(***************************************************************************)
EXTENDS RemoteDelivery, SequenceTheorems, TLAPS

Record == [key : Key, status : Statuses]

(* A key has one record.                                                   *)
Unique(records) ==
    \A i, j \in DOMAIN records : records[i].key = records[j].key => i = j

RecordOK == ledger \in Seq(Record) /\ Len(ledger) <= MaxRecords /\ Unique(ledger)

(* What is left of the record without one key: a shorter record, of the    *)
(* same records, without that key.                                         *)
LEMMA OthersOfKey ==
  ASSUME RecordOK, NEW key \in Key
  PROVE  /\ Others(key) \in Seq(Record)
         /\ Unique(Others(key))
         /\ KeysOf(Others(key)) = KeysOf(ledger) \ {key}
         /\ \A i \in DOMAIN Others(key) : \E j \in DOMAIN ledger : Others(key)[i] = ledger[j]
         /\ OnRecord(key) => Len(Others(key)) = Len(ledger) - 1
<1>1. CASE ~OnRecord(key)
  BY <1>1 DEF Others, RecordOK, OnRecord, KeysOf
<1>2. CASE OnRecord(key)
  <2> DEFINE p == CHOOSE i \in DOMAIN ledger : ledger[i].key = key
             before == SubSeq(ledger, 1, p - 1)
             after == SubSeq(ledger, p + 1, Len(ledger))
             rest == before \o after
  <2>n. Len(ledger) \in Nat /\ DOMAIN ledger = 1 .. Len(ledger)
    BY LenProperties DEF RecordOK
  <2>1. p \in 1 .. Len(ledger) /\ ledger[p].key = key
    BY <1>2, <2>n DEF OnRecord, KeysOf
  <2> HIDE DEF p
  <2>2. before \in Seq(Record) /\ Len(before) = p - 1
        /\ \A i \in 1 .. p - 1 : before[i] = ledger[i]
    BY <2>1, SubSeqProperties DEF RecordOK
  <2>3. after \in Seq(Record) /\ Len(after) = Len(ledger) - p
        /\ \A i \in 1 .. Len(ledger) - p : after[i] = ledger[p + i]
    BY <2>1, SubSeqProperties DEF RecordOK
  <2>4. Others(key) = rest
    BY <1>2 DEF Others, RemoveAt, p, rest, before, after
  <2> HIDE DEF before, after
  <2>c. /\ rest \in Seq(Record)
        /\ Len(rest) = Len(before) + Len(after)
        /\ \A i \in 1 .. Len(before) + Len(after) :
             rest[i] = IF i <= Len(before) THEN before[i] ELSE after[i - Len(before)]
    BY <2>2, <2>3, ConcatProperties, Zenon
  <2> HIDE DEF rest
  <2>5. rest \in Seq(Record) /\ Len(rest) = Len(ledger) - 1
    BY <2>n, <2>1, <2>2, <2>3, <2>c
  <2>6. \A i \in 1 .. Len(ledger) - 1 :
          rest[i] = IF i < p THEN ledger[i] ELSE ledger[i + 1]
    <3> SUFFICES ASSUME NEW i \in 1 .. Len(ledger) - 1
                 PROVE  rest[i] = IF i < p THEN ledger[i] ELSE ledger[i + 1]
      OBVIOUS
    <3>1. CASE i < p
      BY <2>n, <2>1, <2>2, <2>3, <2>c, <3>1
    <3>2. CASE ~(i < p)
      <4>1. i - (p - 1) \in 1 .. Len(ledger) - p /\ p + (i - (p - 1)) = i + 1
        BY <2>n, <2>1, <3>2
      <4>2. rest[i] = after[i - (p - 1)]
        BY <2>n, <2>1, <2>2, <2>3, <2>c, <3>2
      <4> QED
        BY <2>3, <3>2, <4>1, <4>2
    <3> QED
      BY <3>1, <3>2
  <2>7. DOMAIN rest = 1 .. Len(ledger) - 1
    BY <2>5
  <2>8. Unique(rest)
    <3>1. \A i, j \in 1 .. Len(ledger) : ledger[i].key = ledger[j].key => i = j
      BY <2>n DEF RecordOK, Unique
    <3>2. ASSUME NEW i \in 1 .. Len(ledger) - 1, NEW j \in 1 .. Len(ledger) - 1,
                 rest[i].key = rest[j].key
          PROVE  i = j
      BY <2>n, <2>1, <2>6, <3>1, <3>2
    <3> QED
      BY <2>7, <3>2 DEF Unique
  <2>9. KeysOf(rest) = KeysOf(ledger) \ {key}
    <3>1. ASSUME NEW i \in 1 .. Len(ledger) - 1
          PROVE  rest[i].key \in KeysOf(ledger) \ {key}
      BY <2>n, <2>1, <2>6, <3>1 DEF Unique, RecordOK, KeysOf
    <3>2. ASSUME NEW j \in 1 .. Len(ledger), ledger[j].key # key
          PROVE  ledger[j].key \in KeysOf(rest)
      <4>1. CASE j < p
        BY <2>n, <2>1, <2>6, <2>7, <3>2, <4>1 DEF KeysOf
      <4>2. CASE j > p
        <5>1. j - 1 \in 1 .. Len(ledger) - 1 /\ rest[j - 1] = ledger[j]
          BY <2>n, <2>1, <2>6, <4>2
        <5> QED
          BY <5>1, <2>7 DEF KeysOf
      <4> QED
        BY <2>n, <2>1, <3>2, <4>1, <4>2
    <3> QED
      BY <2>n, <2>7, <3>1, <3>2 DEF KeysOf
  <2>10. \A i \in DOMAIN rest :
           \E j \in DOMAIN ledger : rest[i] = ledger[j]
    BY <2>n, <2>1, <2>6, <2>7
  <2> QED
    BY <2>4, <2>5, <2>8, <2>9, <2>10
<1> QED
  BY <1>1, <1>2

(* The keys of a record that grew by one delivery.                         *)
LEMMA KeysOfAppend ==
  ASSUME NEW records \in Seq(Record), NEW record \in Record
  PROVE  KeysOf(Append(records, record)) = KeysOf(records) \cup {record.key}
<1>1. /\ Len(records) \in Nat
      /\ DOMAIN records = 1 .. Len(records)
      /\ DOMAIN Append(records, record) = 1 .. Len(records) + 1
  BY LenProperties, AppendProperties
<1>2. /\ \A i \in 1 .. Len(records) : Append(records, record)[i] = records[i]
      /\ Append(records, record)[Len(records) + 1] = record
  BY AppendProperties
<1> QED
  BY <1>1, <1>2 DEF KeysOf

(* DeliveryLedger::record, on a record that is within its limit and holds  *)
(* a key once: it stays so, the key is on it, and it loses the oldest key  *)
(* only to a new one when it is full.                                      *)
LEMMA RecordedDelivery ==
  ASSUME RecordOK, NEW key \in Key, NEW status \in Statuses
  PROVE  /\ Recorded(key, status) \in Seq(Record)
         /\ Len(Recorded(key, status)) <= MaxRecords
         /\ Unique(Recorded(key, status))
         /\ KeysOf(Recorded(key, status)) =
              IF OnRecord(key) THEN KeysOf(ledger)
                               ELSE (KeysOf(ledger) \ Oldest) \cup {key}
         /\ \A i \in DOMAIN Recorded(key, status) :
              \/ Recorded(key, status)[i] = [key |-> key, status |-> status]
              \/ \E j \in DOMAIN ledger : Recorded(key, status)[i] = ledger[j]
<1> DEFINE record == [key |-> key, status |-> status]
           others == Others(key)
           records == Append(others, record)
           n == Len(others)
<1>1. /\ others \in Seq(Record)
      /\ Unique(others)
      /\ KeysOf(others) = KeysOf(ledger) \ {key}
      /\ \A i \in DOMAIN others : \E j \in DOMAIN ledger : others[i] = ledger[j]
      /\ OnRecord(key) => n = Len(ledger) - 1
      /\ ~OnRecord(key) => others = ledger /\ n = Len(ledger)
  BY OthersOfKey DEF Others
<1>2. record \in Record /\ record.key = key
  BY DEF Record
<1>3. Recorded(key, status) =
        SubSeq(records, (IF Len(records) > MaxRecords THEN Len(records) - MaxRecords ELSE 0) + 1,
               Len(records))
  BY DEF Recorded
<1> HIDE DEF others, record
<1>4. /\ n \in Nat
      /\ DOMAIN others = 1 .. n
      /\ records \in Seq(Record)
      /\ Len(records) = n + 1
      /\ DOMAIN records = 1 .. n + 1
      /\ \A i \in 1 .. n : records[i] = others[i]
      /\ records[n + 1] = record
  BY <1>1, <1>2, LenProperties, AppendProperties
<1>5. Unique(records)
  <2>1. \A i \in 1 .. n : others[i].key # key
    BY <1>1, <1>4 DEF KeysOf
  <2> QED
    BY <1>1, <1>2, <1>4, <2>1 DEF Unique
<1>6. KeysOf(records) = KeysOf(ledger) \cup {key}
  BY <1>1, <1>2, KeysOfAppend
<1>7. \A i \in 1 .. n + 1 :
        records[i] = record \/ \E j \in DOMAIN ledger : records[i] = ledger[j]
  BY <1>1, <1>4
<1>8. Len(ledger) \in Nat /\ DOMAIN ledger = 1 .. Len(ledger) /\ Len(ledger) <= MaxRecords
  BY LenProperties DEF RecordOK
<1> HIDE DEF records, n
<1>9. CASE n + 1 <= MaxRecords
  <2>1. Recorded(key, status) = records
    BY <1>3, <1>4, <1>9, SubSeqFull, DeliveryAssumption
  <2>2. OnRecord(key) => key \in KeysOf(ledger)
    BY DEF OnRecord
  <2>3. ~OnRecord(key) => Oldest = {}
    BY <1>1, <1>8, <1>9, DeliveryAssumption DEF Oldest
  <2> QED
    BY <1>4, <1>5, <1>6, <1>7, <1>9, <2>1, <2>2, <2>3 DEF record
<1>10. CASE n + 1 > MaxRecords
  <2>1. ~OnRecord(key) /\ n = MaxRecords /\ others = ledger /\ Len(ledger) = MaxRecords
    <3>1. OnRecord(key) => n = Len(ledger) - 1
      BY <1>1
    <3>2. ~OnRecord(key) => n = Len(ledger) /\ others = ledger
      BY <1>1
    <3>3. ~OnRecord(key)
      <4> SUFFICES ASSUME OnRecord(key) PROVE FALSE
        OBVIOUS
      <4>1. n = Len(ledger) - 1
        BY <3>1
      <4>2. Len(ledger) \in Nat /\ Len(ledger) <= MaxRecords /\ n + 1 > MaxRecords
        BY <1>8, <1>10
      <4> QED
        BY <4>1, <4>2, DeliveryAssumption
    <3> QED
      BY <1>4, <1>8, <1>10, <3>2, <3>3, DeliveryAssumption
  <2> DEFINE kept == SubSeq(records, 2, n + 1)
  <2>2. Recorded(key, status) = kept
    BY <1>3, <1>4, <2>1, DeliveryAssumption
  <2>3. /\ kept \in Seq(Record)
        /\ Len(kept) = n
        /\ \A i \in 1 .. n : kept[i] = records[i + 1]
    <3>1. \A i \in 2 .. n + 1 : records[i] \in Record
      BY <1>4, ElementOfSeq
    <3> QED
      BY <1>4, <3>1, SubSeqProperties
  <2>4. DOMAIN kept = 1 .. n
    BY <1>4, <2>3
  <2> HIDE DEF kept
  <2>5. Unique(kept)
    <3>1. \A i, j \in 1 .. n + 1 : records[i].key = records[j].key => i = j
      BY <1>4, <1>5 DEF Unique
    <3> QED
      <4>1. ASSUME NEW i \in 1 .. n, NEW j \in 1 .. n, kept[i].key = kept[j].key
            PROVE  i = j
        <5>1. i + 1 \in 1 .. n + 1 /\ j + 1 \in 1 .. n + 1
          BY <1>4
        <5>2. i + 1 = j + 1
          BY <2>3, <3>1, <4>1, <5>1
        <5> QED
          BY <1>4, <5>2
      <4> QED
        BY <2>4, <4>1 DEF Unique
  <2>6. Oldest = {records[1].key}
    BY <1>4, <2>1, DeliveryAssumption DEF Oldest
  <2>7. KeysOf(kept) = KeysOf(records) \ {records[1].key}
    <3>1. \A i \in 2 .. n + 1 : records[i].key # records[1].key
      BY <1>4, <1>5 DEF Unique
    <3>2. KeysOf(kept) = {records[i].key : i \in 2 .. n + 1}
      <4>1. \A i \in 1 .. n : i + 1 \in 2 .. n + 1
        BY <1>4
      <4>2. \A i \in 2 .. n + 1 : i - 1 \in 1 .. n /\ kept[i - 1] = records[i]
        BY <1>4, <2>3
      <4> QED
        BY <2>3, <2>4, <4>1, <4>2 DEF KeysOf
    <3>3. KeysOf(records) = {records[i].key : i \in 1 .. n + 1}
      BY <1>4 DEF KeysOf
    <3> QED
      BY <1>4, <3>1, <3>2, <3>3
  <2>8. records[1].key # key
    <3>1. 1 \in 1 .. n /\ records[1] = others[1]
      BY <1>4, <2>1, DeliveryAssumption
    <3>2. others[1].key \in KeysOf(others)
      BY <1>4, <3>1 DEF KeysOf
    <3> QED
      BY <1>1, <3>1, <3>2
  <2>9. \A i \in 1 .. n :
          kept[i] = record \/ \E j \in DOMAIN ledger : kept[i] = ledger[j]
    <3>1. \A i \in 1 .. n : i + 1 \in 1 .. n + 1
      BY <1>4
    <3> QED
      BY <1>7, <2>3, <3>1
  <2> QED
    BY <1>4, <1>6, <2>1, <2>2, <2>3, <2>4, <2>5, <2>6, <2>7, <2>8, <2>9 DEF record
<1> QED
  BY <1>4, <1>9, <1>10, DeliveryAssumption

-----------------------------------------------------------------------------
(* The types of the variables, by the part of the system they belong to.   *)

DatasetOK ==
    /\ written \in Seq(Contents) /\ Len(written) \in Files
    /\ user \in DOMAIN written
    /\ dataset \in [backed : BOOLEAN, logged : BOOLEAN,
                    file : DOMAIN written \cup {NoFile, UserFile},
                    rows : Contents \cup {NoContent}]
    /\ revisions \subseteq DOMAIN written

RemoteOK ==
    /\ exists \in BOOLEAN
    /\ added \subseteq Contents
    /\ saved \subseteq Key /\ forgotten \subseteq Key

(* What a delivery sends are rows from the moment they are read, and those *)
(* in memory are read already.                                             *)
RowsRead ==
    /\ dataset # NoDataset /\ ~dataset.backed => dataset.rows \in Contents
    /\ \A r \in Requests :
         \/ At(r, {"sent", "recorded", "committed"})
         \/ ~At(r, {"idle"}) /\ delivery[r].file = NoFile
         => delivery[r].rows \in Contents

(* One delivery at a time.                                                 *)
OneDelivery ==
    \A r, s \in Requests : ~At(r, {"idle"}) /\ ~At(s, {"idle"}) => r = s

(* An append is on record from before its commit until the record loses    *)
(* it.                                                                     *)
OnRecordBeforeCommit ==
    \A r \in Requests :
        At(r, {"recorded", "committed"}) /\ Appending(r)
            => delivery[r].key \in KeysOf(ledger) \cup forgotten

SavedWhenCommitted ==
    \A r \in Requests :
        At(r, {"committed"}) /\ Appending(r) => delivery[r].key \in saved

(* An append that has not been accepted is of a key that was not on        *)
(* record.                                                                 *)
NewUnlessAgreed ==
    \A r \in Requests :
        At(r, {"sending", "sent"}) /\ Appending(r) /\ ~delivery[r].agreed
            => delivery[r].key \notin saved \ forgotten

IInv ==
    /\ TypeOK
    /\ RowsRead
    /\ OneDelivery
    /\ OnRecordBeforeCommit
    /\ SavedWhenCommitted
    /\ NewUnlessAgreed
    /\ SavedIsOnRecord
    /\ CommittedWasSaved

(* TypeOK, part by part.                                                   *)
LEMMA TypeParts ==
  TypeOK <=> DatasetOK /\ delivery \in [Requests -> Delivery] /\ RecordOK /\ RemoteOK
BY DEF TypeOK, DatasetOK, RecordOK, RemoteOK, Record, Unique

(* The files of the session and the rows of the dataset, as the dataset is *)
(* loaded, edited, shown in another revision and left.                     *)
LEMMA DatasetTypes ==
  ASSUME IInv, Next
  PROVE  DatasetOK'
<1> USE DeliveryAssumption
<1>1. DatasetOK
  BY TypeParts DEF IInv
<1>2. Len(written) \in Nat /\ DOMAIN written = 1 .. Len(written)
  BY <1>1, LenProperties DEF DatasetOK
<1>3. ASSUME NEW c \in Contents, NextFile \in Files
      PROVE  /\ Append(written, c) \in Seq(Contents)
             /\ Len(Append(written, c)) \in Files
             /\ DOMAIN written \subseteq DOMAIN Append(written, c)
             /\ NextFile \in DOMAIN Append(written, c)
  BY <1>1, <1>2, <1>3, AppendProperties DEF DatasetOK, NextFile
<1>4. \A f \in DOMAIN written : written[f] \in Contents
  BY <1>1 DEF DatasetOK
<1>5. CASE Load
  BY <1>1, <1>2, <1>3, <1>4, <1>5 DEF DatasetOK, Load, Write, NoDataset
<1>6. CASE Prepare
  <2>1. user' = user
    BY <1>6 DEF Prepare
  <2>2. CASE /\ \E c \in Contents : dataset' = [NoDataset EXCEPT !.rows = c]
             /\ revisions' = {}
             /\ UNCHANGED written
    BY <1>1, <2>1, <2>2 DEF DatasetOK, NoDataset
  <2>3. ASSUME NEW c \in Contents, NextFile \in Files, Write(c),
               revisions' = revisions \cup {NextFile},
               dataset' \in {[backed |-> TRUE, logged |-> TRUE, file |-> NextFile,
                             rows |-> NoContent],
                            [backed |-> FALSE, logged |-> TRUE, file |-> NextFile,
                             rows |-> c]}
        PROVE  DatasetOK'
    <3>1. /\ written' = Append(written, c)
          /\ written' \in Seq(Contents)
          /\ Len(written') \in Files
          /\ DOMAIN written \subseteq DOMAIN written'
          /\ NextFile \in DOMAIN written'
      BY <1>3, <2>3 DEF Write
    <3>2. revisions' \subseteq DOMAIN written' /\ user' \in DOMAIN written'
      BY <1>1, <2>1, <2>3, <3>1 DEF DatasetOK
    <3>3. dataset' \in [backed : BOOLEAN, logged : BOOLEAN,
                       file : DOMAIN written' \cup {NoFile, UserFile},
                       rows : Contents \cup {NoContent}]
      <4>1. NextFile \in DOMAIN written'
        BY <3>1
      <4>2. \E b \in BOOLEAN, rows \in Contents \cup {NoContent} :
              dataset' = [backed |-> b, logged |-> TRUE, file |-> NextFile, rows |-> rows]
        BY <2>3
      <4> QED
        BY <4>1, <4>2
    <3> QED
      BY <3>1, <3>2, <3>3 DEF DatasetOK
  <2> QED
    BY <1>6, <2>2, <2>3 DEF Prepare
<1>7. CASE ShowRevision
  BY <1>1, <1>4, <1>7 DEF DatasetOK, ShowRevision
<1>8. CASE Rewrite
  BY <1>1, <1>2, <1>3, <1>8 DEF DatasetOK, Rewrite, Write
<1>9. CASE Restart
  BY <1>1, <1>9 DEF DatasetOK, Restart, NoDataset
<1>10. ASSUME NEW r \in Requests, BeginWithFrame(r)
       PROVE  DatasetOK'
  <2>1. dataset.backed => Identity(dataset.file) \in DOMAIN written
    BY <1>1, <1>2, <1>10 DEF DatasetOK, BeginWithFrame, Readable, Identity
  <2> QED
    BY <1>1, <1>4, <1>10, <2>1 DEF DatasetOK, BeginWithFrame
<1>11. ASSUME UNCHANGED local
       PROVE  DatasetOK'
  BY <1>1, <1>11 DEF DatasetOK, local
<1>12. ASSUME NEW r \in Requests, DeliveryStep(r), ~BeginWithFrame(r)
       PROVE  UNCHANGED local
  BY <1>12 DEF DeliveryStep, BeginWithFile, ConsultLedger, NothingToConsult, Agree, Send,
      Stop, RecordUncertain, NothingToRecord, Commit, CommitAnswersWithAnError,
      RecordCommitted
<1>13. LoseLedger => UNCHANGED local
  BY DEF LoseLedger
<1> QED
  BY <1>5, <1>6, <1>7, <1>8, <1>9, <1>10, <1>11, <1>12, <1>13 DEF Next, DatasetStep

(* What a delivery takes with it, from its request to its end.             *)
LEMMA DeliveryTypes ==
  ASSUME IInv, Next
  PROVE  (delivery \in [Requests -> Delivery])'
<1> USE DeliveryAssumption
<1>1. DatasetOK /\ delivery \in [Requests -> Delivery]
  BY TypeParts DEF IInv
<1>2. Len(written) \in Nat /\ DOMAIN written = 1 .. Len(written) /\ DOMAIN written \subseteq Files
  BY <1>1, LenProperties DEF DatasetOK, Files
<1>3. ASSUME NEW file \in Files \cup {UserFile}, Readable(file)
      PROVE  Identity(file) \in DOMAIN written
  BY <1>1, <1>3 DEF DatasetOK, Readable, Identity
<1>4. \A f \in DOMAIN written : written[f] \in Contents
  BY <1>1 DEF DatasetOK
<1>5. Idle \in Delivery
  BY DEF Idle, Delivery, NoKey, FrameKey, Key, Policies
<1>6. ASSUME NEW r \in Requests, DeliveryStep(r)
      PROVE  (delivery \in [Requests -> Delivery])'
  <2>1. /\ delivery[r].file \in Files \cup {NoFile, UserFile}
        /\ delivery[r].rows \in Contents \cup {NoContent}
        /\ delivery[r].policy \in Policies
    BY <1>1 DEF Delivery
  <2>2. CASE BeginWithFile(r)
    <3>1. dataset.file \in Files \cup {NoFile, UserFile}
      BY <1>1, <1>2 DEF DatasetOK
    <3> QED
      <4> PICK policy \in Policies : Takes(r, policy, dataset.file, NoContent)
        BY <2>2 DEF BeginWithFile
      <4> DEFINE d == [Idle EXCEPT !.step = "taken", !.policy = policy,
                                   !.file = dataset.file, !.rows = NoContent]
      <4>1. d \in Delivery
        BY <1>5, <3>1 DEF Delivery
      <4>2. delivery' = [delivery EXCEPT ![r] = d]
        BY DEF Takes
      <4> QED
        BY <1>1, <4>1, <4>2
  <2>3. CASE BeginWithFrame(r)
    <3>1. dataset.backed => dataset.file \in Files \cup {UserFile}
      BY <1>1, <1>2, <2>3 DEF BeginWithFrame, Readable, DatasetOK
    <3>2. dataset.backed => written[Identity(dataset.file)] \in Contents
      BY <1>3, <1>4, <2>3, <3>1 DEF BeginWithFrame
    <3>3. PICK rows \in Contents \cup {NoContent}, policy \in Policies :
             Takes(r, policy, NoFile, rows)
      BY <1>1, <2>3, <3>2 DEF BeginWithFrame, DatasetOK
    <3> QED
      BY <1>1, <1>5, <3>3 DEF Takes, Idle, Delivery
  <2>4. CASE ConsultLedger(r)
    <3>1. KeyFor(r) \in Key
      BY <1>2, <1>3, <2>1, <2>4 DEF ConsultLedger, KeyFor, FrameKey, FileKey, Key
    <3> QED
      <4> DEFINE d == [delivery[r] EXCEPT !.key = KeyFor(r),
                                          !.step = IF OnRecord(KeyFor(r)) THEN "asking"
                                                                          ELSE "sending"]
      <4>1. d \in Delivery
        BY <1>1, <3>1 DEF Delivery
      <4>2. delivery' = [delivery EXCEPT ![r] = d]
        BY <2>4 DEF ConsultLedger
      <4> QED
        BY <1>1, <4>1, <4>2
  <2>5. CASE NothingToConsult(r) \/ Agree(r) \/ NothingToRecord(r) \/ Commit(r)
    BY <1>1, <2>5 DEF NothingToConsult, Agree, NothingToRecord, Commit, Enter, Delivery
  <2>6. CASE Send(r)
    <3>1. delivery[r].file # NoFile => written[Identity(delivery[r].file)] \in Contents
      BY <1>3, <1>4, <2>1, <2>6 DEF Send
    <3> QED
      BY <1>1, <2>6, <3>1 DEF Send, Enter, Delivery
  <2>7. CASE Stop(r) \/ CommitAnswersWithAnError(r) \/ RecordCommitted(r)
    BY <1>1, <1>5, <2>7 DEF Stop, CommitAnswersWithAnError, RecordCommitted
  <2>8. CASE RecordUncertain(r)
    BY <1>1, <2>8 DEF RecordUncertain, Enter, Delivery
  <2> QED
    BY <1>6, <2>2, <2>3, <2>4, <2>5, <2>6, <2>7, <2>8 DEF DeliveryStep
<1>7. CASE DatasetStep \/ LoseLedger
  BY <1>1, <1>5, <1>7 DEF DatasetStep, Load, Prepare, ShowRevision, Rewrite, Restart, LoseLedger
<1> QED
  BY <1>6, <1>7 DEF Next

(* Who writes the record, and what.                                        *)
LEMMA RecordSteps ==
  ASSUME Next
  PROVE  \/ UNCHANGED <<ledger, forgotten>>
         \/ LoseLedger
         \/ \E r \in Requests : \/ RecordUncertain(r)
                               \/ /\ RecordCommitted(r)
                                  /\ Appending(r)
                                  /\ RecordAs(delivery[r].key, "committed")
<1>1. DatasetStep => UNCHANGED <<ledger, forgotten>>
  BY DEF DatasetStep, Load, Prepare, ShowRevision, Rewrite, Restart
<1>2. ASSUME NEW r \in Requests, DeliveryStep(r),
             ~RecordUncertain(r), ~RecordCommitted(r)
      PROVE  UNCHANGED <<ledger, forgotten>>
  BY <1>2 DEF DeliveryStep, BeginWithFile, BeginWithFrame, ConsultLedger,
      NothingToConsult, Agree, Send, Stop, NothingToRecord, Commit,
      CommitAnswersWithAnError
<1>3. ASSUME NEW r \in Requests, RecordCommitted(r)
      PROVE  \/ UNCHANGED <<ledger, forgotten>>
             \/ Appending(r) /\ RecordAs(delivery[r].key, "committed")
  BY <1>3 DEF RecordCommitted
<1> QED
  BY <1>1, <1>2, <1>3 DEF Next

(* Who writes what the server has, and what.                               *)
LEMMA RemoteSteps ==
  ASSUME Next
  PROVE  \/ UNCHANGED remote
         \/ \E r \in Requests : Apply(r) /\ At(r, {"recorded"}) /\ UNCHANGED <<ledger, forgotten>>
                               /\ (Commit(r) \/ CommitAnswersWithAnError(r))
<1>1. DatasetStep \/ LoseLedger => UNCHANGED remote
  BY DEF DatasetStep, Load, Prepare, ShowRevision, Rewrite, Restart, LoseLedger
<1>2. ASSUME NEW r \in Requests, DeliveryStep(r),
             ~Commit(r), ~CommitAnswersWithAnError(r)
      PROVE  UNCHANGED remote
  BY <1>2 DEF DeliveryStep, BeginWithFile, BeginWithFrame, ConsultLedger,
      NothingToConsult, Agree, Send, Stop, RecordUncertain, NothingToRecord,
      RecordCommitted
<1>3. ASSUME NEW r \in Requests, Commit(r) \/ CommitAnswersWithAnError(r)
      PROVE  \/ UNCHANGED remote
             \/ Apply(r) /\ At(r, {"recorded"}) /\ UNCHANGED <<ledger, forgotten>>
  BY <1>3 DEF Commit, CommitAnswersWithAnError
<1> QED
  BY <1>1, <1>2, <1>3 DEF Next

(* A delivery's key is a key.                                              *)
LEMMA DeliveryKey ==
  ASSUME IInv, NEW r \in Requests
  PROVE  delivery[r].key \in Key
BY TypeParts DEF IInv, Delivery

(* The record stays within its limit, with one record of a key, and what   *)
(* it loses to the limit or to the file's loss is remembered.              *)
LEMMA RecordTypes ==
  ASSUME IInv, Next
  PROVE  RecordOK' /\ (forgotten \subseteq Key)'
<1>1. RecordOK /\ forgotten \subseteq Key
  BY TypeParts DEF IInv, RemoteOK
<1>2. Len(ledger) \in Nat /\ DOMAIN ledger = 1 .. Len(ledger)
      /\ \A i \in DOMAIN ledger : ledger[i] \in Record
  BY <1>1, LenProperties, ElementOfSeq DEF RecordOK
<1>3. KeysOf(ledger) \subseteq Key
  BY <1>2 DEF KeysOf, Record
<1>4. Oldest \subseteq KeysOf(ledger)
  BY <1>1, <1>2, DeliveryAssumption DEF Oldest, KeysOf, RecordOK
<1>5. ASSUME NEW key \in Key, NEW status \in Statuses, RecordAs(key, status)
      PROVE  RecordOK' /\ (forgotten \subseteq Key)'
  <2>1. RecordOK'
    BY <1>1, <1>5, RecordedDelivery DEF RecordAs, RecordOK, Unique
  <2>2. (forgotten \subseteq Key)'
    BY <1>1, <1>3, <1>4, <1>5 DEF RecordAs
  <2> QED
    BY <2>1, <2>2
<1>6. CASE UNCHANGED <<ledger, forgotten>>
  BY <1>1, <1>6 DEF RecordOK, Unique
<1>7. CASE LoseLedger
  BY <1>1, <1>3, <1>7, EmptySeq, DeliveryAssumption DEF LoseLedger, RecordOK, Unique
<1>8. ASSUME NEW r \in Requests, RecordUncertain(r)
      PROVE  RecordOK' /\ (forgotten \subseteq Key)'
  BY <1>5, <1>8, DeliveryKey DEF RecordUncertain, Statuses
<1>9. ASSUME NEW r \in Requests, RecordAs(delivery[r].key, "committed")
      PROVE  RecordOK' /\ (forgotten \subseteq Key)'
  BY <1>5, <1>9, DeliveryKey DEF Statuses
<1> QED
  BY <1>6, <1>7, <1>8, <1>9, RecordSteps

(* What the server has are rows of the dataset, under keys.                *)
LEMMA RemoteTypes ==
  ASSUME IInv, Next
  PROVE  RemoteOK'
<1>1. RemoteOK
  BY TypeParts DEF IInv
<1>2. (forgotten \subseteq Key)'
  BY RecordTypes
<1>3. CASE UNCHANGED remote
  BY <1>1, <1>2, <1>3 DEF RemoteOK, remote
<1>4. ASSUME NEW r \in Requests, Apply(r), At(r, {"recorded"})
      PROVE  RemoteOK'
  <2>1. delivery[r].key \in Key
    BY DeliveryKey
  <2>2. delivery[r].rows \in Contents
    BY <1>4 DEF IInv, RowsRead, At
  <2> QED
    BY <1>1, <1>2, <1>4, <2>1, <2>2 DEF RemoteOK, Apply
<1> QED
  BY <1>3, <1>4, RemoteSteps

(* The type invariant is kept.                                             *)
LEMMA TypesKept ==
  ASSUME IInv, Next
  PROVE  TypeOK'
<1>1. TypeOK' <=> /\ DatasetOK' /\ (delivery \in [Requests -> Delivery])'
                  /\ RecordOK' /\ RemoteOK'
  BY TypeParts, PTL
<1> QED
  BY <1>1, DatasetTypes, DeliveryTypes, RecordTypes, RemoteTypes

-----------------------------------------------------------------------------
(* A delivery's step finds the others at rest and leaves them so.          *)
LEMMA OthersAreIdle ==
  ASSUME IInv, NEW r \in Requests, DeliveryStep(r), NEW s \in Requests, s # r
  PROVE  delivery[s].step = "idle" /\ delivery'[s] = delivery[s]
<1>1. delivery \in [Requests -> Delivery]
  BY TypeParts DEF IInv
<1>2. delivery'[s] = delivery[s]
  BY <1>1 DEF DeliveryStep, BeginWithFile, BeginWithFrame, Takes, ConsultLedger,
      NothingToConsult, Agree, Send, Stop, RecordUncertain, NothingToRecord, Commit,
      CommitAnswersWithAnError, RecordCommitted, Enter
<1>3. NobodyDelivers \/ ~At(r, {"idle"})
  BY DEF DeliveryStep, BeginWithFile, BeginWithFrame, ConsultLedger,
      NothingToConsult, Agree, Send, Stop, RecordUncertain, NothingToRecord, Commit,
      CommitAnswersWithAnError, RecordCommitted, At
<1>4. At(s, {"idle"})
  BY <1>3 DEF IInv, OneDelivery, NobodyDelivers
<1> QED
  BY <1>2, <1>4 DEF At

(* The steps that no delivery takes leave every delivery as it is, or end  *)
(* them all.                                                               *)
LEMMA ElsewhereOrIdle ==
  ASSUME DatasetStep \/ LoseLedger
  PROVE  UNCHANGED delivery \/ delivery' = [r \in Requests |-> Idle]
BY DEF DatasetStep, Load, Prepare, ShowRevision, Rewrite, Restart, LoseLedger

(* A delivery that enters a step keeps everything else.                    *)
LEMMA EnterStep ==
  ASSUME delivery \in [Requests -> Delivery], NEW r \in Requests, NEW step, Enter(r, step)
  PROVE  /\ delivery'[r].step = step
         /\ delivery'[r].policy = delivery[r].policy
         /\ delivery'[r].file = delivery[r].file
         /\ delivery'[r].rows = delivery[r].rows
         /\ delivery'[r].key = delivery[r].key
         /\ delivery'[r].agreed = delivery[r].agreed
BY DEF Enter, Delivery

(* A delivery that begins has a policy, a file or rows, and nothing else.  *)
LEMMA BeginStep ==
  ASSUME delivery \in [Requests -> Delivery], NEW r \in Requests,
         BeginWithFile(r) \/ BeginWithFrame(r)
  PROVE  delivery'[r].step = "taken" /\ delivery'[r].key = NoKey
<1>1. PICK policy, file, rows : Takes(r, policy, file, rows)
  BY DEF BeginWithFile, BeginWithFrame
<1> QED
  BY <1>1 DEF Takes, Idle

(* A delivery that sends has the rows of its file, if it has one.          *)
LEMMA SendStep ==
  ASSUME delivery \in [Requests -> Delivery], NEW r \in Requests, Send(r)
  PROVE  /\ delivery[r].step = "sending" /\ delivery'[r].step = "sent"
         /\ delivery'[r].policy = delivery[r].policy
         /\ delivery'[r].key = delivery[r].key
         /\ delivery'[r].agreed = delivery[r].agreed
         /\ delivery'[r].rows = IF delivery[r].file = NoFile THEN delivery[r].rows
                                 ELSE written[Identity(delivery[r].file)]
<1>1. CASE delivery[r].file = NoFile
  BY <1>1, EnterStep DEF Send, At
<1>2. CASE delivery[r].file # NoFile
  BY <1>2 DEF Send, At, Delivery
<1> QED
  BY <1>1, <1>2

(* One delivery at a time.                                                 *)
LEMMA OneDeliveryKept ==
  ASSUME IInv, Next
  PROVE  OneDelivery'
<1>1. ASSUME NEW r \in Requests, DeliveryStep(r)
      PROVE  OneDelivery'
  <2>1. \A s \in Requests \ {r} : delivery'[s].step = "idle"
    BY <1>1, OthersAreIdle
  <2> QED
    BY <2>1 DEF OneDelivery, At
<1>2. CASE DatasetStep \/ LoseLedger
  BY <1>2, ElsewhereOrIdle DEF IInv, OneDelivery, At, Idle
<1> QED
  BY <1>1, <1>2 DEF Next

(* What a delivery sends are rows.                                         *)
LEMMA RowsReadKept ==
  ASSUME IInv, Next
  PROVE  RowsRead'
<1> USE DeliveryAssumption
<1>1. DatasetOK /\ delivery \in [Requests -> Delivery] /\ RowsRead
  BY TypeParts DEF IInv
<1>2. Len(written) \in Nat /\ DOMAIN written = 1 .. Len(written)
      /\ \A f \in DOMAIN written : written[f] \in Contents
  BY <1>1, LenProperties DEF DatasetOK
<1>3. ASSUME NEW file \in Files \cup {NoFile, UserFile}, Readable(file)
      PROVE  written[Identity(file)] \in Contents
  BY <1>1, <1>2, <1>3 DEF DatasetOK, Readable, Identity
<1>4. dataset.file \in Files \cup {NoFile, UserFile}
  BY <1>1, <1>2 DEF DatasetOK, Files
<1>5. (dataset # NoDataset /\ ~dataset.backed => dataset.rows \in Contents)'
  <2>1. CASE Load
    BY <1>1, <1>2, <2>1 DEF Load, DatasetOK, NoDataset
  <2>2. CASE Prepare
    BY <2>2 DEF Prepare, NoDataset
  <2>3. CASE ShowRevision
    BY <1>1, <1>2, <2>3 DEF ShowRevision, DatasetOK
  <2>4. CASE Restart
    BY <2>4 DEF Restart
  <2>5. ASSUME NEW r \in Requests, BeginWithFrame(r)
        PROVE  (dataset # NoDataset /\ ~dataset.backed => dataset.rows \in Contents)'
    <3>1. dataset.backed => written[Identity(dataset.file)] \in Contents
      BY <1>3, <1>4, <2>5 DEF BeginWithFrame
    <3> QED
      BY <1>1, <2>5, <3>1 DEF BeginWithFrame, DatasetOK, RowsRead
  <2>6. CASE UNCHANGED dataset
    BY <1>1, <2>6 DEF RowsRead
  <2>7. Rewrite \/ LoseLedger => UNCHANGED dataset
    BY DEF Rewrite, LoseLedger, local
  <2>8. ASSUME NEW r \in Requests, DeliveryStep(r), ~BeginWithFrame(r)
        PROVE  UNCHANGED dataset
    BY <2>8 DEF DeliveryStep, BeginWithFile, ConsultLedger, NothingToConsult, Agree, Send,
        Stop, RecordUncertain, NothingToRecord, Commit, CommitAnswersWithAnError,
        RecordCommitted, local
  <2> QED
    BY <2>1, <2>2, <2>3, <2>4, <2>5, <2>6, <2>7, <2>8 DEF Next, DatasetStep
<1> DEFINE Read(r) == \/ At(r, {"sent", "recorded", "committed"})
                      \/ ~At(r, {"idle"}) /\ delivery[r].file = NoFile
                      => delivery[r].rows \in Contents
<1>6. ASSUME NEW r \in Requests, DeliveryStep(r)
      PROVE  Read(r)'
  <2>0. Read(r) /\ delivery[r].file \in Files \cup {NoFile, UserFile}
    BY <1>1 DEF RowsRead, Delivery
  <2>1. CASE BeginWithFile(r)
    <3>1. dataset.file # NoFile
      BY <1>1, <1>2, <2>1 DEF BeginWithFile, Readable, DatasetOK
    <3>2. delivery'[r].file = dataset.file /\ delivery'[r].step = "taken"
      BY <1>1, <2>1 DEF BeginWithFile, Takes, Idle
    <3> QED
      BY <3>1, <3>2 DEF At
  <2>2. CASE BeginWithFrame(r)
    <3>1. (IF dataset.backed THEN written[Identity(dataset.file)] ELSE dataset.rows)
            \in Contents
      BY <1>1, <1>3, <1>4, <2>2 DEF BeginWithFrame, RowsRead
    <3>2. delivery'[r].rows = IF dataset.backed THEN written[Identity(dataset.file)]
                                                ELSE dataset.rows
      BY <1>1, <2>2 DEF BeginWithFrame, Takes, Idle
    <3> QED
      BY <3>1, <3>2
  <2>3. CASE Send(r)
    <3>1. CASE delivery[r].file = NoFile
      <4>1. delivery'[r].rows = delivery[r].rows /\ delivery[r].step = "sending"
        BY <1>1, <2>3, <3>1, SendStep
      <4> QED
        BY <2>0, <3>1, <4>1 DEF At
    <3>2. CASE delivery[r].file # NoFile
      <4>1. written[Identity(delivery[r].file)] \in Contents
        BY <1>3, <2>0, <2>3, <3>2 DEF Send
      <4> QED
        <5>1. delivery'[r].rows = written[Identity(delivery[r].file)]
          BY <1>1, <2>3, <3>2, SendStep
        <5> QED
          BY <4>1, <5>1
    <3> QED
      BY <3>1, <3>2
  <2>4. CASE Stop(r) \/ CommitAnswersWithAnError(r) \/ RecordCommitted(r)
    BY <1>1, <2>4 DEF Stop, CommitAnswersWithAnError, RecordCommitted, Idle, At
  <2>5. CASE ConsultLedger(r)
    <3>1. /\ delivery'[r].file = delivery[r].file
          /\ delivery'[r].rows = delivery[r].rows
          /\ delivery'[r].step \in {"asking", "sending"}
          /\ ~At(r, {"idle"})
      BY <1>1, <2>5 DEF ConsultLedger, At
    <3> QED
      BY <2>0, <3>1 DEF At
  <2>6. CASE NothingToConsult(r) \/ Agree(r)
    <3>1. /\ delivery'[r].rows = delivery[r].rows
          /\ delivery'[r].file = delivery[r].file
          /\ delivery'[r].step = "sending"
          /\ delivery[r].step \in {"taken", "asking"}
      <4>1. CASE NothingToConsult(r)
        BY <1>1, <4>1, EnterStep DEF NothingToConsult, At
      <4>2. CASE Agree(r)
        BY <1>1, <4>2 DEF Agree, At, Delivery
      <4> QED
        BY <2>6, <4>1, <4>2
    <3> QED
      BY <2>0, <3>1 DEF At
  <2>7. CASE RecordUncertain(r) \/ NothingToRecord(r) \/ Commit(r)
    <3>1. /\ delivery'[r].rows = delivery[r].rows
          /\ delivery[r].step \in {"sent", "recorded"}
      BY <1>1, <2>7, EnterStep DEF RecordUncertain, NothingToRecord, Commit, At
    <3> QED
      BY <2>0, <3>1 DEF At
  <2> QED
    BY <1>6, <2>1, <2>2, <2>3, <2>4, <2>5, <2>6, <2>7 DEF DeliveryStep
<1>7. ASSUME NEW r \in Requests
      PROVE  Read(r)'
  <2>1. Read(r)
    BY <1>1 DEF RowsRead
  <2>2. CASE DatasetStep \/ LoseLedger
    BY <2>1, <2>2, ElsewhereOrIdle DEF Idle, At
  <2>3. ASSUME NEW s \in Requests, DeliveryStep(s), s # r
        PROVE  Read(r)'
    BY <2>3, OthersAreIdle DEF At
  <2> QED
    BY <1>6, <2>2, <2>3 DEF Next
<1> QED
  BY <1>5, <1>7 DEF RowsRead

-----------------------------------------------------------------------------
(* Recording a delivery puts its key on record, keeps every key that is on *)
(* record or remembered, and adds to neither any other.                    *)
LEMMA RecordKeeps ==
  ASSUME IInv, NEW key \in Key, NEW status \in Statuses, RecordAs(key, status)
  PROVE  /\ key \in KeysOf(ledger)' /\ key \notin forgotten'
         /\ KeysOf(ledger) \cup forgotten \subseteq (KeysOf(ledger) \cup forgotten)'
         /\ forgotten \subseteq forgotten' \cup {key}
         /\ \A i \in DOMAIN ledger' :
              \/ ledger'[i] = [key |-> key, status |-> status]
              \/ \E j \in DOMAIN ledger : ledger'[i] = ledger[j]
<1>1. /\ ledger' = Recorded(key, status)
      /\ forgotten' = (IF OnRecord(key) THEN forgotten ELSE forgotten \cup Oldest) \ {key}
  BY DEF RecordAs
<1>2. RecordOK
  BY TypeParts DEF IInv
<1>3. /\ KeysOf(ledger') = IF OnRecord(key) THEN KeysOf(ledger)
                           ELSE (KeysOf(ledger) \ Oldest) \cup {key}
      /\ \A i \in DOMAIN ledger' :
           \/ ledger'[i] = [key |-> key, status |-> status]
           \/ \E j \in DOMAIN ledger : ledger'[i] = ledger[j]
  BY <1>1, <1>2, RecordedDelivery
<1>4. OnRecord(key) <=> key \in KeysOf(ledger)
  BY DEF OnRecord
<1>5. KeysOf(ledger)' = KeysOf(ledger')
  BY DEF KeysOf
<1> QED
  BY <1>1, <1>3, <1>4, <1>5

(* The only step that can forget a key that is not on record any more is   *)
(* the loss of the file, which remembers it.                               *)
LEMMA KeysAreRemembered ==
  ASSUME IInv, Next
  PROVE  KeysOf(ledger) \cup forgotten \subseteq (KeysOf(ledger) \cup forgotten)'
<1>1. CASE LoseLedger
  BY <1>1 DEF LoseLedger
<1>2. CASE UNCHANGED <<ledger, forgotten>>
  BY <1>2 DEF KeysOf
<1>3. ASSUME NEW r \in Requests, RecordUncertain(r)
      PROVE  KeysOf(ledger) \cup forgotten \subseteq (KeysOf(ledger) \cup forgotten)'
  BY <1>3, RecordKeeps, DeliveryKey DEF RecordUncertain, Statuses
<1>4. ASSUME NEW r \in Requests, RecordAs(delivery[r].key, "committed")
      PROVE  KeysOf(ledger) \cup forgotten \subseteq (KeysOf(ledger) \cup forgotten)'
  BY <1>4, RecordKeeps, DeliveryKey DEF Statuses
<1> QED
  BY <1>1, <1>2, <1>3, <1>4, RecordSteps

(* What the server has saved is on record: before_commit runs before the   *)
(* commit.                                                                 *)
LEMMA SavedIsOnRecordKept ==
  ASSUME IInv, Next
  PROVE  SavedIsOnRecord'
<1>1. KeysOf(ledger) \cup forgotten \subseteq (KeysOf(ledger) \cup forgotten)'
  BY KeysAreRemembered
<1>2. saved \subseteq KeysOf(ledger) \cup forgotten
  BY DEF IInv, SavedIsOnRecord
<1>3. CASE UNCHANGED remote
  BY <1>1, <1>2, <1>3 DEF remote, SavedIsOnRecord
<1>4. ASSUME NEW r \in Requests, Apply(r), At(r, {"recorded"})
      PROVE  SavedIsOnRecord'
  <2>1. Appending(r) => delivery[r].key \in KeysOf(ledger) \cup forgotten
    BY <1>4 DEF IInv, OnRecordBeforeCommit, At
  <2> QED
    BY <1>1, <1>2, <1>4, <2>1 DEF Apply, SavedIsOnRecord
<1> QED
  BY <1>3, <1>4, RemoteSteps

(* What the server has saved stays saved.                                  *)
LEMMA SavedGrows ==
  ASSUME Next
  PROVE  saved \subseteq saved'
BY RemoteSteps DEF remote, Apply

(* The record calls committed what has been saved: after_commit runs after *)
(* the commit, and before_commit calls it uncertain.                       *)
LEMMA CommittedWasSavedKept ==
  ASSUME IInv, Next
  PROVE  CommittedWasSaved'
<1>1. saved \subseteq saved'
  BY SavedGrows
<1>2. \A i \in DOMAIN ledger : ledger[i].status = "committed" => ledger[i].key \in saved'
  BY <1>1 DEF IInv, CommittedWasSaved
<1>3. CASE UNCHANGED <<ledger, forgotten>>
  BY <1>2, <1>3 DEF CommittedWasSaved
<1>4. CASE LoseLedger
  BY <1>4 DEF LoseLedger, CommittedWasSaved
<1>5. ASSUME NEW r \in Requests, NEW status \in Statuses, RecordAs(delivery[r].key, status),
             status = "committed" => delivery[r].key \in saved
      PROVE  CommittedWasSaved'
  BY <1>1, <1>2, <1>5, RecordKeeps, DeliveryKey DEF CommittedWasSaved
<1>6. ASSUME NEW r \in Requests, RecordUncertain(r)
      PROVE  CommittedWasSaved'
  BY <1>5, <1>6 DEF RecordUncertain, Statuses
<1>7. ASSUME NEW r \in Requests, RecordCommitted(r), Appending(r),
             RecordAs(delivery[r].key, "committed")
      PROVE  CommittedWasSaved'
  <2>1. delivery[r].key \in saved
    BY <1>7 DEF IInv, SavedWhenCommitted, RecordCommitted
  <2> QED
    BY <1>5, <1>7, <2>1 DEF Statuses
<1> QED
  BY <1>3, <1>4, <1>6, <1>7, RecordSteps

(* An append is on record before its commit, and until the record loses it.*)
LEMMA OnRecordBeforeCommitKept ==
  ASSUME IInv, Next
  PROVE  OnRecordBeforeCommit'
<1> DEFINE Good(r) == At(r, {"recorded", "committed"}) /\ Appending(r)
                        => delivery[r].key \in KeysOf(ledger) \cup forgotten
<1>1. KeysOf(ledger) \cup forgotten \subseteq (KeysOf(ledger) \cup forgotten)'
  BY KeysAreRemembered
<1>2. delivery \in [Requests -> Delivery] /\ \A r \in Requests : Good(r)
  BY TypeParts DEF IInv, OnRecordBeforeCommit
<1>3. ASSUME NEW r \in Requests, UNCHANGED delivery \/ delivery'[r] = delivery[r]
      PROVE  Good(r)'
  BY <1>1, <1>2, <1>3 DEF At, Appending
<1>4. ASSUME NEW r \in Requests, delivery'[r].step \notin {"recorded", "committed"}
      PROVE  Good(r)'
  BY <1>4 DEF At
<1>5. ASSUME NEW r \in Requests, DeliveryStep(r)
      PROVE  Good(r)'
  <2>1. CASE RecordUncertain(r)
    <3>1. delivery'[r].key = delivery[r].key
      BY <1>2, <2>1, EnterStep DEF RecordUncertain
    <3>2. delivery[r].key \in KeysOf(ledger)'
      BY <2>1, RecordKeeps, DeliveryKey DEF RecordUncertain, Statuses
    <3> QED
      BY <3>1, <3>2
  <2>2. CASE NothingToRecord(r)
    BY <1>2, <2>2, EnterStep DEF NothingToRecord, Appending
  <2>3. CASE Commit(r)
    <3>1. /\ delivery'[r].key = delivery[r].key
          /\ delivery'[r].policy = delivery[r].policy
          /\ delivery[r].step = "recorded"
      BY <1>2, <2>3, EnterStep DEF Commit, At
    <3> QED
      BY <1>1, <1>2, <3>1 DEF At, Appending
  <2>4. CASE BeginWithFile(r) \/ BeginWithFrame(r)
    BY <1>2, <1>4, <2>4, BeginStep
  <2>5. CASE ConsultLedger(r)
    BY <1>2, <1>4, <2>5 DEF ConsultLedger, Delivery
  <2>6. CASE NothingToConsult(r) \/ Send(r)
    BY <1>2, <1>4, <2>6, EnterStep, SendStep DEF NothingToConsult
  <2>7. CASE Agree(r)
    BY <1>2, <1>4, <2>7 DEF Agree, Delivery
  <2>8. CASE Stop(r) \/ CommitAnswersWithAnError(r) \/ RecordCommitted(r)
    BY <1>2, <1>4, <2>8 DEF Stop, CommitAnswersWithAnError, RecordCommitted, Idle
  <2> QED
    BY <1>5, <2>1, <2>2, <2>3, <2>4, <2>5, <2>6, <2>7, <2>8 DEF DeliveryStep
<1>6. CASE DatasetStep \/ LoseLedger
  BY <1>3, <1>4, <1>6, ElsewhereOrIdle DEF OnRecordBeforeCommit, Idle
<1>7. ASSUME NEW s \in Requests, DeliveryStep(s)
      PROVE  \A r \in Requests : Good(r)'
  BY <1>3, <1>5, <1>7, OthersAreIdle
<1> QED
  BY <1>6, <1>7 DEF Next, OnRecordBeforeCommit

(* A committed append has been saved.                                      *)
LEMMA SavedWhenCommittedKept ==
  ASSUME IInv, Next
  PROVE  SavedWhenCommitted'
<1> DEFINE Good(r) == At(r, {"committed"}) /\ Appending(r) => delivery[r].key \in saved
<1>1. saved \subseteq saved'
  BY SavedGrows
<1>2. delivery \in [Requests -> Delivery] /\ \A r \in Requests : Good(r)
  BY TypeParts DEF IInv, SavedWhenCommitted
<1>3. ASSUME NEW r \in Requests, UNCHANGED delivery \/ delivery'[r] = delivery[r]
      PROVE  Good(r)'
  BY <1>1, <1>2, <1>3 DEF At, Appending
<1>4. ASSUME NEW r \in Requests, delivery'[r].step # "committed"
      PROVE  Good(r)'
  BY <1>4 DEF At
<1>5. ASSUME NEW r \in Requests, DeliveryStep(r)
      PROVE  Good(r)'
  <2>1. CASE Commit(r)
    <3>1. /\ delivery'[r].key = delivery[r].key
          /\ delivery'[r].policy = delivery[r].policy
      BY <1>2, <2>1, EnterStep DEF Commit
    <3> QED
      BY <2>1, <3>1 DEF Commit, Apply, Appending
  <2>2. CASE BeginWithFile(r) \/ BeginWithFrame(r)
    BY <1>2, <1>4, <2>2, BeginStep
  <2>3. CASE ConsultLedger(r)
    BY <1>2, <1>4, <2>3 DEF ConsultLedger, Delivery
  <2>4. CASE NothingToConsult(r) \/ Send(r) \/ RecordUncertain(r) \/ NothingToRecord(r)
    BY <1>2, <1>4, <2>4, EnterStep, SendStep DEF NothingToConsult, RecordUncertain, NothingToRecord
  <2>5. CASE Agree(r)
    BY <1>2, <1>4, <2>5 DEF Agree, Delivery
  <2>6. CASE Stop(r) \/ CommitAnswersWithAnError(r) \/ RecordCommitted(r)
    BY <1>2, <1>4, <2>6 DEF Stop, CommitAnswersWithAnError, RecordCommitted, Idle
  <2> QED
    BY <1>5, <2>1, <2>2, <2>3, <2>4, <2>5, <2>6 DEF DeliveryStep
<1>6. CASE DatasetStep \/ LoseLedger
  BY <1>3, <1>4, <1>6, ElsewhereOrIdle DEF SavedWhenCommitted, Idle
<1>7. ASSUME NEW s \in Requests, DeliveryStep(s)
      PROVE  \A r \in Requests : Good(r)'
  BY <1>3, <1>5, <1>7, OthersAreIdle
<1> QED
  BY <1>6, <1>7 DEF Next, SavedWhenCommitted

(* An append nobody accepted is of a key that is not on record: the record *)
(* is consulted after the last delivery and before this one saves anything.*)
LEMMA NewUnlessAgreedKept ==
  ASSUME IInv, Next
  PROVE  NewUnlessAgreed'
<1> DEFINE Good(r) == At(r, {"sending", "sent"}) /\ Appending(r) /\ ~delivery[r].agreed
                        => delivery[r].key \notin saved \ forgotten
<1>1. delivery \in [Requests -> Delivery] /\ \A r \in Requests : Good(r)
  BY TypeParts DEF IInv, NewUnlessAgreed
<1>2. ASSUME NEW r \in Requests, delivery'[r].step \notin {"sending", "sent"}
      PROVE  Good(r)'
  BY <1>2 DEF At
<1>3. ASSUME NEW r \in Requests, UNCHANGED <<saved, forgotten>>,
             delivery'[r].key = delivery[r].key, delivery'[r].policy = delivery[r].policy,
             delivery'[r].agreed = delivery[r].agreed,
             delivery[r].step \in {"sending", "sent"}
      PROVE  Good(r)'
  BY <1>1, <1>3 DEF At, Appending
<1>4. ASSUME NEW r \in Requests, DeliveryStep(r)
      PROVE  Good(r)'
  <2>1. CASE ConsultLedger(r)
    <3>1. /\ delivery'[r].key = KeyFor(r)
          /\ OnRecord(KeyFor(r)) => delivery'[r].step = "asking"
      BY <1>1, <2>1 DEF ConsultLedger, Delivery
    <3>2. UNCHANGED <<saved, forgotten>>
      BY <2>1 DEF ConsultLedger, remote
    <3>3. CASE OnRecord(KeyFor(r))
      BY <1>2, <3>1, <3>3
    <3>4. CASE ~OnRecord(KeyFor(r))
      BY <3>1, <3>2, <3>4 DEF OnRecord, IInv, SavedIsOnRecord
    <3> QED
      BY <3>3, <3>4
  <2>2. CASE Send(r)
    BY <1>1, <1>3, <2>2, SendStep DEF Send, remote
  <2>3. CASE NothingToConsult(r)
    <3>1. delivery'[r].policy = delivery[r].policy
      BY <1>1, <2>3, EnterStep DEF NothingToConsult
    <3> QED
      BY <2>3, <3>1 DEF NothingToConsult, Appending
  <2>4. CASE Agree(r)
    <3>1. delivery'[r].agreed = TRUE
      BY <1>1, <2>4 DEF Agree, Delivery
    <3> QED
      BY <3>1
  <2>5. CASE BeginWithFile(r) \/ BeginWithFrame(r)
    BY <1>1, <1>2, <2>5, BeginStep
  <2>6. CASE RecordUncertain(r) \/ NothingToRecord(r) \/ Commit(r)
    BY <1>1, <1>2, <2>6, EnterStep DEF RecordUncertain, NothingToRecord, Commit
  <2>7. CASE Stop(r) \/ CommitAnswersWithAnError(r) \/ RecordCommitted(r)
    BY <1>1, <1>2, <2>7 DEF Stop, CommitAnswersWithAnError, RecordCommitted, Idle
  <2> QED
    BY <1>4, <2>1, <2>2, <2>3, <2>4, <2>5, <2>6, <2>7 DEF DeliveryStep
<1>5. CASE DatasetStep
  <2>1. UNCHANGED <<saved, forgotten>>
    BY <1>5 DEF DatasetStep, Load, Prepare, ShowRevision, Rewrite, Restart, remote
  <2>2. CASE UNCHANGED delivery
    BY <1>1, <2>1, <2>2 DEF NewUnlessAgreed, At, Appending
  <2>3. CASE delivery' = [r \in Requests |-> Idle]
    BY <1>2, <2>3 DEF NewUnlessAgreed, Idle
  <2> QED
    BY <1>5, <2>2, <2>3, ElsewhereOrIdle
<1>6. CASE LoseLedger
  BY <1>1, <1>6 DEF LoseLedger, remote, NewUnlessAgreed, At, Appending
<1>7. ASSUME NEW s \in Requests, DeliveryStep(s)
      PROVE  \A r \in Requests : Good(r)'
  BY <1>2, <1>4, <1>7, OthersAreIdle
<1> QED
  BY <1>5, <1>6, <1>7 DEF Next, NewUnlessAgreed

-----------------------------------------------------------------------------
(* Nothing is delivered before anything is.                                *)
LEMMA DeliveryInit == Init => IInv
<1> SUFFICES ASSUME Init PROVE IInv
  OBVIOUS
<1> USE DeliveryAssumption
<1>1. DatasetOK
  BY DEF Init, DatasetOK, NoDataset, Files
<1>2. delivery \in [Requests -> Delivery]
  BY DEF Init, Idle, Delivery, NoKey, FrameKey, Key, Policies
<1>3. RecordOK
  BY EmptySeq DEF Init, RecordOK, Unique
<1>4. RemoteOK
  BY DEF Init, RemoteOK
<1>5. TypeOK
  BY <1>1, <1>2, <1>3, <1>4, TypeParts
<1>6. RowsRead /\ OneDelivery /\ OnRecordBeforeCommit /\ SavedWhenCommitted /\ NewUnlessAgreed
  BY DEF Init, RowsRead, OneDelivery, OnRecordBeforeCommit, SavedWhenCommitted,
      NewUnlessAgreed, At, Idle
<1>7. SavedIsOnRecord /\ CommittedWasSaved
  BY DEF Init, SavedIsOnRecord, CommittedWasSaved
<1> QED
  BY <1>5, <1>6, <1>7 DEF IInv

(* What no step of any delivery, of the dataset or of the record breaks.   *)
LEMMA DeliveryInvariant == Spec => []IInv
<1>1. Init => IInv
  BY DeliveryInit
<1>2. IInv /\ [Next]_vars => IInv'
  <2>1. ASSUME IInv, Next
        PROVE  IInv'
    BY <2>1, TypesKept, RowsReadKept, OneDeliveryKept, OnRecordBeforeCommitKept,
       SavedWhenCommittedKept, NewUnlessAgreedKept, SavedIsOnRecordKept,
       CommittedWasSavedKept DEF IInv
  <2>2. ASSUME IInv, UNCHANGED vars
        PROVE  IInv'
    BY <2>2 DEF vars, local, remote, IInv, TypeOK, RowsRead, OneDelivery,
        OnRecordBeforeCommit, SavedWhenCommitted, NewUnlessAgreed, SavedIsOnRecord,
        CommittedWasSaved, At, Appending, KeysOf
  <2> QED
    BY <2>1, <2>2
<1> QED
  BY <1>1, <1>2, PTL DEF Spec

(* The record of the remote deliveries is within its limit and holds a key *)
(* once, and whatever is sent are rows that were read.                     *)
THEOREM DeliveryTypesHold == Spec => []TypeOK
<1>1. IInv => TypeOK
  BY DEF IInv
<1> QED
  BY <1>1, DeliveryInvariant, PTL

(* Every append the server saved is on record, whatever became of the      *)
(* answer of its commit, of the process and of its second record.          *)
THEOREM SavedStaysOnRecord == Spec => []SavedIsOnRecord
<1>1. IInv => SavedIsOnRecord
  BY DEF IInv
<1> QED
  BY <1>1, DeliveryInvariant, PTL

(* What the record calls committed has been saved.                         *)
THEOREM CommittedMeansSaved == Spec => []CommittedWasSaved
<1>1. IInv => CommittedWasSaved
  BY DEF IInv
<1> QED
  BY <1>1, DeliveryInvariant, PTL

(* An append whose key the server has saved is sent again only when the    *)
(* person accepted it in that delivery, unless the record lost the key.    *)
THEOREM NoSilentRepetition == Spec => []NoKeyIsRepeatedSilently
<1>1. IInv => NoKeyIsRepeatedSilently
  BY DEF IInv, NewUnlessAgreed, NoKeyIsRepeatedSilently, At
<1> QED
  BY <1>1, DeliveryInvariant, PTL
=============================================================================
