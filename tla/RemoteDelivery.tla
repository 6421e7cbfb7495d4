--------------------------- MODULE RemoteDelivery ---------------------------
(***************************************************************************)
(* Deliveries of the active dataset to one remote table                    *)
(* (export_dataset_to_database, remote_databases.rs) and the local record  *)
(* of the `append` ones (remote_delivery_ledger.rs).                       *)
(*                                                                         *)
(* The rows are sent inside one transaction.  An `append` is recorded as   *)
(* uncertain before its commit and as committed after it; one whose key is *)
(* on record asks the person first.  The commit can be applied although    *)
(* its answer is an error, the process can die at any step, the record is  *)
(* bounded, and the dataset may change while a delivery runs.              *)
(*                                                                         *)
(* A file is identified by its path, size and modification time: every     *)
(* write makes another identity, a number here, with its content beside    *)
(* it.  Left out: the privacy mode (it changes the content and the key     *)
(* together) and the preflight checks on columns and values, which stop a  *)
(* delivery as any other failure does.                                     *)
(***************************************************************************)
EXTENDS Naturals, Sequences, FiniteSets, SequencesExt

CONSTANTS
    Contents,       \* the rows a dataset can hold
    Requests,       \* delivery requests of the interface
    MaxRecords,     \* MAX_LEDGER_ENTRIES
    MaxFiles,       \* bound on the files ever written
    NoContent,
    NoFile,         \* a dataset in memory only, or a delivery of its rows
    UserFile        \* the path of the file the person opened

ASSUME DeliveryAssumption ==
    /\ MaxRecords \in Nat \ {0}
    /\ MaxFiles \in Nat \ {0}
    /\ NoContent \notin Contents
    /\ NoFile \notin Nat /\ UserFile \notin Nat /\ NoFile # UserFile

VARIABLES
    written,        \* the content of every file ever written, by identity
    user,           \* the identity the user's file has now
    dataset,        \* the active dataset
    revisions,      \* the files of the session that exist
    delivery,       \* what each request is doing
    ledger,         \* remote-deliveries.json, oldest record first
    exists,         \* whether the remote table exists
    added,          \* the contents appended to the table there is now
    saved,          \* the keys of the appends the server has saved
    forgotten       \* the keys the bounded record no longer holds

local == <<written, user, dataset, revisions>>
remote == <<exists, added, saved>>
vars == <<local, delivery, ledger, remote, forgotten>>

Policies == {"append", "createOnly", "replace"}

Files == 1 .. MaxFiles

(* The identity of a content: a file, or the rows themselves.              *)
Key == [file : Files \cup {NoFile}, content : Contents \cup {NoContent}]

FileKey(i) == [file |-> i, content |-> NoContent]
FrameKey(c) == [file |-> NoFile, content |-> c]

NoKey == FrameKey(NoContent)

(* source_backed and history.snapshots_enabled, the file either reads, and *)
(* the rows in memory.                                                     *)
NoDataset == [backed |-> FALSE, logged |-> FALSE, file |-> NoFile, rows |-> NoContent]

Idle == [step |-> "idle", policy |-> "append", file |-> NoFile,
         rows |-> NoContent, key |-> NoKey, agreed |-> FALSE]

At(r, steps) == delivery[r].step \in steps

Enter(r, step) == delivery' = [delivery EXCEPT ![r].step = step]

Appending(r) == delivery[r].policy = "append"

KeysOf(records) == {records[i].key : i \in DOMAIN records}

(* What a path names now.                                                  *)
Identity(file) == IF file = UserFile THEN user ELSE file

Readable(file) == file = UserFile \/ file \in revisions

-----------------------------------------------------------------------------
(* The dataset, whose changes do not wait for a delivery.                  *)

Write(content) == written' = Append(written, content)
NextFile == Len(written) + 1

(* The user's file is opened: read in place, converted to a session file,  *)
(* read into memory with a first revision, or without history (its         *)
(* snapshot is over the disk budget).                                      *)
Load ==
    /\ \/ /\ dataset' = [NoDataset EXCEPT !.backed = TRUE, !.file = UserFile]
          /\ revisions' = {}
          /\ UNCHANGED written
       \/ /\ NextFile \in Files
          /\ Write(written[user])
          /\ revisions' = {NextFile}
          /\ dataset' \in {[NoDataset EXCEPT !.backed = TRUE, !.file = NextFile],
                           [NoDataset EXCEPT !.logged = TRUE, !.file = NextFile,
                                             !.rows = written[user]]}
       \/ /\ dataset' = [NoDataset EXCEPT !.rows = written[user]]
          /\ revisions' = {}
          /\ UNCHANGED written
    /\ UNCHANGED <<user, delivery, ledger, remote, forgotten>>

(* A Prepare operation, recorded in the history or too large for it.       *)
Prepare ==
    /\ dataset # NoDataset
    /\ \E c \in Contents :
         \/ /\ dataset' = [NoDataset EXCEPT !.rows = c]
            /\ revisions' = {}
            /\ UNCHANGED written
         \/ /\ NextFile \in Files
            /\ Write(c)
            /\ revisions' = revisions \cup {NextFile}
            /\ dataset' \in {[backed |-> TRUE, logged |-> TRUE, file |-> NextFile,
                              rows |-> NoContent],
                             [backed |-> FALSE, logged |-> TRUE, file |-> NextFile,
                              rows |-> c]}
    /\ UNCHANGED <<user, delivery, ledger, remote, forgotten>>

(* Undo or redo: another revision of the session becomes active.           *)
ShowRevision ==
    /\ dataset.logged
    /\ \E f \in revisions \ {dataset.file} :
         dataset' = [dataset EXCEPT !.file = f,
                                    !.rows = IF dataset.backed THEN NoContent
                                                               ELSE written[f]]
    /\ UNCHANGED <<written, user, revisions, delivery, ledger, remote, forgotten>>

(* Another program rewrites the user's file.                               *)
Rewrite ==
    /\ NextFile \in Files
    /\ \E c \in Contents : Write(c)
    /\ user' = NextFile
    /\ UNCHANGED <<dataset, revisions, delivery, ledger, remote, forgotten>>

-----------------------------------------------------------------------------
(* A delivery.                                                             *)

(* exportInFlightRef: one delivery at a time.                              *)
NobodyDelivers == \A r \in Requests : At(r, {"idle"})

Takes(r, policy, file, rows) ==
    delivery' = [delivery EXCEPT ![r] =
                    [Idle EXCEPT !.step = "taken", !.policy = policy,
                                 !.file = file, !.rows = rows]]

(* The file of the dataset is delivered when it has one and DuckDB can     *)
(* check the rules and apply the privacy asked for.                        *)
BeginWithFile(r) ==
    /\ NobodyDelivers
    /\ dataset.backed \/ dataset.logged
    /\ Readable(dataset.file)
    /\ \E policy \in Policies : Takes(r, policy, dataset.file, NoContent)
    /\ UNCHANGED <<local, ledger, remote, forgotten>>

(* Otherwise its rows are, read into memory first if they have to be.      *)
BeginWithFrame(r) ==
    /\ NobodyDelivers
    /\ dataset # NoDataset
    /\ dataset.backed => Readable(dataset.file)
    /\ LET rows == IF dataset.backed THEN written[Identity(dataset.file)]
                                     ELSE dataset.rows
       IN /\ \E policy \in Policies : Takes(r, policy, NoFile, rows)
          /\ dataset' = [dataset EXCEPT !.backed = FALSE, !.rows = rows,
                                        !.file = IF dataset.logged THEN @ ELSE NoFile]
    /\ UNCHANGED <<written, user, revisions, ledger, remote, forgotten>>

KeyFor(r) ==
    IF delivery[r].file = NoFile THEN FrameKey(delivery[r].rows)
                                 ELSE FileKey(Identity(delivery[r].file))

(* Fault: only a delivery known to have been saved is asked about.         *)
OnRecordAsCommitted(key) ==
    \E i \in DOMAIN ledger : ledger[i].key = key /\ ledger[i].status = "committed"

OnRecord(key) == key \in KeysOf(ledger)

(* prepare_append_journal.                                                 *)
ConsultLedger(r) ==
    /\ At(r, {"taken"}) /\ Appending(r)
    /\ delivery[r].file = NoFile \/ Readable(delivery[r].file)
    /\ delivery' = [delivery EXCEPT
                      ![r].key = KeyFor(r),
                      ![r].step = IF OnRecord(KeyFor(r)) THEN "asking" ELSE "sending"]
    /\ UNCHANGED <<local, ledger, remote, forgotten>>

NothingToConsult(r) ==
    /\ At(r, {"taken"}) /\ ~Appending(r)
    /\ Enter(r, "sending")
    /\ UNCHANGED <<local, ledger, remote, forgotten>>

(* The person accepts that the rows may be duplicated; refusing is Stop.   *)
Agree(r) ==
    /\ At(r, {"asking"})
    /\ delivery' = [delivery EXCEPT ![r].step = "sending", ![r].agreed = TRUE]
    /\ UNCHANGED <<local, ledger, remote, forgotten>>

(* The transaction: the destination is inspected, the table dropped or     *)
(* created if the policy says so, and the rows read and inserted.          *)
Send(r) ==
    /\ At(r, {"sending"})
    /\ Appending(r) => exists
    /\ delivery[r].policy = "createOnly" => ~exists
    /\ LET file == delivery[r].file
       IN IF file = NoFile
          THEN Enter(r, "sent")
          ELSE /\ Readable(file)
               /\ delivery' = [delivery EXCEPT ![r].step = "sent",
                                               ![r].rows = written[Identity(file)]]
    /\ UNCHANGED <<local, ledger, remote, forgotten>>

(* Refused, cancelled, or failed: the transaction is rolled back.          *)
Stop(r) ==
    /\ At(r, {"taken", "asking", "sending", "sent"})
    /\ delivery' = [delivery EXCEPT ![r] = Idle]
    /\ UNCHANGED <<local, ledger, remote, forgotten>>

(* Fault: the older record of the key stays.                               *)
RecordedBeside(key, status) ==
    LET records == Append(ledger, [key |-> key, status |-> status])
        overflow == IF Len(records) > MaxRecords THEN Len(records) - MaxRecords ELSE 0
    IN SubSeq(records, overflow + 1, Len(records))

(* The records of other keys, in their order: a key has one record.        *)
Others(key) ==
    IF OnRecord(key)
    THEN RemoveAt(ledger, CHOOSE i \in DOMAIN ledger : ledger[i].key = key)
    ELSE ledger

(* Fault: the newest records go beyond the limit.                          *)
RecordedIfRoom(key, status) ==
    LET records == Append(Others(key), [key |-> key, status |-> status])
    IN IF Len(records) > MaxRecords THEN SubSeq(records, 1, MaxRecords) ELSE records

(* DeliveryLedger::record: the newest record of a key replaces an older    *)
(* one, and the oldest records go beyond the limit.                        *)
Recorded(key, status) ==
    LET records == Append(Others(key), [key |-> key, status |-> status])
        overflow == IF Len(records) > MaxRecords THEN Len(records) - MaxRecords ELSE 0
    IN SubSeq(records, overflow + 1, Len(records))

Oldest == IF Len(ledger) < MaxRecords THEN {} ELSE {Head(ledger).key}

(* `forgotten` follows what the limit allows, not what Recorded does.      *)
RecordAs(key, status) ==
    /\ ledger' = Recorded(key, status)
    /\ forgotten' = (IF OnRecord(key) THEN forgotten ELSE forgotten \cup Oldest) \ {key}

(* Fault: the append is called committed before it is.                     *)
RecordEarly(r) ==
    /\ At(r, {"sent"}) /\ Appending(r)
    /\ RecordAs(delivery[r].key, "committed")
    /\ Enter(r, "recorded")
    /\ UNCHANGED <<local, remote>>

(* before_commit: an append that cannot be recorded is not committed.      *)
RecordUncertain(r) ==
    /\ At(r, {"sent"}) /\ Appending(r)
    /\ RecordAs(delivery[r].key, "uncertain")
    /\ Enter(r, "recorded")
    /\ UNCHANGED <<local, remote>>

NothingToRecord(r) ==
    /\ At(r, {"sent"}) /\ ~Appending(r)
    /\ Enter(r, "recorded")
    /\ UNCHANGED <<local, ledger, remote, forgotten>>

(* The server applies the transaction.                                     *)
Apply(r) ==
    /\ exists' = TRUE
    /\ added' = IF Appending(r) THEN added \cup {delivery[r].rows} ELSE {}
    /\ saved' = IF Appending(r) THEN saved \cup {delivery[r].key} ELSE saved

Commit(r) ==
    /\ At(r, {"recorded"})
    /\ Apply(r)
    /\ Enter(r, "committed")
    /\ UNCHANGED <<local, ledger, forgotten>>

(* An error is all the program hears, whether or not the server applied    *)
(* the transaction.                                                        *)
CommitAnswersWithAnError(r) ==
    /\ At(r, {"recorded"})
    /\ Apply(r) \/ UNCHANGED remote
    /\ delivery' = [delivery EXCEPT ![r] = Idle]
    /\ UNCHANGED <<local, ledger, forgotten>>

(* after_commit: what cannot be written is left uncertain.                 *)
RecordCommitted(r) ==
    /\ At(r, {"committed"})
    /\ \/ Appending(r) /\ RecordAs(delivery[r].key, "committed")
       \/ UNCHANGED <<ledger, forgotten>>
    /\ delivery' = [delivery EXCEPT ![r] = Idle]
    /\ UNCHANGED <<local, remote>>

-----------------------------------------------------------------------------
(* The record is deleted or becomes unreadable, which is the same to it.   *)
LoseLedger ==
    /\ ledger # <<>>
    /\ ledger' = <<>>
    /\ forgotten' = forgotten \cup KeysOf(ledger)
    /\ UNCHANGED <<local, delivery, remote>>

(* The application ends, at rest or in the middle of a delivery, and is    *)
(* started again: the files of the session go with it.                     *)
Restart ==
    /\ dataset # NoDataset
    /\ dataset' = NoDataset
    /\ revisions' = {}
    /\ delivery' = [r \in Requests |-> Idle]
    /\ UNCHANGED <<written, user, ledger, remote, forgotten>>

Init ==
    /\ \E c \in Contents : written = <<c>>
    /\ user = 1
    /\ dataset = NoDataset
    /\ revisions = {}
    /\ delivery = [r \in Requests |-> Idle]
    /\ ledger = <<>>
    /\ exists \in BOOLEAN
    /\ added = {}
    /\ saved = {}
    /\ forgotten = {}

DatasetStep == Load \/ Prepare \/ ShowRevision \/ Rewrite \/ Restart

DeliveryStep(r) ==
    \/ BeginWithFile(r) \/ BeginWithFrame(r)
    \/ ConsultLedger(r) \/ NothingToConsult(r) \/ Agree(r)
    \/ Send(r) \/ Stop(r)
    \/ RecordUncertain(r) \/ NothingToRecord(r)
    \/ Commit(r) \/ CommitAnswersWithAnError(r) \/ RecordCommitted(r)

Next == DatasetStep \/ LoseLedger \/ \E r \in Requests : DeliveryStep(r)

Spec == Init /\ [][Next]_vars

-----------------------------------------------------------------------------
(* Properties.                                                             *)

Statuses == {"uncertain", "committed"}

Delivery ==
    [step : {"idle", "taken", "asking", "sending", "sent", "recorded", "committed"},
     policy : Policies, file : Files \cup {NoFile, UserFile},
     rows : Contents \cup {NoContent}, key : Key, agreed : BOOLEAN]

(* The types of the variables: the record is within its limit, holds a     *)
(* key once, and what a delivery sends are rows.                           *)
TypeOK ==
    /\ written \in Seq(Contents) /\ Len(written) \in Files
    /\ user \in DOMAIN written
    /\ dataset \in [backed : BOOLEAN, logged : BOOLEAN,
                    file : DOMAIN written \cup {NoFile, UserFile},
                    rows : Contents \cup {NoContent}]
    /\ revisions \subseteq DOMAIN written
    /\ delivery \in [Requests -> Delivery]
    /\ ledger \in Seq([key : Key, status : Statuses])
    /\ Len(ledger) <= MaxRecords
    /\ \A i, j \in DOMAIN ledger : ledger[i].key = ledger[j].key => i = j
    /\ exists \in BOOLEAN
    /\ added \subseteq Contents
    /\ saved \subseteq Key /\ forgotten \subseteq Key

(* Every append the server saved is on record, whatever became of the      *)
(* commit's answer, of the process and of the second record: only the      *)
(* limit and the loss of the file make the record forget one.              *)
SavedIsOnRecord == saved \subseteq KeysOf(ledger) \cup forgotten

(* The dialog tells a confirmed delivery from an uncertain one: what the   *)
(* record calls committed has been saved.                                  *)
CommittedWasSaved ==
    \A i \in DOMAIN ledger :
        ledger[i].status = "committed" => ledger[i].key \in saved

(* A key the server has saved and the record has not forgotten is never    *)
(* sent again unless the person accepted it in this very delivery, even    *)
(* after an error that left open whether it was saved.                     *)
NoKeyIsRepeatedSilently ==
    \A r \in Requests :
        At(r, {"sent"}) /\ Appending(r) /\ delivery[r].key \in saved \ forgotten
            => delivery[r].agreed

(* "Columnia records each delivery before committing it so a second        *)
(* delivery of the same content to the same table asks for confirmation"   *)
(* (remote_delivery_ledger.rs): rows already appended to the table there   *)
(* is are not sent again unless the person accepted it, as long as the     *)
(* record has forgotten nothing.                                           *)
SameContentAsks ==
    \A r \in Requests :
        At(r, {"sent"}) /\ Appending(r) /\ delivery[r].rows \in added /\ forgotten = {}
            => delivery[r].agreed
=============================================================================
