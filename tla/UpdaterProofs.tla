---------------------------- MODULE UpdaterProofs ----------------------------
(***************************************************************************)
(* What the updater installs, for any number of commands and versions.     *)
(*                                                                         *)
(* The panel and the pending update change in different steps, so the      *)
(* invariant says what is pending while an answer is on its way to the     *)
(* panel.  It is the panel, which starts nothing while it waits, and the   *)
(* two marks, which refuse what a panel before it left running, that keep  *)
(* the pending update still until the answer arrives.                      *)
(***************************************************************************)
EXTENDS Updater, TLAPS

Downloaded(version) == [version |-> version, bytes |-> version, download |-> NoTask]

\* A download starts with no bytes, is of the pending update, and brings its
\* bytes or none.
DownloadsPending ==
    \A t \in Tasks :
        /\ At(t, {"idle"}) => work[t].bytes = NoVersion
        /\ At(t, {"downloading", "downloaded"}) =>
             /\ pending.version = work[t].version
             /\ work[t].bytes \in {NoVersion, work[t].version}

\* The bytes at hand are those of the pending update.
BytesArePending ==
    pending # NoPending => pending.bytes \in {NoVersion, pending.version}

\* What is pending when the panel shows a version.
ShownIsPending ==
    /\ panel.kind \in {"available", "downloading", "ready"} => check = NoTask
    /\ panel.kind = "available" =>
         panel.version \in Versions /\ pending = Found(panel.version)
    /\ panel.kind = "ready" =>
         panel.version \in Versions /\ pending = Downloaded(panel.version)

\* What the command the panel waits for is doing, and what is pending when
\* its answer is on its way.
AwaitedIsPending ==
    LET t == panel.awaits
        Brings == work[t].step = "answered" /\ work[t].version # NoVersion
    IN /\ panel.kind = "checking" =>
            /\ t \in Tasks /\ At(t, {"checking", "checked", "answered"})
            /\ Brings => check = NoTask /\ pending = Found(work[t].version)
       /\ panel.kind = "downloading" =>
            /\ t \in Tasks /\ At(t, {"downloading", "downloaded", "answered"})
            /\ panel.version \in Versions
            /\ At(t, {"downloading", "downloaded"}) => work[t].version = panel.version
            /\ Brings => pending = Downloaded(panel.version)

UpdaterInv ==
    /\ TypeOK
    /\ MarksNameRunningWork
    /\ InstallsWhatItShows
    /\ DownloadsPending
    /\ BytesArePending
    /\ ShownIsPending
    /\ AwaitedIsPending

USE UpdaterAssumption

(* Nothing is at work when the application starts.                         *)
LEMMA InitUpdaterInv == Init => UpdaterInv
BY DEF Init, UpdaterInv, TypeOK, PendingUpdate, Work, Steps, Kinds,
       MarksNameRunningWork, InstallsWhatItShows, DownloadsPending,
       BytesArePending, ShownIsPending, AwaitedIsPending, Idle, Resting, At,
       Downloading

\* A command that enters another step keeps its bytes, and the others theirs.
LEMMA EnterTyped ==
    ASSUME work \in [Tasks -> Work], NEW t \in Tasks,
           NEW step \in Steps, NEW version \in Versions \cup {NoVersion},
           Enter(t, step, version)
    PROVE  /\ work' \in [Tasks -> Work]
           /\ work'[t] = [work[t] EXCEPT !.step = step, !.version = version]
           /\ \A u \in Tasks \ {t} : work'[u] = work[u]
<1> DEFINE r == [work[t] EXCEPT !.step = step, !.version = version]
<1>1. r \in Work
  BY DEF Work
<1>2. work' = [work EXCEPT ![t] = r]
  BY DEF Enter, Work
<1> QED  BY <1>1, <1>2

(* Each command and each event of the panel keeps the invariant.           *)
LEMMA NextUpdaterInv == UpdaterInv /\ [Next]_vars => UpdaterInv'
<1> SUFFICES ASSUME UpdaterInv, [Next]_vars PROVE UpdaterInv'
  OBVIOUS
<1> USE DEF UpdaterInv
<1>1. ASSUME NEW t \in Tasks, ClickCheck(t) PROVE UpdaterInv'
  <2>1. TypeOK'
    <3>1. PICK step \in Steps, version \in Versions \cup {NoVersion} :
             Enter(t, step, version)
      BY <1>1 DEF ClickCheck, Answer, TypeOK, PendingUpdate, Work, Steps, At
    <3>2. work' \in [Tasks -> Work]
      BY <3>1, EnterTyped DEF TypeOK
    <3> QED  BY <1>1, <3>2 DEF ClickCheck, TypeOK, PendingUpdate, Kinds, Issue
  <2>2. MarksNameRunningWork'
    BY <1>1 DEF ClickCheck, MarksNameRunningWork, TypeOK, PendingUpdate,
       Work, Kinds, Issue, Enter, Answer, At, Downloading
  <2>3. InstallsWhatItShows'
    BY <1>1 DEF ClickCheck, InstallsWhatItShows, TypeOK, ShownIsPending,
       PendingUpdate, Work, Kinds, Issue, Enter, Answer, At, Downloading
  <2>4. DownloadsPending'
    BY <1>1 DEF ClickCheck, DownloadsPending, TypeOK,
       MarksNameRunningWork, PendingUpdate, Work, Kinds, Issue, Enter,
       Answer, At, Downloading
  <2>5. BytesArePending'
    BY <1>1 DEF ClickCheck, BytesArePending, TypeOK, MarksNameRunningWork,
       DownloadsPending, PendingUpdate, Work, Kinds, Issue, Enter, Answer,
       At, Downloading
  <2>6. ShownIsPending'
    BY <1>1 DEF ClickCheck, ShownIsPending, TypeOK, MarksNameRunningWork,
       AwaitedIsPending, PendingUpdate, Work, Kinds, Issue, Enter, Answer,
       At, Downloading
  <2>7. AwaitedIsPending'
    BY <1>1 DEF ClickCheck, AwaitedIsPending, TypeOK,
       MarksNameRunningWork, DownloadsPending, ShownIsPending,
       PendingUpdate, Work, Kinds, Issue, Enter, Answer, At, Downloading
  <2> QED  BY <2>1, <2>2, <2>3, <2>4, <2>5, <2>6, <2>7
<1>2. ASSUME NEW t \in Tasks, ClickDownload(t) PROVE UpdaterInv'
  <2>1. TypeOK'
    <3>1. PICK step \in Steps, version \in Versions \cup {NoVersion} :
             Enter(t, step, version)
      <4>1. CASE pending = NoPending
        BY <1>2, <4>1 DEF ClickDownload, Answer, Steps
      <4>2. CASE pending # NoPending
        BY <1>2, <4>2 DEF ClickDownload, Answer, TypeOK, PendingUpdate, Steps
      <4> QED  BY <4>1, <4>2
    <3>2. work' \in [Tasks -> Work]
      BY <3>1, EnterTyped DEF TypeOK
    <3>3. pending' \in PendingUpdate \cup {NoPending}
      BY <1>2 DEF ClickDownload, TypeOK, PendingUpdate
    <3> QED  BY <1>2, <3>2, <3>3 DEF ClickDownload, TypeOK, Issue, Kinds
  <2>2. MarksNameRunningWork'
    BY <1>2 DEF ClickDownload, MarksNameRunningWork, TypeOK,
       PendingUpdate, Work, Kinds, Issue, Enter, Answer, At, Found,
       Downloading
  <2>3. InstallsWhatItShows'
    BY <1>2 DEF ClickDownload, InstallsWhatItShows, TypeOK,
       ShownIsPending, PendingUpdate, Work, Kinds, Issue, Enter, Answer,
       At, Found, Downloading
  <2>4. DownloadsPending'
    <3>1. pending = Found(panel.version)
      BY <1>2 DEF ClickDownload, ShownIsPending
    <3>2. /\ Enter(t, "downloading", pending.version)
          /\ pending' = [pending EXCEPT !.download = t]
      BY <1>2, <3>1 DEF ClickDownload, Found, Downloading, TypeOK, PendingUpdate, ShownIsPending
    <3>3. pending.version \in Versions
      BY <1>2, <3>1 DEF ClickDownload, ShownIsPending, Found
    <3>4. /\ work' \in [Tasks -> Work]
          /\ work'[t] = [work[t] EXCEPT !.step = "downloading", !.version = pending.version]
          /\ \A u \in Tasks \ {t} : work'[u] = work[u]
      BY <3>2, <3>3, EnterTyped DEF TypeOK, Steps
    <3>5. work'[t].bytes = NoVersion /\ work'[t].version = pending.version
      <4>1. work[t] \in Work /\ work[t].bytes = NoVersion
        BY <1>2 DEF ClickDownload, Issue, DownloadsPending, TypeOK, At
      <4> QED  BY <3>4, <4>1 DEF Work
    <3>6. pending'.version = pending.version
      BY <3>1, <3>2 DEF Found
    <3>7. \A u \in Tasks \ {t} : ~At(u, {"downloading", "downloaded"})
      BY <3>1 DEF MarksNameRunningWork, Downloading, Found
    <3>8. work'[t].step = "downloading"
      BY <3>4 DEF TypeOK, Work
    <3> QED
      BY <3>4, <3>5, <3>6, <3>7, <3>8 DEF DownloadsPending, At
  <2>5. BytesArePending'
    BY <1>2 DEF ClickDownload, BytesArePending, TypeOK,
       MarksNameRunningWork, DownloadsPending, PendingUpdate, Work, Kinds,
       Issue, Enter, Answer, At, Found, Downloading
  <2>6. ShownIsPending'
    BY <1>2 DEF ClickDownload, ShownIsPending, TypeOK,
       MarksNameRunningWork, AwaitedIsPending, PendingUpdate, Work, Kinds,
       Issue, Enter, Answer, At, Found, Downloading
  <2>7. AwaitedIsPending'
    BY <1>2 DEF ClickDownload, AwaitedIsPending, TypeOK,
       MarksNameRunningWork, DownloadsPending, ShownIsPending,
       PendingUpdate, Work, Kinds, Issue, Enter, Answer, At, Found,
       Downloading
  <2> QED  BY <2>1, <2>2, <2>3, <2>4, <2>5, <2>6, <2>7
<1>3. ASSUME NEW t \in Tasks, ClickInstall(t) PROVE UpdaterInv'
  <2>1. TypeOK'
    <3>1. CASE pending # NoPending /\ pending.bytes # NoVersion
      <4>1. pending' \in PendingUpdate
        BY <1>3, <3>1 DEF ClickInstall, TypeOK, PendingUpdate
      <4>2. [step |-> "installing", version |-> pending.version,
             bytes |-> pending.bytes, shown |-> panel.version] \in Work
        BY <3>1 DEF TypeOK, PendingUpdate, Work, Steps
      <4> QED
        BY <1>3, <3>1, <4>1, <4>2 DEF ClickInstall, Issue, TypeOK, Kinds
    <3>2. CASE ~(pending # NoPending /\ pending.bytes # NoVersion)
      <4>1. work' \in [Tasks -> Work]
        BY <1>3, <3>2, EnterTyped DEF ClickInstall, Answer, TypeOK, Steps
      <4> QED
        BY <1>3, <3>2, <4>1 DEF ClickInstall, Issue, TypeOK, Kinds
    <3> QED  BY <3>1, <3>2
  <2>2. MarksNameRunningWork'
    BY <1>3 DEF ClickInstall, MarksNameRunningWork, TypeOK, PendingUpdate,
       Work, Kinds, Issue, Enter, Answer, At, Downloaded, Downloading
  <2>3. InstallsWhatItShows'
    BY <1>3 DEF ClickInstall, InstallsWhatItShows, TypeOK, ShownIsPending,
       PendingUpdate, Work, Kinds, Issue, Enter, Answer, At, Downloaded,
       Downloading
  <2>4. DownloadsPending'
    BY <1>3 DEF ClickInstall, DownloadsPending, TypeOK,
       MarksNameRunningWork, PendingUpdate, Work, Kinds, Issue, Enter,
       Answer, At, Downloaded, Downloading
  <2>5. BytesArePending'
    BY <1>3 DEF ClickInstall, BytesArePending, TypeOK,
       MarksNameRunningWork, DownloadsPending, PendingUpdate, Work, Kinds,
       Issue, Enter, Answer, At, Downloaded, Downloading
  <2>6. ShownIsPending'
    BY <1>3 DEF ClickInstall, ShownIsPending, TypeOK,
       MarksNameRunningWork, AwaitedIsPending, PendingUpdate, Work, Kinds,
       Issue, Enter, Answer, At, Downloaded, Downloading
  <2>7. AwaitedIsPending'
    BY <1>3 DEF ClickInstall, AwaitedIsPending, TypeOK,
       MarksNameRunningWork, DownloadsPending, ShownIsPending,
       PendingUpdate, Work, Kinds, Issue, Enter, Answer, At, Downloaded,
       Downloading
  <2> QED  BY <2>1, <2>2, <2>3, <2>4, <2>5, <2>6, <2>7
<1>4. ASSUME NEW t \in Tasks, ChannelAnswers(t) PROVE UpdaterInv'
  <2>1. TypeOK'
    <3>1. PICK step \in Steps, version \in Versions \cup {NoVersion} :
             Enter(t, step, version)
      BY <1>4 DEF ChannelAnswers, Answer, TypeOK, PendingUpdate, Work, Steps, At
    <3>2. work' \in [Tasks -> Work]
      BY <3>1, EnterTyped DEF TypeOK
    <3> QED  BY <1>4, <3>2 DEF ChannelAnswers, TypeOK, PendingUpdate, Kinds
  <2>2. MarksNameRunningWork'
    BY <1>4 DEF ChannelAnswers, MarksNameRunningWork, TypeOK,
       PendingUpdate, Work, Kinds, Enter, At, Downloading
  <2>3. InstallsWhatItShows'
    BY <1>4 DEF ChannelAnswers, InstallsWhatItShows, TypeOK,
       ShownIsPending, PendingUpdate, Work, Kinds, Enter, At, Downloading
  <2>4. DownloadsPending'
    BY <1>4 DEF ChannelAnswers, DownloadsPending, TypeOK,
       MarksNameRunningWork, PendingUpdate, Work, Kinds, Enter, At,
       Downloading
  <2>5. BytesArePending'
    BY <1>4 DEF ChannelAnswers, BytesArePending, TypeOK,
       MarksNameRunningWork, DownloadsPending, PendingUpdate, Work, Kinds,
       Enter, At, Downloading
  <2>6. ShownIsPending'
    BY <1>4 DEF ChannelAnswers, ShownIsPending, TypeOK,
       MarksNameRunningWork, AwaitedIsPending, PendingUpdate, Work, Kinds,
       Enter, At, Downloading
  <2>7. AwaitedIsPending'
    BY <1>4 DEF ChannelAnswers, AwaitedIsPending, TypeOK,
       MarksNameRunningWork, DownloadsPending, ShownIsPending,
       PendingUpdate, Work, Kinds, Enter, At, Downloading
  <2> QED  BY <2>1, <2>2, <2>3, <2>4, <2>5, <2>6, <2>7
<1>5. ASSUME NEW t \in Tasks, CheckFails(t) PROVE UpdaterInv'
  <2>1. TypeOK'
    <3>1. PICK step \in Steps, version \in Versions \cup {NoVersion} :
             Enter(t, step, version)
      BY <1>5 DEF CheckFails, Answer, TypeOK, PendingUpdate, Work, Steps, At
    <3>2. work' \in [Tasks -> Work]
      BY <3>1, EnterTyped DEF TypeOK
    <3> QED  BY <1>5, <3>2 DEF CheckFails, TypeOK, PendingUpdate, Kinds
  <2>2. MarksNameRunningWork'
    BY <1>5 DEF CheckFails, MarksNameRunningWork, TypeOK, PendingUpdate,
       Work, Kinds, Enter, Answer, At, Downloading
  <2>3. InstallsWhatItShows'
    BY <1>5 DEF CheckFails, InstallsWhatItShows, TypeOK, ShownIsPending,
       PendingUpdate, Work, Kinds, Enter, Answer, At, Downloading
  <2>4. DownloadsPending'
    BY <1>5 DEF CheckFails, DownloadsPending, TypeOK,
       MarksNameRunningWork, PendingUpdate, Work, Kinds, Enter, Answer,
       At, Downloading
  <2>5. BytesArePending'
    BY <1>5 DEF CheckFails, BytesArePending, TypeOK, MarksNameRunningWork,
       DownloadsPending, PendingUpdate, Work, Kinds, Enter, Answer, At,
       Downloading
  <2>6. ShownIsPending'
    BY <1>5 DEF CheckFails, ShownIsPending, TypeOK, MarksNameRunningWork,
       AwaitedIsPending, PendingUpdate, Work, Kinds, Enter, Answer, At,
       Downloading
  <2>7. AwaitedIsPending'
    BY <1>5 DEF CheckFails, AwaitedIsPending, TypeOK,
       MarksNameRunningWork, DownloadsPending, ShownIsPending,
       PendingUpdate, Work, Kinds, Enter, Answer, At, Downloading
  <2> QED  BY <2>1, <2>2, <2>3, <2>4, <2>5, <2>6, <2>7
<1>6. ASSUME NEW t \in Tasks, CommitCheck(t) PROVE UpdaterInv'
  <2>1. TypeOK'
    <3>1. PICK version \in Versions \cup {NoVersion} : Answer(t, version)
      BY <1>6 DEF CommitCheck, TypeOK, Work
    <3>2. work' \in [Tasks -> Work]
      BY <3>1, EnterTyped DEF TypeOK, Answer, Steps
    <3>3. pending' \in PendingUpdate \cup {NoPending}
      BY <1>6 DEF CommitCheck, TypeOK, Work, PendingUpdate, Found
    <3> QED  BY <1>6, <3>2, <3>3 DEF CommitCheck, TypeOK
  <2>2. MarksNameRunningWork'
    BY <1>6 DEF CommitCheck, MarksNameRunningWork, TypeOK, PendingUpdate,
       Work, Kinds, Enter, Answer, At, Found, Downloading
  <2>3. InstallsWhatItShows'
    BY <1>6 DEF CommitCheck, InstallsWhatItShows, TypeOK, ShownIsPending,
       PendingUpdate, Work, Kinds, Enter, Answer, At, Found, Downloading
  <2>4. DownloadsPending'
    BY <1>6 DEF CommitCheck, DownloadsPending, TypeOK,
       MarksNameRunningWork, PendingUpdate, Work, Kinds, Enter, Answer,
       At, Found, Downloading
  <2>5. BytesArePending'
    BY <1>6 DEF CommitCheck, BytesArePending, TypeOK,
       MarksNameRunningWork, DownloadsPending, PendingUpdate, Work, Kinds,
       Enter, Answer, At, Found, Downloading
  <2>6. ShownIsPending'
    BY <1>6 DEF CommitCheck, ShownIsPending, TypeOK, MarksNameRunningWork,
       AwaitedIsPending, PendingUpdate, Work, Kinds, Enter, Answer, At,
       Found, Downloading
  <2>7. AwaitedIsPending'
    BY <1>6 DEF CommitCheck, AwaitedIsPending, TypeOK,
       MarksNameRunningWork, DownloadsPending, ShownIsPending,
       PendingUpdate, Work, Kinds, Enter, Answer, At, Found, Downloading
  <2> QED  BY <2>1, <2>2, <2>3, <2>4, <2>5, <2>6, <2>7
<1>7. ASSUME NEW t \in Tasks, DownloadEnds(t) PROVE UpdaterInv'
  <2>1. TypeOK'
    <3>1. PICK bytes \in Versions \cup {NoVersion} :
             work' = [work EXCEPT ![t].step = "downloaded", ![t].bytes = bytes]
      BY <1>7 DEF DownloadEnds, TypeOK, Work
    <3> DEFINE r == [work[t] EXCEPT !.step = "downloaded", !.bytes = bytes]
    <3>2. r \in Work
      <4>1. work[t] \in Work
        BY DEF TypeOK
      <4> QED  BY <4>1 DEF Work, Steps
    <3>3. work' = [work EXCEPT ![t] = r]
      BY <3>1 DEF TypeOK, Work
    <3> QED  BY <1>7, <3>2, <3>3 DEF DownloadEnds, TypeOK
  <2>2. MarksNameRunningWork'
    BY <1>7 DEF DownloadEnds, MarksNameRunningWork, TypeOK, PendingUpdate,
       Work, Kinds, At, Downloading
  <2>3. InstallsWhatItShows'
    BY <1>7 DEF DownloadEnds, InstallsWhatItShows, TypeOK, ShownIsPending,
       PendingUpdate, Work, Kinds, At, Downloading
  <2>4. DownloadsPending'
    BY <1>7 DEF DownloadEnds, DownloadsPending, TypeOK,
       MarksNameRunningWork, PendingUpdate, Work, Kinds, At, Downloading
  <2>5. BytesArePending'
    BY <1>7 DEF DownloadEnds, BytesArePending, TypeOK,
       MarksNameRunningWork, DownloadsPending, PendingUpdate, Work, Kinds,
       At, Downloading
  <2>6. ShownIsPending'
    BY <1>7 DEF DownloadEnds, ShownIsPending, TypeOK,
       MarksNameRunningWork, AwaitedIsPending, PendingUpdate, Work, Kinds,
       At, Downloading
  <2>7. AwaitedIsPending'
    BY <1>7 DEF DownloadEnds, AwaitedIsPending, TypeOK,
       MarksNameRunningWork, DownloadsPending, ShownIsPending,
       PendingUpdate, Work, Kinds, At, Downloading
  <2> QED  BY <2>1, <2>2, <2>3, <2>4, <2>5, <2>6, <2>7
<1>8. ASSUME NEW t \in Tasks, StoreDownload(t) PROVE UpdaterInv'
  <2>1. TypeOK'
    <3>1. work' \in [Tasks -> Work]
      BY <1>8, EnterTyped DEF StoreDownload, Answer, TypeOK, Work, Steps
    <3>2. pending' \in PendingUpdate \cup {NoPending}
      BY <1>8 DEF StoreDownload, TypeOK, Work, PendingUpdate
    <3> QED  BY <1>8, <3>1, <3>2 DEF StoreDownload, TypeOK
  <2>2. MarksNameRunningWork'
    BY <1>8 DEF StoreDownload, MarksNameRunningWork, TypeOK,
       PendingUpdate, Work, Kinds, Enter, Answer, At, Downloaded,
       Downloading
  <2>3. InstallsWhatItShows'
    BY <1>8 DEF StoreDownload, InstallsWhatItShows, TypeOK,
       ShownIsPending, PendingUpdate, Work, Kinds, Enter, Answer, At,
       Downloaded, Downloading
  <2>4. DownloadsPending'
    BY <1>8 DEF StoreDownload, DownloadsPending, TypeOK,
       MarksNameRunningWork, PendingUpdate, Work, Kinds, Enter, Answer,
       At, Downloaded, Downloading
  <2>5. BytesArePending'
    BY <1>8 DEF StoreDownload, BytesArePending, TypeOK,
       MarksNameRunningWork, DownloadsPending, PendingUpdate, Work, Kinds,
       Enter, Answer, At, Downloaded, Downloading
  <2>6. ShownIsPending'
    <3>1. pending # NoPending /\ pending.download = t
      BY <1>8 DEF StoreDownload, MarksNameRunningWork, At, Downloading
    <3>2. panel.kind \notin {"available", "ready"}
      BY <3>1 DEF ShownIsPending, Found, Downloaded
    <3> QED  BY <1>8, <3>2 DEF StoreDownload, ShownIsPending
  <2>7. AwaitedIsPending'
    <3>1. pending # NoPending /\ pending.download = t /\ pending.version = work[t].version
      BY <1>8 DEF StoreDownload, MarksNameRunningWork, DownloadsPending, At, Downloading
    <3>2. /\ work'[t] = [work[t] EXCEPT !.step = "answered", !.version = work[t].bytes]
          /\ \A u \in Tasks \ {t} : work'[u] = work[u]
      BY <1>8, EnterTyped DEF StoreDownload, Answer, TypeOK, Work, Steps
    <3>3. work[t].bytes # NoVersion => pending' = Downloaded(work[t].bytes)
      BY <1>8, <3>1 DEF StoreDownload, DownloadsPending, At, TypeOK, PendingUpdate, Work,
                        Downloaded
    <3>4. CASE panel.awaits = t
      <4>1. work'[t].step = "answered" /\ work'[t].version = work[t].bytes
        BY <3>2 DEF TypeOK, Work
      <4>2. work[t].bytes \in {NoVersion, work[t].version}
        BY <1>8 DEF StoreDownload, DownloadsPending, At
      <4>3. panel.kind = "downloading" => work[t].version = panel.version
        BY <1>8, <3>4 DEF StoreDownload, AwaitedIsPending, At
      <4> QED
        BY <1>8, <3>3, <3>4, <4>1, <4>2, <4>3 DEF StoreDownload, AwaitedIsPending, At
    <3>5. CASE panel.awaits # t
      <4>1. panel.awaits \in Tasks =>
              /\ work'[panel.awaits] = work[panel.awaits]
              /\ pending # Found(work[panel.awaits].version)
              /\ pending # Downloaded(panel.version)
        BY <3>1, <3>2, <3>5 DEF Found, Downloaded
      <4> QED  BY <1>8, <4>1 DEF StoreDownload, AwaitedIsPending, At
    <3> QED  BY <3>4, <3>5
  <2> QED  BY <2>1, <2>2, <2>3, <2>4, <2>5, <2>6, <2>7
<1>9. ASSUME NEW t \in Tasks, NoticeCancel(t) PROVE UpdaterInv'
  <2>1. TypeOK'
    <3>1. PICK step \in Steps, version \in Versions \cup {NoVersion} :
             Enter(t, step, version)
      BY <1>9 DEF NoticeCancel, Answer, TypeOK, PendingUpdate, Work, Steps, At
    <3>2. work' \in [Tasks -> Work]
      BY <3>1, EnterTyped DEF TypeOK
    <3> QED  BY <1>9, <3>2 DEF NoticeCancel, TypeOK, PendingUpdate, Kinds
  <2>2. MarksNameRunningWork'
    BY <1>9 DEF NoticeCancel, MarksNameRunningWork, TypeOK, PendingUpdate,
       Work, Kinds, Enter, Answer, At, Downloading
  <2>3. InstallsWhatItShows'
    BY <1>9 DEF NoticeCancel, InstallsWhatItShows, TypeOK, ShownIsPending,
       PendingUpdate, Work, Kinds, Enter, Answer, At, Downloading
  <2>4. DownloadsPending'
    BY <1>9 DEF NoticeCancel, DownloadsPending, TypeOK,
       MarksNameRunningWork, PendingUpdate, Work, Kinds, Enter, Answer,
       At, Downloading
  <2>5. BytesArePending'
    BY <1>9 DEF NoticeCancel, BytesArePending, TypeOK,
       MarksNameRunningWork, DownloadsPending, PendingUpdate, Work, Kinds,
       Enter, Answer, At, Downloading
  <2>6. ShownIsPending'
    BY <1>9 DEF NoticeCancel, ShownIsPending, TypeOK,
       MarksNameRunningWork, AwaitedIsPending, PendingUpdate, Work, Kinds,
       Enter, Answer, At, Downloading
  <2>7. AwaitedIsPending'
    BY <1>9 DEF NoticeCancel, AwaitedIsPending, TypeOK,
       MarksNameRunningWork, DownloadsPending, ShownIsPending,
       PendingUpdate, Work, Kinds, Enter, Answer, At, Downloading
  <2> QED  BY <2>1, <2>2, <2>3, <2>4, <2>5, <2>6, <2>7
<1>10. ASSUME NEW t \in Tasks, InstallFails(t) PROVE UpdaterInv'
  <2>1. TypeOK'
    <3>1. PICK step \in Steps, version \in Versions \cup {NoVersion} :
             Enter(t, step, version)
      BY <1>10 DEF InstallFails, Answer, TypeOK, PendingUpdate, Work, Steps, At
    <3>2. work' \in [Tasks -> Work]
      BY <3>1, EnterTyped DEF TypeOK
    <3> QED  BY <1>10, <3>2 DEF InstallFails, TypeOK, PendingUpdate, Kinds
  <2>2. MarksNameRunningWork'
    BY <1>10 DEF InstallFails, MarksNameRunningWork, TypeOK,
       PendingUpdate, Work, Kinds, Enter, Answer, At, Downloading
  <2>3. InstallsWhatItShows'
    BY <1>10 DEF InstallFails, InstallsWhatItShows, TypeOK,
       ShownIsPending, PendingUpdate, Work, Kinds, Enter, Answer, At,
       Downloading
  <2>4. DownloadsPending'
    BY <1>10 DEF InstallFails, DownloadsPending, TypeOK,
       MarksNameRunningWork, PendingUpdate, Work, Kinds, Enter, Answer,
       At, Downloading
  <2>5. BytesArePending'
    BY <1>10 DEF InstallFails, BytesArePending, TypeOK,
       MarksNameRunningWork, DownloadsPending, PendingUpdate, Work, Kinds,
       Enter, Answer, At, Downloading
  <2>6. ShownIsPending'
    BY <1>10 DEF InstallFails, ShownIsPending, TypeOK,
       MarksNameRunningWork, AwaitedIsPending, PendingUpdate, Work, Kinds,
       Enter, Answer, At, Downloading
  <2>7. AwaitedIsPending'
    BY <1>10 DEF InstallFails, AwaitedIsPending, TypeOK,
       MarksNameRunningWork, DownloadsPending, ShownIsPending,
       PendingUpdate, Work, Kinds, Enter, Answer, At, Downloading
  <2> QED  BY <2>1, <2>2, <2>3, <2>4, <2>5, <2>6, <2>7
<1>11. ASSUME NEW t \in Tasks, Receive(t) PROVE UpdaterInv'
  <2>1. TypeOK'
    BY <1>11 DEF Receive, TypeOK, PendingUpdate, Work, Kinds, Steps,
       Resting, Shows, Idle, At, Found, Downloaded, Downloading
  <2>2. MarksNameRunningWork'
    BY <1>11 DEF Receive, MarksNameRunningWork, TypeOK, PendingUpdate,
       Work, Kinds, Resting, Shows, Idle, At, Found, Downloaded,
       Downloading
  <2>3. InstallsWhatItShows'
    BY <1>11 DEF Receive, InstallsWhatItShows, TypeOK, ShownIsPending,
       PendingUpdate, Work, Kinds, Resting, Shows, Idle, At, Found,
       Downloaded, Downloading
  <2>4. DownloadsPending'
    BY <1>11 DEF Receive, DownloadsPending, TypeOK, MarksNameRunningWork,
       PendingUpdate, Work, Kinds, Resting, Shows, Idle, At, Found,
       Downloaded, Downloading
  <2>5. BytesArePending'
    BY <1>11 DEF Receive, BytesArePending, TypeOK, MarksNameRunningWork,
       DownloadsPending, PendingUpdate, Work, Kinds, Resting, Shows, Idle,
       At, Found, Downloaded, Downloading
  <2>6. ShownIsPending'
    BY <1>11 DEF Receive, ShownIsPending, TypeOK, MarksNameRunningWork,
       AwaitedIsPending, PendingUpdate, Work, Kinds, Resting, Shows, Idle,
       At, Found, Downloaded, Downloading
  <2>7. AwaitedIsPending'
    BY <1>11 DEF Receive, AwaitedIsPending, TypeOK, MarksNameRunningWork,
       DownloadsPending, ShownIsPending, PendingUpdate, Work, Kinds,
       Resting, Shows, Idle, At, Found, Downloaded, Downloading
  <2> QED  BY <2>1, <2>2, <2>3, <2>4, <2>5, <2>6, <2>7
<1>12. CASE ClickCancel
  BY <1>12 DEF ClickCancel, TypeOK, PendingUpdate, Work, Kinds,
       MarksNameRunningWork, InstallsWhatItShows, DownloadsPending,
       BytesArePending, ShownIsPending, AwaitedIsPending, At, Downloading
<1>13. CASE Reload
  BY <1>13 DEF Reload, Resting, TypeOK, PendingUpdate, Work, Kinds,
       MarksNameRunningWork, InstallsWhatItShows, DownloadsPending,
       BytesArePending, ShownIsPending, AwaitedIsPending, At, Downloading
<1>14. CASE Restart
  BY <1>14 DEF Restart, Resting, Idle, Steps, TypeOK, PendingUpdate,
       Work, Kinds, MarksNameRunningWork, InstallsWhatItShows,
       DownloadsPending, BytesArePending, ShownIsPending,
       AwaitedIsPending, At, Downloading
<1>15. CASE UNCHANGED vars
  BY <1>15 DEF vars, TypeOK, PendingUpdate, Work, Kinds,
       MarksNameRunningWork, InstallsWhatItShows, DownloadsPending,
       BytesArePending, ShownIsPending, AwaitedIsPending, At, Downloading
<1> QED
  BY <1>1, <1>2, <1>3, <1>4, <1>5, <1>6, <1>7, <1>8, <1>9, <1>10, <1>11,
       <1>12, <1>13, <1>14, <1>15 DEF Next, Command

\* Types, for every set of commands and versions.
THEOREM UpdaterTypes == Spec => []TypeOK
<1>1. UpdaterInv => TypeOK
  BY DEF UpdaterInv
<1> QED  BY <1>1, InitUpdaterInv, NextUpdaterInv, PTL DEF Spec

\* The two marks of UpdaterState are up exactly while the command they name is
\* at work: no failed, refused or cancelled command blocks the next one.
THEOREM MarksAreHonest == Spec => []MarksNameRunningWork
<1>1. UpdaterInv => MarksNameRunningWork
  BY DEF UpdaterInv
<1> QED  BY <1>1, InitUpdaterInv, NextUpdaterInv, PTL DEF Spec

\* install_update installs the version whose bytes it has, the one the panel
\* showed when the person asked for it.
THEOREM InstalledWasShown == Spec => []InstallsWhatItShows
<1>1. UpdaterInv => InstallsWhatItShows
  BY DEF UpdaterInv
<1> QED  BY <1>1, InitUpdaterInv, NextUpdaterInv, PTL DEF Spec

\* What the panel offers to download or to install is what the backend would
\* download or install.
THEOREM PanelIsCurrent == Spec => []PanelMatchesPending
<1>1. UpdaterInv => PanelMatchesPending
  BY DEF UpdaterInv, TypeOK, ShownIsPending, PanelMatchesPending, Found, Downloaded,
         PendingUpdate
<1> QED  BY <1>1, InitUpdaterInv, NextUpdaterInv, PTL DEF Spec
=============================================================================
