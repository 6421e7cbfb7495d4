------------------------------- MODULE Updater -------------------------------
(***************************************************************************)
(* The updater (src-tauri/src/updater.rs) and the panel that drives it     *)
(* (src/components/UpdatePanel.tsx): check, download, install, and the     *)
(* cancellation of the first two.                                          *)
(*                                                                         *)
(* A check and a download wait for the network outside the two mutexes of  *)
(* UpdaterState, so what they commit may meet another state than the one   *)
(* they left.  The window can be reloaded: the panel starts again and the  *)
(* commands it had issued go on, answered to nobody.                       *)
(*                                                                         *)
(* A command takes its first lock in the step that issues it.  Left out:   *)
(* progress messages, signatures and the comparison of versions, whose     *)
(* refusals are a failed check or a failed download.                       *)
(***************************************************************************)
CONSTANTS
    Versions,       \* the versions the channel may offer, all newer
    Tasks,          \* the asynchronous commands that can be under way
    NoVersion,
    NoTask,
    NoPending

PendingUpdate ==
    [version : Versions, bytes : Versions \cup {NoVersion},
     download : Tasks \cup {NoTask}]

Steps == {"idle", "checking", "checked", "downloading", "downloaded", "installing",
          "answered"}

Work == [step : Steps, version : Versions \cup {NoVersion},
         bytes : Versions \cup {NoVersion}, shown : Versions \cup {NoVersion}]

ASSUME UpdaterAssumption ==
    /\ NoVersion \notin Versions /\ NoTask \notin Tasks
    /\ NoPending \notin PendingUpdate

VARIABLES
    check,          \* check_cancellation: the check in progress
    pending,        \* pending: the update found, its bytes, its download
    cancelled,      \* the commands whose cancellation token is cancelled
    work,           \* what each command is doing
    panel           \* what the panel shows, and the command it waits for

vars == <<check, pending, cancelled, work, panel>>

Idle == [step |-> "idle", version |-> NoVersion, bytes |-> NoVersion,
         shown |-> NoVersion]

Resting == [kind |-> "resting", version |-> NoVersion, awaits |-> NoTask,
            cancelling |-> FALSE]

Found(version) == [version |-> version, bytes |-> NoVersion, download |-> NoTask]

Init ==
    /\ check = NoTask
    /\ pending = NoPending
    /\ cancelled = {}
    /\ work = [t \in Tasks |-> Idle]
    /\ panel = Resting

At(t, steps) == work[t].step \in steps

Enter(t, step, version) ==
    work' = [work EXCEPT ![t].step = step, ![t].version = version]

\* The command returns; a version is what it found or brought.
Answer(t, version) == Enter(t, "answered", version)

\* A command the panel issues gets a token of its own, and the panel waits.
Issue(t, kind) ==
    /\ At(t, {"idle"})
    /\ cancelled' = cancelled \ {t}
    /\ panel' = [panel EXCEPT !.kind = kind, !.awaits = t, !.cancelling = FALSE]

Downloading == pending # NoPending /\ pending.download # NoTask

(***************************************************************************)
(* Seeded faults, used by no specification.                                *)
(***************************************************************************)
\* UpdateCheckGuard::commit that does not look for a download.
CommitCheckOverDownload(t) ==
    /\ At(t, {"checked"})
    /\ IF t \in cancelled
       THEN Answer(t, NoVersion) /\ UNCHANGED pending
       ELSE /\ Answer(t, work[t].version)
            /\ pending' = IF work[t].version = NoVersion THEN NoPending
                                                         ELSE Found(work[t].version)
    /\ check' = NoTask
    /\ UNCHANGED <<cancelled, panel>>

\* UpdateCheckGuard::commit that keeps an update it did not find.
CommitCheckOfNothing(t) ==
    /\ At(t, {"checked"})
    /\ IF t \in cancelled \/ Downloading
       THEN Answer(t, NoVersion) /\ UNCHANGED pending
       ELSE Answer(t, work[t].version) /\ pending' = Found(work[t].version)
    /\ check' = NoTask
    /\ UNCHANGED <<cancelled, panel>>

\* download_update that forgets its token when it fails.
StoreDownloadOnSuccess(t) ==
    /\ At(t, {"downloaded"})
    /\ Answer(t, work[t].bytes)
    /\ pending' = IF work[t].bytes = NoVersion THEN pending
                  ELSE [pending EXCEPT !.download = NoTask, !.bytes = work[t].bytes]
    /\ UNCHANGED <<check, cancelled, panel>>

\* download_update that does not wait on its token.
NoticeCancelOfCheck(t) ==
    /\ t \in cancelled
    /\ At(t, {"checking"}) /\ Answer(t, NoVersion)
    /\ check' = NoTask
    /\ UNCHANGED <<pending, cancelled, panel>>

-----------------------------------------------------------------------------
(* Check.                                                                  *)

\* check_for_update: refused while another check is in progress.
ClickCheck(t) ==
    /\ panel.kind \in {"resting", "available", "ready"}
    /\ Issue(t, "checking")
    /\ IF check = NoTask
       THEN check' = t /\ Enter(t, "checking", NoVersion)
       ELSE Answer(t, NoVersion) /\ UNCHANGED check
    /\ UNCHANGED pending

\* The channel has a newer version or none.
ChannelAnswers(t) ==
    /\ At(t, {"checking"}) /\ t \notin cancelled
    /\ \E version \in Versions \cup {NoVersion} : Enter(t, "checked", version)
    /\ UNCHANGED <<check, pending, cancelled, panel>>

\* It cannot be reached, or offers a version that is not newer.
CheckFails(t) ==
    /\ At(t, {"checking"})
    /\ Answer(t, NoVersion)
    /\ check' = NoTask
    /\ UNCHANGED <<pending, cancelled, panel>>

\* UpdateCheckGuard::commit, and the drop of the guard when it refuses.
CommitCheck(t) ==
    /\ At(t, {"checked"})
    /\ IF t \in cancelled \/ Downloading
       THEN Answer(t, NoVersion) /\ UNCHANGED pending
       ELSE /\ Answer(t, work[t].version)
            /\ pending' = IF work[t].version = NoVersion THEN NoPending
                                                         ELSE Found(work[t].version)
    /\ check' = NoTask
    /\ UNCHANGED <<cancelled, panel>>

-----------------------------------------------------------------------------
(* Download.                                                               *)

\* download_update: of the pending update, once, and not twice at a time.
ClickDownload(t) ==
    /\ panel.kind = "available"
    /\ Issue(t, "downloading")
    /\ IF pending # NoPending /\ pending.bytes = NoVersion /\ ~Downloading
       THEN pending' = [pending EXCEPT !.download = t]
            /\ Enter(t, "downloading", pending.version)
       ELSE /\ Answer(t, IF pending = NoPending THEN NoVersion ELSE pending.bytes)
            /\ UNCHANGED pending
    /\ UNCHANGED check

\* All the bytes of that version, or an error or the wrong size.
DownloadEnds(t) ==
    /\ At(t, {"downloading"})
    /\ \E bytes \in {work[t].version, NoVersion} :
         work' = [work EXCEPT ![t].step = "downloaded", ![t].bytes = bytes]
    /\ UNCHANGED <<check, pending, cancelled, panel>>

\* The bytes go to whatever update is pending then.
StoreDownload(t) ==
    /\ At(t, {"downloaded"})
    /\ Answer(t, work[t].bytes)
    /\ pending' = IF pending = NoPending THEN NoPending
                  ELSE [pending EXCEPT !.download = NoTask,
                                       !.bytes = IF work[t].bytes = NoVersion
                                                 THEN @ ELSE work[t].bytes]
    /\ UNCHANGED <<check, cancelled, panel>>

-----------------------------------------------------------------------------
(* Cancellation.                                                           *)

\* cancel_update_check, cancel_update_download: whoever is in progress then.
ClickCancel ==
    /\ panel.kind \in {"checking", "downloading"} /\ ~panel.cancelling
    /\ panel' = [panel EXCEPT !.cancelling = TRUE]
    /\ cancelled' = cancelled \cup
         (IF panel.kind = "checking" THEN {check} \ {NoTask}
          ELSE IF Downloading THEN {pending.download} ELSE {})
    /\ UNCHANGED <<check, pending, work>>

\* Both waits also wait on the token.
NoticeCancel(t) ==
    /\ t \in cancelled
    /\ \/ /\ At(t, {"checking"})
          /\ Answer(t, NoVersion)
          /\ check' = NoTask
       \/ /\ At(t, {"downloading"})
          /\ Enter(t, "downloaded", work[t].version)
          /\ UNCHANGED check
    /\ UNCHANGED <<pending, cancelled, panel>>

-----------------------------------------------------------------------------
(* Install.                                                                *)

\* install_update takes the bytes, so that they are installed once.
ClickInstall(t) ==
    /\ panel.kind = "ready"
    /\ Issue(t, "installing")
    /\ IF pending # NoPending /\ pending.bytes # NoVersion
       THEN /\ pending' = [pending EXCEPT !.bytes = NoVersion]
            /\ work' = [work EXCEPT ![t] = [step |-> "installing", version |-> pending.version,
                                            bytes |-> pending.bytes, shown |-> panel.version]]
       ELSE Answer(t, NoVersion) /\ UNCHANGED pending
    /\ UNCHANGED check

InstallFails(t) ==
    /\ At(t, {"installing"})
    /\ Answer(t, NoVersion)
    /\ UNCHANGED <<check, pending, cancelled, panel>>

-----------------------------------------------------------------------------
(* The panel.                                                              *)

\* The kind of panel an answer leads to.
Shows(version) ==
    CASE version # NoVersion /\ panel.kind = "checking"    -> "available"
      [] version # NoVersion /\ panel.kind = "downloading" -> "ready"
      [] OTHER                                             -> "resting"

\* The answer of a command arrives, if somebody waits for it; after a
\* download the panel keeps the version it showed.
Receive(t) ==
    /\ At(t, {"answered"})
    /\ work' = [work EXCEPT ![t] = Idle]
    /\ panel' = IF panel.awaits # t THEN panel
                ELSE LET kind == Shows(work[t].version)
                     IN [Resting EXCEPT !.kind = kind,
                            !.version = CASE kind = "available" -> work[t].version
                                          [] kind = "ready"     -> panel.version
                                          [] OTHER              -> NoVersion]
    /\ UNCHANGED <<check, pending, cancelled>>

Reload ==
    /\ panel # Resting
    /\ panel' = Resting
    /\ UNCHANGED <<check, pending, cancelled, work>>

\* The application is started again, by the installer or by the person.
Restart ==
    /\ check' = NoTask /\ pending' = NoPending /\ cancelled' = {}
    /\ work' = [t \in Tasks |-> Idle]
    /\ panel' = Resting

Command(t) ==
    \/ ChannelAnswers(t) \/ CheckFails(t) \/ CommitCheck(t)
    \/ DownloadEnds(t) \/ StoreDownload(t)
    \/ NoticeCancel(t) \/ InstallFails(t) \/ Receive(t)

Next ==
    \/ \E t \in Tasks : ClickCheck(t) \/ ClickDownload(t) \/ ClickInstall(t) \/ Command(t)
    \/ ClickCancel \/ Reload \/ Restart

Spec == Init /\ [][Next]_vars

(* A command that has what it waits for goes on.  Nothing is assumed about *)
(* the network, the installer or the person.                               *)
FairSpec ==
    /\ Spec
    /\ \A t \in Tasks : WF_vars(CommitCheck(t) \/ StoreDownload(t)
                                \/ NoticeCancel(t) \/ Receive(t))

-----------------------------------------------------------------------------
(* Properties.                                                             *)

Kinds == {"resting", "checking", "available", "downloading", "ready", "installing"}

\* The types of the variables: an update that is pending has a version.
TypeOK ==
    /\ check \in Tasks \cup {NoTask}
    /\ pending \in PendingUpdate \cup {NoPending}
    /\ cancelled \subseteq Tasks
    /\ work \in [Tasks -> Work]
    /\ panel \in [kind : Kinds, version : Versions \cup {NoVersion},
                  awaits : Tasks \cup {NoTask}, cancelling : BOOLEAN]

\* The two "in progress" marks are up exactly while the command they name is
\* at work, however it ends and whatever was committed meanwhile: neither a
\* refused check nor a failed download blocks the next one.
MarksNameRunningWork ==
    \A t \in Tasks :
        /\ At(t, {"checking", "checked"}) <=> check = t
        /\ At(t, {"downloading", "downloaded"}) <=> Downloading /\ pending.download = t

\* What is installed is the version whose bytes were downloaded and the one
\* the panel showed when the person asked for it.
InstallsWhatItShows ==
    \A t \in Tasks :
        At(t, {"installing"}) =>
            work[t].bytes = work[t].version /\ work[t].version = work[t].shown

\* The panel offers to download an update only while that one is pending, and
\* to install one only while its bytes are there.
PanelMatchesPending ==
    panel.kind \in {"available", "ready"} =>
        /\ pending # NoPending /\ pending.version = panel.version
        /\ pending.bytes = IF panel.kind = "ready" THEN panel.version ELSE NoVersion

\* "Cancelando..." does not stay for ever, even if the network never answers.
CancelIsObeyed == panel.cancelling ~> ~panel.cancelling
=============================================================================
