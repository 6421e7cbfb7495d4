CONSTANTS
    Versions = {v1, v2}
    Tasks = {t1, t2, t3}
    NoVersion = NoVersion
    NoTask = NoTask
    NoPending = NoPending
SPECIFICATION FairSpec
INVARIANTS TypeOK MarksNameRunningWork InstallsWhatItShows PanelMatchesPending
PROPERTY CancelIsObeyed
