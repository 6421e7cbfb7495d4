SPECIFICATION FairSpec
CONSTANTS
  t1 = t1
  t2 = t2
  t3 = t3
  Tasks = {t1, t2, t3}
  Menu <- MCMenu
  NoOne = NoOne
  Loaded = Loaded
  Pending = Pending
  Original = Original
INVARIANTS CopyIsKept ProfileIsOfDataset
PROPERTIES EveryCommandEnds PublishesWhatItRead
CHECK_DEADLOCK FALSE
