SPECIFICATION Spec
CONSTANTS
  t1 = t1
  t2 = t2
  t3 = t3
  Tasks = {t1, t2, t3}
  Menu <- MCMenu
  NoOne = NoOne
  Loaded = Loaded
  Pending = Pending
  Original = Original
INVARIANT RefusedOnlyIfChanged
CHECK_DEADLOCK FALSE
