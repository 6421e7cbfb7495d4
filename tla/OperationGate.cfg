CONSTANTS
  Kinds = {open, review, export}
  Gated = {open, review}
  BeginLocked = {open}
  Exclusive = {review}
  Activating = {open}
  Outdated = {export}
  Tasks = {t1, t2, t3}
  NoTask = NoTask
  NoKind = NoKind
  MaxGeneration = 2
SPECIFICATION Spec
SYMMETRY ThreadSymmetry
INVARIANTS GateInv AnsweredCancelIsFinal OnlyTheNewestCommits OneReviewMutation
PROPERTY KeepsThePromise
