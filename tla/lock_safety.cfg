\* Three processes that may publish, repair and be killed; a recovery claim
\* expires only when its recoverer is gone.
SPECIFICATION Spec
CONSTANTS
  Procs = {p1, p2, p3}
  Publishers = {p1, p2, p3}
  Repairers = {p1, p2, p3}
  Crashable = {p1, p2, p3}
  Inodes = {i1, i2, i3, i4}
  None = None
  killedPublisher = None
  killedRecoverer = None
  Expiry = "abandoned"
  MayGiveUp = TRUE
SYMMETRY Symmetry
CHECK_DEADLOCK FALSE
INVARIANTS
  MutualExclusion
  NothingLeftBehind
PROPERTIES
  LiveLockKept
