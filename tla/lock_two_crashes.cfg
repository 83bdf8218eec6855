\* The same root after two kills, met by two publishers at once; a claim
\* expires only when its recoverer is gone.
SPECIFICATION SpecAfterTwoCrashes
CONSTANTS
  Procs = {d, r1, r2, r3}
  Publishers = {r2, r3}
  Repairers = {}
  Crashable = {}
  Inodes = {i1, i2, i3, i4, i5}
  None = None
  killedPublisher = d
  killedRecoverer = r1
  Expiry = "abandoned"
  MayGiveUp = FALSE
SYMMETRY InodeSymmetry
CHECK_DEADLOCK FALSE
INVARIANTS
  MutualExclusion
