\* A killed publisher's lock with a killed recoverer's claim on it; one
\* publisher must still be served while a repairer, which may be killed as
\* well, works beside it.  Any claim can grow old.
SPECIFICATION LiveSpecAfterTwoCrashes
CONSTANTS
  Procs = {d, r1, r2, r3}
  Publishers = {r2}
  Repairers = {r3}
  Crashable = {r3}
  Inodes = {i1, i2, i3}
  None = None
  killedPublisher = d
  killedRecoverer = r1
  Expiry = "any"
  MayGiveUp = FALSE
CHECK_DEADLOCK FALSE
PROPERTIES
  PublisherServed
