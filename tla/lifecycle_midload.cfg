\* An edit can fall between the reading of the inputs and the fingerprint
\* they are remembered by.
SPECIFICATION Spec
CONSTANTS
  Gens = {g1, g2}
  None = None
  MaxRuns = 2
  Attempts = 2
  MidLoad = TRUE
CHECK_DEADLOCK FALSE
PROPERTIES
  QuietRunIsCurrent
