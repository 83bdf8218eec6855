\* Runs beside any number of edits and of publications of another process,
\* which may be killed; no edit falls between the reading of the inputs and
\* their fingerprint.
SPECIFICATION LiveSpec
CONSTANTS
  Gens = {g1, g2}
  None = None
  MaxRuns = 2
  Attempts = 2
  MidLoad = FALSE
CHECK_DEADLOCK FALSE
PROPERTIES
  QuietRunIsCurrent
  ReturnedIsSelected
  OnceKeepsLatest
  RunsSettle
