\* Two packages; edits of any family of inputs, kills, and time.  Or a message
\* of one or two parts, with nested branches, in two locales.
SPECIFICATION PackageSpec
CONSTANTS
  p1 = p1
  p2 = p2
  c1 = c1
  b1 = b1
  r1 = r1
  r2 = r2
  Packages = {p1, p2}
  Checks = {c1}
  Builds = {b1}
  Home <- HomeOf
  Runtimes = {r1, r2}
  Order <- BuildOrder
  Rejected <- RejectedSources
  None = None
  Window = 1
  MaxEdits = 2
  MaxRuns = 3
  MaxKills = 1
  MaxTicks = 1
  MaxEvents = 2
CHECK_DEADLOCK FALSE
INVARIANTS
  SelectedComplete
  SessionSeesOneMoment
  AcceptedWasAuthorized
  RenderedAsWritten
  CompiledMeansRenderable
PROPERTIES
  CommitsOneMoment
