\* Edits anywhere, or kills anywhere (inside non-atomic steps too), or two of
\* each in one behaviour, from an empty root, a committed one or a checkout
\* without builds/, and publishers that go on.  Two of the four inputs generate
\* the same payload.
SPECIFICATION LiveSpec
CONSTANTS
  g1 = g1
  g2 = g2
  g3 = g3
  g4 = g4
  d1 = d1
  d2 = d2
  d3 = d3
  Gens = {g1, g2, g3, g4}
  Dirs = {d1, d2, d3}
  Dir <- DirOf
  None = None
  Torn = Torn
  MaxEdits = 3
  MaxKills = 3
  TornSteps = TRUE
  MaxMixed = 2
INVARIANTS
  SuccessSelectsPlan
  OneFaultRests
  FailureRestores
PROPERTIES
  ReadersServed
  Converges
