\* Two packages, two supervisors, two importers; two builds and two modules;
\* two owners and two calls; all small workspaces; three sources in two lanes;
\* sources of up to three declarations and two uses.
SPECIFICATION ToolchainSpec
CONSTANTS
  cat1 = cat1
  cat2 = cat2
  x1 = x1
  x2 = x2
  y1 = y1
  y2 = y2
  Catalogs = {cat1, cat2}
  CatalogOrder <- CatalogsInOrder
  Supervisors <- Xs
  Importers <- Ys
  None = None
  MaxSets = 1
  MaxReceiverEdits = 2
  Builds <- Xs
  Modules <- Ys
  NoBuild = NoBuild
  CachedModules = 1
  MaxChanges = 2
  MaxReads = 2
  Owners <- Xs
  Calls <- Ys
  MaxFileEdits = 2
  Nil = Nil
  PerWorker = 1
SYMMETRY Interchangeable
CHECK_DEADLOCK FALSE
INVARIANTS
  CommitLasts
  ArchiveOneMoment
  ImportKeepsOrder
  StaleSessionRestarts
  SlicesMatchTheirImporters
  HandedOutThenCommitted
  AbsentIsAbsent
  RefusedForKnownCauses
  OneWrongFactHidesNothing
  BatchChangesNoView
  EvidenceIsItsOwn
  LoweredAsMeant
  KeysFindTheirMessages
  PreflightMissesNothing
PROPERTIES
  PointerMovesForward
  ImportWholeOrNothing
