CONSTANTS
  None = None
  NTrials = 2
  ProviderOf <- OneProvider
  Options <- AnyCall
  MaxRuns = 2
  Crashes = TRUE
  Orphans = FALSE
  Misfires = TRUE
  Faults = FALSE
SPECIFICATION ExportSpec
INVARIANTS
  BundleIsWhole
  ExportIsSnapshot
PROPERTIES
  OnlyEmptyIsReplaced
