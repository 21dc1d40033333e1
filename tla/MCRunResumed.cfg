CONSTANTS
  None = None
  NTrials = 2
  ProviderOf <- OneProvider
  Options <- AnyCall
  MaxRuns = 4
  Crashes = TRUE
  Orphans = TRUE
  Misfires = FALSE
  Faults = FALSE
SPECIFICATION FairSpec
PROPERTIES
  EventuallyCompleted
  DurableResultKept
  ReportMatchesEvidence
