CONSTANTS
  None = None
  NTrials = 2
  ProviderOf <- OneProvider
  Options <- AnyCall
  MaxRuns = 3
  Crashes = TRUE
  Orphans = FALSE
  Misfires = TRUE
  Faults = TRUE
SPECIFICATION Spec
INVARIANTS
  TypeOK
  TerminalHasEvidence
  CompletedIsReported
PROPERTIES
  LegalTransitions
  TerminalEvidenceKept
  ImplementsLedger
