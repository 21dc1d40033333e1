CONSTANTS
  None = None
  Protected <- MCProtected
  Bookkeeping <- MCBookkeeping
  Tasks <- MCTasks
  Works <- MCWorks
  LateWorks <- MCLateWorks
  Versions = {"frozen"}
  MaxExec = 2
SPECIFICATION FairSpec
INVARIANTS
  TypeOK
  PassIsEarned
  UntouchedTests
  CountedIsComplete
  OwnWorkspace
  NothingKept
  OwnAnswer
PROPERTIES
  GatesEnd
