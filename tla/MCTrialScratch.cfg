CONSTANTS
  None = None
  Protected <- MCProtected
  Bookkeeping <- MCBookkeeping
  Tasks <- MCTasks
  Works <- MCWorks
  LateWorks = {}
  Versions = {"frozen"}
  MaxExec = 2
SPECIFICATION Spec
INVARIANTS
  PassHasChanges
