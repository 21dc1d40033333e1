CONSTANTS
  None = None
  Leader = leader
  Others = {a}
  Limit = 1
  MaxBytes = 2
SPECIFICATION Spec
INVARIANTS
  PassMeansSuccess
