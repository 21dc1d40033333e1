CONSTANTS
  None = None
  Leader = leader
  Others = {a, b}
  Limit = 1
  MaxBytes = 2
SPECIFICATION FairSpec
INVARIANTS
  TypeOK
  RawIsWhole
  CountedIsUndisturbed
  CaptureExact
  NothingLeft
PROPERTIES
  SettlesOnce
  GroupIsKilled
  Settles
