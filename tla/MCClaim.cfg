CONSTANTS
  None = None
  Proc = {p1, p2}
SPECIFICATION FairSpec
INVARIANTS
  TypeOK
  OwnedRightly
  RefusedForAReason
PROPERTIES
  SomebodyOwns
