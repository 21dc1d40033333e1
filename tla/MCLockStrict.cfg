CONSTANTS
  p1 = p1
  p2 = p2
  d1 = d1
  d2 = d2
  None = None
  Proc = {p1, p2, d1, d2}
  Leftover = {d1, d2}
  Tagged = {p1, p2, d1}
  HostOf <- OneHost
  Crashes = TRUE
  Faults = FALSE
SPECIFICATION Spec
INVARIANTS
  StrictMutualExclusion
