\* Commands one after the other, a death at any step.
SPECIFICATION Spec
CONSTANTS
  p1 = p1
  p2 = p2
  p3 = p3
  a = a
  b = b
  s1 = s1
  s2 = s2
  k1 = k1
  u1 = u1
  dbg1 = dbg1
  dbg2 = dbg2
  None = None
  Proc <- ThreeProcs
  Digest <- TwoDigests
  Dist <- AllDists
  Value <- Documented
  Op <- AllOps
  Overlap = FALSE
  Crashes = TRUE
SYMMETRY Symmetry
INVARIANTS IndexAgrees ObjectsAreWhole
PROPERTIES IdentityIsStable
CHECK_DEADLOCK FALSE
