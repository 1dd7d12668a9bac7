\* Every interleaving of ost, its child, two descendants and an interrupt.
SPECIFICATION ChildFairSpec
CONSTANTS
  Leader = child
  Desc = {d1, d2}
  CaptureBytes = 1
  MaxOutput = 2
  ZombieHasGroup = {TRUE, FALSE}
INVARIANTS ChildIsAccountedFor
PROPERTIES StrangerOnlyInTheGap BoundedUnlessPipeIsHeld
CHECK_DEADLOCK FALSE
