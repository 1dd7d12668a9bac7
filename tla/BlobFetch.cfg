\* Two pulls of a layer and of an empty one, dying anywhere.
SPECIFICATION FairSpec
CONSTANTS
  p1 = p1
  p2 = p2
  a = a
  b = b
  None = None
  Proc <- TwoProcs
  Digest <- TwoDigests
  Size <- Pieces
  Pulls <- PullBoth
  MaxAttempts = 2
  Excess = 1
  Crashes = TRUE
INVARIANTS DeliveredIsVerified StreamIsAligned CalmPullDelivers
PROPERTIES EveryPullEnds
CHECK_DEADLOCK FALSE
