\* Three runs, every busy policy, a crash anywhere, fair scheduling.
SPECIFICATION FairSpec
CONSTANTS
  Run = {r1, r2, r3}
  Inode = {i1, i2}
  Mode = {"fail", "wait", "forever", "readOnly"}
  Nobody = Nobody
  NoInode = NoInode
INVARIANTS MutualExclusion TakeoverFromTheDead
PROPERTIES ImplementsContract WaiterLeavesQueue
CHECK_DEADLOCK FALSE
