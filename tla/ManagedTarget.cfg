\* Every command, policy and fault, fair scheduling.
SPECIFICATION FairSpec
CONSTANTS
  r1 = r1
  r2 = r2
  tc1 = tc1
  tc2 = tc2
  rt1 = rt1
  rt2 = rt2
  release = release
  default = default
  named = named
  Nobody = Nobody
  None = None
  Torn = Torn
  Gutted = Gutted
  Default = default
  Run <- TwoRuns
  Toolchain <- TwoToolchains
  Runtime <- TwoRuntimes
  Flavor <- OneFlavor
  Intent <- TwoIntents
  Op <- AllOps
  Mode <- AllModes
  Fault <- AllFaults
  Before <- InOrder
  Resolved <- FirstComesFirst
INVARIANTS CompletionDescribesTree CompletionBelongsToItsRun
PROPERTIES WrittenUnderLease UsesLease EveryRunEnds
CHECK_DEADLOCK FALSE
