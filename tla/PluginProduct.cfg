SPECIFICATION Spec
CONSTANTS
  p1 = p1
  p2 = p2
  Procs = {p1, p2}
  Bundles <- MCBundles
  Tools <- MCTools
  Deps <- MCDeps
  Embeds <- MCEmbeds
  Releases <- MCReleases
  NONE = NONE
  Torn = Torn
  MaxCommands = 3
  MaxEdits = 1
  MaxFaults = 1
SYMMETRY Symmetry
INVARIANTS ProductFits
CHECK_DEADLOCK FALSE
