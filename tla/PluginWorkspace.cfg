\* Two commands at a time over a library, a provider and its consumer.
SPECIFICATION Spec
CONSTANTS
  p = p
  q = q
  l = l
  rt1 = rt1
  rt2 = rt2
  cc1 = cc1
  cc2 = cc2
  Run = {r1, r2}
  Nobody = Nobody
  None = None
  Torn = Torn
  Bundle <- TwoBundles
  Library <- OneLibrary
  Libs <- LibsOf
  Deps <- DepsOf
  Installable <- Provider
  Env <- Envs
  First <- Host
  MaxCommands = 3
  MaxChanges = 1
SYMMETRY Symmetry
INVARIANTS BuildsAreOne PackagesAreHonest
CHECK_DEADLOCK FALSE
