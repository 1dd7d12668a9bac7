-------------------------- MODULE MCPluginWorkspace --------------------------
(* A workspace of one library and two bundles, one of which provides for  *)
(* the other, over two runtimes and a second compiler.                    *)
EXTENDS PluginWorkspace, TLC

CONSTANTS p, q, l, rt1, rt2, cc1, cc2

TwoBundles == {p, q}
OneLibrary == {l}
LibsOf == p :> <<l>> @@ q :> << >>
DepsOf == p :> <<q>> @@ q :> << >>
Provider == {q}
Envs == {[rt |-> rt1, cc |-> cc1], [rt |-> rt2, cc |-> cc1], [rt |-> rt1, cc |-> cc2]}
Host == [rt |-> rt1, cc |-> cc1]
Symmetry == Permutations(Run)
=============================================================================
