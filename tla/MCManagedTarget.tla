--------------------------- MODULE MCManagedTarget ---------------------------
(* Instances of ManagedTarget: which commands, policies and faults occur. *)
EXTENDS ManagedTarget, TLC

CONSTANTS r1, r2, tc1, tc2, rt1, rt2, release, default, named

TwoRuns == {r1, r2}
TwoToolchains == {tc1, tc2}
TwoRuntimes == {rt1, rt2}
(* The runs are named in the order they start, and the configurations in the  *)
(* order they are resolved.                                                   *)
InOrder == r1 :> {} @@ r2 :> {r1}
(* A change of configuration changes the compiler and the runtime; a failed   *)
(* removal or a torn lock tells the two apart.                                *)
First == [toolchain |-> tc1, runtime |-> rt1]
Second == [toolchain |-> tc2, runtime |-> rt2]
FirstComesFirst == r1 :> {First} @@ r2 :> {First, Second}
OneFlavor == {release}
TwoIntents == {default, named}
=============================================================================
