-------------------------- MODULE MCPluginProduct --------------------------
(* Two bundles that embed one external bundle, the second requiring the    *)
(* first, and a tool.                                                      *)
EXTENDS PluginProduct, TLC
CONSTANTS p1, p2
MCBundles == <<"base", "geo">>
MCTools == <<"view">>
MCDeps == [b \in {"base", "geo"} |-> IF b = "geo" THEN {"base"} ELSE {}]
MCEmbeds == [b \in {"base", "geo"} |-> {"x"}]
MCReleases ==
    {[declared |-> NONE, excluded |-> {}],
     [declared |-> {"geo"}, excluded |-> {"base", "view"}],
     [declared |-> {"base", "geo"}, excluded |-> {}]}
Symmetry == Permutations(Procs)
=============================================================================
