------------------------ MODULE MCCompositionResolve ------------------------
(* Three artifacts, two of which may provide the same capability, cyclic      *)
(* and self-serving requirements among them, and manifests with and without   *)
(* pins.  Capability 1 is "usd", 2 a library and 3 a plugin.                  *)
EXTENDS CompositionResolve, CompositionSdk

Req(c, lo, hi, p) == [capability |-> c, version |-> [lo |-> lo, hi |-> hi], provider |-> p]
Prov(c, v, s) == [capability |-> c, version |-> v, singleton |-> s]
Rec(d, c) == [digest |-> d, contracted |-> TRUE, named |-> TRUE, target |-> "linux", component |-> c]

Env(op, v) == {[variable |-> "PATH", operation |-> op, values |-> {v}]}

(* Each component varies in a few features at a time.                         *)
Runtime1 == [id |-> 1, provides |-> {Prov(1, 1, TRUE)}, requires |-> {}, targets |-> {}, abi |-> 1,
             openusd |-> AnyVersion, environment |-> Env("prepend", "bin"),
             install |-> {[destination |-> "bin"]}]
RuntimeContracts ==
    {[Runtime1 EXCEPT !.provides = {Prov(1, v, TRUE)} \cup also, !.requires = needs] :
        v \in 1..2, also \in {{}, {Prov(2, 1, TRUE)}}, needs \in {{}, {Req(2, 0, 0, 0)}}}

Library2 == [Runtime1 EXCEPT !.id = 2, !.provides = {Prov(2, 2, FALSE)}, !.environment = Env("prepend", "lib"),
                             !.install = {[destination |-> "lib"]}]
LibraryContracts ==
    {[Library2 EXCEPT !.provides = {Prov(2, v, FALSE)}, !.requires = needs, !.openusd = usd] :
        v \in 1..2, needs \in {{}, {Req(1, 1, 1, 0)}}, usd \in {AnyVersion, [lo |-> 2, hi |-> 2]}}
    \cup {[Library2 EXCEPT !.targets = {"macos"}], [Library2 EXCEPT !.abi = 2], [Library2 EXCEPT !.id = 3]}

Plugin3 == [Runtime1 EXCEPT !.id = 3, !.provides = {Prov(3, 1, FALSE)}, !.targets = {"linux", "macos"},
                            !.abi = NoAbi, !.environment = {}, !.install = {[destination |-> "plugin"]}]
PluginContracts ==
    {[Plugin3 EXCEPT !.provides = {Prov(3, 1, FALSE)} \cup also, !.requires = needs] :
        also \in {{}, {Prov(2, 2, FALSE)}},
        needs \in {{}, {Req(2, 2, 2, 0)}, {Req(1, 0, 0, 1), Req(2, 1, 2, 2)}, {Req(3, 1, 1, 0)}}}
    \cup {[Plugin3 EXCEPT !.environment = Env("set", "bin"), !.requires = {Req(1, 0, 0, 0)}],
          [Plugin3 EXCEPT !.install = {[destination |-> "lib"]}, !.requires = {Req(2, 0, 0, 0)}]}

MCDigests == {"d1", "d2", "d3"}
MCInputs ==
    {{Rec("d1", a), Rec("d2", b), Rec("d3", c)} :
        a \in RuntimeContracts, b \in LibraryContracts, c \in PluginContracts}
    \cup {{[Rec("d1", Runtime1) EXCEPT !.contracted = k, !.named = n]} :
            k \in BOOLEAN, n \in BOOLEAN}

(* The SDK layouts: a runtime "a" and a plugin "b", with a library and its     *)
(* links, directories spelled two ways, and up to three mappings.             *)
MCFold(part) == CASE part = "Lib" -> "lib" [] part = "BIN" -> "bin" [] part = "Sub" -> "sub" [] OTHER -> part
File(c, p, l) == [component |-> c, path |-> p, link |-> l]
Map(c, s, d) == [component |-> c, source |-> s, destination |-> d]
Inventory ==
    {File("a", <<"lib", "x1">>, <<>>), File("a", <<"lib", "x">>, <<"x1">>),
     File("a", <<"lib", "sub", "here">>, <<".">>), File("a", <<"bin", "tool">>, <<"..", "lib", "sub">>),
     File("a", <<"lib", "python", "pxr">>, <<>>),
     File("b", <<"lib", "p">>, <<>>), File("b", <<"out">>, <<"..", "x">>)}
Menu ==
    {Map("a", <<"lib">>, <<"Lib">>), Map("a", <<".", "lib">>, <<"share", "Sub">>), Map("a", <<"bin">>, <<"bin">>),
     Map("a", <<"lib", "x">>, <<"BIN", "x">>), Map("a", <<"lib", "x1">>, <<"bin", "tool", "x1">>),
     Map("a", <<"bin", "tool">>, <<"share">>), Map("b", <<"lib">>, <<"share", "sub">>),
     Map("b", <<"lib", "p">>, <<"lib", "x1">>), Map("b", <<"lib", "q">>, <<"lib">>), Map("b", <<"lib", "p">>, <<"share", "sub", "x1">>),
     Map("b", <<"lib">>, <<"metadata">>), Map("b", <<"out">>, <<"bin">>), Map("b", <<"lib">>, <<"..", "lib">>)}
Contribute(v, op, s, p) == [variable |-> v, operation |-> op, source |-> s, values |-> <<p>>]
Plain == Contribute("PATH", "append", "b", <<"lib">>)
SdkLock(install, env, usd) ==
    [install |-> install, inventory |-> Inventory, environment |-> env, usd |-> usd, python |-> "",
     kind |-> [c \in {"a", "b"} |-> IF c = "a" THEN "runtime" ELSE "plugin"]]
OneLayout == [SdkLock({}, <<>>, "a") EXCEPT !.inventory = {}]
MCLayouts ==
    {OneLayout} \cup {SdkLock(i, <<>>, "a") : i \in {i \in SUBSET Menu : Cardinality(i) \in 1..3}}
    \cup {SdkLock({Map("a", <<"lib">>, <<"lib">>)}, e, u) : u \in {"a", "b"},
            e \in {<<Contribute("HOME_A", "set", "a", <<"share">>), Plain>>,
                   <<Contribute("HOME_A", "set", "a", <<"share">>), Contribute("HOME_A", "set", "b", <<"share">>)>>,
                   <<Contribute("PYTHONPATH", "set", "b", <<"python">>)>>,
                   <<Contribute("PYTHONPATH", "prepend", "b", <<"python">>), Contribute("PATH", "prepend", "a", <<"bin">>)>>,
                   <<Contribute("PYTHONNOUSERSITE", "append", "b", <<"python">>)>>}}

MCManifests ==
    {[requirements |-> rs, artifacts |-> MCDigests, target |-> "linux",
      source |-> [a \in MCDigests |-> s],
      providers |-> [c \in {1, 2, 3} |-> IF c = 2 THEN pin ELSE 0]] :
        rs \in {{Req(3, 0, 0, 0)}, {Req(2, 0, 0, 0), Req(3, 0, 0, 0)},
                {Req(2, 0, 0, 0), Req(2, 2, 2, 0), Req(1, 0, 0, 0)}},
        pin \in {0, 2},
        s \in {"none"}}
    \cup {[requirements |-> {}, artifacts |-> MCDigests, target |-> "linux",
           source |-> [a \in MCDigests |-> "mutable"],
           providers |-> [c \in {1, 2, 3} |-> 0]]}

(* A run derives the SDK of any layout beside one resolution, or resolves any *)
(* input beside one layout.                                                   *)
OneInput == {[Rec("d1", Runtime1) EXCEPT !.contracted = FALSE]}
MCInit == /\ ResolveInit /\ SdkInit
          /\ lock = OneLayout \/ (records = OneInput /\ composition.requirements = {})
MCNext == ResolveNext /\ UNCHANGED lock
MCSpec == MCInit /\ [][MCNext]_<<resolveVars, lock>> /\ WF_<<resolveVars, lock>>(MCNext)
=============================================================================
