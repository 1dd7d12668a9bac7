---------------------------- MODULE MCDecisions -----------------------------
(* The inputs of the decisions, subject by subject.                           *)
EXTENDS MemberDecisions, CiFixtures

Token(identity, exp, nbf) ==
    [wellFormed |-> TRUE, issuer |-> "github", audience |-> {OidcAudience}, exp |-> exp, nbf |-> nbf,
     workflowRepository |-> identity.repository, identity |-> identity]
MCNow == 100
(* What a machine that validates a matrix may hold, and what may be claimed.  *)
Evident(m, s, p) ==
    [manifest |-> m, trust |-> Local, sbom |-> IF s THEN GenerateEvidence(m).sbom ELSE NONE,
     provenance |-> IF p THEN GenerateEvidence(m).provenance ELSE NONE]
MCLocalStores ==
    {{}} \cup {{Evident(m, s, p)} \cup {Evident(n, TRUE, TRUE) : n \in {c \in MCManifestSet : c.digest \in {"lib", "rt2"}}} :
        m \in {RtRelease, Man("rt", "plugin", BuildBy(ReleaseId, {})), Composed}, s, p \in BOOLEAN}
Claim(id, level) == [id |-> id, levels |-> [p \in {"linux"} |-> level]]
MCDeclarations ==
    {NONE} \cup {[platforms |-> {"linux"}, features |-> {Claim("github_hosted_ci", l), Claim("f", k)}] : l, k \in {"tier1", "unsupported"}}
    \cup {[platforms |-> {"linux"}, features |-> {Claim("f", "tier1"), Claim("f", "unsupported")}]}
MCClaims ==
    {Token(id, e, n) : id \in MCIdentities, e \in {39, 40, 100}, n \in {NONE, 160, 161}}
    \cup {[Token(ReleaseId, 100, NONE) EXCEPT !.issuer = "other"], [Token(ReleaseId, 100, NONE) EXCEPT !.audience = {"x"}],
          [Token(ReleaseId, 100, NONE) EXCEPT !.workflowRepository = "fork/repo"]}

-----------------------------------------------------------------------------
(* Producer manifests: one identity, varied one field at a time, under each *)
(* selector schema and with each kind of build metadata.                    *)
Provider(f, v) == [family |-> f, provider |-> "cy", version |-> v, constraint |-> [op |-> "", base |-> <<v[1]>>]]
LinuxId ==
    [schema |-> 2, platform |-> "cy2026", os |-> "linux", arch |-> "x86_64", profile |-> "usd",
     producer |-> <<26, 5>>, consumer |-> TRUE, cxx |-> "17", variant |-> "gl", capabilities |-> {"opengl"},
     toolchain |-> Provider("gcc", <<11, 2>>), runtime |-> Provider("glibc", <<2, 28>>),
     python |-> Provider("cpython", <<3, 11>>), tbb |-> Provider("onetbb", <<2022, 1>>), macos |-> NONE]
MacId ==
    [LinuxId EXCEPT !.os = "macos", !.variant = "metal", !.capabilities = {"metal"},
                    !.macos = [sdk |-> Provider("sdk", <<14, 2>>), deployment |-> "13"]]
Legacied(i) == [i EXCEPT !.schema = 1]
Identities2 ==
    {LinuxId, MacId, Legacied(LinuxId), Legacied(MacId), [Legacied(MacId) EXCEPT !.macos.deployment = "14"],
     [LinuxId EXCEPT !.variant = "standard"], [LinuxId EXCEPT !.tbb = Provider("onetbb", <<2022, 2>>)],
     [LinuxId EXCEPT !.producer = <<26, 3>>], [LinuxId EXCEPT !.consumer = FALSE],
     [LinuxId EXCEPT !.python.version = NONE], [LinuxId EXCEPT !.capabilities = {"opengl", "usdview"}],
     [LinuxId EXCEPT !.variant = "headless"], [LinuxId EXCEPT !.macos = MacId.macos]}
Origin2(r) == [repository |-> "usd", revision |-> r]
Dep2(n, v) == [name |-> n, version |-> v, source |-> Origin2(v), archive |-> "sha256"]
Builds ==
    {NONE, [source |-> Origin2("r1"), dependencies |-> <<>>],
     [source |-> Origin2("r1"), dependencies |-> <<Dep2("tbb", "1"), Dep2("osd", "1")>>],
     [source |-> Origin2("r1"), dependencies |-> <<Dep2("osd", "1"), Dep2("tbb", "1")>>],
     [source |-> Origin2("r1"), dependencies |-> <<Dep2("osd", "1"), Dep2("osd", "2")>>],
     [source |-> Origin2("r1"), dependencies |-> <<[Dep2("osd", "1") EXCEPT !.archive = "md5"]>>]}
Entry2(p, t, l, c) == [path |-> p, type |-> t, link |-> l, content |-> c, exec |-> FALSE]
GoodArchive == <<Entry2(<<"lib">>, "directory", <<>>, NONE), Entry2(<<"lib", "a">>, "regular", <<>>, "x"),
                 Entry2(<<"lib", "b">>, "symlink", <<".", "a">>, NONE)>>
MCArchives ==
    {GoodArchive, SubSeq(GoodArchive, 1, 2), Append(GoodArchive, Entry2(<<"c">>, "hardlink", <<>>, "x")),
     Append(GoodArchive, Entry2(<<"lib", "a">>, "regular", <<>>, "y")), Append(GoodArchive, Entry2(<<"..", "a">>, "regular", <<>>, "y"))}
    \cup {<<Entry2(p, "symlink", t, NONE)>> : p \in {<<"a">>, <<"lib", "a">>, <<"", "a">>},
            t \in {<<>>, <<"", "b">>, <<"..", "b">>, <<"..", "..">>, <<"b", "..", "..", "c">>, <<"b", "..", "c">>}}
Document(i, schema, build) ==
    [tag |-> "runtime", selectorSchema |-> schema, composition |-> TRUE, name |-> "openusd", version |-> <<26, 5>>,
     wellFormed |-> TRUE, digest |-> "d1", size |-> 1, files |-> <<>>, archive |-> "a", debug |-> NONE,
     platform |-> "cy2026", target |-> [os |-> i.os, arch |-> i.arch, rest |-> {311}], top |-> i, embedded |-> i,
     topState |-> NONE, embeddedState |-> NONE, build |-> build, component |-> NONE]
Plain == Document(LinuxId, 3, NONE)
Contract == [schemaOk |-> TRUE, id |-> "openusd", version |-> <<26, 5>>, provides |-> <<[capability |-> "usd", version |-> "1"]>>,
             requires |-> {}, environment |-> {}, install |-> {[source |-> <<"lib">>, destination |-> <<".", "lib">>]}]
MCProducerManifests ==
    {Document(i, s, b) : i \in Identities2, s \in {NONE, 2, 3}, b \in Builds}
    \cup {[Plain EXCEPT !.embedded = NONE], [Plain EXCEPT !.tag = "plugin"], [Plain EXCEPT !.platform = "cy2025"],
          [Plain EXCEPT !.target.rest = {31}], [Plain EXCEPT !.selectorSchema = 1], [Plain EXCEPT !.tag = "other"],
          [Plain EXCEPT !.component = Contract], [Plain EXCEPT !.version = <<26, 3>>],
          [Plain EXCEPT !.topState = [schema |-> 1], !.embeddedState = [schema |-> 1]]}
MCRequirements ==
    Identities2 \cup {[LinuxId EXCEPT !.python.version = NONE, !.tbb.version = NONE], [MacId EXCEPT !.macos.sdk.version = NONE]}

(* Fetched directories: a manifest that lists some archive's files beside    *)
(* another archive.                                                          *)
FileList(a) == SetToSeq(WalkArchive(a).files)
Twice(s) == s \o s
ArchiveBytes(a, d) == [digest |-> d, size |-> 1, entries |-> a]
DistOf(files, a, d, dbg) ==
    [manifest |-> [Plain EXCEPT !.files = files, !.debug = IF dbg = NONE THEN NONE ELSE
                        [wellFormed |-> TRUE, archive |-> "dbg", digest |-> "d9", size |-> 1, files |-> FileList(GoodArchive)]],
     archive |-> ArchiveBytes(a, d), debug |-> IF dbg = NONE THEN NONE ELSE ArchiveBytes(dbg, "d9")]
MCDists ==
    {DistOf(f, a, d, dbg) : f \in {FileList(a) : a \in MCArchives} \cup {Twice(FileList(GoodArchive))}, a \in MCArchives,
        d \in {"d1", "d2"}, dbg \in {NONE, GoodArchive, SubSeq(GoodArchive, 1, 2)}}
AnyPull == [openusd |-> NONE, version |-> NONE, pin |-> NONE, kind |-> NONE, target |-> NONE]
MCPullPolicies ==
    {AnyPull, [AnyPull EXCEPT !.pin = "d2"], [AnyPull EXCEPT !.kind = "runtime"], [AnyPull EXCEPT !.kind = "plugin"],
     [AnyPull EXCEPT !.openusd = LinuxId], [AnyPull EXCEPT !.openusd = MacId, !.version = <<26, 5>>]}
MCDeclared == {NONE, SelectorOf(FromProducerManifest(Plain)), SelectorOf(FromProducerManifest(Document(LinuxId, 3, [source |-> Origin2("r1"), dependencies |-> <<>>])))}

(* References of up to seven words.                                          *)
MCTexts == BoundedSeq({"host", "repo", "/", ":", "@", "sha256"}, 5)
           \cup {<<"host", ":", "host", "/">> \o t : t \in BoundedSeq({"repo", "/", ":", "@", "sha256"}, 5)}

StoredOf(n, d, s, p) ==
    [archive |-> <<"bytes">>, name |-> n, debug |-> d, sbom |-> s, provenance |-> p, manifest |-> <<n, d, s, p>>, selector |-> NONE]
MCHoldings ==
    {StoredOf(n, d, s, p) : n \in {"a", SbomFile, ManifestFile}, d \in {NONE, [content |-> <<"symbols">>, name |-> "dbg"]},
        s \in {NONE, <<"sbom">>}, p \in {NONE, <<"provenance">>}}
MCSites == [bearer : BOOLEAN, strict : BOOLEAN, challenge : {NONE, {"pull"}}, grants : {{}, {"pull"}, {"pull", "push"}}]

-----------------------------------------------------------------------------
(* The inputs of the plugin commands' decisions: one bundle per kind, varied  *)
(* one field at a time.                                                       *)
Kinds == {"usd-fileformat", "usd-schema", "usd-asset-resolver", "usd-package-resolver", "usd-imaging",
          "usdview-plugin", "usd-material"}
Type(name, bases) ==
    [name |-> name, bases |-> bases, module |-> "runner", safe |-> TRUE, schemes |-> {}, extensions |-> {},
     internal |-> FALSE, key |-> NONE]
AtRoot(path) == [path |-> path, template |-> FALSE, absolute |-> FALSE]
LibraryPathOf(name, os) == [path |-> <<"..", "..", "lib", name>>, os |-> os, template |-> FALSE, absolute |-> FALSE]
PlugEntry(type, types) ==
    [type |-> type, name |-> "runner", root |-> AtRoot(<<".">>),
     library |-> IF type = "library" THEN LibraryPathOf("a", "linux") ELSE NONE, types |-> types]
TypesOf(kind) ==
    CASE kind = "usdview-plugin" -> <<Type("A", {"other"}), Type("B", {"PluginContainer"})>>
      [] kind = "usd-asset-resolver" -> <<[Type("R", {"ArResolver"}) EXCEPT !.schemes = {"asset"}]>>
      [] kind = "usd-package-resolver" -> <<[Type("P", {"ArPackageResolver"}) EXCEPT !.extensions = {"zip"}]>>
      [] kind = "usd-imaging" -> <<[Type("I", {"UsdImagingAPISchemaAdapter"}) EXCEPT !.key = "Toon"]>>
      [] OTHER -> <<Type("T", {"other"})>>
F1 == <<"one">>
F2 == <<"two">>
Texts1 == <<"x">>
Texts2 == <<"x", "s", "r", "n">>
Other1 == <<"h">>
PlainBundle(kind) ==
    [name |-> "b", kind |-> kind, codeless |-> kind = "usd-schema",
     provides |-> IF kind = "usd-imaging" THEN << <<"usd-imaging", "Toon">> >> ELSE <<>>,
     smoke |-> <<[path |-> F1, args |-> {<<"lod", "1">>}]>>, roundtrip |-> <<F1, F2, F1>>, negative |-> <<>>,
     plugInfo |-> <<PlugEntry(IF kind = "usdview-plugin" THEN "python" ELSE "library", TypesOf(kind))>>,
     plugRoot |-> <<"plugin", "resources">>, libs |-> {[name |-> "a", os |-> "linux"]}, modules |-> {"runner"},
     files |-> [f \in {F1, F2, AdjacentGolden(F1)} |-> Texts1], contract |-> NONE,
     runtimeLibs |-> <<>>, providerPaths |-> <<>>, prefixed |-> FALSE,
     openusd |-> <<[op |-> ">=", bound |-> <<24, 11>>], [op |-> "<", bound |-> <<25>>]>>,
     cxxAbi |-> [scalar |-> "inherit", perOs |-> <<>>], pythonAbi |-> NONE, components |-> <<>>]
Variations(b) ==
    {b, [b EXCEPT !.plugInfo = NONE], [b EXCEPT !.provides = @ \o << <<"usd-schema", "T">> >>], [b EXCEPT !.provides = <<>>],
     [b EXCEPT !.smoke = <<>>, !.roundtrip = <<>>], [b EXCEPT !.smoke = <<[path |-> <<"gone">>, args |-> {}]>>],
     [b EXCEPT !.plugInfo[1].library = LibraryPathOf("a", "windows")], [b EXCEPT !.plugInfo[1].library = NONE],
     [b EXCEPT !.plugInfo[1].library = [LibraryPathOf("a", "linux") EXCEPT !.path = <<"..", "a">>]],
     [b EXCEPT !.plugInfo[1].name = NONE], [b EXCEPT !.plugInfo[1].name = "other"], [b EXCEPT !.plugInfo[1].types = <<>>],
     [b EXCEPT !.plugInfo[1].types[Len(b.plugInfo[1].types)].module = NONE], [b EXCEPT !.plugInfo[1].types[Len(b.plugInfo[1].types)].safe = FALSE],
     [b EXCEPT !.plugInfo = <<[@[1] EXCEPT !.name = NONE]>> \o @], [b EXCEPT !.plugInfo = <<[@[1] EXCEPT !.types = <<>>]>> \o @],
     [b EXCEPT !.plugInfo[1].types = <<[@[1] EXCEPT !.bases = {"PluginContainer"}, !.module = NONE]>> \o @],
     [b EXCEPT !.modules = {}], [b EXCEPT !.libs = {}], [b EXCEPT !.codeless = FALSE],
     [b EXCEPT !.plugInfo[1].types = @ \o @], [b EXCEPT !.plugInfo[1].types[Len(b.plugInfo[1].types)].internal = TRUE],
     [b EXCEPT !.runtimeLibs = <<"dir", "file">>], [b EXCEPT !.providerPaths = <<"registered", "dir">>],
     [b EXCEPT !.openusd = <<[op |-> ">=", bound |-> NONE]>>], [b EXCEPT !.components = [tbb |-> <<[op |-> "=", bound |-> <<2022>>]>>]],
     [b EXCEPT !.cxxAbi.scalar = "msvc143"], [b EXCEPT !.cxxAbi = [scalar |-> NONE, perOs |-> [linux |-> "libcxx"]]],
     [b EXCEPT !.pythonAbi = "cp311"], [b EXCEPT !.prefixed = TRUE]}
MCBundleShapes == UNION {Variations(PlainBundle(k)) : k \in Kinds}

RealRuntime ==
    [pulled |-> TRUE, real |-> TRUE, imaging |-> TRUE, os |-> "linux", openusd |-> <<24, 11, 0>>, cxxAbi |-> "libstdcxx",
     pythonAbi |-> "cp311", components |-> [tbb |-> <<2022, 0>>]]
NoRuntime ==
    [pulled |-> FALSE, real |-> FALSE, imaging |-> FALSE, os |-> NONE, openusd |-> NONE, cxxAbi |-> NONE, pythonAbi |-> NONE,
     components |-> <<>>]
MCRuntimes ==
    {RealRuntime, NoRuntime, [RealRuntime EXCEPT !.real = FALSE], [RealRuntime EXCEPT !.openusd = <<25, 0>>, !.os = "windows"],
     [RealRuntime EXCEPT !.imaging = FALSE, !.openusd = NONE, !.pythonAbi = NONE]}
AllOk ==
    [python |-> TRUE, usdcat |-> TRUE, usdview |-> TRUE, display |-> TRUE, imaging |-> "ok", register |-> "ok", schema |-> "ok",
     cat |-> "ok", stage |-> "ok", roundtrip |-> "ok", view |-> "ok",
     flat |-> [id \in {<<F1, {}>>, <<F2, {}>>, <<F1, {<<"lod", "1">>}>>} |-> Texts2]]
MCSessions ==
    {AllOk, [AllOk EXCEPT !.python = FALSE], [AllOk EXCEPT !.usdcat = FALSE], [AllOk EXCEPT !.usdview = FALSE],
     [AllOk EXCEPT !.register = "fail"], [AllOk EXCEPT !.imaging = "unspawned"], [AllOk EXCEPT !.schema = "fail"],
     [AllOk EXCEPT !.cat = "quiet"], [AllOk EXCEPT !.stage = "unspawned"], [AllOk EXCEPT !.roundtrip = "fail"],
     [AllOk EXCEPT !.view = "fail"], [AllOk EXCEPT !.flat = [@ EXCEPT ![<<F2, {}>>] = Other1]],
     [AllOk EXCEPT !.flat = [@ EXCEPT ![<<F1, {}>>] = NONE]]}

(* A package has the files of its source, some lost and some rewritten. *)
Sources ==
    {[PlainBundle("usd-fileformat") EXCEPT !.files = [f \in fs |-> Texts1], !.roundtrip = r] :
        fs \in {{F1, F2}, {F1, F2, AdjacentGolden(F1)}, {F1, F2, AdjacentGolden(F1), AdjacentGolden(F2)}},
        r \in {<<>>, <<F1>>, <<F1, F2, F1>>}}
MCGoldenCases ==
    {[source |-> b, package |-> [b EXCEPT !.files = [f \in kept \cap DOMAIN b.files |-> IF f \in changed THEN Texts2 ELSE Texts1]]] :
        b \in Sources, kept \in SUBSET {F1, F2, AdjacentGolden(F1), AdjacentGolden(F2)},
        changed \in {{}, {F1}, {AdjacentGolden(F1)}, {AdjacentGolden(F2)}}}
MCPieces ==
    {<<"string", <<"r", "n">>>>, <<"string", <<"b", "q">>>>, <<"string", <<"h">>>>,
     <<"triple", <<"q", "r", "n">>>>, <<"triple", <<"b", "q", "q", "q">>>>,
     <<"comment", <<"q">>>>, <<"generated", <<"n">>>>}

-----------------------------------------------------------------------------
(* The workspaces of the plugin commands' decisions: three bundles, three     *)
(* libraries and a tool, each requirement varied on its own.                  *)
FromVersion(n) == <<[op |-> ">=", bound |-> <<n>>]>>
Pin(digest, source) == [digest |-> digest, source |-> source, targets |-> <<>>]
PerTarget(digest) == [digest |-> NONE, source |-> NONE, targets |-> [linux |-> Pin(digest, "pinned"), macos |-> Pin(9, NONE)]]
Needing(id) == [id |-> id, range |-> FromVersion(1), contract |-> NONE, artifact |-> NONE]
Pinning(id, artifact) == [Needing(id) EXCEPT !.artifact = artifact]
LibraryNamed(id) == [name |-> id, version |-> <<1, 2>>, libraries |-> <<>>, build |-> <<>>, test |-> <<>>]
BundleNamed(id, kind, contract) ==
    [name |-> id, version |-> <<1, 0>>, kind |-> kind, contract |-> contract, provides |-> <<>>, bundles |-> <<>>,
     libraries |-> <<>>, tools |-> <<>>, packaged |-> FALSE, digest |-> NONE]
ToolNamed(id) == [name |-> id, version |-> <<1>>, libraries |-> <<>>]

(* Libraries: every graph of three with at most one requirement each, and a   *)
(* second one of the first library.                                           *)
Requires(l, scope, deps) ==
    CASE scope = "runtime" -> [l EXCEPT !.libraries = @ \o deps]
      [] scope = "build" -> [l EXCEPT !.build = @ \o deps]
      [] scope = "test" -> [l EXCEPT !.test = @ \o deps]
LibraryChoices(id) ==
    {LibraryNamed(id)} \cup {Requires(LibraryNamed(id), s, <<Needing(j)>>) : s \in {"runtime", "build", "test"}, j \in 1..3}
        \cup {Requires(LibraryNamed(id), s, <<Pinning(5, Pin(1, "pinned"))>>) : s \in {"runtime", "build", "test"}}
        \cup {Requires(LibraryNamed(id), "build", <<Pinning(5, PerTarget(1))>>)}
FirstChoices ==
    LibraryChoices(1) \cup {Requires(l, "test", <<Needing(3)>>) : l \in LibraryChoices(1)}
Primary == BundleNamed(1, "usd-fileformat", NONE)
LibraryWorkspaces ==
    {[bundles |-> <<[Primary EXCEPT !.libraries = <<Needing(1)>>]>>, libraries |-> <<a, b, c>>, tools |-> <<ToolNamed(1)>>] :
        a \in FirstChoices, b \in LibraryChoices(2), c \in LibraryChoices(3)}

(* Bundles: what the first needs of the second, the third and the artifacts,  *)
(* and what those need themselves.                                            *)
BundlePins == {Pin(3, NONE), Pin(3, "pinned"), Pin(4, NONE), PerTarget(3)}
BundleChoices ==
    {<<>>, <<Needing(2)>>, <<Needing(2), Needing(3)>>, <<Needing(2), Needing(2)>>, <<Needing(1)>>, <<Needing(0)>>, <<Needing(7)>>,
     <<[Needing(3) EXCEPT !.contract = 1]>>, <<[Needing(3) EXCEPT !.contract = 2]>>, <<[Needing(3) EXCEPT !.contract = 0]>>,
     <<[Needing(2) EXCEPT !.range = FromVersion(2)]>>, <<[Needing(2) EXCEPT !.range = <<>>]>>,
     <<[Needing(2) EXCEPT !.range = <<[op |-> ">=", bound |-> NONE]>>]>>}
        \cup {<<Pinning(6, p)>> : p \in BundlePins} \cup {<<Needing(2), Pinning(3, Pin(3, NONE))>>, <<Pinning(2, Pin(4, NONE))>>}
SecondNeeds == {<<>>, <<Needing(1)>>, <<[Needing(3) EXCEPT !.contract = 1]>>, <<Pinning(6, Pin(3, NONE))>>, <<Pinning(6, Pin(8, NONE))>>}
ThirdKinds == {BundleNamed(3, "usd-schema", 1), BundleNamed(3, "usd-schema", NONE), BundleNamed(3, "usd-fileformat", NONE),
               BundleNamed(2, "usd-fileformat", NONE), [BundleNamed(3, "usd-schema", 1) EXCEPT !.bundles = <<Needing(2)>>]}
Artifact3 == [BundleNamed(6, "usd-fileformat", NONE) EXCEPT !.digest = 3]
BundleWorkspaces ==
    {[bundles |-> <<[BundleNamed(1, k, NONE) EXCEPT !.bundles = d], [BundleNamed(2, "usd-asset-resolver", NONE) EXCEPT !.bundles = e], t>>,
      libraries |-> <<>>, tools |-> <<>>] : k \in {"usd-fileformat"}, d \in BundleChoices, e \in SecondNeeds, t \in ThirdKinds}

(* Tools, single bundles and packages. *)
ToolPin(id, digest) == Pinning(id, Pin(digest, NONE))
OtherWorkspaces ==
    {[bundles |-> <<[Primary EXCEPT !.tools = x, !.bundles = <<Needing(2)>>, !.libraries = l, !.packaged = p],
                    [BundleNamed(2, "usd-schema", NONE) EXCEPT !.tools = y]>>,
      libraries |-> ls, tools |-> ts] :
        x \in {<<>>, <<ToolPin(4, 7)>>, <<ToolPin(4, 7), ToolPin(4, 7)>>}, y \in {<<>>, <<ToolPin(4, 7)>>, <<ToolPin(4, 8)>>, <<ToolPin(4, 0)>>},
        l \in {<<>>, <<Needing(1)>>, <<Pinning(5, Pin(1, "pinned"))>>}, p \in BOOLEAN, ls \in {<<>>, <<LibraryNamed(1)>>},
        ts \in {<<>>, <<ToolNamed(4)>>, <<ToolNamed(3), ToolNamed(3)>>}}
        \cup {[bundles |-> <<[Primary EXCEPT !.bundles = d, !.libraries = l]>>, libraries |-> ls, tools |-> <<>>] :
                d \in BundleChoices, l \in {<<>>, <<Pinning(5, Pin(1, NONE))>>, <<Pinning(5, Pin(2, NONE)), Needing(1)>>}, ls \in {<<>>, <<LibraryNamed(1)>>}}

(* Artifacts: two libraries of one id, of which the second needs library 1,   *)
(* two bundles of one id and a tool.                                          *)
Files == "files"
Record(id, kind, component, requires, member) ==
    [kind |-> kind, target |-> "linux", name |-> id, version |-> <<1, 0>>, intact |-> TRUE, runtime |-> 1, files |-> Files,
     component |-> [kind |-> component, id |-> id, version |-> <<1, 0>>, requires |-> requires, cmake |-> TRUE], member |-> member]
ToolMember == [name |-> 4, version |-> <<1>>, executables |-> <<"run">>, built |-> {"run"}]
Offered ==
    1 :> Record(5, "package", "library", <<>>, NONE) @@
    2 :> Record(5, "package", "library", <<[library |-> 1, range |-> FromVersion(1)]>>, NONE) @@
    3 :> Record(6, "plugin", "plugin", <<>>, Artifact3) @@
    4 :> Record(6, "plugin", "host-addon", <<>>, [Artifact3 EXCEPT !.digest = 4, !.contract = 3]) @@
    7 :> Record(4, "package", "tool", <<>>, ToolMember)
PlainEnv == [target |-> "linux", runtime |-> 1, stored |-> Offered, remote |-> <<>>, prefixes |-> <<>>]
MCEnvironments ==
    {PlainEnv, [PlainEnv EXCEPT !.stored = <<>>, !.remote = Offered], [PlainEnv EXCEPT !.prefixes = 1 :> "torn"],
     [PlainEnv EXCEPT !.stored[1].runtime = 2, !.stored[3].intact = FALSE]}
MCWithLists == {<<>>, <<[Artifact3 EXCEPT !.digest = NONE]>>, <<[BundleNamed(2, "usd-asset-resolver", NONE) EXCEPT !.version = <<2>>]>>}
Family(workspaces, environments, explicit) ==
    [workspaces |-> workspaces, environments |-> environments, explicit |-> explicit]
MCWorkspaceFamilies ==
    {Family(LibraryWorkspaces, {PlainEnv}, {<<>>}),
     Family({w \in LibraryWorkspaces : w.libraries[2] = LibraryNamed(2)}, MCEnvironments, {<<>>}),
     Family(BundleWorkspaces, MCEnvironments, MCWithLists), Family(OtherWorkspaces, MCEnvironments, MCWithLists)}

(* Trees of at most three directories, two deep; one name the scan leaves out *)
(* although a pattern may have it, and one no pattern may have.               *)
A == <<"a">>
AB == <<"a", "b">>
PyCache == <<"_">>
Target == <<"t">>
MCExcluded == {PyCache, Target}
MCGenerated == {Target}
TreeDirs == {<<A>>, <<A, AB>>, <<A, A>>, <<AB>>, <<PyCache>>, <<Target>>, <<PyCache, A>>, <<A, AB, A>>}
MCTrees ==
    {[dirs |-> ds \cup {<<>>}, links |-> ls, descriptors |-> [d \in ds \cup {<<>>} |-> IF d \in ks THEN k ELSE IF d \in other THEN {"library"} ELSE {}]] :
        ds \in {TreeDirs, TreeDirs \ {<<AB>>}}, ls \in {{}, {<<A>>}, {<<AB>>}},
        ks \in {{}, {<<>>}, {<<A>>}, {<<A, AB>>}, {<<A, AB, A>>}}, k \in {{"bundle"}, {"bundle", "tool"}},
        other \in {{}, {<<AB>>}, {<<A, A>>}, {<<PyCache>>}, {<<PyCache, A>>, <<A, A>>}, {<<Target>>, <<A>>}}}
Patterns == {<<>>, <<A>>, <<AB>>, <<A, AB>>, << <<"*">> >>, << <<"a", "?">> >>, << <<"*">>, <<"a", "*">> >>, <<PyCache>>, <<PyCache, A>>, <<A, <<"*", "b">> >>}
MCPatternLists == {NONE} \cup {<<p>> : p \in Patterns} \cup {<<p, q>> : p, q \in Patterns} \cup {<<<<>>, <<A>>, <<A, <<"*">> >> >>}

-----------------------------------------------------------------------------
(* The reports, projects and launches of the renderer's decisions.            *)
MCLower == {"renderer", "gpu", "frame", "core"}
MCLetters == MCLower \cup {"ost", "build", "test", "viewport", "external", "unverified", "merlin", "vulkan", "headless", "hydra2", "color",
                           "depth", "backend", "extraction", "managed", "harness", "app"}
MCDigits == {"1", "2", "3", "4", "5"}
MCRunNames == <<"1", "2", "3", "4", "5">>
OtherReport == <<"frame", "-", "renderer", "-", "report", ".json">>
MCFileOrder == <<OtherReport, PrimaryReport>>
CoreCheck == <<<<"renderer">>, <<"core">>>>
FrameCheck == <<<<"renderer">>, <<"gpu">>, <<"frame">>>>
MCStandardChecks == <<CoreCheck, FrameCheck>>
MCRendererOf ==
    [schema |-> "v1alpha1", name |-> <<"merlin">>, backend |-> <<"vulkan">>, sceneInputs |-> <<<<"headless">>>>,
     units |-> <<"core">> :> <<"core">>, adapters |-> <<>>, products |-> <<<<"color">>>>, contexts |-> 1, completion |-> <<"explicit">>,
     assertions |-> <<CoreCheck>>]
Check(id, status) == [id |-> id, status |-> status, detail |-> status # "pass", producer |-> NONE]
Report(producer, checks) == [name |-> <<"merlin">>, device |-> NONE, producer |-> producer, checks |-> checks]
MCReports ==
    {Report(NONE, <<Check(CoreCheck, "pass")>>), Report(NONE, <<Check(CoreCheck, "fail"), Check(FrameCheck, "pass")>>)}
MCPartialReports == {Report(NONE, <<Check(FrameCheck, "pass")>>)}

(* Reports that are merged: with sessions of one target and of another, one *)
(* that failed and none, and a device.                                      *)
MergeSession(id, started, outcome) ==
    [id |-> <<"harness", id>>, kind |-> <<"renderer", "-", "harness">>, target |-> <<"target">>, started |-> started,
     completed |-> IF outcome = "incomplete" THEN NONE ELSE started, outcome |-> outcome]
MergeSessions ==
    {NONE, MergeSession("1", 1, "success"), MergeSession("2", 2, "success"), MergeSession("3", 2, "failure"),
     MergeSession("4", 3, "success"), [MergeSession("5", 2, "success") EXCEPT !.target = <<"other">>]}
Device(name) == [backend |-> <<"vulkan">>, driver |-> name]
MCMergeCases ==
    {Report(s, c) : s \in MergeSessions,
                    c \in {<<Check(CoreCheck, "pass")>>, <<Check(CoreCheck, "fail")>>, <<Check(CoreCheck, "skip"), Check(FrameCheck, "pass")>>}}
    \cup {[Report(MergeSession("1", 1, "success"), <<Check(FrameCheck, "pass")>>) EXCEPT !.device = Device(<<d>>)] : d \in {"a", "b"}}

-----------------------------------------------------------------------------
Adoption ==
    [name |-> <<"merlin">>, backend |-> <<"vulkan">>, label |-> <<"merlin", "-", "vulkan">>, core |-> <<"core">>, extraction |-> <<"extraction">>,
     headless |-> <<"app">>, hydra2 |-> NONE, viewport |-> NONE, platform |-> "cy2026", version |-> NONE, versionFile |-> NONE,
     write |-> FALSE, allowUnresolved |-> FALSE, replaceManifest |-> FALSE]
MCAdoptions ==
    {[Adoption EXCEPT !.version = v, !.versionFile = f, !.allowUnresolved = u, !.replaceManifest = r, !.hydra2 = h] :
        v \in {NONE, "1.0"}, f \in {NONE, "VERSION"}, u, r \in BOOLEAN, h \in {NONE, <<"hydra2">>}}
    \cup {[Adoption EXCEPT !.platform = NONE], [Adoption EXCEPT !.viewport = <<"app">>], [Adoption EXCEPT !.name = <<"-", "merlin">>],
          [Adoption EXCEPT !.core = <<"1">>]}
CMakeTexts(labels) == <<"CMakeLists.txt">> :> labels
AllLabels == {<<"merlin", "-", "vulkan">>, <<"core">>, <<"extraction">>, <<"app">>}
AdoptionManifests == {NONE, MCRendererOf, [MCRendererOf EXCEPT !.contexts = 0], AdoptedManifest(Adoption, MCStandardChecks)}
MCAdoptionTrees ==
    {[cmake |-> c, project |-> p, manifest |-> m, versions |-> f, adoption |-> NONE] :
        c \in {CMakeTexts(AllLabels), CMakeTexts(AllLabels \cup {<<"hydra2">>}), CMakeTexts({}) @@ <<"build", "CMakeLists.txt">> :> AllLabels,
               CMakeTexts({<<"core">>}) @@ <<"sub", "CMakeLists.txt">> :> AllLabels, <<"sub", "CMakeLists.txt">> :> AllLabels},
        p \in {NONE, [name |-> <<"merlin">>, version |-> "0.2", versionFile |-> NONE], [name |-> <<"merlin">>, version |-> NONE, versionFile |-> "VERSION"],
               [name |-> <<"other">>, version |-> "0.2", versionFile |-> NONE]},
        m \in AdoptionManifests, f \in {<<>>, "VERSION" :> "3.0"}}

-----------------------------------------------------------------------------
HydraRuntime(root, id, digest) == [root |-> <<"runtimes", root>>, id |-> id, digest |-> digest]
MCHydraRuntimes == {HydraRuntime("a", "usd", "1"), HydraRuntime("b", "usd", "1"), HydraRuntime("a", "usd", "2"), HydraRuntime("a", "lookdev", "1")}
Option(name) == <<name, "_ENABLE_HYDRA2">>
ViewportOption == <<"MERLIN", "_ENABLE_VIEWPORT">>
CacheEntry(kind, value) == [kind |-> kind, value |-> value]
DeclaredCaches ==
    {<<>>, Option("MERLIN") :> CacheEntry("bool", "ON"), Option("MERLIN") :> CacheEntry("bool", "OFF"),
     <<"OST_RUNTIME_ROOT">> :> CacheEntry("path", <<"runtimes", "a">>), <<"OST_RUNTIME_DIGEST">> :> CacheEntry("string", "1"),
     <<"OST_RENDERER_ADAPTERS">> :> CacheEntry("string", <<"headless">>), <<"OST_RENDERER_ADAPTERS">> :> CacheEntry("path", <<>>)}
MCHydraProjects ==
    {[options |-> o, listens |-> l, builds |-> b, profile |-> "core", declared |-> NONE :> c] :
        o \in {<<>>, <<Option("MERLIN")>>, <<Option("MERLIN"), Option("OTHER")>>}, l, b \in BOOLEAN, c \in DeclaredCaches}

Scene(text, cameras) == [exists |-> TRUE, text |-> text, cameras |-> cameras]
ViewRuntime(real, usdview) == [root |-> <<"runtimes", "a">>, id |-> "usd", digest |-> "1", pulled |-> TRUE, real |-> real, usdview |-> usdview]
ViewProject(profile) == [options |-> <<Option("MERLIN")>>, listens |-> TRUE, builds |-> TRUE, profile |-> profile, declared |-> NONE :> <<>>]
PlugInfo(types) == [readable |-> TRUE, plugins |-> <<[name |-> "hdMerlin", types |-> types]>>]
RendererType(display) == [bases |-> {"HdRendererPlugin"}, display |-> display]
ExternalCache(digest) ==
    <<[key |-> Option("MERLIN"), value |-> "ON"], [key |-> <<"pxr_DIR">>, value |-> <<"runtimes", "a", "lib">>],
      [key |-> <<"OST_RUNTIME_DIGEST">>, value |-> digest]>>
EarlierRecord == [run |-> 0, outcome |-> "success", state |-> "success", exit |-> 0, shown |-> NONE, reports |-> <<>>]
AView ==
    [run |-> 1, record |-> NONE, profile |-> NONE, project |-> ViewProject("core"), runtimes |-> "usd" :> ViewRuntime(TRUE, TRUE),
     buildDir |-> NONE, declared |-> NONE :> <<>>, intent |-> NONE, stage |-> <<PlugInfo(<<RendererType("Merlin")>>)>>,
     adapters |-> "hydra2" :> "hdMerlin", scene |-> Scene(TRUE, <<<<"World", "Cam">>>>), smoke |-> NONE, camera |-> NONE, renderer |-> NONE,
     installs |-> TRUE, exit |-> 0]
ViewRuntimes ==
    {<<>>} \cup {"usd" :> ViewRuntime(r, u) : r, u \in BOOLEAN}
    \cup {"usd" :> ViewRuntime(TRUE, TRUE) @@ p :> ViewRuntime(r, TRUE) : p \in {"lookdev", "core"}, r \in BOOLEAN}
Stages ==
    {<<>>, <<PlugInfo(<<RendererType("Merlin")>>)>>, <<PlugInfo(<<[bases |-> {}, display |-> NONE], RendererType(NONE)>>)>>,
     <<[readable |-> FALSE, plugins |-> <<>>], PlugInfo(<<RendererType("Merlin")>>)>>,
     <<PlugInfo(<<RendererType("Merlin")>>), [readable |-> FALSE, plugins |-> <<>>]>>}
MCViews ==
    {[AView EXCEPT !.runtimes = r, !.profile = p, !.buildDir = b, !.exit = x, !.record = e] :
        r \in ViewRuntimes, p \in {NONE, "usd", "lookdev"}, b \in {NONE, ExternalCache("1"), ExternalCache("2"), <<>>}, x \in {0, 1},
        e \in {NONE, EarlierRecord}}
    \cup {[AView EXCEPT !.stage = s, !.scene = c, !.camera = m, !.installs = i, !.record = EarlierRecord] :
        s \in Stages, c \in {NONE, Scene(FALSE, <<>>), Scene(TRUE, <<>>), Scene(TRUE, <<<<"World", "Cam">>>>), [Scene(TRUE, <<>>) EXCEPT !.exists = FALSE]},
        m \in {NONE, <<"Cam">>, <<"Other", "Cam">>, <<"Top">>}, i \in BOOLEAN}
MCLaunches ==
    {[adapters |-> a, declared |-> NONE :> c, intent |-> s, args |-> g, capabilities |-> k, preflight |-> FALSE,
      project |-> [options |-> <<ViewportOption>>, listens |-> l, builds |-> b], executables |-> x, config |-> "Release"] :
        a \in {<<>>, "viewport" :> "app"}, c \in {<<>>, <<"OST_RENDERER_ADAPTERS">> :> CacheEntry("path", <<>>), ViewportOption :> CacheEntry("bool", "OFF")},
        s \in {NONE, "missing"}, g \in {<<>>, <<<<"--hidden">>>>, <<<<"--usd">>>>, <<<<"--scene", "x">>>>, <<<<"x", ".usda">>>>},
        k \in {{}, {"usd-stage-read"}}, l, b \in BOOLEAN, x \in {<<>>, <<<<"Debug", "app">>, <<"Release", "app">>>>}}

-----------------------------------------------------------------------------
(* The descriptors, consumers and libraries of the decisions about members.   *)
Rel(segs) == [start |-> "relative", segs |-> segs]
BundleRoot == <<"w", "b">>
BundleEntries ==
    {<<>>, <<"w">>, <<"w", "b">>, <<"w", "b", "openstrata.plugin.yaml">>, <<"w", "b", "a">>, <<"w", "b", "a", "f">>, <<"w", "c">>, <<"w", "c", "f">>,
     <<"w", "out">>, <<"w", "out", "lib">>}
BundleLinks ==
    {<<>>, <<"w", "b", "l">> :> <<"w", "c">>, <<"w", "b", "l">> :> <<"w", "b", "a">>, <<"w", "b", "l">> :> <<"w", "gone">>,
     <<"w", "b", "a", "l">> :> <<"w">>, <<"w", "x">> :> <<"w", "b">>, <<"w", "out", "python">> :> <<"w", "c">>}
PathSets ==
    {{Rel(p)} : p \in {<<"a", "f">>, <<"l">>, <<"l", "f">>, <<"l", "new", "deep">>, <<"a", "l", "c", "f">>, <<"a", "l", "new">>, <<"n", "m">>, <<"..", "c">>, <<>>}}
    \cup {{[start |-> "absolute", segs |-> <<"w", "c">>]}, {[start |-> "drive", segs |-> <<"C:", "f">>]}, {}, {Rel(<<"a", "f">>), Rel(<<"l", "new">>)}}
PluginHeader == [schema |-> "v1", requires |-> {}, contract |-> FALSE, unknown |-> FALSE, kind |-> "schema", capabilities |-> {}, paths |-> {}, arguments |-> {}]
MCBundlePlaces ==
    {[fs |-> [entries |-> BundleEntries \ e, links |-> l], at |-> a, output |-> o, manifest |-> [PluginHeader EXCEPT !.paths = p]] :
        e \in {{}, {<<"w", "b", "a", "f">>}}, l \in BundleLinks, a \in {BundleRoot, <<"w", "x">>}, o \in {<<"w", "out">>, <<"w", "none">>}, p \in PathSets}
    \cup {[fs |-> [entries |-> BundleEntries, links |-> <<>>], at |-> BundleRoot, output |-> <<"w", "out">>, manifest |-> m] : m \in
            {[PluginHeader EXCEPT !.schema = s, !.requires = r, !.unknown = u] : s \in {NONE, "v1", "v2"}, r \in {{}, {"x"}}, u \in BOOLEAN}
            \cup {[PluginHeader EXCEPT !.kind = "usdview-plugin", !.capabilities = c] : c \in {{}, {"usdview"}}}
            \cup {[PluginHeader EXCEPT !.arguments = {[key |-> k, value |-> v]}] : k \in {<<>>, <<"k">>, <<"k", "=">>}, v \in {<<>>, <<"=">>, <<"&">>}}}

-----------------------------------------------------------------------------
LibraryHeader ==
    [schema |-> "v1", id |-> 1, version |-> "1.0", cmake |-> [package |-> <<"Core">>, target |-> <<<<"Core">>, <<"core">>>>],
     package |-> [standalone |-> TRUE, member |-> FALSE], contract |-> NONE, directories |-> <<Rel(<<"lib">>)>>, required |-> NONE]
PackageContract ==
    [name |-> <<"Core">>, exported |-> <<<<<<"Core">>, <<"core">>>>>>, headers |-> <<Rel(<<<<"i">>, <<"*">>>>)>>,
     consumer |-> [include |-> Rel(<<"x.h">>), symbol |-> <<<<"ns">>, <<"f">>>>]]
LibraryShapes ==
    {[LibraryHeader EXCEPT !.directories = d, !.required = "linux" :> r @@ "windows" :> w] :
        d \in {<<Rel(<<"lib">>)>>, <<Rel(<<"bin">>), Rel(<<"lib">>)>>, <<Rel(<<"lib", "">>)>>, <<Rel(<<".", "lib">>)>>, <<Rel(<<"lib", "sub">>)>>},
        r \in {<<>>, <<Rel(<<"lib", "core">>)>>, <<Rel(<<"lib", "sub", "core">>)>>, <<Rel(<<"lib", ".", "core">>)>>, <<Rel(<<"share", "core">>)>>},
        w \in {<<>>, <<Rel(<<"bin", "core">>)>>, <<Rel(<<"bin", "core">>), Rel(<<"bin", "core">>)>>}}
    \cup {LibraryHeader, [LibraryHeader EXCEPT !.package = [standalone |-> FALSE, member |-> FALSE]], [LibraryHeader EXCEPT !.cmake.target = <<<<"core">>>>],
          [LibraryHeader EXCEPT !.version = NONE]}
    \cup {[LibraryHeader EXCEPT !.contract = c] :
            c \in {PackageContract, [PackageContract EXCEPT !.name = <<"Other">>], [PackageContract EXCEPT !.exported = <<>>],
                   [PackageContract EXCEPT !.headers = <<Rel(<<<<"?">>>>)>>], [PackageContract EXCEPT !.consumer = [include |-> NONE, symbol |-> <<<<"f">>>>]],
                   [PackageContract EXCEPT !.consumer.symbol = <<<<"1", "f">>>>]}}
MCLibraryManifests ==
    {[manifest |-> m, files |-> f] : m \in LibraryShapes,
        f \in {{}, {<<"lib", "core">>}, {<<"lib", "core">>, <<"bin", "core">>}, {<<"lib", "sub", "core">>}, {<<"lib", "core">>, <<"lib", "sub", "core">>, <<"include", "x">>}}}
ToolHeader == [schema |-> "v1", id |-> 1, version |-> "1.0", executables |-> <<<<"run">>>>, directories |-> <<Rel(<<"bin">>), Rel(<<"lib">>)>>]
MCToolManifests ==
    {[manifest |-> m, files |-> f, windows |-> w] :
        m \in {[ToolHeader EXCEPT !.directories = d, !.executables = e] :
                d \in {<<>>, <<Rel(<<"bin">>)>>, <<Rel(<<"lib">>), Rel(<<"bin", "">>)>>, <<Rel(<<"..", "bin">>)>>},
                e \in {<<>>, <<<<"run">>>>, <<<<"run">>, <<"help">>>>, <<<<"run", ".exe">>>>, <<<<"a", "/", "b">>>>}},
        f \in {{}, {<<"bin", <<"run">>>>}, {<<"lib", <<"run">>>>, <<"bin", <<"help">>>>}, {<<"bin", <<"run", ".exe">>>>}}, w \in BOOLEAN}

(* Patterns and components of up to three characters of two letters. *)
SeqsUpTo(S, n) == UNION {[1..k -> S] : k \in 0..n}
PatternComponents == SeqsUpTo({"a", "b", "*"}, 3) \ {<<>>, AnyComponents}
MCHeaderPatterns ==
    {<<c>> : c \in PatternComponents} \cup SeqsUpTo({AnyComponents, <<"a">>, <<"a", "*">>}, 3) \cup {<<<<"*", "a", "*", "b", "a">>>>, <<<<"*", "a", "a", "b">>>>}
MCHeaderPaths == {<<c>> : c \in SeqsUpTo({"a", "b"}, 5) \ {<<>>}} \cup SeqsUpTo({<<"a">>, <<"a", "b">>, <<"b">>}, 3)

-----------------------------------------------------------------------------
Value(property, form, path) == [property |-> property, form |-> form, absolute |-> TRUE, path |-> path]
Links(form, target) == [property |-> "INTERFACE_LINK_LIBRARIES", form |-> form, absolute |-> FALSE, path |-> target]
CMakeTarget(values) == [alias |-> NONE, values |-> values]
CoreTarget == <<"Core", "core">>
DepTarget == <<"Dep", "dep">>
XInclude == Value("INTERFACE_INCLUDE_DIRECTORIES", "bare", <<"usr", "include">>)
XTargets == <<"X11", "X11">> :> CMakeTarget({XInclude}) @@ <<"X11", "Xt">> :> CMakeTarget({Links("bare", <<"X11", "X11">>)})
Python == [include |-> <<"usr", "python">>, library |-> <<"usr", "lib", "python.so">>, runtime |-> NONE]
CoreValues ==
    {{}, {Value("IMPORTED_LOCATION", "bare", <<"p", "core">>)}, {Value("INTERFACE_INCLUDE_DIRECTORIES", "install", <<"usr", "include">>)}, {XInclude},
     {Value("INTERFACE_INCLUDE_DIRECTORIES", "build", <<"p", "src">>)}, {Value("INTERFACE_LINK_DIRECTORIES", "bare", <<"usr", "lib">>)},
     {Value("INTERFACE_INCLUDE_DIRECTORIES", "bare", <<"usr", "lib">>)}, {Value("INTERFACE_INCLUDE_DIRECTORIES", "generator", <<"opt">>)}}
CoreLinks ==
    {{}, {Links("bare", DepTarget)}, {Links("link only", DepTarget)}, {Links("bare", <<"X11", "Xt">>)}, {Links("link only", <<"Alias">>)}, {Links("bare", CoreTarget)}}
DepValues == {{}, {Value("IMPORTED_LOCATION", "bare", <<"opt", "dep">>)}, {Value("IMPORTED_LOCATION", "link only", <<"runtime", "dep">>), Links("bare", CoreTarget)}}
MCConsumers ==
    {[before |-> XTargets, exported |-> {CoreTarget}, prefixes |-> {<<"p">>, <<"runtime">>}, python |-> y, host |-> h,
      targets |-> CoreTarget :> CMakeTarget(v \cup l) @@ DepTarget :> CMakeTarget(d) @@ <<"Alias">> :> [alias |-> DepTarget, values |-> {}]
                  @@ <<"X11", "X11">> :> CMakeTarget({XInclude} \cup x) @@ XTargets] :
        v \in CoreValues, l \in CoreLinks, d \in DepValues, y \in {NONE, Python}, h \in {{}, {"libx11-dev"}, {"libx11-dev", "libxt-dev"}},
        x \in {{}, {Value("INTERFACE_INCLUDE_DIRECTORIES", "bare", <<"opt">>)}}}

MCLibraryIds == <<"base", "gen", "helper", "top">>
Leaf == [libraries |-> {}, build |-> {}, test |-> {}]
MCRequires ==
    "base" :> Leaf @@ "gen" :> Leaf @@ "helper" :> [Leaf EXCEPT !.libraries = {"base"}]
    @@ "top" :> [libraries |-> {"base"}, build |-> {"gen"}, test |-> {"helper"}]
MCWorked == {"base", "top"}
=============================================================================
