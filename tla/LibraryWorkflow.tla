--------------------------- MODULE LibraryWorkflow ---------------------------
(***************************************************************************)
(* First what a member of a workspace may declare: the paths of a bundle   *)
(* and where they lead (ost-plugin, bundle.rs), the package contract and   *)
(* the runtime files of a library (library.rs), the executables of a tool  *)
(* (tool.rs), and the wildcards of a library's public headers              *)
(* (commands/library.rs).                                                  *)
(*                                                                         *)
(* A declared path is [start, segs]: how it begins, and its segments under *)
(* either separator.  A file system is [entries, links]: the paths of its  *)
(* files and directories, and of its symbolic links the place they lead to.*)
(*                                                                         *)
(* Then the libraries of a workspace built on their own                    *)
(* (commands/library.rs): build, test, package and verify-consumer, each   *)
(* with the evidence the next one asks for.  One step is one command, run  *)
(* to its end or to where it fails; the compiler, CTest and CMake answer   *)
(* what the arguments say.                                                 *)
(*                                                                         *)
(* t has the digest of the runtime and, of each library, the state below.  *)
(* What is installed is [source, runtime, links]: the sources it was made  *)
(* of and what it was linked with; it stands for its files and digests, and*)
(* a record for the digest of the record.                                  *)
(***************************************************************************)
EXTENDS PluginGraph

CONSTANTS
    LibraryIds,   \* the libraries, each after those it requires
    LibraryRequirements      \* of each, the libraries it requires: libraries, build, test

CheckSafeRelative(rel) == rel.segs # <<>> /\ rel.start = "relative" /\ ".." \notin ToSet(rel.segs)

(* Where a path leads, NONE if a part of it is not there. *)
RealPath(fs, path) ==
    FoldLeft(LAMBDA at, c :
        LET next == IF at = NONE THEN NONE ELSE Append(at, c)
            leads == IF next \in DOMAIN fs.links THEN fs.links[next] ELSE next
        IN  IF leads \in fs.entries THEN leads ELSE NONE,
        <<>>, path)
SymlinkMetadata(fs, path) ==
    path = <<>> \/ \E parent \in {RealPath(fs, Front(path))} \ {NONE} : Append(parent, Last(path)) \in fs.entries \cup DOMAIN fs.links
(* The longest part of a declared path that exists. *)
DeepestExisting(fs, root, rel) ==
    LET there == {n \in 0..Len(rel) : SymlinkMetadata(fs, root \o SubSeq(rel, 1, n))} IN
    IF there = {} THEN NONE ELSE CHOOSE n \in there : \A k \in there : k <= n
Below(root, leads) == leads # NONE /\ IsPrefix(root, leads)
CheckExistingBundlePath(fs, root, rel) ==
    \A n \in {DeepestExisting(fs, root, rel)} \ {NONE} : Below(root, RealPath(fs, root \o SubSeq(rel, 1, n)))

BundleManifest == <<"openstrata.plugin.yaml">>
UsesComposition(m) == m.requires # {} \/ m.contract
(* A bundle is loaded if its manifest is one and every path it declares    *)
(* stays below the root it was found at, resolved once.                    *)
LoadBundleAt(fs, at, root, m) ==
    IF /\ RealPath(fs, at \o BundleManifest) # NONE
       /\ CheckExistingBundlePath(fs, root, BundleManifest)
       /\ m.schema = NONE => ~UsesComposition(m)
       /\ m.schema # NONE => m.schema = "v1" /\ ~m.unknown
       /\ m.kind = "usdview-plugin" => "usdview" \in m.capabilities
       /\ \A p \in m.paths : CheckSafeRelative(p) /\ CheckExistingBundlePath(fs, root, p.segs)
       /\ \A a \in m.arguments : a.key # <<>> /\ ToSet(a.key) \cap {"&", "=", "NUL"} = {} /\ ToSet(a.value) \cap {"&", "NUL"} = {}
    THEN [root |-> root, output |-> NONE] ELSE NONE
LoadBundle(fs, at, m) == LoadBundleAt(fs, at, RealPath(fs, at), m)
WithOutputRoot(fs, bundle, plugInfo, at) ==
    LET root == RealPath(fs, at) IN
    IF root # NONE /\ \A p \in {plugInfo, <<"lib">>, <<"python">>} : CheckExistingBundlePath(fs, root, p)
    THEN [bundle EXCEPT !.output = root] ELSE NONE

-----------------------------------------------------------------------------
(* Libraries.  A name is a sequence of words and marks; a target is the    *)
(* sequence of its parts between "::".                                     *)
CMakeAtom(v) == v # <<>> /\ ToSet(v) \cap {";", "$", " ", ":"} = {}
ExportedTargetValid(t) == Len(t) > 1 /\ \A i \in DOMAIN t : CMakeAtom(t[i])
CppSymbol(s) == \A i \in DOMAIN s : s[i] # <<>> /\ s[i][1] \notin {"1", "-", "."} /\ ToSet(s[i]) \cap {"-", ".", ";"} = {}
HeaderPatternValid(p) ==
    CheckSafeRelative(p) /\ \A i \in DOMAIN p.segs : ToSet(p.segs[i]) \cap {"?", "[", "]"} = {}
PackageContractValid(m) ==
    LET c == m.contract IN
    /\ m.package # NONE
    /\ CMakeAtom(c.name) /\ c.name = m.cmake.package
    /\ c.exported # <<>> /\ IsInjective(c.exported) /\ Contains(c.exported, m.cmake.target)
    /\ \A i \in DOMAIN c.exported : ExportedTargetValid(c.exported[i])
    /\ \A i \in DOMAIN c.headers : HeaderPatternValid(c.headers[i])
    /\ c.consumer # NONE =>
        /\ m.package.standalone
        /\ c.consumer.include # NONE => CheckSafeRelative(c.consumer.include)
        /\ c.consumer.symbol # NONE => CppSymbol(c.consumer.symbol) /\ c.consumer.include # NONE

(* A path without the segments that say nothing; a first "." stays. *)
PathComponents(segs) ==
    LET kept == {i \in DOMAIN segs : segs[i] # "" /\ (segs[i] = "." => i = 1)} IN
    [n \in 1..Cardinality(kept) |-> segs[CHOOSE i \in kept : Cardinality({k \in kept : k <= i}) = n]]
RequiredFileValid(m, f) ==
    /\ CheckSafeRelative(f) /\ ToSet(f.segs) \cap {"", "."} = {}
    /\ \E i \in DOMAIN m.directories : IsPrefix(PathComponents(m.directories[i].segs), f.segs)
LibraryManifestValid(m) ==
    /\ m.schema = "v1" /\ PortableId(m.id) /\ m.version # NONE
    /\ m.cmake.package # <<>>
    /\ m.package # NONE => m.package.standalone \/ m.package.member
    /\ m.contract # NONE => PackageContractValid(m)
    /\ Len(m.cmake.target) > 1 /\ \A i \in DOMAIN m.cmake.target : m.cmake.target[i] # <<>> /\ ":" \notin ToSet(m.cmake.target[i])
    /\ \A i \in DOMAIN m.directories : CheckSafeRelative(m.directories[i])
    /\ m.required # NONE =>
        /\ \E os \in DOMAIN m.required : m.required[os] # <<>>
        /\ \A os \in DOMAIN m.required :
            /\ IsInjective(m.required[os])
            /\ \A i \in DOMAIN m.required[os] : RequiredFileValid(m, m.required[os][i])

VerifyRequiredInstallFiles(m, os, files) ==
    m.required # NONE => m.required[os] # <<>> /\ \A i \in DOMAIN m.required[os] : m.required[os][i].segs \in files
(* The directories a loader is pointed at: those there after an install,   *)
(* and in a package those a file is recorded below, by its text.           *)
InstalledRuntimeDirs(m, files) ==
    {i \in DOMAIN m.directories : \E f \in files : IsStrictPrefix(PathComponents(m.directories[i].segs), f)}
PackagedRuntimeDirs(m, files) ==
    {i \in DOMAIN m.directories : \E f \in files : IsStrictPrefix(m.directories[i].segs, f)}

-----------------------------------------------------------------------------
(* Tools. *)
ToolManifestValid(m) ==
    /\ m.schema = "v1" /\ PortableId(m.id) /\ m.version # NONE
    /\ m.executables # <<>>
    /\ \A i \in DOMAIN m.executables :
        m.executables[i] # <<>> /\ ToSet(m.executables[i]) \cap {"/", ":"} = {} /\ m.executables[i][1] # "." /\ Last(m.executables[i]) # ".exe"
    /\ m.directories # <<>> /\ \A i \in DOMAIN m.directories : CheckSafeRelative(m.directories[i])
BuiltDirectories(m, files) ==
    SelectSeq(m.directories, LAMBDA d : \E f \in files : IsStrictPrefix(PathComponents(d.segs), f))
LocateExecutables(m, files, windows) ==
    LET filename(name) == IF windows THEN Append(name, ".exe") ELSE name
        hits(name) == SelectSeq(m.directories, LAMBDA d : Append(PathComponents(d.segs), filename(name)) \in files)
    IN  IF \E i \in DOMAIN m.executables : hits(m.executables[i]) = <<>> THEN NONE
        ELSE [i \in DOMAIN m.executables |-> [directory |-> hits(m.executables[i])[1], name |-> filename(m.executables[i])]]

-----------------------------------------------------------------------------
(* The wildcards of public headers: "*" within a component, by trying the  *)
(* shortest run first and coming back to the last star, and "**" for any   *)
(* number of components.                                                   *)
ComponentMatches(pattern, value) ==
    LET at(i) == IF i <= Len(pattern) THEN pattern[i] ELSE NONE
        match[p \in 1..(Len(pattern) + 1), v \in 1..(Len(value) + 1), star \in 0..Len(pattern), from \in 0..(Len(value) + 1)] ==
            IF v > Len(value) THEN \A i \in p..Len(pattern) : pattern[i] = "*"
            ELSE IF at(p) = value[v] THEN match[p + 1, v + 1, star, from]
            ELSE IF at(p) = "*" THEN match[p + 1, v, p, v]
            ELSE IF star # 0 THEN match[star + 1, from + 1, star, from + 1]
            ELSE FALSE
    IN  match[1, 1, 0, 0]
AnyComponents == <<"*", "*">>
PublicHeaderPatternMatches(pattern, path) ==
    LET match[i \in 1..(Len(pattern) + 1), j \in 1..(Len(path) + 1)] ==
            IF i > Len(pattern) THEN j > Len(path)
            ELSE IF pattern[i] = AnyComponents THEN match[i + 1, j] \/ (j <= Len(path) /\ match[i, j + 1])
            ELSE j <= Len(path) /\ ComponentMatches(pattern[i], path[j]) /\ match[i + 1, j + 1]
    IN  match[1, 1]
(* The headers of an install, or NONE: each pattern has one, and the header*)
(* that the consumer includes is among them, by the end of its path.       *)
VerifyPublicHeaders(headers, include, files) ==
    LET matched == {f \in files : \E i \in DOMAIN headers : PublicHeaderPatternMatches(headers[i], f)} IN
    IF headers = <<>> THEN {}
    ELSE IF \E i \in DOMAIN headers : \A f \in files : ~PublicHeaderPatternMatches(headers[i], f) THEN NONE
    ELSE IF include # NONE /\ \A f \in matched : ~IsSuffix(include, f) THEN NONE
    ELSE matched

-----------------------------------------------------------------------------
(* The consumer that is generated looks at every target it would link: a   *)
(* value of a property is a path or the name of a target, bare or in a     *)
(* generator expression (form).  Paths must be below the prefixes of the   *)
(* closure or the runtime, or belong to the interpreter selected; those of *)
(* the X11 targets of the host were noted before the package was loaded.   *)
ReadableForm(v) == v.form \in {"bare", "install", "link only"}
Unaliased(targets, n) == IF targets[n].alias # NONE THEN targets[n].alias ELSE n
Values(targets, n) == targets[n].values
LinkedTargets(targets, n) ==
    {Unaliased(targets, v.path) : v \in {w \in Values(targets, n) :
        w.property = "INTERFACE_LINK_LIBRARIES" /\ w.form \in {"bare", "link only"} /\ w.path \in DOMAIN targets}}
Visited(targets, names) ==
    LET reach[n \in 0..Cardinality(DOMAIN targets)] ==
            IF n = 0 THEN {Unaliased(targets, m) : m \in names \cap DOMAIN targets}
            ELSE reach[n - 1] \cup UNION {LinkedTargets(targets, m) : m \in reach[n - 1]}
    IN  reach[Cardinality(DOMAIN targets)]
HostTargets == {<<"X11", "X11">>, <<"X11", "Xt">>}
HostKey(n, v) == <<n, v.property, v.path>>
HostKeys(targets) ==
    {HostKey(n, v) : <<n, v>> \in UNION {{<<m, w>> : w \in {u \in Values(targets, m) : u.absolute /\ ReadableForm(u)}} : m \in Visited(targets, HostTargets)}}
PythonPath(python, v) ==
    /\ python # NONE
    /\ \/ IsPrefix(python.include, v.path) \/ v.path \in {python.library, python.runtime}
       \/ v.property = "INTERFACE_LINK_DIRECTORIES" /\ v.path = Front(python.library)
AssertAllowedPath(n, v, prefixes, python, hosts) ==
    /\ v.form # "build"
    /\ v.absolute /\ ReadableForm(v) =>
        HostKey(n, v) \in hosts \/ (\E p \in prefixes : IsPrefix(p, v.path)) \/ PythonPath(python, v)
ConsumerHostX11(requirements) == {"libx11-dev", "libxt-dev"} \subseteq requirements
ConsumerConfigures(c) ==
    LET hosts == IF ConsumerHostX11(c.host) THEN HostKeys(c.before) ELSE {} IN
    /\ ConsumerHostX11(c.host) =>
        /\ HostTargets \subseteq DOMAIN c.before
        /\ \A n \in Visited(c.before, HostTargets) : \A v \in Values(c.before, n) : v.form # "build"
    /\ c.exported \subseteq DOMAIN c.targets
    /\ \A n \in Visited(c.targets, c.exported) : \A v \in Values(c.targets, n) : AssertAllowedPath(n, v, c.prefixes, c.python, hosts)

-----------------------------------------------------------------------------

AllLibraries == ToSet(LibraryIds)
NewLibrary == [source |-> 1, rev |-> 1, pin |-> 1, tree |-> NONE, prefix |-> NONE, record |-> NONE, compiler |-> FALSE,
               tested |-> NONE, consumer |-> NONE, archive |-> NONE, manifest |-> NONE]

(* What a library needs: its consumers', to build it, to test it. *)
Direct(l, mode) ==
    LibraryRequirements[l].libraries \cup (IF mode = "consumer" THEN {} ELSE LibraryRequirements[l].build) \cup (IF mode = "test" THEN LibraryRequirements[l].test ELSE {})
Closures ==
    [l \in AllLibraries, mode \in {"consumer", "build", "test"} |->
        LET further == IF mode = "consumer" THEN mode ELSE "build"
            reach[n \in 0..Cardinality(AllLibraries)] ==
                IF n = 0 THEN Direct(l, mode) ELSE reach[n - 1] \cup UNION {Direct(d, further) : d \in reach[n - 1]}
        IN  reach[Cardinality(AllLibraries)]]
ClosureOf(l, mode) == Closures[l, mode]
Prerequisites(l, mode) == SelectSeq(LibraryIds, LAMBDA d : d \in ClosureOf(l, mode))
(* The artifacts pinned by the descriptors of a library and its closure,   *)
(* and those that only its tests need.                                     *)
ExternalRecords(t, l, mode) == [d \in ClosureOf(l, mode) \cup {l} |-> t.lib[d].pin]
TestOnly(l) == ClosureOf(l, "test") \ ClosureOf(l, "build")
TestExternalRecords(t, l) == [d \in TestOnly(l) |-> t.lib[d].pin]

DescriptorDigest(t, l) == <<t.lib[l].rev, t.lib[l].pin>>
DependencyRecords(t, libraries) ==
    [d \in libraries |-> [descriptor |-> DescriptorDigest(t, d), record |-> t.lib[d].record]]
BuildRecord(t, l, tests) ==
    [descriptor |-> DescriptorDigest(t, l), runtime |-> t.runtime, dependencies |-> DependencyRecords(t, ClosureOf(l, "build")),
     external |-> ExternalRecords(t, l, "build"), tests |-> tests,
     testDependencies |-> DependencyRecords(t, IF tests THEN TestOnly(l) ELSE {}),
     testExternal |-> IF tests THEN TestExternalRecords(t, l) ELSE <<>>, files |-> t.lib[l].prefix]

(* One member: its prefix is emptied, it is configured and compiled against*)
(* the prefixes of its prerequisites, installed, and recorded; ends says   *)
(* how far that comes.                                                     *)
MemberStages == <<"compile", "install", "record", "ok">>
Linked(t, l, libraries) == [source |-> t.lib[l].source, runtime |-> t.runtime, links |-> [d \in libraries |-> t.lib[d].prefix]]
BuildLibraryMember(t, l, tests, ends) ==
    LET made == Linked(t, l, ClosureOf(l, "build"))
        tree == [made |-> made, tests |-> tests]
        emptied == [t EXCEPT !.lib[l].prefix = NONE]
        installed == [emptied EXCEPT !.lib[l].tree = tree, !.lib[l].prefix = made, !.lib[l].compiler = TRUE]
    IN  CASE ends = "compile" -> [emptied EXCEPT !.lib[l].tree = NONE]
          [] ends = "install" -> [emptied EXCEPT !.lib[l].tree = tree]
          [] ends = "record" -> installed
          [] OTHER -> [installed EXCEPT !.lib[l].record = BuildRecord(installed, l, tests)]
(* The closure in its order, then the library itself, with its tests only  *)
(* if it was asked for; fails is the member that fails, NONE if none does, *)
(* and how far it comes.                                                   *)
BuildLibrary(t, l, tests, fails) ==
    FoldLeft(LAMBDA acc, m :
        IF ~acc.ok THEN acc
        ELSE [tree |-> BuildLibraryMember(acc.tree, m, tests /\ m = l, IF m = fails.member THEN fails.ends ELSE "ok"),
              ok |-> m # fails.member],
        [tree |-> t, ok |-> TRUE], Append(Prerequisites(l, IF tests THEN "test" ELSE "build"), l))

(* A record still stands if nothing it names has changed, its own install  *)
(* and those of its prerequisites included.                                *)
(* Mutant: the records of the prerequisites are not compared. *)
RecordMatchesAlone(t, l) ==
    LET r == t.lib[l].record IN
    /\ r # NONE /\ t.lib[l].prefix # NONE
    /\ r.runtime = t.runtime /\ r.descriptor = DescriptorDigest(t, l) /\ r.files = t.lib[l].prefix
    /\ r.external = ExternalRecords(t, l, "build")
RecordStillMatches(t, l) ==
    LET r == t.lib[l].record IN
    /\ r # NONE /\ t.lib[l].prefix # NONE
    /\ r.runtime = t.runtime /\ r.descriptor = DescriptorDigest(t, l) /\ r.files = t.lib[l].prefix
    /\ r.dependencies = DependencyRecords(t, ClosureOf(l, "build"))
    /\ r.external = ExternalRecords(t, l, "build")
ValidatedBuildRecord(t, l) == \A m \in ClosureOf(l, "build") \cup {l} : RecordStillMatches(t, m)

(* Tests run in the build tree, if it was configured with tests; how CTest *)
(* ended is recorded with the build record, unless nothing ran.            *)
TestAccepted(t, l) ==
    LET r == t.lib[l].record IN
    /\ ValidatedBuildRecord(t, l) /\ r.tests
    /\ \A d \in TestOnly(l) : ValidatedBuildRecord(t, d)
    /\ r.testDependencies = DependencyRecords(t, TestOnly(l))
    /\ r.testExternal = TestExternalRecords(t, l)
TestsThere(t, l) == t.lib[l].tree # NONE /\ t.lib[l].tree.tests
TestLibrary(t, l, passes) ==
    IF ~TestAccepted(t, l) THEN t
    ELSE [t EXCEPT !.lib[l].tested =
            IF TestsThere(t, l) THEN [build |-> t.lib[l].record, success |-> passes, ran |-> t.lib[l].tree.made] ELSE NONE]

(* A package declares what its consumers need: the workspace libraries as  *)
(* they were recorded, and the artifacts pinned.  The archive is replaced  *)
(* before the evidence is generated, and the manifest after it.            *)
PackageManifest(t, l) ==
    LET consumers == ClosureOf(l, "consumer") IN
    [archive |-> t.lib[l].prefix, dependencies |-> [d \in consumers |-> t.lib[l].record.dependencies[d]],
     buildOnly |-> ClosureOf(l, "build") \ consumers, external |-> ExternalRecords(t, l, "consumer"), record |-> t.lib[l].record]
PackageLibrary(t, l, evidence) ==
    IF ~ValidatedBuildRecord(t, l) THEN t
    ELSE [t EXCEPT !.lib[l].archive = t.lib[l].prefix, !.lib[l].manifest = IF evidence THEN PackageManifest(t, l) ELSE @]

(* verify-consumer builds the library again, without its tests, and then a *)
(* consumer against its installed closure: ends is how far that comes.  The*)
(* report of an earlier run goes before the tools are looked for.          *)
ConsumerStages == {"headers", "tools", "configure", "link", "ok"}
ConsumerReport(t, l, ends) ==
    [build |-> t.lib[l].record, linked |-> [d \in ClosureOf(l, "consumer") \cup {l} |-> t.lib[d].prefix], runtime |-> t.runtime,
     success |-> ends = "ok"]
VerifyConsumer(t, l, fails, ends) ==
    LET built == BuildLibrary(t, l, FALSE, fails)
        after == built.tree
    IN  IF ~(built.ok /\ ValidatedBuildRecord(after, l) /\ after.lib[l].compiler) \/ ends = "headers" THEN after
        ELSE [after EXCEPT !.lib[l].consumer = IF ends = "tools" THEN NONE ELSE ConsumerReport(after, l, ends)]

(* What else changes a library's state: its sources and its descriptor, a  *)
(* composed build of a bundle, which uses the same build tree and another  *)
(* prefix (PluginWorkspace), and an installed runtime that is replaced.    *)
EditSource(t, l) == [t EXCEPT !.lib[l].source = 3 - @]
EditDescriptor(t, l) == [t EXCEPT !.lib[l].rev = 3 - @]
Repin(t, l) == [t EXCEPT !.lib[l].pin = 3 - @]
ComposedBuild(t, l) ==
    [t EXCEPT !.lib[l].tree = [made |-> [source |-> t.lib[l].source, runtime |-> t.runtime, links |-> "workspace"], tests |-> FALSE],
              !.lib[l].compiler = TRUE]
ExchangeRuntime(t) == [t EXCEPT !.runtime = 3 - @]

=============================================================================
