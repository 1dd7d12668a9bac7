---------------------------- MODULE PluginLevels ----------------------------
(***************************************************************************)
(* The diagnostic pyramid of a plugin bundle: the static rungs L0 and L1   *)
(* (ost-plugin, doctor.rs), the executed rungs L2 to L6 (levels.rs), the   *)
(* goldens of L5 and the contract a package binds them with                *)
(* (verification.rs), and the report `ost plugin test` makes of them       *)
(* (commands/plugin.rs).  What a program a rung starts answers is part of  *)
(* the session: it succeeds, fails, or cannot be started.                  *)
(*                                                                         *)
(* A bundle is a record of its manifest's fields and of the files at its   *)
(* root; a text is a sequence of characters of a small alphabet.           *)
(***************************************************************************)
EXTENDS Common, Integers, Sequences, FiniteSets, SequencesExt

Diagnostic(id, level, status) == [id |-> id, level |-> level, status |-> status]
Passed(report) == \A i \in DOMAIN report : report[i].status # "fail"
One(d) == <<d>>
Only(condition, d) == IF condition THEN <<d>> ELSE <<>>
Judge(id, level, ok) == Diagnostic(id, level, IF ok THEN "pass" ELSE "fail")

(* A program's answer decides a rung: only success passes; one that could  *)
(* not be started fails like one that failed.                              *)
Probed(id, level, outcome) == Judge(id, level, outcome = "ok")

-----------------------------------------------------------------------------
(* The manifest. *)
Provides(b, prefix) == SelectSeq(b.provides, LAMBDA p : p[1] = prefix)
Keys(b, prefix) == [i \in DOMAIN Provides(b, prefix) |-> Provides(b, prefix)[i][2]]
SchemaProvides(b) == Keys(b, "usd-schema")
IsCodelessSchema(b) == b.kind = "usd-schema" /\ b.codeless
SmokePaths(b) == [i \in DOMAIN b.smoke |-> b.smoke[i].path]
Dedup(s) == FoldLeft(LAMBDA acc, x : IF Contains(acc, x) THEN acc ELSE Append(acc, x), <<>>, s)
AllFixtures(b) == Dedup(SmokePaths(b) \o b.roundtrip \o b.negative)
IsFile(b, path) == path \in DOMAIN b.files
ImagingKeys(b) == SelectSeq(b.provides, LAMBDA p : p[1] \in {"usd-imaging", "usd-imaging-prim"})

(* Two bundles may not provide one imaging key. *)
ImagingConflicts(bundles) ==
    {k \in UNION {ToSet(ImagingKeys(b)) : b \in bundles} :
        Cardinality({b.name : b \in {c \in bundles : Contains(ImagingKeys(c), k)}}) > 1}

-----------------------------------------------------------------------------
(* Versions and ranges: missing components count as zero, and the first     *)
(* comparator that fails decides before a later malformed one is read.      *)
Component(v, i) == IF i <= Len(v) THEN v[i] ELSE 0
Longest(a, b) == IF Len(a) > Len(b) THEN Len(a) ELSE Len(b)
CompareParts(a, b) ==
    LET differ == {i \in 1..Longest(a, b) : Component(a, i) # Component(b, i)}
        first == CHOOSE i \in differ : \A j \in differ : i <= j
    IN  IF differ = {} THEN 0 ELSE IF Component(a, first) < Component(b, first) THEN -1 ELSE 1
Admits(op, order) ==
    CASE op = ">=" -> order >= 0 [] op = "<=" -> order <= 0 [] op = ">" -> order > 0
      [] op = "<" -> order < 0 [] op = "=" -> order = 0
RangeAnswer(version, range) ==
    LET bad(i) == range[i].bound = NONE
        refused(i) == ~bad(i) /\ ~Admits(range[i].op, CompareParts(version, range[i].bound))
        stops == {i \in DOMAIN range : bad(i) \/ refused(i)}
        first == CHOOSE i \in stops : \A j \in stops : i <= j
    IN  CASE version = NONE -> "error"
          [] stops = {} -> "yes"
          [] bad(first) -> "error"
          [] OTHER -> "no"

-----------------------------------------------------------------------------
(* L0: the bundle's own files. *)
NormalizePath(path) ==
    FoldLeft(LAMBDA acc, part :
        CASE part = "." -> acc
          [] part = ".." -> IF acc = <<>> THEN acc ELSE Front(acc)
          [] OTHER -> Append(acc, part), <<>>, path)
LibDir == <<"lib">>
SharedLibraries(b) == {l \in b.libs : l.os # NONE}
Resolved(b, p) == NormalizePath(b.plugRoot \o p.root.path \o p.library.path)

(* A library entry names a concrete path of the target's own suffix that    *)
(* stays below the bundle's lib/ and, once anything is built there, exists. *)
LibraryEntryOk(b, p, os) ==
    /\ p.library # NONE /\ p.library.path # <<>> /\ ~p.library.template /\ ~p.library.absolute
    /\ os # NONE => p.library.os = os
    /\ ~p.root.template /\ ~p.root.absolute
    /\ IsPrefix(LibDir, Resolved(b, p))
    /\ SharedLibraries(b) # {} => \E l \in b.libs : LibDir \o <<l.name>> = Resolved(b, p)
CheckPlugInfoLibraryPaths(b, os) ==
    LET entries == SelectSeq(b.plugInfo, LAMBDA p : p.type = "library") IN
    Judge("bundle.plug_info.library_path", 0,
          entries # <<>> /\ \A i \in DOMAIN entries : LibraryEntryOk(b, entries[i], os))

AllTypes(b) == IF b.plugInfo = NONE THEN <<>> ELSE FlattenSeq([i \in DOMAIN b.plugInfo |-> b.plugInfo[i].types])
CheckPlugInfoSchemaTypes(b) ==
    Judge("bundle.plug_info.schema_types", 0,
          /\ AllTypes(b) # <<>>
          /\ \A i \in DOMAIN b.plugInfo : b.plugInfo[i].library = NONE \/ b.plugInfo[i].library.path = <<>>)

(* The first Python plugin that is wrong, or the first container type,      *)
(* decides: entries before it that register nothing are passed over.        *)
IsContainer(t) == "PluginContainer" \in t.bases
Containers(p) == SelectSeq(p.types, IsContainer)
CheckUsdviewPluginRegistration(b) ==
    LET python == SelectSeq(b.plugInfo, LAMBDA p : p.type = "python")
        decides(p) == p.name = NONE \/ p.library # NONE \/ Containers(p) # <<>>
        deciding == SelectSeq(python, decides)
        p == deciding[1]
        t == Containers(p)[1]
    IN  Judge("host.usdview.registration", 0,
              /\ deciding # <<>> /\ p.name # NONE /\ p.library = NONE
              /\ t.safe /\ t.module # NONE /\ p.name = t.module /\ t.module \in b.modules)

AdapterBases == {<<"UsdImagingAPISchemaAdapter", "usd-imaging">>, <<"UsdImagingPrimAdapter", "usd-imaging-prim">>}
ValidateImagingMetadata(b) ==
    LET types == AllTypes(b)
        adapters == {<<i, base>> \in (DOMAIN types) \X AdapterBases : base[1] \in types[i].bases}
        key(a) == <<a[2][2], types[a[1]].key>>
        declared == ImagingKeys(b)
    IN  Judge("imaging.metadata", 0,
              /\ \A a \in adapters : ~types[a[1]].internal /\ types[a[1]].key # NONE
              /\ \A a, c \in adapters : key(a) = key(c) => a = c
              /\ adapters # {} /\ {key(a) : a \in adapters} = ToSet(declared)
              /\ Len(declared) = Cardinality(ToSet(declared)))

CheckRuntimeLibDirs(b) ==
    IF b.runtimeLibs = <<>> THEN Diagnostic("bundle.runtime_libs", 0, "skip")
    ELSE Judge("bundle.runtime_libs", 0, ToSet(b.runtimeLibs) \subseteq {"dir", "registered"})
CheckRuntimePluginPaths(b) ==
    IF b.providerPaths = <<>> THEN Diagnostic("bundle.runtime_plugin_paths", 0, "skip")
    ELSE Judge("bundle.runtime_plugin_paths", 0, ToSet(b.providerPaths) = {"registered"})
PlugInfoChecks(b, os) ==
    CASE b.plugInfo = NONE -> One(Diagnostic("bundle.plug_info", 0, "fail"))
      [] OTHER ->
            << Diagnostic("bundle.plug_info", 0, "pass"),
               CASE b.kind = "usdview-plugin" -> CheckUsdviewPluginRegistration(b)
                 [] IsCodelessSchema(b) -> CheckPlugInfoSchemaTypes(b)
                 [] OTHER -> CheckPlugInfoLibraryPaths(b, os) >>
            \o Only(b.kind = "usd-imaging", ValidateImagingMetadata(b))
Level0(b, os) ==
    One(Diagnostic("bundle.manifest", 0, "pass"))
    \o PlugInfoChecks(b, os)
    \o << IF b.kind = "usdview-plugin" \/ IsCodelessSchema(b) THEN Diagnostic("plugin.shared_library", 0, "skip")
          ELSE Judge("plugin.shared_library", 0, SharedLibraries(b) # {}),
          IF AllFixtures(b) = <<>> THEN Diagnostic("bundle.fixtures", 0, "skip")
          ELSE Judge("bundle.fixtures", 0, \A f \in ToSet(AllFixtures(b)) : IsFile(b, f)),
          CheckRuntimeLibDirs(b), CheckRuntimePluginPaths(b) >>
    \o Only(b.prefixed, Diagnostic("schema.library_prefix", 0, "skip"))
    \o One(Diagnostic("session.plugin_path", 0, "pass"))

-----------------------------------------------------------------------------
(* L1: the bundle against the runtime that was resolved. *)
MatchTag(id, declared, recorded) ==
    IF declared = NONE \/ recorded = NONE THEN Diagnostic(id, 1, "skip") ELSE Judge(id, 1, declared = recorded)
CxxAbiFor(b, os) ==
    CASE b.cxxAbi.scalar = "inherit" -> NONE
      [] b.cxxAbi.scalar # NONE -> b.cxxAbi.scalar
      [] os \notin DOMAIN b.cxxAbi.perOs -> NONE
      [] OTHER -> b.cxxAbi.perOs[os]
CheckRange(id, version, range) == Judge(id, 1, RangeAnswer(version, range) = "yes")
Level1(b, ctx) ==
    LET components == SetToSeq(DOMAIN b.components)
        imaging == b.kind = "usd-imaging"
        unpulled == [i \in 1..3 |-> Diagnostic(<<"runtime.openusd.version", "runtime.cxx_abi", "runtime.python_abi">>[i], 1, "skip")]
    IN  IF ~ctx.pulled
        THEN unpulled \o Only(imaging, Diagnostic("runtime.usd_imaging", 1, "skip"))
             \o [i \in DOMAIN components |-> Diagnostic(components[i], 1, "skip")]
        ELSE Only(imaging, Judge("runtime.usd_imaging", 1, ctx.imaging /\ ctx.real))
             \o One(Diagnostic("runtime.source", 1, "pass"))
             \o << IF ctx.openusd = NONE THEN Diagnostic("runtime.openusd.version", 1, "skip")
                   ELSE CheckRange("runtime.openusd.version", ctx.openusd, b.openusd),
                   MatchTag("runtime.cxx_abi", CxxAbiFor(b, ctx.os), ctx.cxxAbi),
                   MatchTag("runtime.python_abi", b.pythonAbi, ctx.pythonAbi) >>
             \o [i \in DOMAIN components |->
                    IF components[i] \in DOMAIN ctx.components
                    THEN CheckRange(components[i], ctx.components[components[i]], b.components[components[i]])
                    ELSE Diagnostic(components[i], 1, "fail")]

(* What the doctor lists of the rungs it does not execute. *)
Announced(b, upTo) ==
    LET skips(rungs) == [i \in DOMAIN rungs |-> Diagnostic(rungs[i][1], rungs[i][2], "skip")]
        schema == << <<"schema.registration", 2>>, <<"schema.apply_roundtrip", 4>> >>
    IN  CASE b.kind = "usdview-plugin" ->
                skips(<< <<"host.usdview.plugin_load", 2>> >> \o (IF upTo >= 6 THEN << <<"usdview.launch", 6>> >> ELSE <<>>))
          [] b.kind = "usd-schema" -> skips(schema \o << <<"golden.roundtrip", 5>> >>)
          [] OTHER -> skips(<< <<IF b.kind = "usd-imaging" THEN "imaging.registration" ELSE "plugin.discovery", 2>>,
                               <<"usdcat.read", 3>>, <<"python.stage_open", 4>> >>
                            \o (IF SchemaProvides(b) # <<>> THEN schema ELSE <<>>) \o << <<"golden.roundtrip", 5>> >>)
Diagnose(b, ctx, upTo) ==
    Level0(b, ctx.os) \o (IF upTo >= 1 THEN Level1(b, ctx) ELSE <<>>) \o (IF upTo >= 2 THEN Announced(b, upTo) ELSE <<>>)

-----------------------------------------------------------------------------
(* L2: what the plugin registers is what the runtime then knows. *)
Skipped(id, level) == Diagnostic(id, level, "skip")
SchemaTypeNames(b) ==
    IF SchemaProvides(b) # <<>> THEN SchemaProvides(b) ELSE [i \in DOMAIN AllTypes(b) |-> AllTypes(b)[i].name]
ResolverUriSchemes(b) == UNION {t.schemes : t \in {u \in ToSet(AllTypes(b)) : "ArResolver" \in u.bases}}
PackageExtensions(p) == UNION {t.extensions : t \in {u \in ToSet(p.types) : "ArPackageResolver" \in u.bases}}
PackageResolverRegistrations(b) ==
    IF b.plugInfo = NONE THEN <<>> ELSE SelectSeq(b.plugInfo, LAMBDA p : p.name # NONE /\ PackageExtensions(p) # {})
FileformatExt(b) ==
    IF Keys(b, "usd-fileformat") # <<>> THEN Keys(b, "usd-fileformat")[1]
    ELSE IF AllFixtures(b) # <<>> THEN Last(AllFixtures(b)[1]) ELSE NONE

Level2Imaging(b, s) == Judge("imaging.registration", 2, ImagingKeys(b) # <<>> /\ s.imaging = "ok")
(* The first container type with a module, in the order of the entries. *)
UsdviewRegistration(b) ==
    LET found(p) == SelectSeq(Containers(p), LAMBDA t : t.module # NONE)
        plugins == SelectSeq(b.plugInfo, LAMBDA p : p.type = "python" /\ p.name # NONE /\ found(p) # <<>>)
    IN  IF plugins = <<>> THEN NONE ELSE [name |-> plugins[1].name, type |-> found(plugins[1])[1]]
Level2UsdviewPlugin(b, s) ==
    LET id == "host.usdview.plugin_load"
        r == IF b.plugInfo = NONE THEN NONE ELSE UsdviewRegistration(b)
    IN  CASE ~s.python -> Skipped(id, 2)
          [] r = NONE -> Diagnostic(id, 2, "fail")
          [] r.name # r.type.module \/ ~r.type.safe -> Diagnostic(id, 2, "fail")
          [] OTHER -> Probed(id, 2, s.register)
Level2Resolver(b, s) ==
    CASE ResolverUriSchemes(b) = {} -> Diagnostic("resolver.registration", 2, "fail")
      [] ~s.python -> Skipped("resolver.registration", 2)
      [] OTHER -> Probed("resolver.registration", 2, s.register)
Level2PackageResolver(b, s) ==
    CASE PackageResolverRegistrations(b) = <<>> -> Diagnostic("package_resolver.registration", 2, "fail")
      [] ~s.python -> Skipped("package_resolver.registration", 2)
      [] OTHER -> Probed("package_resolver.registration", 2, s.register)
Level2Schema(b, s) ==
    IF SchemaTypeNames(b) = <<>> \/ ~s.python THEN Skipped("schema.registration", 2)
    ELSE Probed("schema.registration", 2, s.schema)
Level2Discovery(b, s) ==
    IF b.kind # "usd-fileformat" \/ FileformatExt(b) = NONE \/ ~s.python THEN Skipped("plugin.discovery", 2)
    ELSE Probed("plugin.discovery", 2, s.register)

(* L3, L4 and L6: a fixture is read, opened, and shown. *)
Fixture(path, args) == [path |-> path, args |-> args]
SmokeFixture(b) ==
    CASE b.smoke # <<>> -> Fixture(b.smoke[1].path, b.smoke[1].args)
      [] AllFixtures(b) # <<>> -> Fixture(AllFixtures(b)[1], {})
      [] OTHER -> NONE
(* A fixture named on the command line keeps the arguments of the smoke     *)
(* fixture that is the same file.                                           *)
ExplicitFixture(b, path) ==
    LET same == SelectSeq(b.smoke, LAMBDA f : f.path = path) IN
    Fixture(path, IF same = <<>> THEN {} ELSE same[1].args)
(* The arguments are sorted by their unique keys: their set is what counts. *)
Identifier(f) == <<f.path, f.args>>
OnFixture(b, id, level, outcome) ==
    LET f == SmokeFixture(b) IN
    CASE f = NONE -> Skipped(id, level)
      [] ~IsFile(b, f.path) -> Diagnostic(id, level, "fail")
      [] OTHER -> Probed(id, level, outcome)
Level3Usdcat(b, s) == IF ~s.usdcat THEN Diagnostic("usdcat.read", 3, "fail") ELSE OnFixture(b, "usdcat.read", 3, s.cat)
Level4StageOpen(b, s) ==
    IF ~s.python THEN Skipped("python.stage_open", 4) ELSE OnFixture(b, "python.stage_open", 4, s.stage)
Level4Schema(b, s) ==
    IF SchemaTypeNames(b) = <<>> \/ ~s.python THEN Skipped("schema.apply_roundtrip", 4)
    ELSE OnFixture(b, "schema.apply_roundtrip", 4, s.roundtrip)
Level6Usdview(b, s, path) ==
    CASE ~s.usdview \/ ~s.display -> Skipped("usdview.launch", 6)
      [] path = NONE -> OnFixture(b, "usdview.launch", 6, s.view)
      [] ~IsFile(b, ExplicitFixture(b, path).path) -> Diagnostic("usdview.launch", 6, "fail")
      [] OTHER -> Probed("usdview.launch", 6, s.view)

-----------------------------------------------------------------------------
(* Comparing a flattened stage with its golden.  Characters: q a quote, b a *)
(* backslash, n and r the ends of lines, s a blank, h a hash, and D the     *)
(* words after which flattening writes the path of the root layer.          *)
Quotes == <<"q", "q", "q">>
TrimEnd(t, chars) ==
    LET kept == {i \in DOMAIN t : t[i] \notin chars} IN
    IF kept = {} THEN <<>> ELSE SubSeq(t, 1, CHOOSE i \in kept : \A j \in kept : j <= i)
Trim(t, chars) == Reverse(TrimEnd(Reverse(TrimEnd(t, chars)), chars))
From(t, i, n) == SubSeq(t, i, IF i + n - 1 > Len(t) THEN Len(t) ELSE i + n - 1)
Closing(path) == IF IsSuffix(Quotes, TrimEnd(path, {"s", "r", "n"})) THEN Quotes ELSE <<>>
Portable(t) ==
    LET step(st, c) ==
            CASE st.path = NONE -> [out |-> Append(st.out, c), path |-> IF c = "D" THEN <<>> ELSE NONE]
              [] c \in {"r", "n"} -> [out |-> st.out \o Closing(st.path) \o <<c>>, path |-> NONE]
              [] OTHER -> [st EXCEPT !.path = Append(@, c)]
        end == FoldLeft(step, [out |-> <<>>, path |-> NONE], t)
    IN  IF end.path = NONE THEN end.out ELSE end.out \o Closing(end.path)
LayoutStart == [out |-> <<>>, skip |-> 0, str |-> FALSE, triple |-> FALSE, comment |-> FALSE, escaped |-> FALSE]
LayoutStep(t, st, i) ==
    LET c == t[i]
        inside == st.str \/ st.triple
        quotes == From(t, i, 3) = Quotes
        newline == c = "n" \/ From(t, i, 2) = <<"r", "n">>
        width == IF c = "r" THEN 1 ELSE 0
    IN  CASE st.skip > 0 -> [st EXCEPT !.skip = @ - 1]
          [] st.triple /\ quotes /\ ~st.escaped -> [st EXCEPT !.out = @ \o Quotes, !.triple = FALSE, !.skip = 2]
          [] ~inside /\ ~st.comment /\ quotes -> [st EXCEPT !.out = @ \o Quotes, !.triple = TRUE, !.skip = 2]
          [] ~st.triple /\ ~st.comment /\ c = "q" /\ ~st.escaped -> [st EXCEPT !.out = Append(@, c), !.str = ~@]
          [] newline /\ inside -> [st EXCEPT !.out = @ \o From(t, i, width + 1), !.skip = width, !.escaped = FALSE]
          [] newline -> [st EXCEPT !.out = Append(TrimEnd(@, {"s"}), "n"), !.skip = width, !.escaped = FALSE, !.comment = FALSE]
          [] OTHER -> [st EXCEPT !.out = Append(@, c), !.comment = @ \/ (~inside /\ c = "h"),
                                 !.escaped = inside /\ c = "b" /\ ~@]
NormalizeUsdaLayout(t) ==
    Trim(FoldLeft(LAMBDA st, i : LayoutStep(t, st, i), LayoutStart, [i \in DOMAIN t |-> i]).out, {"s", "r", "n"})
Normalize(t) == NormalizeUsdaLayout(Portable(t))

-----------------------------------------------------------------------------
(* The contract a package carries: the fixtures and goldens it was tested   *)
(* with, by their contents.                                                 *)
AdjacentGolden(path) == path \o <<"golden">>
ContractOfBundle(b) ==
    LET bound == SelectSeq(Dedup(b.roundtrip), LAMBDA f : IsFile(b, AdjacentGolden(f))) IN
    [valid |-> TRUE,
     roundtrip |-> [i \in DOMAIN bound |-> [fixture |-> bound[i], oracle |-> AdjacentGolden(bound[i]),
                        fixtureDigest |-> b.files[bound[i]], oracleDigest |-> b.files[AdjacentGolden(bound[i])]]]]
ContractValid(c) ==
    /\ c.valid
    /\ \A i \in DOMAIN c.roundtrip : c.roundtrip[i].oracle = AdjacentGolden(c.roundtrip[i].fixture)
    /\ \A i, j \in DOMAIN c.roundtrip : c.roundtrip[i].fixture = c.roundtrip[j].fixture => i = j
OracleFor(c, path) ==
    IF c = NONE \/ \A i \in DOMAIN c.roundtrip : c.roundtrip[i].fixture # path THEN NONE
    ELSE SelectSeq(c.roundtrip, LAMBDA e : e.fixture = path)[1]
FileIs(b, path, digest) == IsFile(b, path) /\ b.files[path] = digest
OracleHolds(b, e) == FileIs(b, e.fixture, e.fixtureDigest) /\ FileIs(b, e.oracle, e.oracleDigest)

RoundtripFixtures(b) ==
    IF b.roundtrip = <<>> THEN IF SmokeFixture(b) = NONE THEN <<>> ELSE One(SmokeFixture(b))
    ELSE LET paths == Dedup(b.roundtrip) IN [i \in DOMAIN paths |-> Fixture(paths[i], {})]
Level5GoldenFixtureUnbound(b, s, f) == \* the package's contract is not consulted
    CASE ~IsFile(b, AdjacentGolden(f.path)) -> "skip"
      [] ~s.usdcat \/ Identifier(f) \notin DOMAIN s.flat \/ s.flat[Identifier(f)] = NONE -> "fail"
      [] Normalize(s.flat[Identifier(f)]) = Normalize(b.files[AdjacentGolden(f.path)]) -> "pass"
      [] OTHER -> "fail"
Level5GoldenFixture(b, s, f) ==
    LET declared == OracleFor(b.contract, f.path)
        golden == AdjacentGolden(f.path)
        flattened == IF Identifier(f) \in DOMAIN s.flat THEN s.flat[Identifier(f)] ELSE NONE
    IN  CASE declared # NONE /\ ~OracleHolds(b, declared) -> "fail"
          [] ~IsFile(b, golden) -> "skip"
          [] ~s.usdcat \/ flattened = NONE -> "fail"
          [] Normalize(flattened) = Normalize(b.files[golden]) -> "pass"
          [] OTHER -> "fail"
Level5Golden(b, s) ==
    LET fixtures == RoundtripFixtures(b)
        results == {Level5GoldenFixture(b, s, fixtures[i]) : i \in DOMAIN fixtures}
    IN  Diagnostic("golden.roundtrip", 5,
            CASE fixtures = <<>> -> "skip"
              [] b.contract # NONE /\ ~ContractValid(b.contract) -> "fail"
              [] "fail" \in results -> "fail"
              [] "pass" \in results -> "pass"
              [] OTHER -> "skip")

-----------------------------------------------------------------------------
(* The rungs of a kind, and a test of the bundle up to one of them.        *)
SchemaRungs(b, s, upTo) ==
    LET also == b.kind \notin {"usdview-plugin", "usd-schema", "usd-asset-resolver", "usd-package-resolver"} /\ SchemaProvides(b) # <<>>
    IN  Only(also /\ upTo >= 2, Level2Schema(b, s)) \o Only((also \/ b.kind = "usd-schema") /\ upTo >= 4, Level4Schema(b, s))
FileRungs(b, s, upTo) == Only(upTo >= 3, Level3Usdcat(b, s)) \o Only(upTo >= 4, Level4StageOpen(b, s))
Registration(b, s) ==
    CASE b.kind = "usd-imaging" -> Level2Imaging(b, s)
      [] b.kind = "usdview-plugin" -> Level2UsdviewPlugin(b, s)
      [] b.kind = "usd-schema" -> Level2Schema(b, s)
      [] b.kind = "usd-asset-resolver" -> Level2Resolver(b, s)
      [] b.kind = "usd-package-resolver" -> Level2PackageResolver(b, s)
      [] OTHER -> Level2Discovery(b, s)
RunLevels(b, s, upTo) ==
    Only(upTo >= 2, Registration(b, s))
    \o (IF b.kind \in {"usdview-plugin", "usd-schema"} THEN <<>> ELSE FileRungs(b, s, upTo))
    \o SchemaRungs(b, s, upTo)
    \o Only(b.kind # "usdview-plugin" /\ upTo >= 5, Level5Golden(b, s))
    \o Only(upTo >= 6, Level6Usdview(b, s, NONE))

(* L0 and L1, then the rungs: executed on a real runtime, announced on any  *)
(* other.  An imaging probe is only built for a bundle whose L0 and L1 pass.*)
AtMost(n, m) == IF n > m THEN m ELSE n
TestBundle(b, companions, ctx, s, upTo) ==
    LET static == Diagnose(b, ctx, 1)
        session == IF b.kind = "usd-imaging" /\ ~Passed(static) THEN [s EXCEPT !.imaging = "unspawned"] ELSE s
    IN  IF ImagingConflicts({b} \cup companions) # {} THEN One(Diagnostic("imaging.conflict", 0, "fail"))
        ELSE static \o
             CASE upTo < 2 -> <<>>
               [] ctx.real -> RunLevels(b, session, AtMost(upTo, 6))
               [] OTHER -> Announced(b, AtMost(upTo, 5))

=============================================================================
