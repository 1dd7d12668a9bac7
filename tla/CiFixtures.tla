----------------------------- MODULE CiFixtures ------------------------------
(* Two publishers, nested protected namespaces, a runtime republished with    *)
(* other evidence, and matrices that vary one part of the file at a time.     *)
EXTENDS GithubWorkflow

Id(w, ref) == [repository |-> "org/repo", workflow |-> w, ref |-> ref, actor |-> "bot", event |-> "push"]
ReleaseId == Id("release", <<"tags", "v1">>)
BranchId == Id("release", <<"heads", "dev">>)
OtherId == [Id("release", <<"tags", "v1">>) EXCEPT !.repository = "fork/repo"]
MCIdentities == {ReleaseId, BranchId, OtherId, Id("nightly", <<"heads", "main">>)}

Publisher(id, w, path, open, trust) ==
    [id |-> id, repository |-> "org/repo", workflow |-> w, refs |-> {[path |-> path, open |-> open]},
     actors |-> {"bot"}, events |-> {"push"}, trust |-> trust]
Releases == Publisher("releases", "release", <<"tags">>, TRUE, Verified)
Nightly == Publisher("nightly", "nightly", <<"heads", "main">>, FALSE, Attested)
Anyref == Publisher("anyref", "release", <<>>, TRUE, Trusted)
Space(path, minimum, allowed) == [namespace |-> path, minimum |-> minimum, allowed |-> allowed]
Org == Space(<<"reg", "org">>, Attested, <<"nightly", "releases">>)
Prod == Space(<<"reg", "org", "prod">>, Verified, <<"releases">>)
Pol(minimum, spaces, publishers) == [minimum |-> minimum, protected |-> spaces, publishers |-> publishers]
Strict == Pol(Local, <<Org, Prod>>, <<Releases, Nightly>>)
MCPolicies ==
    {Strict, Pol(Local, <<Prod, Org>>, <<Nightly, Releases>>), Pol(Attested, <<Prod>>, <<Releases, Anyref>>),
     Pol(Local, <<Prod>>, <<Nightly>>), Pol(Verified, <<>>, <<Anyref, Releases>>),
     Pol(Local, <<Space(<<"reg", "org", "prod">>, Trusted, <<"releases">>)>>, <<Releases>>)}
MCDestinations == {<<"reg", "org", "prod", "tool">>, <<"reg", "org", "dev">>, <<"reg", "other">>, <<"reg", "org">>}

Dep(name, archive) == [name |-> name, source |-> "s-" \o name, archive |-> archive]
Man(d, k, build) ==
    [digest |-> d, kind |-> k, build |-> build, runtime |-> NONE, hostNeeds |-> {},
     openusd |-> [platform |-> "cy26", os |-> "linux"]]
BuildBy(id, deps) == [source |-> "src", identity |-> id, dependencies |-> deps]
RtRelease == Man("rt", "runtime", BuildBy(ReleaseId, {}))
RtNightly == Man("rt", "runtime", BuildBy(Id("nightly", <<"heads", "main">>), {}))
Composed == [Man("comp", "composed-runtime", BuildBy(BranchId, {Dep("usd", "rt"), Dep("lib", "lib")})) EXCEPT !.runtime = "rd"]
MCManifestSet ==
    {RtRelease, RtNightly, [Man("rt2", "runtime", NONE) EXCEPT !.hostNeeds = {[manager |-> "apt", name |-> "gl"]}],
     Composed, [Composed EXCEPT !.digest = "comp2", !.runtime = "other", !.build.dependencies = {Dep("usd", "rt")}],
     Man("lib", "plugin", BuildBy(OtherId, {Dep("usd", NONE)}))}
Gate(minimum, s, p, policy) == [minimum |-> minimum, sbom |-> s, provenance |-> p, policy |-> policy]
MCGates ==
    {Gate(t, s, p, pol) : t \in TrustLevel, s \in BOOLEAN, p \in BOOLEAN, pol \in {NONE, Strict}}
    \cup {Gate(Local, TRUE, p, pol) : p \in BOOLEAN, pol \in MCPolicies}

(* The matrices.                                                              *)
RunnerHosted == [name |-> "gh", hosted |-> TRUE, image |-> "ubuntu-24.04", labels |-> <<>>, acknowledged |-> TRUE]
RunnerOwn == [name |-> "own", hosted |-> FALSE, image |-> NONE, labels |-> <<"gpu", "linux">>, acknowledged |-> FALSE]
Remote(pin) == [oci |-> TRUE, pin |-> pin, expected |-> pin]
Source ==
    [name |-> "pr", lane |-> "pull_request", runner |-> "gh", labels |-> <<>>, os |-> "linux", support |-> NONE,
     runtime |-> "rt", openusd |-> NONE, usdVersion |-> NONE, remote |-> Remote("o1"), plugin |-> NONE,
     kind |-> "bundle", bundle |-> NONE, verify |-> NONE, intent |-> NONE, platform |-> "cy26", upTo |-> NONE,
     hostPython |-> NONE, packages |-> NONE, publish |-> "never", trust |-> Local, evidence |-> NONE]
Main == [Source EXCEPT !.name = "main", !.lane = "main"]
Candidate(name) == [Main EXCEPT !.name = name, !.publish = "candidate", !.trust = Verified, !.remote = Remote("o2")]
Support == [Source EXCEPT !.name = "weekly", !.lane = "scheduled", !.runner = "own", !.remote = NONE, !.plugin = "lib"]
Workspace(v) == [Main EXCEPT !.name = "ws", !.kind = "workspace", !.verify = v]
Free(v) == [Workspace(v) EXCEPT !.name = "free", !.runtime = NONE, !.remote = NONE]
Packages(a, b) == [apt |-> a, brew |-> b]
Release1 ==
    [version |-> "1", mode |-> "publish", runner |-> "gh", environment |-> NONE, checks |-> <<>>,
     destination |-> [oci |-> TRUE, tagged |-> FALSE, name |-> <<"reg", "org", "prod", "tool">>]]
Base ==
    [cells |-> <<Source>>, runners |-> {RunnerHosted, RunnerOwn}, checks |-> <<>>, evidence |-> "all",
     bootstrap |-> [version |-> "0.30", repository |-> "org/ost", pins |-> {"sum"}],
     trust |-> [policy |-> Strict, pr |-> Local, main |-> Local, release |-> Verified],
     release |-> NONE, external |-> <<>>]
With(cells) == [Base EXCEPT !.cells = cells]
Releasing == [With(<<Source, Candidate("a"), Candidate("b")>>) EXCEPT !.release = Release1]

CellVariants ==
    {Source, Main, Support, [Support EXCEPT !.lane = "workflow_dispatch"], [Support EXCEPT !.plugin = NONE],
     [Support EXCEPT !.runner = "gh"], [Source EXCEPT !.runner = NONE], [Source EXCEPT !.runner = "none"],
     [Source EXCEPT !.runner = "own", !.remote = NONE], [Source EXCEPT !.remote = NONE],
     [Source EXCEPT !.remote.pin = NONE], [Source EXCEPT !.remote.expected = "o2"],
     [Source EXCEPT !.packages = Packages({"gl"}, {})], [Source EXCEPT !.packages = Packages({}, {"gl"})],
     [Source EXCEPT !.hostPython = "3.13"], [Source EXCEPT !.openusd = [platform |-> "cy26", os |-> "linux"], !.usdVersion = "26.08"],
     [Source EXCEPT !.openusd = [platform |-> "cy26", os |-> "macos"]], [Source EXCEPT !.runtime = NONE],
     [Source EXCEPT !.runtime = Placeholder], [Source EXCEPT !.trust = Trusted], [Source EXCEPT !.trust = Verified],
     [Source EXCEPT !.evidence = "none", !.trust = Verified], [Source EXCEPT !.evidence = "sbom"],
     [Source EXCEPT !.upTo = 7], [Source EXCEPT !.support = [platform |-> "linux", features |-> {"f"}]],
     [Workspace("package") EXCEPT !.packages = Packages({"gl"}, {}), !.hostPython = "3.13"],
     [Free("test") EXCEPT !.packages = Packages({"gl"}, {})], [Free("pyramid") EXCEPT !.upTo = 3],
     [Free("build") EXCEPT !.trust = Verified], Candidate("a"), [Candidate("a") EXCEPT !.lane = "pull_request"]}
    \cup {Workspace(v) : v \in {NONE, "graph", "build", "pyramid"}}
    \cup {Free(v) : v \in {NONE, "graph", "build"}}
    \cup {[Workspace("graph") EXCEPT !.name = "g", !.intent = "dev"], [Workspace("build") EXCEPT !.intent = "dev"]}
External(cells) == <<[path |-> "w", cells |-> cells]>>
MatrixVariants ==
    {[Releasing EXCEPT !.release.mode = "draft"], [Releasing EXCEPT !.release.runner = NONE],
     [Releasing EXCEPT !.release.destination = NONE], [Releasing EXCEPT !.trust.policy = NONE],
     [Releasing EXCEPT !.bootstrap.pins = {}], [Releasing EXCEPT !.release = NONE], [Base EXCEPT !.release = Release1],
     [Releasing EXCEPT !.release.runner = "own"], [Base EXCEPT !.bootstrap = NONE],
     [With(<<Support>>) EXCEPT !.bootstrap = NONE], [Base EXCEPT !.checks = <<[name |-> "c", run |-> "r", secrets |-> TRUE]>>],
     [Releasing EXCEPT !.cells[2].runner = "own", !.cells[2].remote = NONE, !.release.runner = "own"],
     [Base EXCEPT !.external = External(<<"pr">>)], [Base EXCEPT !.external = External(<<"nobody">>)]}
MCMatrices ==
    {With(<<c>>) : c \in CellVariants} \cup MatrixVariants
    \cup {With(<<Source, c>>) : c \in CellVariants} \cup {Releasing}
    \cup {With(<<Main, c, Support>>) : c \in CellVariants}
    \cup {[With(<<c>>) EXCEPT !.trust.main = t, !.trust.pr = t, !.trust.policy = p, !.evidence = e] :
            c \in {Source, Main, Support}, t \in {Attested, Trusted}, p \in MCPolicies \cup {NONE}, e \in {"all", "none"}}
Uses(e, from, v) == [env |-> e, from |-> from, value |-> v]
OutputUses == {Uses("cell", 1, "name"), Uses("runtime", 1, "runtime_artifact"), Uses("remote", 1, "runtime_remote")}
LiteralUses == {Uses("cell", NONE, "pr"), Uses("runtime", NONE, "rt"), Uses("remote", NONE, "o1")}
Project(c, uses) == [projects |-> c, id |-> 1, consumes |-> uses]
Script(uses) == [projects |-> NONE, id |-> 2, consumes |-> uses]
MCDocuments ==
    {[p \in {"w"} |-> NONE]}
    \cup {[p \in {"w"} |-> [versions |-> {v}, jobs |-> {job}]] : v \in {"0.30", "0.29"},
            job \in {<<Script(u), Project("pr", {}), Script(v2)>> :
                        u \in {{}, OutputUses, LiteralUses}, v2 \in {{}, OutputUses, OutputUses \ {Uses("remote", 1, "runtime_remote")}}}}
=============================================================================
