----------------------------- MODULE Decisions ------------------------------
(***************************************************************************)
(* The decisions that keep no state between calls, one input at a time: a  *)
(* behaviour picks an input and stops, and each property says what the code*)
(* promises of its answer for that input.  Every reachable state is one    *)
(* call with the arguments a command could pass.                           *)
(***************************************************************************)
EXTENDS GithubWorkflow, ProducerManifest, OciRegistry, PluginExternal

CONSTANTS
    Claims,       \* the OIDC tokens a push may present
    Now,          \* the time of the push
    LocalStores,  \* the local registries a matrix may be validated against
    Declarations, \* the support declarations it may be held to, NONE for none
    Dists,        \* the directories a pull may fetch
    PullPolicies, \* what a pull may require
    Texts,        \* the references a user may write
    Holdings,     \* the artifacts a store may hold
    Declared,     \* the selectors an OCI manifest may be annotated with
    Sites,        \* the registries and their credentials
    BundleShapes, \* the bundles a test may be asked for
    Runtimes,     \* the runtimes it may resolve
    Sessions,     \* what the programs of a session may answer
    GoldenCases,  \* source bundles and the packages made of them
    Pieces,       \* what a USDA text is made of
    Trees,        \* the directories a workspace may be discovered in
    PatternLists, \* what [workspace].members may say, NONE when it says nothing
    Generated,    \* the names no pattern may have as a component
    WorkspaceFamilies \* the members a workspace may have, with where their artifacts
                      \* may come from and the bundles --with may name

VARIABLES
    subject,      \* what is decided
    input         \* NONE, or the arguments of one call

vars == <<subject, input>>
Subjects ==
    {"artifact", "evidence", "push", "matrix", "gate", "validation", "manifests",
     "dist", "reference", "upload", "session", "bundle", "golden", "text", "tree",
     "workspace", "merge", "adoption", "view", "launch", "hydra", "renderer", "place",
     "descriptor", "tool", "headers", "consumer", "library"}
Init == subject \in Subjects /\ input = NONE
Asked(topic) == subject = topic /\ input = NONE /\ UNCHANGED subject
About(topic) == subject = topic /\ input # NONE

JudgeArtifact ==
    /\ Asked("artifact")
    /\ \E a \in Fetched, g \in ValidGates : input' = [artifact |-> a, gates |-> g]
JudgeEvidence ==
    /\ Asked("evidence")
    /\ \E m, n \in Manifests :
        /\ m.build # NONE => ValidBuild(m.build)
        /\ input' = [of |-> m, for |-> n]
JudgePush ==
    /\ Asked("push")
    /\ \E policy \in Policies, d \in Destinations, claims \in Claims \cup {NONE}, o \in BOOLEAN :
        /\ ValidPolicy(policy)
        /\ input' = [policy |-> policy, destination |-> d, claims |-> claims, override |-> o]
JudgeMatrix ==
    /\ Asked("matrix")
    /\ \E m \in Matrices, reusable \in BOOLEAN :
        ValidMatrix(m) /\ input' = [matrix |-> m, reusable |-> reusable]
JudgeGate ==
    /\ Asked("gate")
    /\ \E m \in ValidMatrices : \E c \in CellsOf(m.cells) :
        LET g == GatesOf(m, c) IN
        (g.policy # NONE => ValidPolicy(g.policy)) /\ input' = [gates |-> g]
JudgeValidation ==
    /\ Asked("validation")
    /\ \E m \in ValidMatrices, store \in LocalStores, d \in Declarations, resolve \in BOOLEAN :
       \E document \in IF m.external = <<>> THEN {NONE} ELSE Documents :
        /\ d # NONE => ValidDeclaration(d)
        /\ input' = [matrix |-> m, store |-> store, declaration |-> d,
                     resolve |-> resolve, document |-> document]

JudgeManifests ==
    /\ Asked("manifests")
    /\ \E p, q \in ProducerManifests : input' = [of |-> p, for |-> q]
JudgeDist ==
    /\ Asked("dist")
    /\ \E d \in Dists, p \in PullPolicies, declared \in Declared :
        input' = [dist |-> d, policy |-> p, declared |-> declared]
JudgeReference == Asked("reference") /\ \E t \in Texts : input' = [text |-> t]
JudgeUpload ==
    /\ Asked("upload")
    /\ \E a, b \in Holdings, tag \in {NONE, "v1"} :
        \E k \in 0..Len(PushWrites(EmptyRegistry, b, "v1")) :
            LET registry == AfterWrites(EmptyRegistry, PushWrites(EmptyRegistry, b, "v1"), k) IN
            \E n \in 0..Len(PushWrites(registry, a, tag)) :
                input' = [artifact |-> a, tag |-> tag, before |-> registry, writes |-> n]
JudgeSession ==
    /\ Asked("session")
    /\ \E s \in Sites, locations \in BoundedSeq({"home", "other", "relative"}, MaxRedirects + 1) :
        input' = [site |-> s, locations |-> locations]

JudgeBundle ==
    /\ Asked("bundle")
    /\ \E b \in BundleShapes, c \in Runtimes, s \in Sessions :
        input' = [bundle |-> b, runtime |-> c, session |-> s]
JudgeGolden ==
    /\ Asked("golden")
    /\ \E g \in GoldenCases, s \in Sessions : input' = [source |-> g.source, package |-> g.package, session |-> s]
JudgeText ==
    /\ Asked("text")
    /\ \E d, e \in BoundedSeq(Pieces, 2) : input' = [of |-> d, for |-> e]

JudgeTree ==
    /\ Asked("tree")
    /\ \E t \in Trees, p \in PatternLists :
        /\ p # NONE => \A i \in DOMAIN p : WorkspaceMemberValid(p[i], Generated)
        /\ input' = [tree |-> t, patterns |-> p]
JudgeWorkspace ==
    /\ Asked("workspace")
    /\ \E f \in WorkspaceFamilies : \E w \in f.workspaces, e \in f.environments, x \in f.explicit :
        input' = [workspace |-> LoadWorkspaceGraph(w), env |-> e, explicit |-> x]

Next ==
    \/ JudgeArtifact \/ JudgeEvidence \/ JudgePush \/ JudgeMatrix \/ JudgeGate \/ JudgeValidation
    \/ JudgeManifests \/ JudgeDist \/ JudgeReference \/ JudgeUpload \/ JudgeSession
    \/ JudgeBundle \/ JudgeGolden \/ JudgeText \/ JudgeTree \/ JudgeWorkspace
Spec == Init /\ [][Next]_vars

-----------------------------------------------------------------------------
(* What packaging generates is what verification accepts: a manifest's own *)
(* SBOM and provenance pass without any policy, and its provenance passes  *)
(* for no other artifact of another digest, source or composition; its     *)
(* SBOM only for the artifacts it lists as inputs too.                     *)
EvidenceBinds == About("evidence") => Binds(input.of, input.for)

(* Trust above attested is earned: by a statement about these very bytes   *)
(* that names a builder the policy allows at that level, next to an SBOM   *)
(* of them, whichever documents were put beside the archive.               *)
TrustIsEarned ==
    About("artifact") => \A r \in {VerifyStored(input.artifact, input.gates), VerifyFetched(input.artifact, input.gates)} :
        Earned(input.artifact, input.gates, r)

(* A pull and a later verify of the same bytes and documents agree under   *)
(* the same flags, except that verify needs --require-provenance to match  *)
(* the builder a trust above attested rests on.                            *)
PullAgreesWithVerify ==
    About("artifact") =>
        Agree(input.gates, VerifyFetched(input.artifact, input.gates), VerifyStored(input.artifact, input.gates))

(* Nobody pushes into a protected namespace without the override but a     *)
(* publisher that namespace lists, at the trust it asks for, with a token  *)
(* in its time of its own repository; a namespace nested in another is not *)
(* opened by the outer one's list.                                         *)
PushIsAuthorized ==
    (About("push") /\ ~input.override) =>
        LET identity == IF input.claims = NONE THEN NONE ELSE FromOidc(input.claims, Now) IN
        AuthorizePush(input.policy, input.destination, FALSE, identity) =>
            \/ ProtectedNamespace(input.policy, input.destination) = NONE
               /\ \A i \in DOMAIN input.policy.protected :
                    ~NamespaceContains(input.policy.protected[i].namespace, input.destination)
            \/ input.claims # NONE /\ Authorized(input.policy, input.destination, input.claims, Now)

(* Every cell of a matrix the tool accepts is an entry of exactly one job  *)
(* that its lane's event starts, whatever its kind, runtime and rung; and  *)
(* the candidates, and nothing else, of exactly one release job.           *)
CellsAreCovered == About("matrix") => Covered(input.matrix, input.reusable)

(* No step reads a key some entry of its job does not have: GitHub would   *)
(* read the empty string and quietly skip what the cell asked for (its     *)
(* remote runtime, its host packages, its rung).                           *)
StepsReadWhatIsThere == About("matrix") => ReadsAreThere(GenerateGithub(input.matrix, input.reusable))

(* What a valid matrix renders can run: a hosted source job installs ost   *)
(* and can fetch each runtime by an OCI digest, a release runs the exact   *)
(* ost its matrix pins under a policy, and whatever a source cell's host   *)
(* needs is installed before it builds.                                    *)
JobsCanRun ==
    About("matrix") => \A job \in GenerateGithub(input.matrix, input.reusable) :
        \A e \in job.entries : CanRun(input.matrix, job, e)

(* Nothing a pull request starts may publish, and a job that may is        *)
(* preceded by every candidate of the tag, on a runtime at least verified. *)
OnlyReleasesPublish ==
    About("matrix") => \A job \in GenerateGithub(input.matrix, input.reusable) : PublishesSafely(input.matrix, job)

(* The verify step rendered for a cell can pass for an artifact built by a *)
(* publisher of the policy, unless it asks for more than attested trust    *)
(* and does not require provenance, names no policy, or one whose          *)
(* publishers are all below: those gates no artifact passes.               *)
GatesCanPass == About("gate") => (Passable(input.gates) <=> Attainable(input.gates))

(* `ost ci validate` accepts the matrix of the input.                      *)
Accepts ==
    About("validation")
    /\ Validates(input.matrix, input.store, input.resolve, input.declaration, input.document)

(* A pin that `ost ci validate --resolve` accepts will pass the verify step*)
(* its cell renders at the lowest trust, although validation only looks    *)
(* whether the documents are there: they were generated with the artifact. *)
AcceptedPinsPass ==
    (Accepts /\ input.resolve) => \A c \in CellsOf(input.matrix.cells) : \A pin \in PinsOf(c) :
        \E a \in Stored(input.store, pin) :
            GeneratedWith(a) => VerifyStored(a, [GatesOf(input.matrix, c) EXCEPT !.minimum = Local, !.policy = NONE]).passed

(* An external workflow of a matrix that validates has, for each cell it   *)
(* names, a job whose scripts see the matrix's own values of that cell: outputs of*)
(* an earlier step of the job, or the same literals.                       *)
ExternalWorkflowsFollow ==
    Accepts =>
        \A w \in CellsOf(input.matrix.external) : Bound(input.matrix, input.document, w)

(* The selector in a registry's annotation stands for one build: a pull    *)
(* accepts it only beside a manifest of the same target, version,          *)
(* toolchain and providers, and of the same source and dependencies unless *)
(* the manifest is from before they counted and the annotation names none. *)
SelectorBinds == About("manifests") => Binding(input.of, input.for)

(* Two runtimes with one selector answer every requirement alike, except   *)
(* where one spells its variant by an old name, or in schema 1 (whose      *)
(* selector leaves the macOS block out) the macOS blocks differ.           *)
SelectorDecides == About("manifests") => Deciding(input.of, input.for)

(* A runtime manifest that is accepted with an identity can be pushed under*)
(* a selector unless it claims another version than its OpenUSD's: the     *)
(* check of a record and the check of a selector are the same.             *)
AcceptedIsSelectable == About("manifests") => Selectable(input.of)

(* What a pull lets into the store can be verified there and extracted.    *)
PulledIsUsable ==
    (About("dist") /\ VerifyDist(input.dist, input.policy, input.declared)) =>
        /\ StoreVerify(input.dist)
        /\ Extracts(input.dist.archive.digest, input.dist.manifest.digest, input.dist.archive.entries)

(* A reference survives being printed: what `resolve` prints is read back  *)
(* as the same reference, and the tag of one with a digest never decides.  *)
ReferencesRoundTrip ==
    (About("reference") /\ ParseOci(input.text) # NONE) =>
        LET r == ParseOci(input.text) IN
        ParseOci(Locator(r)) = r /\ (IsPinned(r) => ManifestReference(r) = ParseOci(Locator(r)).digest)

(* However a push and one before it end, no manifest in the registry names *)
(* a blob that is not there and no tag a manifest that is not.             *)
RegistryIsWhole ==
    About("upload") => NothingDangles(AfterWrites(input.before, PushWrites(input.before, input.artifact, input.tag), input.writes))

(* A finished push is fetched, over the network or from a directory, as    *)
(* the files that were packaged.                                           *)
FetchedIsPushed ==
    (About("upload") /\ Coherent(input.artifact)) =>
        LET writes == PushWrites(input.before, input.artifact, input.tag)
            registry == AfterWrites(input.before, writes, Len(writes)) IN
        /\ FetchFiles(registry, BuildOciManifest(input.artifact), input.artifact) = Dist(input.artifact)
        /\ FetchFromFiles(Dist(input.artifact), input.artifact) = Dist(input.artifact)

(* Credentials that may push can retain an artifact, however the registry  *)
(* answers a token that only pulls.                                        *)
RetainWorks ==
    (About("session") /\ input.site.bearer /\ input.site.challenge = NONE /\ input.site.grants = {"pull", "push"}) =>
        Retain(input.site, NONE)

(* Once a redirect has left the registry, no later hop gets its            *)
(* credentials, not even one back at the registry.                         *)
CredentialsStayHome ==
    About("session") =>
        LET sent == FollowRedirects("home", input.locations) IN
        sent # NONE => \A i, j \in DOMAIN input.locations : input.locations[j] = "other" /\ j <= i => ~sent[i]

-----------------------------------------------------------------------------
(* A test up to a higher rung tells at least as much: on a real runtime its*)
(* report begins rung by rung with the report up to a lower one, and it    *)
(* never passes where the lower one failed.                                *)
TellsAsMuch(higher, lower, upTo, real) ==
    /\ Passed(higher) => Passed(lower)
    /\ real /\ upTo > 0 => lower = SelectSeq(higher, LAMBDA d : d.level <= upTo)
HigherRungsNeverForgive ==
    About("bundle") => \A reports \in {[upTo \in 0..7 |-> TestBundle(input.bundle, {}, input.runtime, input.session, upTo)]} :
        \A u \in 0..6 : TellsAsMuch(reports[u + 1], reports[u], u, input.runtime.real)

(* What the static rung accepts is executable: if L0 finds the bundle's    *)
(* registration in order, then L2 is decided by what the program it starts *)
(* answers, never by the same metadata read another way.                   *)
StaticIsExecutable ==
    About("bundle") =>
        LET b == input.bundle
            s == input.session
        IN  Passed(Level0(b, input.runtime.os)) =>
                /\ b.kind = "usdview-plugin" =>
                    Level2UsdviewPlugin(b, s).status = (IF ~s.python THEN "skip" ELSE IF s.register = "ok" THEN "pass" ELSE "fail")
                /\ b.kind = "usd-imaging" => Level2Imaging(b, s).status = (IF s.imaging = "ok" THEN "pass" ELSE "fail")
                /\ IsCodelessSchema(b) => SchemaTypeNames(b) # <<>>

(* The goldens a source bundle was packaged with are claims of the package:*)
(* L5 of the package passes only if each of them is there unchanged and is *)
(* what the fixture flattens to, and is skipped only if there was none; one*)
(* fixture that fails is not made up for by another.                       *)
GoldensAreClaims ==
    About("golden") =>
        LET claims == ToSet(ContractOfBundle(input.source).roundtrip)
            status == Level5Golden([input.package EXCEPT !.contract = ContractOfBundle(input.source)], input.session).status
            stillFlattens(e) ==
                LET id == Identifier(Fixture(e.fixture, {})) IN
                /\ OracleHolds(input.package, e)
                /\ id \in DOMAIN input.session.flat /\ input.session.flat[id] # NONE
                /\ Normalize(input.session.flat[id]) = Normalize(e.oracleDigest)
        IN  input.source.roundtrip # <<>> =>
                /\ status = "pass" => \A e \in claims : stillFlattens(e)
                /\ status = "skip" => claims = {}

(* Two texts compare equal exactly when they are the same document, however*)
(* each is laid out: checked out with CRLF, with blanks before the ends of *)
(* lines, flattened from another directory.  A line end inside a string is *)
(* part of the document.                                                   *)
Quoted(piece) ==
    CASE piece[1] = "string" -> <<"q">> \o piece[2] \o <<"q">>
      [] piece[1] = "triple" -> Quotes \o piece[2] \o Quotes
      [] piece[1] = "comment" -> <<"h">> \o piece[2]
      [] OTHER -> piece[2]
Laid(document, eol, host) ==
    FlattenSeq([i \in DOMAIN document |->
        IF document[i][1] = "generated" THEN Quotes \o <<"D">> \o host \o document[i][2] \o Quotes \o eol
        ELSE Quoted(document[i]) \o eol])
GoldensArePortable ==
    About("text") =>
        (Normalize(Laid(input.of, <<"n">>, <<"x", "q">>)) = Normalize(Laid(input.for, <<"s", "r", "n">>, <<"b", "x">>))
            <=> input.of = input.for)

(* A list of members is complete and adds nothing: when discovery accepts  *)
(* it, it selects what the scan finds, the root if it is named, and at     *)
(* most directories the scan may not enter although a pattern may name     *)
(* them; the order of the patterns does not matter.                        *)
Hidden(tree, d) == \E a \in Ancestors(d) : Last(a) \in WORKSPACE_SCAN_EXCLUDED \ Generated
Complete(t, patterns, answer) ==
    LET described == {d \in t.dirs : t.descriptors[d] # {} /\ Len(d) <= MAX_WORKSPACE_MEMBER_DEPTH
                                       /\ \A a \in Ancestors(d) : a \notin t.links /\ Last(a) \notin WORKSPACE_SCAN_EXCLUDED}
    IN  /\ answer.error = NONE =>
            /\ described \ {<<>>} \subseteq answer.members
            /\ \A d \in answer.members \ described : Hidden(t, d)
            /\ <<>> \in answer.members => patterns # NONE /\ Contains(patterns, <<>>)
        /\ patterns # NONE => (DiscoverWorkspaceMembers(t, Reverse(patterns)).error = NONE <=> answer.error = NONE)
DiscoveryIsComplete ==
    About("tree") => Complete(input.tree, input.patterns, DiscoverWorkspaceMembers(input.tree, input.patterns))

(* A graph that passes can be built: every order lists what its member     *)
(* needs, all of it and nothing else, each once and after all it needs     *)
(* itself; consumers need no more than builds, and builds no more than     *)
(* tests.                                                                  *)
Needs(edges, id) ==
    LET reach[n \in 0..Cardinality(edges)] ==
            IF n = 0 THEN {id} ELSE reach[n - 1] \cup {e[2] : e \in {f \in edges : f[1] \in reach[n - 1]}}
    IN  reach[Cardinality(edges)]
Sound(order, edges, wanted) ==
    /\ ToSet(order) = wanted /\ IsInjective(order)
    /\ \A i, j \in DOMAIN order : <<order[i], order[j]>> \in edges => j < i
OrdersAreSound ==
    About("workspace") =>
        LET w == input.workspace
            bundleEdges == {<<b.name, d.id>> : <<b, d>> \in UNION {{<<b, d>> : d \in {c \in ToSet(b.bundles) : c.artifact = NONE}} : b \in ToSet(w.bundles)}}
            edgesOf(Deps(_)) == UNION {{<<l.name, d.id>> : d \in {c \in ToSet(Deps(l)) : c.artifact = NONE}} : l \in ToSet(w.libraries)}
            runtime == edgesOf(LAMBDA l : l.libraries)
            build == edgesOf(LAMBDA l : l.libraries \o l.build)
            tests(id) == edgesOf(LAMBDA l : l.libraries \o l.build \o (IF l.name = id THEN l.test ELSE <<>>))
            closureOf(edges, ids) == UNION {Needs(edges, id) : id \in ids}
        IN  GraphPassed(w) =>
                /\ Sound(TopologicalOrder(w), bundleEdges, Ids(w.bundles))
                /\ \A id \in Ids(w.bundles) :
                      LET used == Needs(bundleEdges, id)
                          roots == UNION {{d.id : d \in {c \in ToSet(Member(w.bundles, b).libraries) : c.artifact = NONE}} : b \in used}
                      IN  /\ Sound(DependencyOrder(w, id), bundleEdges, used \ {id})
                          /\ Sound(LibraryDependencyOrder(w, id), runtime, closureOf(runtime, roots))
                /\ \A id \in Ids(w.libraries) :
                      /\ Sound(LibraryOrder(w, id, "consumer"), runtime, Needs(runtime, id) \ {id})
                      /\ Sound(LibraryOrder(w, id, "build"), build, Needs(build, id) \ {id})
                      /\ Sound(LibraryOrder(w, id, "test"), tests(id), Needs(tests(id), id) \ {id})

(* What a workspace pulls is enough for all of its members: after a pull   *)
(* that succeeded every bundle and every library, in every mode, selects   *)
(* its artifacts among those pulled, one digest per id; it may still find  *)
(* its own closure incomplete, but never an artifact missing or in         *)
(* conflict.                                                               *)
Offline(env, pulled) ==
    [env EXCEPT !.remote = <<>>,
                !.stored = [d \in {m.digest : m \in pulled} |-> PinnedRecord([digest |-> d, source |-> "pinned"], "library", env)]]
Among(selected, members) == selected # NONE /\ selected \subseteq members
PullCovers(w, env, offline, pulled) ==
    /\ \A pins \in {ExternalDependenciesFromWorkspace(w, b) : b \in ToSet(w.bundles)}
                  \cup {ExternalPinsOfLibrary(w, l, mode) : l \in ToSet(w.libraries), mode \in {"consumer", "build", "test"}} :
          Among(MaterializeAll(pins, "library", offline), pulled)
    /\ \A l \in ToSet(w.libraries), mode \in {"consumer", "build", "test"} :
          \A selected \in {SelectedExternalLibrariesForLibrary(w, l, mode, offline)} \ {NONE} : selected \subseteq pulled
    /\ \A m, n \in pulled : m.id = n.id => m = n
    /\ \A members \in {WorkspaceExternalMembers(w, env)} \ {NONE}, b \in ToSet(w.bundles) :
          Among(SelectedExternalBundles(w, b, env), members.bundles)
PullCoversMembers ==
    About("workspace") => \A pulled \in {PullWorkspaceExternalLibraries(input.workspace, input.env)} \ {NONE} :
        PullCovers(input.workspace, input.env, Offline(input.env, pulled), pulled)

(* One bundle answers each requirement of a session: a pinned one the      *)
(* artifact pinned for it, any other the workspace's member, in the range  *)
(* and with the contract asked for; only --with may stand in for either,   *)
(* and then only with the same version, kind and contract.                 *)
RequirementsHaveOneAnswer ==
    About("workspace") =>
        LET w == input.workspace
            env == input.env
            answered(d, composed) ==
                LET is == {c \in composed : c.name = d.id}
                    expected == IF d.artifact = NONE THEN Member(w.bundles, d.id) ELSE Materialize(d, "bundle", env).member
                IN  /\ Cardinality(is) = 1
                    /\ \A c \in is :
                          /\ c = expected \/ (c \in ToSet(input.explicit) /\ Signature(c) = Signature(expected))
                          /\ RangeAnswer(c.version, d.range) = "yes"
                          /\ c.kind = "usd-schema" /\ c.contract # NONE /\ d.artifact = NONE => d.contract = c.contract
        IN  \A b \in ToSet(w.bundles) :
                SourceWorkspaceFor(w, b) = "graph" /\ ~b.packaged =>
                    \A composed \in {TestAlone(w, b, input.explicit, env).composed} \ {NONE},
                       c \in Members(w.bundles, ToSet(SelectedWorkspaceDependencies(w, b))) \cup {b} :
                        \A i \in DOMAIN c.bundles : answered(c.bundles[i], ToSet(composed))

(* A bundle is tested with the same things alone and with its workspace,   *)
(* wherever the graph passes: a command on one bundle that leaves the      *)
(* workspace out leaves nothing out.                                       *)
AloneIsAsInWorkspace ==
    About("workspace") =>
        LET w == input.workspace IN
        GraphPassed(w) =>
            \A b \in ToSet(w.bundles) :
                ~b.packaged => TestAlone(w, b, input.explicit, input.env) = TestInWorkspace(w, b, input.explicit, input.env)

-----------------------------------------------------------------------------
(* Verification and authorization (verify.rs, policy.rs) give an artifact  *)
(* the trust its evidence earns, the same at a pull and later, and a       *)
(* namespace only to its publishers.                                       *)
TrustDecisions ==
    /\ EvidenceBinds
    /\ TrustIsEarned
    /\ PullAgreesWithVerify
    /\ PushIsAuthorized

(* The workflows generated of a valid matrix (matrix.rs, github.rs) run    *)
(* every cell once, read only what is there, can run and pass, and publish *)
(* at releases only.                                                       *)
WorkflowDecisions ==
    /\ CellsAreCovered
    /\ StepsReadWhatIsThere
    /\ JobsCanRun
    /\ OnlyReleasesPublish
    /\ GatesCanPass
    /\ ExternalWorkflowsFollow
    /\ AcceptedPinsPass

(* The selector, the manifest and the archive of an artifact stand for     *)
(* each other (component.rs, record.rs, verify_dist): what a pull accepts  *)
(* is what was asked for and can be used.                                  *)
ManifestDecisions ==
    /\ SelectorBinds
    /\ SelectorDecides
    /\ AcceptedIsSelectable
    /\ PulledIsUsable
    /\ ReferencesRoundTrip

(* The registry client (oci.rs) leaves nothing dangling wherever a push    *)
(* ends, fetches what was pushed, gets the scopes it needs and tells its   *)
(* credentials to no other host.                                           *)
RegistryDecisions ==
    /\ RegistryIsWhole
    /\ FetchedIsPushed
    /\ RetainWorks
    /\ CredentialsStayHome

(* The rungs of a plugin test (levels.rs) build on each other: a higher    *)
(* one forgives nothing, a static pass can be executed, and goldens are    *)
(* claims about the document, not its layout.                              *)
RungDecisions ==
    /\ HigherRungsNeverForgive
    /\ StaticIsExecutable
    /\ GoldensAreClaims
    /\ GoldensArePortable

(* A workspace (workspace.rs, external_library.rs) finds all of its        *)
(* members, orders them by what they need, and answers each requirement    *)
(* with one bundle or library, the same for a member alone.                *)
WorkspaceDecisions ==
    /\ DiscoveryIsComplete
    /\ OrdersAreSound
    /\ PullCoversMembers
    /\ RequirementsHaveOneAnswer
    /\ AloneIsAsInWorkspace
=============================================================================
