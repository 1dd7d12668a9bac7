-------------------------- MODULE ProducerManifest --------------------------
(***************************************************************************)
(* What a producer manifest is accepted as, and what a pull checks before  *)
(* it imports one (ost-artifact: record, component, transport::verify and  *)
(* the archive walks of store; ost-platform: the OpenUSD selector).        *)
(*   a producer manifest is the JSON document, a record of the fields the  *)
(*   code reads; NONE where a field is absent;                             *)
(*   an identity is an OpenUSD compatibility block, its providers          *)
(*   [family, provider, version, constraint] with "" for a blank string;   *)
(*   a target is [os, arch, rest], rest the numeric py tokens after them;  *)
(*   an archive is a sequence of entries [path, type, link, content, exec].*)
(***************************************************************************)
EXTENDS OpenUsd, SequencesExt

CONSTANTS
    ProducerManifests,  \* the documents found beside an archive
    Requirements,       \* the OpenUSD cells a consumer may require
    Archives            \* the archives found beside a manifest

-----------------------------------------------------------------------------
(* The component contract.                                                 *)

(* A relative path of parts, "" for an empty one: never absolute (a leading*)
(* ""), never upwards, and the current directory only where that is        *)
(* allowed.                                                                *)
SafeRelative(path, allowDot) ==
    /\ path # <<>> /\ path[1] # ""
    /\ ~allowDot => \E i \in DOMAIN path : path[i] \notin {"", "."}
    /\ \A i \in DOMAIN path : path[i] # ".."

ValidProvisions(provides) ==
    /\ \A i \in DOMAIN provides : provides[i].capability # "" /\ provides[i].version # ""
    /\ \A i, j \in DOMAIN provides : provides[i].capability = provides[j].capability => i = j
ValidComponent(c) ==
    /\ c.schemaOk /\ c.id # "" /\ c.version # ""
    /\ ValidProvisions(c.provides)
    /\ \A q \in c.requires : q.capability # "" /\ q.version # "" /\ q.provider # ""
    /\ \A e \in c.environment :
        e.portable /\ e.values # {} /\ \A v \in e.values : SafeRelative(v, TRUE)
    /\ \A i \in c.install : SafeRelative(i.source, FALSE) /\ SafeRelative(i.destination, FALSE)

NormalizeComponent(p) ==
    p.component = NONE \/ (ValidComponent(p.component) /\ p.component.id = p.name /\ p.component.version = p.version)

-----------------------------------------------------------------------------
(* The producer manifest.                                                  *)

(* No tag is a project package; an unknown one is refused.                 *)
DetectKind(p) ==
    CASE p.tag = NONE -> "package"
      [] p.tag = "tool" -> "package"
      [] p.tag \in {"plugin", "product", "runtime", "composed-runtime"} -> p.tag
      [] OTHER -> NONE

Exact(source) == source.repository # "" /\ source.revision # ""
(* The digest of a source archive is optional, and sha256 where it is there.*)
ExactDependency(d) ==
    d.name # "" /\ d.version # "" /\ Exact(d.source) /\ d.archive \in {NONE, "sha256"}

NormalizeSource(p) == p.build = NONE \/ (p.build.source # NONE /\ Exact(p.build.source))
NormalizeDependencies(p) ==
    p.build # NONE =>
        /\ \A i \in DOMAIN p.build.dependencies : ExactDependency(p.build.dependencies[i])
        /\ \A i, j \in DOMAIN p.build.dependencies :
            p.build.dependencies[i].name = p.build.dependencies[j].name => i = j

(* A block is there twice, at the top and in the runtime manifest it was   *)
(* packaged from, and the two are one; on other kinds the first is refused *)
(* and the second not read.                                                *)
Paired(p, top, embedded) == IF DetectKind(p) = "runtime" THEN top = embedded ELSE top = NONE

NormalizeVerification(p) ==
    /\ Paired(p, p.topState, p.embeddedState)
    /\ DetectKind(p) = "runtime" /\ p.topState # NONE => p.topState.schema = 1

(* The facts the checks of an identity look at.                            *)
ProviderFacts(v) ==
    [family |-> v.family # "", provider |-> v.provider # "", version |-> v.version, constraint |-> v.constraint]
Facts(c) ==
    [platform |-> c.platform # "", cxx |-> c.cxx # "", os |-> c.os,
     usdProfile |-> c.profile = "usd", producer |-> c.producer, consumer |-> c.consumer,
     variant |-> c.variant, capabilities |-> c.capabilities,
     toolchain |-> ProviderFacts(c.toolchain), runtime |-> ProviderFacts(c.runtime),
     python |-> ProviderFacts(c.python), tbb |-> ProviderFacts(c.tbb),
     sdk |-> IF c.macos = NONE THEN NONE ELSE ProviderFacts(c.macos.sdk),
     deployment |-> c.macos # NONE /\ c.macos.deployment # ""]

(* The py tag of a version: its first two numbers, one after the other.    *)
PythonToken(v) ==
    IF v = NONE \/ Len(v) < 2 THEN NONE
    ELSE v[1] * (IF v[2] < 10 THEN 10 ELSE 100) + v[2]

(* normalize_openusd_compatibility: schema 1 needs its providers verified, *)
(* schema 2 the whole identity; it must be of the platform and the target  *)
(* the rest of the manifest names.                                         *)
NormalizeIdentity(p) ==
    /\ Paired(p, p.top, p.embedded)
    /\ (DetectKind(p) = "runtime" /\ p.top # NONE) =>
        LET c == p.top IN
        /\ c.schema \in {1, 2}
        /\ (IF c.schema = 1 THEN ProvidersFailure(Facts(c)) ELSE VerificationFailure(Facts(c))) = {}
        /\ p.platform = c.platform
        /\ p.target.os = c.os /\ p.target.arch = c.arch /\ p.target.rest # {}
        /\ PythonToken(c.python.version) # NONE /\ PythonToken(c.python.version) \in p.target.rest

ValidSelectorSchema(p) ==
    p.selectorSchema # NONE => DetectKind(p) = "runtime" /\ p.selectorSchema \in {2, 3}

(* The second archive has its own name; its claim is as well formed as the *)
(* first one's.                                                            *)
ValidDebug(p) == p.debug # NONE => p.debug.wellFormed /\ p.debug.archive # p.archive

(* The record of an accepted manifest, or NONE.                            *)
FromProducerManifest(p) ==
    IF /\ DetectKind(p) # NONE
       /\ DetectKind(p) = "composed-runtime" => p.composition
       /\ ValidSelectorSchema(p)
       /\ p.name # NONE /\ p.version # NONE /\ p.wellFormed
       /\ NormalizeIdentity(p) /\ NormalizeVerification(p)
       /\ NormalizeSource(p) /\ NormalizeDependencies(p) /\ NormalizeComponent(p)
    THEN [kind |-> DetectKind(p), version |-> p.version, target |-> p.target, digest |-> p.digest,
          identity |-> IF DetectKind(p) = "runtime" THEN p.top ELSE NONE,
          source |-> IF p.build = NONE THEN NONE ELSE p.build.source,
          dependencies |-> IF p.build = NONE THEN {} ELSE Range(p.build.dependencies)]
    ELSE NONE

-----------------------------------------------------------------------------
(* The selector: what the hash in it is taken over (capabilities and       *)
(* dependencies sorted and without duplicates, so sets), or NONE.          *)

LegacySelector(c, target, version, source, dependencies) ==
    IF ~ProvidersAreVerified(Facts(c)) THEN NONE
    ELSE [schema |-> 1, platform |-> c.platform, os |-> c.os, arch |-> c.arch, target |-> target,
          version |-> version, source |-> source, dependencies |-> dependencies,
          toolchain |-> <<c.toolchain, c.cxx, c.runtime>>, python |-> c.python, tbb |-> c.tbb,
          variant |-> c.variant, capabilities |-> c.capabilities]

Selector(c, target, version, source, dependencies) ==
    IF c.schema = 1 THEN LegacySelector(c, target, version, source, dependencies)
    ELSE IF ~IsVerified(Facts(c)) \/ c.producer # version THEN NONE
    ELSE [schema |-> 2, platform |-> c.platform, os |-> c.os, arch |-> c.arch, target |-> target,
          version |-> version, consumer |-> c.consumer, source |-> source, dependencies |-> dependencies,
          toolchain |-> <<c.toolchain, c.cxx, c.runtime>>, python |-> c.python, tbb |-> c.tbb,
          variant |-> Canonical(c.variant, c.capabilities), macos |-> c.macos, capabilities |-> c.capabilities]

SelectorOf(r) ==
    IF r.identity = NONE THEN NONE
    ELSE Selector(r.identity, r.target, r.version, r.source, r.dependencies)
(* The selector before sources and dependencies counted.                   *)
LegacySelectorOf(r) ==
    IF r.identity = NONE THEN NONE ELSE Selector(r.identity, r.target, r.version, NONE, {})

(* The annotation of the OCI manifest against the fetched manifest: the old*)
(* selector counts only for a manifest from before the field.              *)
SelectorAgrees(p, r, declared) ==
    declared # NONE =>
        /\ SelectorOf(r) # NONE
        /\ \/ declared = SelectorOf(r)
           \/ p.selectorSchema = NONE /\ declared = LegacySelectorOf(r)

-----------------------------------------------------------------------------
(* The OpenUSD cell a consumer requires.                                   *)

VersionMatches(selected, exact, constraint) ==
    selected # NONE /\ IF exact # NONE THEN selected = exact ELSE Satisfies(selected, constraint)
ProviderMatches(selected, required) ==
    /\ selected.family = required.family /\ selected.provider = required.provider
    /\ VersionMatches(selected.version, required.version, required.constraint)
MacosMatches(selected, required) ==
    IF selected = NONE \/ required = NONE THEN selected = required
    ELSE ProviderMatches(selected.sdk, required.sdk) /\ selected.deployment = required.deployment

(* verify_openusd_requirement, the first dimension that differs, or NONE.  *)
RequirementMismatch(r, required, version) ==
    LET c == r.identity IN
    CASE c = NONE -> "identity"
      [] version # NONE /\ r.version # version -> "openusd-version"
      [] \/ c.schema # required.schema \/ c.platform # required.platform
         \/ c.os # required.os \/ c.arch # required.arch -> "platform"
      [] \/ ~ProviderMatches(c.toolchain, required.toolchain) \/ c.cxx # required.cxx
         \/ ~ProviderMatches(c.runtime, required.runtime) -> "toolchain"
      [] ~ProviderMatches(c.python, required.python) -> "python"
      [] ~ProviderMatches(c.tbb, required.tbb) -> "tbb"
      [] ~MacosMatches(c.macos, required.macos) -> "macos"
      [] c.variant # required.variant \/ ~(required.capabilities \subseteq c.capabilities) -> "graphics"
      [] OTHER -> NONE

-----------------------------------------------------------------------------
(* The archive.                                                            *)

(* A leading "" stands for whatever makes a path absolute or unprintable: a*)
(* slash, a drive letter, a control character.                             *)
UnsafeEntryPath(path) == path = <<>> \/ path[1] = "" \/ \E i \in DOMAIN path : path[i] = ".."

(* A link's target is followed part by part from its directory, and may    *)
(* never go above the root.                                                *)
StepInto(depth, part) == IF part \in {"", "."} THEN depth ELSE IF part = ".." THEN depth - 1 ELSE depth + 1
UnsafeSymlinkTarget(path, target) ==
    LET depth[i \in 0..Len(target)] ==
            IF i = 0 THEN Len(SelectSeq(path, LAMBDA c : c # "")) - 1 ELSE StepInto(depth[i - 1], target[i])
    IN  target = <<>> \/ target[1] = "" \/ \E i \in 1..Len(target) : depth[i] < 0

ClassifyEntry(e) ==
    CASE UnsafeEntryPath(e.path) -> "unsafe"
      [] e.type = "symlink" -> IF UnsafeSymlinkTarget(e.path, e.link) THEN "unsafe" ELSE "file"
      [] e.type = "regular" -> "file"
      [] e.type = "directory" -> "directory"
      [] OTHER -> "unsafe"

Repeated(archive, i) == \E j \in 1..(i - 1) : archive[j].path = archive[i].path /\ ClassifyEntry(archive[j]) = "file"
UnsafeAt(archive, i) ==
    \/ ClassifyEntry(archive[i]) = "unsafe"
    \/ ClassifyEntry(archive[i]) = "file" /\ Repeated(archive, i)

(* What extraction scans for, and what a pull walks: two loops.            *)
ScanUnsafeEntries(archive) == {i \in DOMAIN archive : UnsafeAt(archive, i)}

ArchiveFile(e) ==
    [path |-> e.path, content |-> IF e.type = "symlink" THEN <<"link", e.link>> ELSE <<"file", e.content>>,
     executable |-> e.type = "regular" /\ e.exec]

(* Mutant: the walk does not look at link targets and repetitions.         *)
WalkArchiveTypes(archive) ==
    LET good(i) == archive[i].type \in {"regular", "symlink"} /\ ~UnsafeEntryPath(archive[i].path) IN
    [files |-> {ArchiveFile(archive[i]) : i \in {k \in DOMAIN archive : good(k)}},
     unsafe |-> {i \in DOMAIN archive : ~good(i) /\ archive[i].type # "directory"}]

WalkArchive(archive) ==
    [files  |-> {ArchiveFile(archive[i]) :
                    i \in {k \in DOMAIN archive : ClassifyEntry(archive[k]) = "file" /\ ~Repeated(archive, k)}},
     unsafe |-> {i \in DOMAIN archive : UnsafeAt(archive, i)}]

(* compare_archive_files: the walked files are the manifest's list, which  *)
(* names each path once.                                                   *)
ComparePasses(actual, expected) ==
    /\ \A i, j \in DOMAIN expected : expected[i].path = expected[j].path => i = j
    /\ actual = Range(expected)

(* Extraction re-hashes the archive and refuses an unsafe one.             *)
Extracts(digest, expected, archive) == digest = expected /\ ScanUnsafeEntries(archive) = {}

-----------------------------------------------------------------------------
(* verify_dist up to the evidence, over a fetched directory: the manifest, *)
(* the bytes of its archive and those of its debug archive.                *)
ArchiveIsClaimed(bytes, digest, size, files) ==
    /\ bytes # NONE /\ bytes.digest = digest /\ bytes.size = size
    /\ WalkArchive(bytes.entries).unsafe = {} /\ ComparePasses(WalkArchive(bytes.entries).files, files)
VerifyDist(dist, policy, declared) ==
    LET p == dist.manifest
        r == FromProducerManifest(p) IN
    /\ r # NONE /\ ValidDebug(p)
    /\ SelectorAgrees(p, r, declared)
    /\ policy.openusd # NONE => RequirementMismatch(r, policy.openusd, policy.version) = NONE
    /\ ArchiveIsClaimed(dist.archive, p.digest, p.size, p.files)
    /\ policy.pin # NONE => policy.pin = r.digest
    /\ p.debug # NONE => ArchiveIsClaimed(dist.debug, p.debug.digest, p.debug.size, p.debug.files)
    /\ policy.kind # NONE => policy.kind = r.kind
    /\ policy.target # NONE => policy.target = r.target

(* `ost artifact verify` of what the store holds: the archive alone.       *)
StoreVerify(dist) ==
    /\ dist.archive.digest = dist.manifest.digest
    /\ ComparePasses(WalkArchive(dist.archive.entries).files, dist.manifest.files)

-----------------------------------------------------------------------------
(* What the decisions promise, for one input each.                         *)

SameMacos(r, s) == r.identity.macos = s.identity.macos
Binding(p, q) ==
    LET r == FromProducerManifest(p)
        s == FromProducerManifest(q) IN
    (r # NONE /\ s # NONE /\ SelectorOf(r) # NONE /\ SelectorAgrees(q, s, SelectorOf(r))) =>
        /\ r.target = s.target /\ r.version = s.version
        /\ r.identity.toolchain = s.identity.toolchain /\ r.identity.python = s.identity.python
        /\ r.identity.tbb = s.identity.tbb /\ r.identity.capabilities = s.identity.capabilities
        /\ \/ r.source = s.source /\ r.dependencies = s.dependencies
           \/ q.selectorSchema = NONE /\ r.source = NONE /\ r.dependencies = {}

Deciding(p, q) ==
    LET r == FromProducerManifest(p)
        s == FromProducerManifest(q) IN
    (r # NONE /\ s # NONE /\ SelectorOf(r) # NONE /\ SelectorOf(r) = SelectorOf(s)) =>
        \/ r.identity.variant # s.identity.variant
        \/ r.identity.schema = 1 /\ ~SameMacos(r, s)
        \/ \A required \in Requirements, version \in {NONE, r.version} :
            RequirementMismatch(r, required, version) = RequirementMismatch(s, required, version)

Selectable(p) ==
    LET r == FromProducerManifest(p) IN
    (r # NONE /\ r.identity # NONE) =>
        (SelectorOf(r) # NONE <=> (r.identity.schema = 1 \/ r.identity.producer = r.version))
=============================================================================
