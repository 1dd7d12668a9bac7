---------------------------- MODULE SupportMatrix ----------------------------
(***************************************************************************)
(* openstrata.ci.yaml (ost-ci, matrix and support; the checks of `ost ci`):*)
(* what a support matrix may say and what follows from it for a cell.      *)
(*   a matrix   [cells, runners, bootstrap, trust, evidence, checks,       *)
(*              release, external]: cells and external are sequences,      *)
(*              runners a set; trust is [policy, pr, main, release];       *)
(*   a cell     one tested combination, absent keys being NONE;            *)
(*   a store    the local artifact registry: a set of ArtifactTrust's      *)
(*              artifacts.                                                 *)
(* Text the code only checks for its characters is WellFormed or the value *)
(* Malformed.                                                              *)
(***************************************************************************)
EXTENDS ArtifactTrust

CONSTANTS
    Malformed,    \* any text its field does not accept
    Placeholder   \* the all-zero digest of the starter matrix

WellFormed(text) == text # Malformed

IsSource(lane) == lane \in {"pull_request", "main"}
Verify(cell) == IF cell.verify = NONE THEN "test" ELSE cell.verify
DefaultUpTo == 5
MaxLevel == 6
UpTo(cell) == IF cell.upTo = NONE THEN DefaultUpTo ELSE cell.upTo
IsWorkspace(cell) == cell.kind = "workspace"
IsRuntimeFree(cell) == cell.runtime = NONE
NeedsPyramid(cell) == Verify(cell) \in {"pyramid", "package"}

(* What a level of require_evidence asks of an artifact.                   *)
EvidenceFlags(level) ==
    CASE level = "all" -> {"sbom", "provenance"}
      [] level = "sbom" -> {"sbom"}
      [] level = "provenance" -> {"provenance"}
      [] OTHER -> {}

-----------------------------------------------------------------------------
(* Runners.                                                                *)

RunnerOf(matrix, name) ==
    IF \E r \in matrix.runners : r.name = name THEN CHOOSE r \in matrix.runners : r.name = name ELSE NONE
ProfileOf(matrix, cell) == IF cell.runner = NONE THEN NONE ELSE RunnerOf(matrix, cell.runner)

(* A profile owns the mapping; a cell without one uses its host block.     *)
RunsOn(matrix, cell) ==
    LET profile == ProfileOf(matrix, cell) IN
    CASE profile # NONE /\ profile.hosted -> <<profile.image>>
      [] profile # NONE /\ ~profile.hosted -> profile.labels
      [] cell.labels = <<>> -> <<cell.os>>
      [] OTHER -> cell.labels
IsHosted(matrix, cell) ==
    IF cell.runner = NONE THEN cell.labels = <<>>
    ELSE RunnerOf(matrix, cell.runner) # NONE /\ RunnerOf(matrix, cell.runner).hosted

TokenOs(token) ==
    CASE token \in {"linux", "ubuntu-24.04"} -> "linux"
      [] token \in {"windows", "windows-2022"} -> "windows"
      [] token \in {"macos", "macos-14"} -> "macos"
      [] OTHER -> NONE
ResolvedOs(matrix, cell) ==
    LET named == SelectSeq([i \in DOMAIN RunsOn(matrix, cell) |-> TokenOs(RunsOn(matrix, cell)[i])],
                           LAMBDA os : os # NONE) IN
    CASE named # <<>> -> Head(named)
      [] named = <<>> /\ cell.runner # NONE -> NONE
      [] OTHER -> cell.os

-----------------------------------------------------------------------------
(* SupportMatrix::validate, by the part of the file it looks at.           *)

ValidRunner(r) ==
    /\ WellFormed(r.name)
    /\ IF r.hosted THEN r.image # NONE /\ WellFormed(r.image) /\ r.labels = <<>>
       ELSE r.labels # <<>> /\ r.image = NONE /\ \A i \in DOMAIN r.labels : WellFormed(r.labels[i])

ValidBootstrap(b) == WellFormed(b.version) /\ WellFormed(b.repository) /\ \A pin \in b.pins : WellFormed(pin)
ValidCheck(check) == WellFormed(check.name) /\ WellFormed(check.run) /\ ~check.secrets
ValidRelease(release) ==
    /\ WellFormed(release.version)
    /\ release.destination # NONE => release.destination.oci /\ ~release.destination.tagged
    /\ release.environment # NONE => WellFormed(release.environment)
    /\ \A i \in DOMAIN release.checks : ValidCheck(release.checks[i])

ValidRemote(remote) ==
    /\ remote.oci /\ remote.pin # NONE
    /\ remote.expected # NONE /\ WellFormed(remote.expected) /\ remote.expected = remote.pin

ValidClaim(claim) == WellFormed(claim.platform) /\ claim.features # {} /\ \A f \in claim.features : WellFormed(f)

(* The cell's runner, claim and runtime.                                   *)
ValidIdentity(matrix, cell) ==
    /\ WellFormed(cell.name)
    /\ cell.runner # NONE => RunnerOf(matrix, cell.runner) # NONE /\ cell.labels = <<>>
    /\ cell.support # NONE => ValidClaim(cell.support)
    /\ \A i \in DOMAIN cell.labels : WellFormed(cell.labels[i])
    /\ WellFormed(cell.runtime)
    /\ cell.runtime = NONE =>
        /\ IsWorkspace(cell)
        /\ cell.remote = NONE /\ cell.openusd = NONE /\ cell.usdVersion = NONE /\ cell.hostPython = NONE
        /\ cell.evidence = NONE /\ cell.trust = Local

(* What it pins and publishes.                                             *)
ValidPins(matrix, cell) ==
    /\ cell.openusd # NONE => cell.openusd.platform = cell.platform /\ ResolvedOs(matrix, cell) = cell.openusd.os
    /\ cell.openusd = NONE => cell.usdVersion = NONE
    /\ WellFormed(cell.usdVersion)
    /\ WellFormed(cell.plugin) /\ (cell.plugin = NONE => IsSource(cell.lane))
    /\ WellFormed(cell.bundle)
    /\ cell.publish = "candidate" => cell.lane = "main" /\ cell.trust >= matrix.trust.release
    /\ WellFormed(cell.platform)
    /\ cell.upTo # NONE => cell.upTo <= MaxLevel

(* What a workspace cell verifies.                                         *)
ValidWorkspace(cell) ==
    IF IsWorkspace(cell)
    THEN /\ IsSource(cell.lane) /\ cell.bundle = NONE /\ cell.plugin = NONE
         /\ cell.upTo # NONE => NeedsPyramid(cell)
         /\ IsRuntimeFree(cell) => ~NeedsPyramid(cell)
         /\ cell.publish = "never"
         /\ cell.intent # NONE => Verify(cell) # "graph" /\ WellFormed(cell.intent)
    ELSE cell.verify = NONE /\ cell.intent = NONE

(* What its host must provide, and how a hosted source cell gets there.    *)
ValidHost(matrix, cell) ==
    /\ cell.hostPython # NONE => WellFormed(cell.hostPython) /\ IsSource(cell.lane)
    /\ cell.packages # NONE =>
        /\ cell.packages.apt \cup cell.packages.brew # {}
        /\ \A p \in cell.packages.apt \cup cell.packages.brew : WellFormed(p)
        /\ IsSource(cell.lane)
        /\ LET os == ResolvedOs(matrix, cell) IN
           os # "windows" /\ (os = "linux" => cell.packages.apt # {}) /\ (os = "macos" => cell.packages.brew # {})
    /\ cell.remote # NONE => ValidRemote(cell.remote)
    /\ (IsSource(cell.lane) /\ IsHosted(matrix, cell)) =>
        (IsRuntimeFree(cell) \/ cell.remote # NONE) /\ matrix.bootstrap # NONE

ValidCell(matrix, cell) ==
    /\ ValidIdentity(matrix, cell)
    /\ ValidPins(matrix, cell)
    /\ ValidWorkspace(cell)
    /\ ValidHost(matrix, cell)

CellsOf(seq) == {seq[i] : i \in DOMAIN seq}
SourceCells(matrix) == {c \in CellsOf(matrix.cells) : IsSource(c.lane)}
CandidateCells(matrix) == {c \in CellsOf(matrix.cells) : c.publish = "candidate"}

Pinned(matrix) == matrix.bootstrap # NONE /\ matrix.bootstrap.pins # {}
PublisherRunner(matrix) == RunnerOf(matrix, matrix.release.runner)

(* The release block and its candidates.                                   *)
ValidReleaseBlock(matrix) ==
    /\ (matrix.release # NONE) <=> CandidateCells(matrix) # {}
    /\ matrix.release # NONE =>
        /\ matrix.trust.policy # NONE /\ matrix.trust.release >= Verified
        /\ matrix.release.mode = "publish" =>
            /\ matrix.release.runner # NONE /\ PublisherRunner(matrix) # NONE
            /\ matrix.release.destination # NONE
            /\ PublisherRunner(matrix).hosted => Pinned(matrix)
        /\ (\E c \in CandidateCells(matrix) : IsHosted(matrix, c)) => Pinned(matrix)

ValidExternal(matrix) ==
    /\ \A i \in DOMAIN matrix.external :
        /\ WellFormed(matrix.external[i].path)
        /\ matrix.external[i].cells # <<>> /\ IsInjective(matrix.external[i].cells)
        /\ \A k \in DOMAIN matrix.external[i].cells :
            \E c \in CellsOf(matrix.cells) : c.name = matrix.external[i].cells[k]
    /\ \A i, j \in DOMAIN matrix.external : matrix.external[i].path = matrix.external[j].path => i = j

ValidMatrix(matrix) ==
    /\ matrix.cells # <<>>
    /\ matrix.bootstrap # NONE => ValidBootstrap(matrix.bootstrap)
    /\ WellFormed(matrix.trust.policy)
    /\ \A i \in DOMAIN matrix.checks : ValidCheck(matrix.checks[i])
    /\ matrix.release # NONE => ValidRelease(matrix.release)
    /\ \A r \in matrix.runners : ValidRunner(r)
    /\ \A i \in DOMAIN matrix.cells : ValidCell(matrix, matrix.cells[i])
    /\ \A i, j \in DOMAIN matrix.cells : matrix.cells[i].name = matrix.cells[j].name => i = j
    /\ ValidReleaseBlock(matrix)
    /\ ValidExternal(matrix)

-----------------------------------------------------------------------------
(* What follows for a cell.                                                *)

MinimumTrust(matrix, cell) ==
    AtLeast(cell.trust, CASE cell.lane = "pull_request" -> matrix.trust.pr
                          [] cell.lane = "main" -> matrix.trust.main
                          [] OTHER -> Local)
RequireEvidence(matrix, cell) == IF cell.evidence = NONE THEN matrix.evidence ELSE cell.evidence

(* The flags of the verify step rendered for the cell.                     *)
GatesOf(matrix, cell) ==
    LET flags == EvidenceFlags(RequireEvidence(matrix, cell)) IN
    [minimum |-> MinimumTrust(matrix, cell), sbom |-> "sbom" \in flags,
     provenance |-> "provenance" \in flags, policy |-> matrix.trust.policy]
ReleaseGates(matrix) ==
    [minimum |-> matrix.trust.release, sbom |-> TRUE, provenance |-> TRUE, policy |-> matrix.trust.policy]

NeedsHostPython(matrix) == \E c \in SourceCells(matrix) : c.hostPython # NONE
NeedsHostPackages(matrix) == \E c \in SourceCells(matrix) : c.packages # NONE

Unacknowledged(profile) == profile # NONE /\ profile.hosted /\ ~profile.acknowledged
PublisherUnacknowledged(matrix) ==
    matrix.release # NONE /\ matrix.release.mode = "publish" /\ Unacknowledged(PublisherRunner(matrix))
(* Hosted profiles that publish without acknowledging their billing: an    *)
(* error (for the other cells it is a warning).                            *)
HostedAckErrors(matrix) ==
    {c.name : c \in {c \in CandidateCells(matrix) : Unacknowledged(ProfileOf(matrix, c))}}
    \cup (IF PublisherUnacknowledged(matrix) THEN {"publisher"} ELSE {})
PlaceholderDigests(matrix) == {c.name : c \in {c \in CellsOf(matrix.cells) : Placeholder \in {c.runtime, c.plugin}}}

-----------------------------------------------------------------------------
(* SupportDeclaration: [platforms, features], a feature [id, levels] with a*)
(* level for every platform.                                               *)
ValidDeclaration(d) ==
    /\ \A f, g \in d.features : f.id = g.id => f = g
    /\ \A f \in d.features : DOMAIN f.levels = d.platforms
FeatureSupported(d, id, platform) ==
    \E f \in d.features : f.id = id /\ f.levels[platform] # "unsupported"
CellClaimed(d, matrix, cell) ==
    IF cell.support = NONE THEN ~IsHosted(matrix, cell)
    ELSE /\ cell.support.platform \in d.platforms
         /\ \A id \in cell.support.features \cup
                      {IF IsHosted(matrix, cell) THEN "github_hosted_ci" ELSE "self_hosted_ci"} :
                FeatureSupported(d, id, cell.support.platform)
MatrixIssues(d, matrix) == {c.name : c \in {c \in CellsOf(matrix.cells) : ~CellClaimed(d, matrix, c)}}

-----------------------------------------------------------------------------
(* The checks of `ost ci validate` against the local registry.             *)

Stored(store, digest) == {a \in store : a.manifest.digest = digest}
PinsOf(cell) == {cell.runtime, cell.plugin} \ {NONE}

(* Evidence the gate asks for and a stored pin does not have.              *)
EvidenceGateGaps(store, matrix) ==
    {c.name : c \in {c \in CellsOf(matrix.cells) :
        LET flags == EvidenceFlags(RequireEvidence(matrix, c)) IN
        \E a \in store : /\ a.manifest.digest \in PinsOf(c)
                         /\ \/ "sbom" \in flags /\ a.sbom = NONE
                            \/ "provenance" \in flags /\ a.provenance = NONE}}

(* Host packages a stored runtime needs and its source cell does not name. *)
HostRequirementGaps(store, matrix) ==
    {c.name : c \in {c \in SourceCells(matrix) :
        \E a \in Stored(store, c.runtime) : \E need \in a.manifest.hostNeeds :
            c.packages = NONE \/ need.name \notin c.packages[need.manager]}}

MeetsOpenUsd(a, cell) == cell.openusd = NONE \/ a.manifest.openusd = cell.openusd
Unresolved(store, matrix) ==
    {c.name : c \in {c \in CellsOf(matrix.cells) :
        \/ c.runtime # NONE
           /\ ~\E a \in Stored(store, c.runtime) : a.manifest.kind = "runtime" /\ MeetsOpenUsd(a, c)
        \/ c.plugin # NONE /\ ~\E a \in Stored(store, c.plugin) : a.manifest.kind = "plugin"}}

(* A hand-written workflow is NONE or [versions, jobs]; a job is a sequence*)
(* of steps [projects, id, consumes], a set of environment bindings its    *)
(* script uses: [env, from, value], a literal or the output of step from.     *)
BindingFields(cell) ==
    {f \in {[env |-> "cell", output |-> "name", expected |-> cell.name],
            [env |-> "runtime", output |-> "runtime_artifact", expected |-> cell.runtime],
            [env |-> "remote", output |-> "runtime_remote",
             expected |-> IF cell.remote = NONE THEN NONE ELSE cell.remote.pin],
            [env |-> "plugin", output |-> "plugin_artifact", expected |-> cell.plugin]} :
        f.expected # NONE}

(* A step projects the cell and later ones consume every output of it.     *)
ProjectedConsumed(job, cell) ==
    \E i \in DOMAIN job :
        /\ job[i].projects = cell.name
        /\ \A f \in BindingFields(cell) : \E j \in (i + 1)..Len(job) :
            [env |-> f.env, from |-> job[i].id, value |-> f.output] \in job[j].consumes
LiteralConsumed(job, cell) ==
    \A f \in BindingFields(cell) : \E j \in DOMAIN job :
        [env |-> f.env, from |-> NONE, value |-> f.expected] \in job[j].consumes

ExternalIssues(matrix, document) ==
    {w.path : w \in {w \in CellsOf(matrix.external) :
        \/ document[w.path] = NONE
        \/ matrix.bootstrap = NONE
        \/ document[w.path].versions # {matrix.bootstrap.version}
        \/ \E c \in CellsOf(matrix.cells) :
            /\ \E k \in DOMAIN w.cells : w.cells[k] = c.name
            /\ \A job \in document[w.path].jobs : ~ProjectedConsumed(job, c) /\ ~LiteralConsumed(job, c)}}

(* `ost ci validate` passes.                                               *)
Validates(matrix, store, resolve, declaration, document) ==
    /\ resolve => Unresolved(store, matrix) = {}
    /\ HostedAckErrors(matrix) = {}
    /\ declaration # NONE => MatrixIssues(declaration, matrix) = {}
    /\ EvidenceGateGaps(store, matrix) = {}
    /\ HostRequirementGaps(store, matrix) = {}
    /\ ExternalIssues(matrix, document) = {}
=============================================================================
