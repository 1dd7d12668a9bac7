---------------------------- MODULE GithubWorkflow ---------------------------
(***************************************************************************)
(* The GitHub workflows rendered from a support matrix (ost-ci, github).   *)
(* A job is [workflow, id, events, needs, entries, steps]: an entry per    *)
(* matrix cell, a function from the include's keys to their values, NONE   *)
(* being the empty string; and the steps every entry runs, [do, reads]     *)
(* with the keys of the entry their conditions and scripts read.  GitHub   *)
(* gives a key an entry does not have the empty string.                    *)
(***************************************************************************)
EXTENDS SupportMatrix

CONSTANTS
    Matrices,     \* the support matrices of a run
    Documents     \* the hand-written workflows, by path

-----------------------------------------------------------------------------
(* include_entry and the keys each shape adds.                             *)

RuntimeKeys ==
    {"runtime_artifact", "require_openusd", "require_openusd_version", "openusd_flags", "target_trust",
     "minimum_trust", "require_evidence", "evidence_flags"}
CommonKeys(cell) ==
    {"name", "lane", "platform", "profile", "runs_on", "hosted", "runner_profile"}
    \cup (IF IsRuntimeFree(cell) THEN {} ELSE RuntimeKeys)
    \cup (IF IsWorkspace(cell) THEN {} ELSE {"up_to"})

PrerequisiteKeys == {"runtime_remote", "host_python", "host_packages_apt", "host_packages_brew"}

ShapeKeys(shape) ==
    CASE shape = "bundle" -> {"bundle"} \cup PrerequisiteKeys
      [] shape = "workspace" -> {"verify", "intent_flags", "up_to"} \cup PrerequisiteKeys
      [] shape = "runtime-free" -> {"verify", "intent_flags", "host_packages_apt", "host_packages_brew"}
      [] shape = "graph" -> {"verify"}
      [] shape = "support" -> {"plugin_artifact"}

PackagesOf(cell, manager) ==
    IF cell.packages = NONE \/ (cell.packages # NONE /\ cell.packages[manager] = {}) THEN NONE
    ELSE cell.packages[manager]
KeyValue(matrix, cell, key) ==
    CASE key = "name" -> cell.name
      [] key = "lane" -> cell.lane
      [] key = "platform" -> cell.platform
      [] key = "profile" -> cell.platform
      [] key = "runs_on" -> RunsOn(matrix, cell)
      [] key = "hosted" -> IsHosted(matrix, cell)
      [] key = "runner_profile" -> cell.runner
      [] key = "runtime_artifact" -> cell.runtime
      [] key \in {"require_openusd", "openusd_flags"} -> cell.openusd
      [] key = "require_openusd_version" -> cell.usdVersion
      [] key = "target_trust" -> cell.trust
      [] key = "minimum_trust" -> MinimumTrust(matrix, cell)
      [] key = "require_evidence" -> RequireEvidence(matrix, cell)
      [] key = "evidence_flags" -> EvidenceFlags(RequireEvidence(matrix, cell))
      [] key = "up_to" -> UpTo(cell)
      [] key = "plugin_artifact" -> cell.plugin
      [] key = "bundle" -> IF cell.bundle = NONE THEN "." ELSE cell.bundle
      [] key = "verify" -> Verify(cell)
      [] key = "intent_flags" -> cell.intent
      [] key = "runtime_remote" -> IF cell.remote = NONE THEN NONE ELSE cell.remote.pin
      [] key = "host_python" -> cell.hostPython
      [] key = "host_packages_apt" -> PackagesOf(cell, "apt")
      [] key = "host_packages_brew" -> PackagesOf(cell, "brew")
Entry(matrix, cell, shape) ==
    [key \in CommonKeys(cell) \cup ShapeKeys(shape) |-> KeyValue(matrix, cell, key)]
Entries(matrix, cells, shape) == {Entry(matrix, c, shape) : c \in cells}

-----------------------------------------------------------------------------
(* Steps.                                                                  *)

Step(do, reads) == <<[do |-> do, reads |-> reads]>>
Unless(absent, steps) == IF absent THEN <<>> ELSE steps
Selection == {"platform", "profile"}
OpenUsdKeys == {"require_openusd", "require_openusd_version"}

BootstrapSteps(matrix, exact) ==
    Unless(matrix.bootstrap = NONE, Step(IF exact THEN "bootstrap-exact" ELSE "bootstrap", {"hosted"}))
VersionStep(matrix) == Step("version", IF matrix.bootstrap = NONE THEN {} ELSE {"hosted"})
CheckoutPreamble(matrix) ==
    Step("checkout", {}) \o BootstrapSteps(matrix, FALSE) \o VersionStep(matrix) \o Step("validate", {})

FetchSteps(matrix) ==
    Unless(matrix.bootstrap = NONE, Step("restore", {"hosted", "name", "runtime_artifact"}))
    \o Step("fetch", {"runtime_remote", "runtime_artifact", "evidence_flags", "hosted"} \cup OpenUsdKeys)
CacheSaveSteps(matrix) ==
    Unless(matrix.bootstrap = NONE, Step("save", {"hosted", "name", "runtime_artifact"}))
MaterializeSteps ==
    Step("verify", {"runtime_artifact", "minimum_trust", "evidence_flags"} \cup OpenUsdKeys)
    \o Step("materialize", Selection \cup {"runtime_artifact"})
HostPackagesStep(matrix) ==
    Unless(~NeedsHostPackages(matrix), Step("host-packages", {"host_packages_apt", "host_packages_brew"}))
PrebuildSteps(matrix) ==
    HostPackagesStep(matrix)
    \o Unless(~NeedsHostPython(matrix), Step("host-python", {"hosted", "host_python"}))
    \o Step("runtime-validate", Selection)
LibraryPull == Step("library-pull", Selection)
(* Mutant: the cache is saved before what it holds is verified.            *)
SourcePreambleSavesFirst(matrix) ==
    CheckoutPreamble(matrix) \o FetchSteps(matrix) \o CacheSaveSteps(matrix) \o MaterializeSteps
    \o LibraryPull \o PrebuildSteps(matrix)

SourcePreamble(matrix) ==
    CheckoutPreamble(matrix) \o FetchSteps(matrix) \o MaterializeSteps \o LibraryPull
    \o CacheSaveSteps(matrix) \o PrebuildSteps(matrix)
CheckSteps(checks, reads) == Unless(checks = <<>>, Step("checks", reads))

(* One list of steps per shape of job.                                     *)
WorkspaceSteps(matrix) ==
    SourcePreamble(matrix)
    \o Step("graph", {}) \o Step("build", Selection \cup {"intent_flags"})
    \o Step("test", Selection \cup {"intent_flags", "verify"})
    \o Step("pyramid", Selection \cup {"verify", "up_to"}) \o CheckSteps(matrix.checks, {"verify"})
    \o Step("package", Selection \cup {"verify"})
RuntimeFreeSteps(matrix) ==
    CheckoutPreamble(matrix) \o HostPackagesStep(matrix)
    \o Step("graph", {}) \o Step("build-free", Selection \cup {"intent_flags"})
    \o Step("test-free", Selection \cup {"intent_flags", "verify"})
BundleSteps(matrix) ==
    SourcePreamble(matrix)
    \o Step("build", Selection \cup {"bundle"}) \o Step("pyramid", Selection \cup {"bundle", "up_to"})
    \o CheckSteps(matrix.checks, {}) \o Step("package", Selection \cup {"bundle"})
StepsOf(matrix, shape) ==
    CASE shape = "bundle" -> BundleSteps(matrix)
      [] shape = "workspace" -> WorkspaceSteps(matrix)
      [] shape = "runtime-free" -> RuntimeFreeSteps(matrix)
      [] shape = "graph" -> CheckoutPreamble(matrix) \o Step("graph", {})
      [] shape = "support" ->
            Unless(matrix.trust.policy = NONE, Step("checkout", {}))
            \o Step("show", {"runtime_artifact", "plugin_artifact"})
            \o Step("verify", {"runtime_artifact", "plugin_artifact", "minimum_trust", "evidence_flags", "openusd_flags"})
            \o Step("materialize", Selection \cup {"runtime_artifact"})
            \o Step("extract", {"plugin_artifact"}) \o Step("pyramid", Selection \cup {"up_to"})

(* A candidate is rebuilt, checked and staged; nothing is saved to the     *)
(* cache it restores.                                                      *)
CandidateSteps(matrix) ==
    Step("checkout", {}) \o BootstrapSteps(matrix, TRUE) \o VersionStep(matrix)
    \o Step("tag", {"bundle"}) \o Step("validate", {}) \o FetchSteps(matrix) \o MaterializeSteps
    \o PrebuildSteps(matrix) \o LibraryPull
    \o Step("build", Selection \cup {"bundle"}) \o Step("pyramid", Selection \cup {"bundle", "up_to"})
    \o CheckSteps(matrix.checks \o matrix.release.checks, {}) \o Step("package", Selection \cup {"bundle"})
    \o Step("stage", Selection \cup {"bundle", "name"})

-----------------------------------------------------------------------------
(* Jobs.                                                                   *)

JobShape(cell) ==
    CASE ~IsWorkspace(cell) -> "bundle"
      [] IsWorkspace(cell) /\ Verify(cell) = "graph" -> "graph"
      [] IsWorkspace(cell) /\ Verify(cell) # "graph" /\ IsRuntimeFree(cell) -> "runtime-free"
      [] OTHER -> "workspace"
Shapes == {"bundle", "graph", "runtime-free", "workspace"}

Job(workflow, id, events, needs, entries, steps) ==
    [workflow |-> workflow, id |-> id, events |-> events, needs |-> needs, entries |-> entries, steps |-> steps]

SupportJobs(matrix) ==
    {Job("support", <<lane>>, {IF lane = "scheduled" THEN "schedule" ELSE "workflow_dispatch"}, "",
         Entries(matrix, {c \in CellsOf(matrix.cells) : c.lane = lane}, "support"), StepsOf(matrix, "support")) :
        lane \in {l \in {"scheduled", "workflow_dispatch"} : \E c \in CellsOf(matrix.cells) : c.lane = l}}

LaneEvent(lane) == IF lane = "pull_request" THEN "pull_request" ELSE "push-main"
(* A reusable source workflow also runs every lane on dispatch.            *)
SourceEvents(lane, reusable) == {LaneEvent(lane)} \cup (IF reusable THEN {"workflow_dispatch"} ELSE {})
ShapedCells(matrix, lane, shape) ==
    {c \in CellsOf(matrix.cells) : c.lane = lane /\ JobShape(c) = shape}

(* Mutant: the runtime-free workspaces are not rendered.                   *)
SourceJobsWithRuntime(matrix, reusable) ==
    {job \in {Job("source", <<lane, shape>>, SourceEvents(lane, reusable), "",
                  Entries(matrix, ShapedCells(matrix, lane, shape), shape), StepsOf(matrix, shape)) :
                lane \in {"pull_request", "main"}, shape \in Shapes \ {"runtime-free"}} : job.entries # {}}

SourceJobs(matrix, reusable) ==
    {job \in {Job("source", <<lane, shape>>, SourceEvents(lane, reusable), "",
                  Entries(matrix, ShapedCells(matrix, lane, shape), shape), StepsOf(matrix, shape)) :
                lane \in {"pull_request", "main"}, shape \in Shapes} : job.entries # {}}

(* A caller of the reusable workflow that no lane answers fails.           *)
RejectedEvents(matrix) ==
    {"pull_request", "push-main", "push-other", "schedule"}
    \ {LaneEvent(c.lane) : c \in SourceCells(matrix)}

CandidateJob(matrix) ==
    Job("release", <<"candidates">>, {"tag"}, "validate-release-ref",
        Entries(matrix, CandidateCells(matrix), "bundle"), CandidateSteps(matrix))
(* Only the publisher holds credentials, and only after every candidate.   *)
PublisherJob(matrix) ==
    Job("release", <<"publish">>, {"tag"}, "candidates",
        {[name |-> matrix.release.runner, hosted |-> PublisherRunner(matrix).hosted, runs_on |-> NONE]},
        Step("checkout", {}) \o BootstrapSteps(matrix, TRUE) \o VersionStep(matrix)
        \o Step("download", {}) \o Step("publish", {}))
ReleaseJobs(matrix) ==
    IF matrix.release = NONE THEN {}
    ELSE {CandidateJob(matrix)} \cup (IF matrix.release.mode = "publish" THEN {PublisherJob(matrix)} ELSE {})

GenerateGithub(matrix, reusable) == SupportJobs(matrix) \cup SourceJobs(matrix, reusable) \cup ReleaseJobs(matrix)

-----------------------------------------------------------------------------
(* What the rendering of one valid matrix promises.                        *)
ValidMatrices == {m \in Matrices : ValidMatrix(m)}
(* The documents beside an artifact are its own, where it has any.         *)
GeneratedWith(a) ==
    LET own == GenerateEvidence(a.manifest) IN a.sbom \in {NONE, own.sbom} /\ a.provenance \in {NONE, own.provenance}
StepsDo(job) == {job.steps[i].do : i \in DOMAIN job.steps}

Covered(m, reusable) ==
    LET rendered == GenerateGithub(m, reusable) IN
    /\ \A job \in rendered : (reusable /\ job.workflow = "source") => job.events \cap RejectedEvents(m) = {}
    /\ \A c \in CellsOf(m.cells) :
        LET jobs == {job \in rendered : \E e \in job.entries : e.name = c.name} IN
        /\ Cardinality({job \in jobs : job.workflow = IF IsSource(c.lane) THEN "source" ELSE "support"}) = 1
        /\ Cardinality({job \in jobs : job.id = <<"candidates">>}) = (IF c.publish = "candidate" THEN 1 ELSE 0)
        /\ \A job \in jobs : job.workflow # "release" =>
            CASE c.lane = "scheduled" -> job.events = {"schedule"}
              [] c.lane = "workflow_dispatch" -> job.events = {"workflow_dispatch"}
              [] OTHER -> LaneEvent(c.lane) \in job.events

ReadsAreThere(jobs) ==
    \A job \in jobs : \A e \in job.entries, i \in DOMAIN job.steps : job.steps[i].reads \subseteq DOMAIN e

(* Host packages are installed before the build that needs them.           *)
InstallsFirst(job) ==
    \E i, j \in DOMAIN job.steps :
        i < j /\ job.steps[i].do = "host-packages" /\ job.steps[j].do \in {"build", "build-free"}
CanRun(m, job, e) ==
    /\ (job.workflow # "support" /\ e.hosted) => StepsDo(job) \cap {"bootstrap", "bootstrap-exact"} # {}
    /\ (e.hosted /\ "fetch" \in StepsDo(job)) => e.runtime_remote # NONE
    /\ (job.workflow = "release" /\ e.hosted) => m.bootstrap.pins # {} /\ m.trust.policy # NONE
    /\ \A c \in CellsOf(m.cells) :
        (job.workflow # "support" /\ c.name = e.name /\ c.packages # NONE /\ JobShape(c) # "graph") => InstallsFirst(job)

PublishesSafely(m, job) ==
    StepsDo(job) \cap {"publish", "stage"} # {} =>
        /\ job.events = {"tag"}
        /\ \A e \in job.entries : "lane" \in DOMAIN e => e.lane = "main" /\ e.minimum_trust >= Verified
        /\ "publish" \in StepsDo(job) => job.needs = "candidates" /\ m.release.destination # NONE

(* A gate an artifact built by a publisher of its policy can pass.         *)
Passable(g) == \E a \in Fetched : VerifyStored(a, g).passed
Attainable(g) ==
    \/ Required(g) <= Attested
    \/ /\ g.provenance /\ g.policy # NONE
       /\ \E i \in DOMAIN g.policy.publishers : g.policy.publishers[i].trust >= Required(g)

(* What the scripts of a job see of a cell: literals, and the outputs of   *)
(* the steps before.                                                       *)
Seen(job, cell, j) ==
    {<<b.env, b.value>> : b \in {b \in job[j].consumes : b.from = NONE}}
    \cup {<<f.env, f.expected>> : f \in {f \in BindingFields(cell) :
            \E i \in 1..(j - 1) : /\ job[i].projects = cell.name
                                  /\ [env |-> f.env, from |-> job[i].id, value |-> f.output] \in job[j].consumes}}
Bound(m, document, w) ==
    \A c \in CellsOf(m.cells) : (\E k \in DOMAIN w.cells : w.cells[k] = c.name) =>
        \E job \in document[w.path].jobs : \A f \in BindingFields(c) :
            \E j \in DOMAIN job : <<f.env, f.expected>> \in Seen(job, c, j)
=============================================================================
