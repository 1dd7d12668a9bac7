------------------------------- MODULE CiRuns --------------------------------
(***************************************************************************)
(* The rendered workflows at work: the matrix is edited and `ost ci        *)
(* generate` writes its workflow files one by one, all of them or not;     *)
(* meanwhile the matrix may be edited again and pushes, pull requests      *)
(* and tags start runs of what the files then say.  The entries of a run   *)
(* step through their jobs side by side, on fresh hosted runners that share*)
(* a cache, or on the operator's machines that share one registry; a       *)
(* release publishes once its candidates have all been staged.             *)
(***************************************************************************)
EXTENDS GithubWorkflow

CONSTANTS
    CiMatrices,   \* the matrices main goes through, a sequence
    Contents,     \* what an OCI digest of the remote holds
    Built,        \* the plugin artifact a release job of a cell packages
    PublisherIdentity, \* the identity of the release workflow's OIDC token
    Imports,      \* the ones of them the operator imports
    Torn,         \* a workflow file whose write was cut short
    MaxRuns       \* bound on the workflow runs of a behaviour

AllMatrices == {CiMatrices[i] : i \in DOMAIN CiMatrices}
Names == DOMAIN Contents
Triples == Names \X (Names \cup {NONE}) \X (Names \cup {NONE})

(* The matrices of main are valid ones, their levels of trust among the    *)
(* five and their policies' too; what the remote holds are artifacts.      *)
ASSUME CiAssumption ==
    /\ MaxRuns \in Nat
    /\ CiMatrices \in Seq(AllMatrices) /\ CiMatrices # <<>>
    /\ Imports \subseteq Names
    /\ \A o \in Names : LET a == Contents[o] IN
        /\ a = [manifest |-> a.manifest, trust |-> a.trust, sbom |-> a.sbom, provenance |-> a.provenance]
        /\ a.trust \in TrustLevel
    /\ NONE \notin Nat \cup Names \cup Triples
ASSUME MatrixAssumption == \A m \in AllMatrices :
    /\ ValidMatrix(m)
    /\ {m.trust.pr, m.trust.main, m.trust.release} \subseteq TrustLevel
    /\ \A c \in CellsOf(m.cells) : c.trust \in TrustLevel
    /\ m.trust.policy # NONE =>
        LET publishers == m.trust.policy.publishers IN
        /\ m.trust.policy.minimum \in TrustLevel
        /\ publishers \in Seq(CellsOf(publishers))
        /\ \A p \in CellsOf(publishers) : p.trust \in TrustLevel

VARIABLES
    ciFile,       \* openstrata.ci.yaml, as its place in CiMatrices
    files,        \* the workflow files, as the matrix they were rendered from
    rendering,    \* the matrix a running generate has read, 0 when none runs
    pending,      \* the files it has still to write
    runs,         \* the runs started: a sequence of [event, rendered, entries]
    jobs,         \* per run and entry: [pc, store, hit, used]
    cache,        \* the Actions cache: <<cell, digest>> to a registry
    registry,     \* the operator's registry
    staged,       \* the candidate handoffs: <<run, cell>>
    destination,  \* the release repository: <<version, cell>> to the run it came from
    publisher     \* per run: "waiting", "publishing", "published", "failed"

ciVars == <<ciFile, files, rendering, pending, runs, jobs, cache, registry, staged, destination, publisher>>

Paths == {"support", "source", "release"}
Keys == {<<c.name, c.runtime>> : c \in UNION {CellsOf(m.cells) : m \in AllMatrices}}
Tags == {<<m.release.version, c.name>> : m \in {x \in AllMatrices : x.release # NONE},
                                         c \in UNION {CandidateCells(x) : x \in AllMatrices}}

(* An artifact of a registry is named by where its manifest, its SBOM and  *)
(* its provenance came from.                                               *)
Artifact(n) ==
    [manifest |-> Contents[n[1]].manifest, trust |-> Contents[n[1]].trust,
     sbom |-> IF n[2] = NONE THEN NONE ELSE Contents[n[2]].sbom,
     provenance |-> IF n[3] = NONE THEN NONE ELSE Contents[n[3]].provenance]
Pushed(o) == <<o, IF Contents[o].sbom = NONE THEN NONE ELSE o, IF Contents[o].provenance = NONE THEN NONE ELSE o>>
DigestOf(n) == Contents[n[1]].manifest.digest
StoredAs(store, digest) == {n \in store : DigestOf(n) = digest}
InStore(store) == {Artifact(n) : n \in store}

(* The steps that touch what the model keeps; the others only pass or fail,*)
(* and a job moves from one such step to the next.                         *)
Effective == {"validate", "restore", "fetch", "verify", "save", "build", "stage"}
After(steps, n) ==
    LET next == {k \in DOMAIN steps : k > n /\ steps[k].do \in Effective} IN
    IF next = {} THEN Len(steps) + 1 ELSE CHOOSE k \in next : \A j \in next : k <= j

Events == {"pull_request", "push-main", "tag"}
(* What each matrix renders: its files, and the entries each event starts, *)
(* named by job and cell.                                                  *)
JobsOf(i) == GenerateGithub(CiMatrices[i], FALSE)
RenderedJobs == UNION {{<<i, j>> : j \in JobsOf(i)} : i \in DOMAIN CiMatrices}
Written == {<<q[1], q[2].workflow>> : q \in RenderedJobs}
Starts(event) ==
    UNION {{<<q[1], event, q[2], e>> : e \in q[2].entries} :
            q \in {q \in RenderedJobs : event \in q[2].events /\ q[2].id # <<"publish">> /\ q[2].workflow # "support"}}
Rendered ==
    {[matrix |-> q[1], event |-> q[2], id |-> Append(q[3].id, q[4].name), steps |-> q[3].steps, entry |-> q[4]] :
        q \in UNION {Starts(event) : event \in Events}}
EntryIn(rendered, event, e) ==
    CHOOSE x \in Rendered : x.matrix = rendered /\ x.event = event /\ x.id = e
RenderedPaths(i) == {p \in Paths : <<i, p>> \in Written}

CiInit ==
    /\ ciFile = 1
    /\ files = [p \in Paths |-> NONE]
    /\ rendering = 0 /\ pending = <<>>
    /\ runs = <<>> /\ jobs = <<>> /\ publisher = <<>>
    /\ cache = [k \in Keys |-> NONE]
    /\ registry = {}
    /\ staged = {}
    /\ destination = [t \in Tags |-> NONE]

-----------------------------------------------------------------------------
(* The repository.                                                         *)

(* Bound: the repository, the cache's owner and the operator do nothing    *)
(* more once the last run has started.                                     *)
Open == Len(runs) < MaxRuns

EditMatrix ==
    /\ Open
    /\ ciFile + 1 \in DOMAIN CiMatrices /\ ciFile' = ciFile + 1
    /\ UNCHANGED <<files, rendering, pending, runs, jobs, cache, registry, staged, destination, publisher>>

Exists(p) == files[p] # NONE
InOrder(paths) ==
    Unless("support" \notin paths, <<"support">>) \o Unless("source" \notin paths, <<"source">>)
    \o Unless("release" \notin paths, <<"release">>)

(* What a generate does not refuse; every refusal comes before any write.  *)
CanGenerate ==
    /\ rendering = 0 /\ Open
    /\ HostedAckErrors(CiMatrices[ciFile]) = {} /\ PlaceholderDigests(CiMatrices[ciFile]) = {}

(* Mutant: what exists is skipped and the rest is written.                 *)
GenerateWhatIsMissing ==
    /\ CanGenerate
    /\ rendering' = ciFile /\ pending' = InOrder({p \in RenderedPaths(ciFile) : ~Exists(p)})
    /\ UNCHANGED <<ciFile, files, runs, jobs, cache, registry, staged, destination, publisher>>

Generate ==
    /\ CanGenerate
    /\ \E force \in BOOLEAN : force \/ \A p \in RenderedPaths(ciFile) : ~Exists(p)
    /\ rendering' = ciFile /\ pending' = InOrder(RenderedPaths(ciFile))
    /\ UNCHANGED <<ciFile, files, runs, jobs, cache, registry, staged, destination, publisher>>
WriteWorkflow ==
    /\ Open /\ pending # <<>>
    /\ files' = [files EXCEPT ![Head(pending)] = rendering]
    /\ pending' = Tail(pending)
    /\ UNCHANGED <<ciFile, rendering, runs, jobs, cache, registry, staged, destination, publisher>>
(* A directory or a file that cannot be written ends it, or it is killed:  *)
(* the files before this one stay new, the ones after it old.              *)
GenerateStops ==
    /\ Open /\ pending # <<>>
    /\ files' \in {files, [files EXCEPT ![Head(pending)] = Torn]}
    /\ rendering' = 0 /\ pending' = <<>>
    /\ UNCHANGED <<ciFile, runs, jobs, cache, registry, staged, destination, publisher>>
(* Success is reported once every file is written.                         *)
GenerateEnds ==
    /\ Open /\ rendering # 0 /\ pending = <<>>
    /\ rendering' = 0
    /\ UNCHANGED <<ciFile, files, pending, runs, jobs, cache, registry, staged, destination, publisher>>

(* stale_generated_workflows, and their removal.  A file is recognised by  *)
(* its first line, which a torn one may have or not.                       *)
RemoveStale ==
    /\ Open
    /\ \E unknown \in {{NONE}, {NONE, Torn}} :
        LET stale == {p \in Paths \ RenderedPaths(ciFile) : files[p] \notin unknown} IN
        stale # {} /\ files' = [p \in Paths |-> IF p \in stale THEN NONE ELSE files[p]]
    /\ UNCHANGED <<ciFile, rendering, pending, runs, jobs, cache, registry, staged, destination, publisher>>

-----------------------------------------------------------------------------
(* Runs.                                                                   *)

Workflow(event) == IF event = "tag" THEN "release" ELSE "source"

(* An event starts every job of its workflow file as it is then, between   *)
(* two writes of a generate too; a torn file is no workflow.  A tag that is*)
(* not the version of the release fails its first job and starts nothing.  *)
StartRun(event) ==
    /\ Open
    /\ files[Workflow(event)] \notin {NONE, Torn}
    /\ LET rendered == files[Workflow(event)]
           entries == {x.id : x \in {x \in Rendered : x.matrix = rendered /\ x.event = event}} IN
       /\ entries # {}
       /\ runs' = Append(runs, [event |-> event, rendered |-> rendered, checkout |-> ciFile])
       /\ jobs' = Append(jobs, [e \in entries |->
            [pc |-> After(EntryIn(rendered, event, e).steps, 0), store |-> {}, hit |-> FALSE, used |-> NONE]])
       /\ publisher' = Append(publisher,
            IF event = "tag" /\ CiMatrices[rendered].release.mode = "publish" THEN "waiting" ELSE "none")
    /\ UNCHANGED <<ciFile, files, rendering, pending, cache, registry, staged, destination>>

Failed == 0
RenderedBy(r) == CiMatrices[runs[r].rendered]
EntryOf(r, e) == EntryIn(runs[r].rendered, runs[r].event, e)
JobSteps(r, e) == EntryOf(r, e).steps
Finished(r, e) == Len(JobSteps(r, e)) + 1
At(r, e, do) == jobs[r][e].pc \in DOMAIN JobSteps(r, e) /\ JobSteps(r, e)[jobs[r][e].pc].do = do
(* A key of the include entry, the empty string where it has none.         *)
Get(r, e, key) ==
    LET entry == EntryOf(r, e).entry IN
    IF key \in DOMAIN entry THEN entry[key] ELSE NONE
Hosted(r, e) == Get(r, e, "hosted")
Cell(r, e) == Get(r, e, "name")
StoreOf(r, e) == IF Hosted(r, e) THEN jobs[r][e].store ELSE registry
Advance(r, e) == [jobs[r][e] EXCEPT !.pc = After(JobSteps(r, e), @)]
Fail(r, e) == [jobs[r][e] EXCEPT !.pc = Failed]
SetJob(r, e, job) == jobs' = [jobs EXCEPT ![r] = [@ EXCEPT ![e] = job]]

Validate(r, e) ==
    /\ At(r, e, "validate")
    /\ LET checkout == CiMatrices[runs[r].checkout]
           store == InStore(StoreOf(r, e)) IN
       SetJob(r, e, IF /\ HostedAckErrors(checkout) = {}
                       /\ EvidenceGateGaps(store, checkout) = {}
                       /\ HostRequirementGaps(store, checkout) = {}
                    THEN Advance(r, e) ELSE Fail(r, e))
    /\ UNCHANGED <<ciFile, files, rendering, pending, runs, cache, registry, staged, destination, publisher>>

KeyOf(r, e) == <<Cell(r, e), Get(r, e, "runtime_artifact")>>

(* A candidate job restores the cache beside the registry it uses.         *)
Restore(r, e) ==
    /\ At(r, e, "restore")
    /\ LET found == IF Hosted(r, e) THEN cache[KeyOf(r, e)] ELSE NONE
           looked == [Advance(r, e) EXCEPT !.hit = found # NONE] IN
       SetJob(r, e, IF found # NONE /\ runs[r].event # "tag" THEN [looked EXCEPT !.store = found] ELSE looked)
    /\ UNCHANGED <<ciFile, files, rendering, pending, runs, cache, registry, staged, destination, publisher>>

(* A sidecar the registry already has is kept, a missing one attached.     *)
Import(store, n) ==
    IF StoredAs(store, DigestOf(n)) = {} THEN store \cup {n}
    ELSE {IF DigestOf(b) # DigestOf(n) THEN b
          ELSE <<IF b[3] = NONE /\ n[3] # NONE THEN n[1] ELSE b[1],
                 IF b[2] = NONE THEN n[2] ELSE b[2], IF b[3] = NONE THEN n[3] ELSE b[3]>> : b \in store}

JobGates(r, e, minimum, policy) ==
    LET flags == Get(r, e, "evidence_flags") IN
    [minimum |-> minimum, sbom |-> "sbom" \in flags, provenance |-> "provenance" \in flags, policy |-> policy]
(* The cached runtime is checked without the trust the cell asks for.      *)
CachedGates(r, e) == JobGates(r, e, Local, NONE)
EntryGates(r, e) == JobGates(r, e, Get(r, e, "minimum_trust"), RenderedBy(r).trust.policy)
PullGates == [minimum |-> Local, sbom |-> FALSE, provenance |-> FALSE, policy |-> NONE]
Present(r, e, gates) ==
    \E n \in StoredAs(StoreOf(r, e), Get(r, e, "runtime_artifact")) : VerifyStored(Artifact(n), gates).passed

PullAccepts(r, e) ==
    LET o == Get(r, e, "runtime_remote")
        a == Contents[o] IN
    /\ o \in Names
    /\ a.manifest.digest = Get(r, e, "runtime_artifact") /\ a.manifest.kind = "runtime"
    /\ VerifyFetched(a, PullGates).passed

(* Nothing is pulled over what is there and passes; a hosted runner starts *)
(* over from an empty registry.                                            *)
Fetch(r, e) ==
    /\ At(r, e, "fetch")
    /\ IF Get(r, e, "runtime_remote") = NONE \/ Present(r, e, CachedGates(r, e))
       THEN SetJob(r, e, Advance(r, e)) /\ UNCHANGED registry
       ELSE IF ~PullAccepts(r, e) THEN SetJob(r, e, Fail(r, e)) /\ UNCHANGED registry
       ELSE LET pulled == Pushed(Get(r, e, "runtime_remote")) IN
            IF Hosted(r, e)
            THEN SetJob(r, e, [Advance(r, e) EXCEPT !.store = {pulled}]) /\ UNCHANGED registry
            ELSE SetJob(r, e, Advance(r, e)) /\ registry' = Import(registry, pulled)
    /\ UNCHANGED <<ciFile, files, rendering, pending, runs, cache, staged, destination, publisher>>

(* Verified at the trust of the cell, then materialized.                   *)
VerifyAndMaterialize(r, e) ==
    /\ At(r, e, "verify")
    /\ SetJob(r, e, IF Present(r, e, EntryGates(r, e))
                    THEN [Advance(r, e) EXCEPT
                            !.used = CHOOSE n \in StoredAs(StoreOf(r, e), Get(r, e, "runtime_artifact")) : TRUE]
                    ELSE Fail(r, e))
    /\ UNCHANGED <<ciFile, files, rendering, pending, runs, cache, registry, staged, destination, publisher>>

(* A key the cache already has is not written again.                       *)
Save(r, e) ==
    /\ At(r, e, "save")
    /\ cache' = IF Hosted(r, e) /\ ~jobs[r][e].hit /\ cache[KeyOf(r, e)] = NONE
                THEN [cache EXCEPT ![KeyOf(r, e)] = jobs[r][e].store] ELSE cache
    /\ SetJob(r, e, Advance(r, e))
    /\ UNCHANGED <<ciFile, files, rendering, pending, runs, registry, staged, destination, publisher>>
Evict(key) ==
    /\ Open /\ cache[key] # NONE
    /\ cache' = [cache EXCEPT ![key] = NONE]
    /\ UNCHANGED <<ciFile, files, rendering, pending, runs, jobs, registry, staged, destination, publisher>>

(* Building, testing, the checks and packaging: they pass or they do not.  *)
Build(r, e) ==
    /\ At(r, e, "build")
    /\ \E ok \in BOOLEAN : SetJob(r, e, IF ok THEN Advance(r, e) ELSE Fail(r, e))
    /\ UNCHANGED <<ciFile, files, rendering, pending, runs, cache, registry, staged, destination, publisher>>

(* The candidate is published to the job's own registry, verified at the   *)
(* release's trust and handed over.                                        *)
StageCandidate(r, e) ==
    /\ At(r, e, "stage")
    /\ IF VerifyStored(Built[Cell(r, e)], ReleaseGates(RenderedBy(r))).passed
       THEN staged' = staged \cup {<<r, Cell(r, e)>>} /\ SetJob(r, e, Advance(r, e))
       ELSE SetJob(r, e, Fail(r, e)) /\ UNCHANGED staged
    /\ UNCHANGED <<ciFile, files, rendering, pending, runs, cache, registry, destination, publisher>>

-----------------------------------------------------------------------------
(* The publisher.                                                          *)

RunEnded(r) == \A e \in DOMAIN jobs[r] : jobs[r][e].pc \in {Failed, Finished(r, e)}
Succeeded(r) == \A e \in DOMAIN jobs[r] : jobs[r][e].pc = Finished(r, e)

StartPublisher(r) ==
    /\ publisher[r] = "waiting" /\ Succeeded(r)
    /\ publisher' = [publisher EXCEPT ![r] = "publishing"]
    /\ UNCHANGED <<ciFile, files, rendering, pending, runs, jobs, cache, registry, staged, destination>>
SkipPublisher(r) ==
    /\ publisher[r] = "waiting" /\ RunEnded(r) /\ ~Succeeded(r)
    /\ publisher' = [publisher EXCEPT ![r] = "failed"]
    /\ UNCHANGED <<ciFile, files, rendering, pending, runs, jobs, cache, registry, staged, destination>>

Handoffs(r) == {s \in staged : s[1] = r}
TagOf(r, s) == <<RenderedBy(r).release.version, s[2]>>
Unpublished(r) == {s \in Handoffs(r) : destination[TagOf(r, s)] # r}

(* One candidate of the loop: verified again and pushed under its policy,  *)
(* or the job stops there with the earlier ones already published.         *)
PublishCandidate(r) ==
    /\ publisher[r] = "publishing"
    /\ \E s \in Unpublished(r) :
        \/ /\ VerifyStored(Built[s[2]], ReleaseGates(RenderedBy(r))).passed
           /\ AuthorizePush(RenderedBy(r).trust.policy, RenderedBy(r).release.destination.name,
                            FALSE, PublisherIdentity)
           /\ destination' = [destination EXCEPT ![TagOf(r, s)] = r]
           /\ UNCHANGED publisher
        \/ /\ publisher' = [publisher EXCEPT ![r] = "failed"]
           /\ UNCHANGED destination
    /\ UNCHANGED <<ciFile, files, rendering, pending, runs, jobs, cache, registry, staged>>

(* No handoff at all is an error.                                          *)
FinishPublisher(r) ==
    /\ publisher[r] = "publishing" /\ Unpublished(r) = {}
    /\ publisher' = [publisher EXCEPT ![r] = IF Handoffs(r) = {} THEN "failed" ELSE "published"]
    /\ UNCHANGED <<ciFile, files, rendering, pending, runs, jobs, cache, registry, staged, destination>>

-----------------------------------------------------------------------------
(* The operator of a self-hosted machine.                                  *)
OperatorImports ==
    /\ Open
    /\ \E o \in Imports : registry' = Import(registry, Pushed(o)) /\ registry' # registry
    /\ UNCHANGED <<ciFile, files, rendering, pending, runs, jobs, cache, staged, destination, publisher>>

EntryStep(r, e) ==
    \/ Validate(r, e) \/ Restore(r, e) \/ Fetch(r, e) \/ VerifyAndMaterialize(r, e)
    \/ Save(r, e) \/ Build(r, e) \/ StageCandidate(r, e)
PublisherStep(r) == StartPublisher(r) \/ SkipPublisher(r) \/ PublishCandidate(r) \/ FinishPublisher(r)
RunStep == \E r \in DOMAIN runs : PublisherStep(r) \/ \E e \in DOMAIN jobs[r] : EntryStep(r, e)

CiNext ==
    \/ EditMatrix \/ Generate \/ WriteWorkflow \/ GenerateStops \/ GenerateEnds \/ RemoveStale
    \/ \E event \in Events : StartRun(event)
    \/ RunStep
    \/ \E key \in Keys : Evict(key)
    \/ OperatorImports

CiSpec == CiInit /\ [][CiNext]_ciVars

-----------------------------------------------------------------------------
CiTypeOK ==
    /\ ciFile \in DOMAIN CiMatrices
    /\ files \in [Paths -> DOMAIN CiMatrices \cup {NONE, Torn}]
    /\ rendering \in 0..ciFile
    /\ Len(runs) = Len(jobs) /\ Len(runs) = Len(publisher) /\ Len(runs) <= MaxRuns
    /\ \A r \in DOMAIN jobs : \A e \in DOMAIN jobs[r] : jobs[r][e].pc \in 0..Finished(r, e)
    /\ \A k \in Keys : cache[k] = NONE \/ \A n \in cache[k] : DigestOf(n) = k[2]

(* What a later job restores was verified in full by an earlier one: the   *)
(* cache holds, for a cell and a runtime digest, a registry with that very *)
(* runtime, which passed the trust and evidence gates of a rendered cell of*)
(* that name.                                                              *)
CacheIsVerified ==
    \A k \in Keys : cache[k] # NONE =>
        \E n \in StoredAs(cache[k], k[2]), m \in AllMatrices : \E c \in CellsOf(m.cells) :
            c.name = k[1] /\ VerifyStored(Artifact(n), GatesOf(m, c)).passed

(* A release appears whole or its publisher failed: whatever the repository*)
(* holds was staged by a run of which every candidate passed, verifies at  *)
(* the release's trust under its policy, and once a publisher has succeeded*)
(* every candidate of its run is there.                                    *)
PublishedIsReleased ==
    /\ \A t \in Tags : destination[t] # NONE =>
        LET r == destination[t] IN
        /\ runs[r].event = "tag" /\ Succeeded(r)
        /\ VerifyStored(Built[t[2]], ReleaseGates(RenderedBy(r))).passed
        /\ \A c \in CandidateCells(RenderedBy(r)) : <<r, c.name>> \in staged
    /\ \A r \in DOMAIN runs : publisher[r] = "published" =>
        \A c \in CandidateCells(RenderedBy(r)) :
            destination[<<RenderedBy(r).release.version, c.name>>] # NONE

(* A candidate is never handed over on a runtime below its matrix's        *)
(* release trust, whatever was cached, pulled or imported on its runner.   *)
StagedOnTrustedRuntime ==
    \A s \in staged : \A e \in DOMAIN jobs[s[1]] : Cell(s[1], e) = s[2] =>
        LET g == [EntryGates(s[1], e) EXCEPT !.minimum = AtLeast(@, RenderedBy(s[1]).trust.release)] IN
        /\ jobs[s[1]][e].used # NONE
        /\ VerifyStored(Artifact(jobs[s[1]][e].used), g).passed

(* A generate about to report success has every file of the matrix it read *)
(* as that matrix says, over whatever an earlier one that stopped half way *)
(* had left and whatever was edited, run or removed meanwhile: a file can  *)
(* only be gone, if the matrix has been edited since.                      *)
NoMixedWorkflows ==
    (rendering # 0 /\ pending = <<>>) =>
        \A p \in RenderedPaths(rendering) :
            files[p] = rendering \/ (files[p] = NONE /\ rendering # ciFile)

(* The cache is for speed: a hosted source job whose remote would pass its *)
(* verify step fails it only on a registry that another run of its cell    *)
(* saved when the matrix asked for less trust, or judged the builder by    *)
(* another policy or not at all.                                           *)
CacheIsNeutralUntilRaised ==
    \A r \in DOMAIN runs : \A e \in DOMAIN jobs[r] :
        (/\ Hosted(r, e) /\ At(r, e, "verify") /\ PullAccepts(r, e)
         /\ VerifyStored(Contents[Get(r, e, "runtime_remote")], EntryGates(r, e)).passed
         /\ ~Present(r, e, EntryGates(r, e)))
        => /\ jobs[r][e].hit /\ runs[r].event # "tag"
           /\ \E q \in DOMAIN runs : \E f \in DOMAIN jobs[q] :
                /\ Cell(q, f) = Cell(r, e)
                /\ jobs[q][f].used \in jobs[r][e].store
                /\ \/ EntryGates(q, f).minimum < EntryGates(r, e).minimum
                   \/ EntryGates(q, f).policy # EntryGates(r, e).policy
                   \/ EntryGates(q, f).provenance # EntryGates(r, e).provenance

-----------------------------------------------------------------------------
(* What CI restores, builds on and publishes passed its gates: a cache     *)
(* holds runtimes that were verified, a candidate is handed over on a      *)
(* runtime of its release's trust and published with all the others, and a *)
(* cache fails no job until its matrix asks for something else.            *)
RunsAreTrusted ==
    /\ CiTypeOK
    /\ CacheIsVerified
    /\ PublishedIsReleased
    /\ StagedOnTrustedRuntime
    /\ CacheIsNeutralUntilRaised
=============================================================================
