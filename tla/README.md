# OpenStrata in TLA+

OpenStrata (`ost`) configures, builds, tests and packages OpenUSD plugins and
runtimes, and moves the results through a content-addressed artifact store. It
is a set of short-lived command-line processes that share directories on disk:
nothing runs as a service, so what goes wrong between two commands goes through
files, file locks and child processes. This project models that (what is on disk
after every step, with other commands and deaths in between), and the pure
decisions the commands take: what a verification accepts, what a workflow runs,
which provider answers a requirement, what counts as evidence.

## The system

| part | state it keeps | operations | interacts through |
|---|---|---|---|
| target lease (`ost-build/src/lease.rs`) | one lock file per target with an owner record inside | acquire (fail, wait, read-only), release, drop | `flock`, the record |
| managed target (`commands/{configure,build,test,package}.rs`, `ost-build/src/{completion,lock}.rs`) | target lock, build trees, `completed` and `tested` records | configure, build, test, package | the lease; CMake and CTest as children |
| managed children (`ost-cli/src/progress.rs`) | the recorded pid, two output readers | run a child, time it out, interrupt it | signals, process groups, pipes |
| artifact store (`ost-artifact/src/store.rs`) | object directories, `index.json` | import, remove, resolve, export | files without a lock |
| transport (`ost-artifact/src/transport/`) | digest-named partial blobs and their locks, scratch directories | resolve, pull, push | HTTP, `flock`, the store |
| verification and trust (`ost-artifact/src/{policy,evidence,record,component}.rs`, `commands/artifact.rs`) | policies, SBOM and provenance beside an artifact | verify, authorize a push, accept a manifest | the store, OIDC tokens |
| runtimes (`ost-runtime`, `commands/runtime.rs`) | installed runtimes, their manifests, dependency ledgers and validations | pull (build, adopt, mock, artifact), validate, repair, export | the artifact store, `build_usd.py` |
| compositions (`ost-formation`, `commands/runtime_composition.rs`) | composition locks, composed prefixes, consumer packages, the loader's cache | compose, reconstruct, export, package, load | artifact records, renames |
| plugin workspaces (`ost-plugin`, `commands/plugin.rs`) | per-member targets, bundles, product archives, external prefixes | build, test, package, verify, install | the lease, completions, the store |
| libraries (`commands/library.rs`) | install trees, build records, test and consumer reports | build, test, package, verify-consumer | the shared build trees |
| renderers (`commands/{renderer,validate}.rs`) | reports, sessions, stamps, launch records | adopt, build, test, viewport, view, merge, validate | completions |
| CI (`ost-ci`, `commands/ci.rs`) | the matrix, the generated workflows; at work the cache, the registry, handoffs | validate, generate, plan | GitHub Actions |
| hosts, profiles, extensions, templates | declarative files | parse, select | - |

Hard behaviours, and what must hold of them, are listed under `hazards` in
`PROJECT.json`, each at its line with the properties that cover it. In short:

* the lease must exclude writers although the processes that hold it die, and a
  record left behind must never hide a live holder;
* a completion must describe the tree it lies over whichever run wrote either,
  and tests and packages must use the build they claim to use;
* killing a child means killing what it started, and no one else;
* the store must stay coherent when a command dies between two of its writes;
* a pull must deliver the bytes of a digest or nothing, and what it leaves for
  others must never hurt them;
* plugin, product, runtime, composition and library commands share stages,
  prefixes and records without a lock, so what they verify must be what they
  then ship;
* claims and evidence (trust, graphics, tests, renders) are rewritten by long
  sequences of commands and must stay about the thing they were made of.

## Modules

`X` is a specification, `MCX` its TLC instance, `X_proofs` its theorems;
`Runs_proofs` has those of `TargetLease`, `ManagedChild` and `CiRuns`, and
`Composition_proofs` those of `RuntimeComposition` and `CompositionResolve`.

### Processes that share files

**LeaseContract** is what every command may rely on: who holds the target, whose
evidence is on disk, and the six things that may happen to them. It is the
abstract specification of the lease; `TargetLease` is shown to implement it and
`ManagedTarget` to use it (both as refinements, and both proved).

**TargetLease** is `lease.rs` step by step: open, `flock`, read the earlier
record, truncate, write, clear, drop. `path`, `lock`, `record` are the file
system and the kernel, `fd`, `pc`, `mode`, `previous`, `owner` the variables of
`acquire` in each run. Crash closes the descriptors of a run wherever it is. It is
its own TLC instance, as are `ManagedChild` and `RuntimeComposition`.

**ManagedTarget** is the life of one target: `lock` the target lock (torn while
it is written in place), `tree` the build trees with the configuration of their
cache and their binaries, `completion` and `tested` the records. Actions follow
`run_resolved`, `generate_with_generator_mode`, `test::run` and `package::run`;
the lease is one atomic variable here, justified by `TargetLease`. `orphan` is
what a run leaves behind: a CMake survives a SIGKILL of `ost`, an interrupt between
`spawn` and `set_active` (`progress.rs:752-759`), and a failure or timeout after
which the group's leader is gone and its descendants are not (`progress.rs:1232`);
`MayLeaveChild` lets every death and every failing child leave one, and it goes on
to configure or to compile, as often as it likes, whoever holds the lease. What
CTest leaves behind writes no modelled file. The mode of a run (`Mode`), what may befall it (`Fault`), which runs are started before it
(`Before`) and which compilers and runtimes it may resolve (`Resolved`) are
constants.

**ManagedChild** is `run_child` with its readers, its poll loop, the teardown on
a timeout and the signal handler, against a child that forks, leaves the group,
ignores SIGTERM, writes and keeps pipes open.

**ArtifactStore** is `import`, `remove`, `resolve` and `export` with one action
per file they write. A dist is a record of what binds what: the archive digest,
the producer manifest (identity fields, debug archive), SBOM and provenance.
`exported` is what each export handed out.
`Overlap` and `Crashes` choose whether commands interleave and whether they die.

**BlobFetch** is the pull of layers: the scavenger, the lease of a partial, the
attempts of `fetch_blob_to` with every answer a registry may give, the hash and
the move. A file is its length and whether its bytes are right; positions are
kept, so that a misplaced continuation is a wrong byte. No cap ends a body: it may go
on for ever (`Receive`), and `Excess` only bounds how many bytes too many are told
apart.

**PluginWorkspace** is `ost plugin build` and `ost plugin package` over the source
members of one workspace. `tree` is `build/<id>` (the CMake cache, the runtime
markers in it, the recorded identity, the binaries, the completion), `state` is
`.strata/targets/<id>` (toolchain file, compiler record, library snapshot and
inventory, bundle stage and marker, target lock, package stage), `prefix` the
shared `workspace-prefix`, `out` the outputs of a bundle in its source tree,
`root` and `pinned` the records of a root build, `dist` the archives and
manifests, `holder` the leases. CMake is external: a new cache takes the
toolchain file, an existing one keeps its package paths and its compiler while
the markers are forced. `crossed` and `settled` are history variables that only
properties read.

**PluginProduct** is `package --workspace --product`, `product verify` and
`product install`: a packaging run packs each member into its dist directory,
collects the released ones in one stage and packs that; two runs share both, and
sources, the release declaration and external pins change between two members.

**OpenUsd** has the compatibility blocks of OpenUSD builds (matching, variants,
the two verifiers); **Runtime** is one managed runtime with every way `pull` can
make it, `validate`, `repair` and `export`, each manifest write a step of its
own, and `build_usd.py` external (it skips what is already installed, which is
why the dependency ledger exists).

**CompositionResolve** is the greedy resolver of a composition, one action per
requirement popped and per component emitted, with every way it refuses;
**CompositionSdk** the layout of the prefix a lock describes, its links and its
activation, over one layout that is picked at the start; **RuntimeComposition** the commands on composed runtimes, none of
which takes a lock, and the loader a consumer package carries. The store's index is
read by one step of an import and written by a later one (`Upsert`), as in
`index_upsert` (`store.rs:798`), so that imports of other processes in between lose
their entries; `dropped` remembers which.

**CiRuns** puts generated workflows to work: the matrix is edited, `generate`
writes its files one by one and may stop at any of them (a failed write, a kill),
with the file at hand torn or not; edits, removals of stale files and new runs do not
wait for it, and events start runs of what the files then say, a mix included; jobs
step side by side on hosted runners that share a cache and on machines that
share one registry, and a publisher pushes what the candidates handed over.
GitHub Actions is external.

### Decisions

These modules define what the code computes of one input, as operators over
records that keep what the code reads; `Common` is the absent value they share.

* **ArtifactTrust**: trust levels, policies, namespaces, OIDC tokens, generated
  and verified SBOM and provenance, `verify` and `verify_dist`, `authorize_push`.
* **SupportMatrix**: validation of the CI matrix and what follows for a cell,
  support declarations, `ost ci validate`. **GithubWorkflow**: the jobs, include
  entries and steps of every generated workflow, with the keys each step reads.
* **ProducerManifest**: identities, selectors, components and archives of
  producer manifests, and what a pull checks of them. **OciRegistry**:
  references, a push as the sequence of its writes, the fetch, tokens, redirects.
* **PluginLevels**: the rungs of a plugin test, static and executed, goldens and
  verification contracts. **PluginGraph**: discovery of members, the dependency
  graph, its orders and closures. **PluginExternal**: members taken from
  artifacts, and the bundles of a session.
* **RendererEvidence**: reports, sessions, merging, stamping, adoption.
  **RendererWorkflow**: `view` and `viewport`, and what a build directory knows
  of its renderer from one command to the next.
* **LibraryWorkflow**: what bundles, libraries and tools may declare, and the
  library commands with the evidence each asks for.

**Decisions** and **MemberDecisions** turn them into one specification: a
behaviour has a subject and picks a call with its arguments (`input`), or a story
of commands on one renderer or on a few libraries, and the invariants say what the code promises
of the answer. **CiFixtures** and **MCDecisions** hold the inputs: each family
varies one part of an input at a time around a valid one, with the combinations
its properties tell apart.

## Runs

Every run passes. A run is one question; the parts of its properties are
definitions with a comment each.

| run | instance | states | shows |
|---|---|---|---|
| lease | three runs, every busy policy, death at any step | 423,377 | one writer at a time; a takeover only replaces an owner that is dead or released; the lease implements `LeaseContract`; who asks stops waiting |
| target | two runs of any command, the second with the same or another compiler and runtime, two build directories, every policy and fault | 511,917 | while nobody runs read-only, a completion names the run that held the lease, and, but for directories that a surviving CMake may still write, it describes its tree, which is written under the lease only; every run ends |
| child | one child, two descendants, one reader, one interrupt | 151,936 | an interrupt reaches the whole group, an escalated timeout leaves nobody, the capture is whole, a limited run returns unless a descendant holds the pipe |
| store | three imports, removals or exports in a row, two digests, death at any step | 379,991 | the index never points at a directory without a record, exports bind to their manifest, a stored identity only grows; undisturbed, index, records and evidence agree |
| workspace | three builds or packagings, two at a time, of a library, a provider and its consumer, one change | 953,958 | a completion comes from one compile with its own runtime; a package said to match holds exactly that build; an uncrossed build links one runtime, and its package ships what it linked |
| fetch | two pulls of two layers, one of them empty, any answer, death anywhere | 530,035 | only verified bytes are delivered, a body continues where the file ends, a calm pull never fails over what others left, every pull ends unless a body goes on for ever |
| runtime | three commands of two processes on one runtime, one fault | 2,030,388 | exports are sound, graphics claims were rendered, dependency closures survive a retry, a consumer never rewrites a producer's claims |
| resolve | 6,188 inputs of the resolver, 388 locks | 32,372 | the greedy resolver ends, and what it resolves is closed, consistent and ordered; layouts are trees that survive the move |
| composition | three commands of two processes, one fault | 1,655,724 | what is published, exported or activated is what its lock or package says; without a fault an activation fails only over an index entry that an overlapping import lost |
| product | three commands, one edit and one fault | 1,527,637 | what verifies and is installed is one packaging run's product, and its members fit together |
| ci | two runs of generated workflows, hosted and self-hosted, with edits and a publisher | 67,020 | what runs, is cached, handed over and published is trusted, mixed workflows or not; a generate that reports success has made them whole |
| decisions | 28 subjects, each with its family of inputs; stories of three commands | 428,957 | the answers of the decision modules, area by area |

`LeaseContract`, `CompletionDescribesTree` and so on are single statements. Where
a run checks a conjunction, its parts are definitions of their own in the same
module, each with its comment; TLC's trace tells which part failed. The ones
whose names do not say it: `ChildIsAccountedFor` (teardown and capture),
`IndexAgrees` and `ObjectsAreWhole` (the store), `BuildsAreOne` and
`PackagesAreHonest` (the workspace), `ExportsAreSound` and `ClaimsAreTrue`
(runtimes), `ResolutionIsSound` and `LayoutIsSound` (compositions),
`CompositionIsVerified`, `CompositionStays`, `ProductFits`, `RunsAreTrusted`, and
the eight `...Decisions`, one per area.

The bounds. Two or three processes reach every conflict these protocols have,
because each conflict is between a holder and one other (a third tells a waiter
from a newcomer in the lease, and a history of two earlier commands from a third
in the store). Two pieces of a layer separate empty, partial and whole; `Excess =
1` adds too long. Two attempts are the least at which the recovery from a corrupt
prefix is possible. `MaxCommands = 3` (workspace, runtime, composition, product,
renderer stories) is the least at which a command relies on what a second one did
to the result of a first; `MaxFaults`, `MaxEdits` and `MaxChanges` of 1 add one
crash, edit or damage anywhere in it. `MaxLibraryCommands = 3` is build, change,
use over a chain of libraries. `MaxRuns = 2` in CI is a run that fills the cache
and one that uses it after the matrix was edited; one generate runs at a time, and a
torn workflow file starts no run. Its cfg names a `VIEW`: once the last run has
started no action reads the matrix file and the workflow files any more, so states
that differ in them only are counted once (of the properties only `NoMixedWorkflows`
reads them, and those files stood in a state before the last run started). `MAX_WORKSPACE_MEMBER_DEPTH = 2`
keeps a member below, at and beyond the limit of the scan. The resolver's inputs
have three components and three capabilities, which is what a late conflict with
an earlier choice takes.

Runs whose system may stop (every command ended, the bound on commands reached)
switch the deadlock check off; termination is a property of its own where it
matters (`WaiterLeavesQueue`, `EveryRunEnds`, `BoundedUnlessPipeIsHeld`,
`EveryPullEnds`, `Terminates`).

## Fairness

Liveness assumes weak fairness of the steps of live processes only: the poll
loops of the lease and of `run_child` sleep and try again, the readers are
threads, a request ends by its timeout, the resolver is one loop. Nothing is
assumed about crashes, interrupts, the developer, the registry or a descendant
(it may write for ever or never end). A blob's body is the registry's: the default
timeout of 30 s is one of idleness and there is no default total deadline
(`oci.rs:160`), so a trickle may keep a pull, and every other pull of the layer that
waits for its lease, from ending. `EveryPullEnds` therefore has the premise that each
process is infinitely often outside a body, which `--overall-timeout` gives; it says
that nothing else holds a pull up. `EveryRunEnds` is about the default timeouts of
build and test, which leave out the join described below. In `BlobFetch` the step of a waiter is
enabled only while the lease is free, so fairness does not grant it a lease
others never give back.

## Proofs

TLAPS checks these for every value of the constants.

*Runs_proofs, TargetLease.* `LeaseInv` ties each descriptor to the one inode, each
lock to the run whose step implies it, and the record to the holder; mutual
exclusion is its consequence, since `flock` gives one owner per inode and the
code never unlinks the file. The refinement maps the holder to the owner of the
inode's lock, and the evidence to the record, except between the truncation and
the write of a new one, where it is still the old one.

*ManagedTarget_proofs.* `TypeInv` says which steps belong to which command and
which locals they have set; `TargetInv` adds that the run inside a writing
phase is the holder, that no completion exists while a build is past its
invalidation, and how far the tree and the lock have got for each phase. The
theorems on completions and writes speak of behaviours in which no run was told to
ignore the lease (`NoReadOnly`), and once one was, that stays so (lemma
`StaysReadOnly`), so the invariant `NoReadOnly => TargetInv` is inductive; the first
observation below shows that the premise is needed. Runs may die and leave their
CMake at work. What `TargetInv` says of a tree it then says of the directories no
survivor may write (`~Left(i)`); what it says of the lock, the records and the lease
it says regardless, because a survivor writes none of them, and a directory once left
stays so (lemma `LeftStays`). The second observation is why the trees are excepted.

*BlobFetch_proofs.* The lease makes the partial private (lemma `Frame`), so the
invariant `Own` speaks of one process: the prefix it resumes has the length it
asked for, the file ends where the body is, what is about to be moved is whole,
and a calm pull past its first attempt started from nothing. `CalmPullsDeliver`
needs the last part: that a wrong full-length file is removed at both places
where it can be noticed.

*Runs_proofs, ManagedChild.* `ChildInv` adds to the properties what they rest on: at
which steps `ACTIVE` names the child and at which the child was waited for
(`StepsFitChild`); that only processes that exist are in the group, only running
ones hold a pipe, and the pid is reused only after the child was waited for
(`TreeIsReal`); and that every chunk written is unread, kept or beyond the capture
(`OutputAddsUp`). Without the second part an interrupt could miss a descendant or
hit a stranger too early; without the third a returned capture could lack a chunk.

*ArtifactStore_proofs.* For any commands over any dists with `Overlap = FALSE`, the
case the code is written for (the index and the object directories have no lock;
with overlap the properties fail, see the observations), dying at any step.
`StoreInv` has two layers. What survives every death (`Binds`, `Local`): the
manifest carries the record's identity, the record carries its index entry's, both
attest the provenance they name, and what a command remembers of an object is still
so. What holds while no command died or failed after its first write
(`Undisturbed`): an object nobody works on is `Whole`, and the one at work is whole
until the first write, then holds the merged evidence until record and sums
describe it (`AtWork`). The second layer needs the first, since a repeated import
reads what an earlier one left. Sequential commands touch only the object of their
digest (lemma `Framing`), so each action is proved for one process and one object.
`IdentitiesAreStable` is the action property: only `Publish`, `CommitRecord` and
`RemoveFile` touch a record, and the reconciled record carries the stored one.

*Composition_proofs, RuntimeComposition.* No bound on processes, commands or faults. `FilesOK`:
prefixes, artifacts and the cache hold what their lock records and only a fault
edits them; a manifest that was verified is true and its artifact stays stored;
without a fault the manifest and the package are true. `StepOK`: what a process has
staged was verified and is what it will publish, what a loader works with was
verified, and the cache entry it is about to observe is there. The files never lose
what another process relies on (`Grows`, lemma `StepsStay`), so each action is
proved for the process that takes it. The parts about behaviours without a fault
are for `RaceLosesEntriesOnly`: it says that nobody fails but over a lost index entry,
so it needs that nothing else another process does can make a check fail. An artifact
is `Kept` if it is stored and either listed or recorded as `dropped`; an import writes
back an index it read earlier, and what that removes goes to `dropped` (lemma
`UpsertFacts`), so `Kept` is stable while the index is not.

*Composition_proofs, CompositionResolve.* Any manifests and artifacts with finite lists.
`ResolveInv` is the loop invariant of the resolver. `WorkOK`: every requirement of
the manifest or of a selected component is in the worklist, or was granted with the
edge that puts its consumer after its provider; a chosen provider offers the
capability at its recorded version, matches the target and any pin; and whatever is
selected somebody else asked for. `OrderOK`: each component was emitted once, after
its providers. The worklist is never drained by a refusal and the loop stops only
when it is empty, so closure follows from the first part; that the entries added are
sorted by capability needs that a finite set of requirements has a sorting (lemma
`SortingExists`, by a smallest counterexample). `selected` stays finite, which is
what lets "at most one" be said of a cardinality in the ABI check.

*PluginWorkspace_proofs.* Any workspace whose plans list each member once and after
what it links (the `seen` set and the topological order of the graph give both), any
number of commands at a time. `WorkspaceInv` has three layers. What a lease gives:
the tree, the stage and the source outputs of a bundle change only under its lease
(`StepOK`, `LeaseOK`), so the bundle part of `WorkOK` (the cache, the compile and the
staged files all have the runtime the build resolved) holds whatever else runs, and
`CompletionsAreOne` needs no premise about other commands. What it does not give:
libraries and the prefix have no lease, so what is known of them (`QuietOK`, and
`WorkOK` of a library) is said of builds that nothing crossed, of which there is at
most one at a time (`SoleOK`): the prefix has installs of one runtime, and each member
built so far is, at the place a package reads, what the prefix has and what later
members linked. What a packaging adds (`PackOK`): it reads the outputs without a lease,
so it relies on `settled`, the mark of the last build that nothing crossed, whose
values never return because commands only run out; while the mark it saw still stands
the files it copies are that build's (`SettledOK`), and while it is alone its stage is
its own. The frame lemmas (`BuildKeeps`, `PackagingKeeps`, `ChangeKeeps`,
`GiveUpKeeps`) carry over what a step of one kind leaves alone, so each action is
proved for the run and the member it is about.

*PluginProduct_proofs.* Any workspace graph, any number of commands, edits, kills and
damage. `ProductInv` has three layers. What survives everything: a contract, in the
stage, in an archive or in a process's hands, is one that a packaging run completed
(`Known`), and each of those lists packages in workspace order whose embedded externals
agree (`GoodContract`). A declared release keeps some places of that order; that what
`Nth` picks stays in order (lemma `ReleasedSelects`) is shown by smallest
counterexamples. What was verified: an install works on the archive it read, so damage
to, or another run over, the product on disk does not matter once `Verify` has passed
(`JobOK`, `PrefixOK`). What holds of a run that nothing else crosses, of which there is
at most one (`QuietOK`): its packages are of the sources as they are, and dist, stage
and archive are what it wrote (`Current`, `Stored`, `Staged`, `Bundled`), which is what
"a product packaged while nothing else changed verifies" needs. The assumption on the
graph says what the code's discovery ensures: the workspace is not empty, and an
external bundle is not one of its members.

*Runtime_proofs.* Any number of processes, commands and faults. Whatever overlaps:
every manifest, on disk, in an artifact or in a process's hands, has the types of one,
carries the digest of its own identity, and if it came from an artifact repeats the
graphics claims of one that is in the registry (`Good`), and where a process is says
what it carries (`Carries`); `ProducerClaims` needs this and nothing more, so it holds
of commands that overlap. While commands do not overlap (`calm`, the premise of the
other properties: no runtime command takes a lock): the manifest's claims are those of
a render, an installed closure with one set of build arguments is whole, and what a
failed build installed is in the ledger of the arguments that a retry will find it
under (`CalmFiles`, `Covered`); and each step relies on what the steps before it saw,
since nobody else ran (`Calm`, `Sole`). `ClaimsStayTrue` needs the ledger part, which
no property mentions: a retry finds its dependencies installed and does not install
them again. The two verifiers of an OpenUSD identity, of the producer and of the
consumer, are shown to refuse the same identities for the same first reason
(`VerifiersNeverDisagree`, a theorem about any record of an identity; the run checks
its instance for a sample, `VerifiersAgree`), by the chains of their checks.

*Runs_proofs, CiRuns.* Any sequence of matrices that the loader accepts, any policies
and signatures, any number of runs. A job's steps come in a fixed order of ranks
(lemma `BehindRank`), so what is behind a job tells what it has done. On that rest the
parts of `CiInv`: a hosted runner's registry is empty, just pulled, or restored from
what an earlier job of the same key verified (`StoreOK`, `Origin`); the runtime a job
used passed the gates of the job's own cell (`UsedOK`); only a tag's job that verified
stages a candidate, and a release whose jobs all succeeded has them all (`AllStaged`);
and while a generate is under way every file of its matrix is written, or removed
since a later edit, or still to be written (`FilesOK`), whatever an earlier generate
left, torn files included. That the cache never fails a job whose matrix asks for nothing
new comes from `SameJudgement`: of two gates with one policy and one provenance rule,
what the stricter accepts the other accepts. `WorkflowsOfOneMatrix` is
`FilesOK` when nothing is left to write.

The constants' assumptions are the `ASSUME`s of the modules, which TLC evaluates.
`LeaseInv`, `TargetInv`, `ChildInv`, `StoreInv`, `CompositionInv`,
`ResolveInv`, `WorkspaceInv`, `RuntimeInv`, `ProductInv` and `CiInv` were checked by TLC on
the instances of their runs before they were proved. Only model-checked: liveness
(beyond the prover), the layout of an SDK (`LayoutIsSound`) and the run
decisions. What the decisions
compute of every input is recursion and folding over data, about which the library
has no theorems the provers can use; a fact about all finite sets can be had
by a smallest counterexample, what a fold returns cannot.

## Observations

What the models show about the code beyond the runs' properties: situations the
properties leave out by their premises, each reached with other constants or
visible in a trace, or said of an operator by its definition. They are listed so
that nobody takes a property for more than it says.

Managed target and children
* a read-only build writes the tree and a completion that names another run
  (`build.rs:920`, against `lease.rs:82`);
* a CMake that outlives its `ost`, or its own timeout, keeps writing the tree under
  the next run's lease and completion: nothing but the lease keeps them apart, and it
  was released (`build.rs:652`);
* configure removes a tree before the completion over it (`configure.rs:481`), so
  an interrupt in between leaves a completion over nothing;
* test uses a completion it read before it had the lease (`test.rs:155`);
* a target lock torn by an interrupt counts as no earlier configure, and a changed
  compiler removes the default tree only, so a tree may keep another compiler's
  cache;
* an old `CTestTestfile.cmake` may survive in a directory that a composed build
  reuses without wiping it, and its tests run; the library model says there are none;
* a rebuild of edited sources keeps the completion's fingerprint, so a `tested`
  record stays valid over new binaries;
* package takes no lease and may install a tree that is being rebuilt; an error
  return with the lease held drops it without clearing the owner record, which
  the next run reports as a takeover; the owner a read-only attach reports may be
  dead, or missing while a holder has not written its record;
* a descendant that ignores SIGTERM survives a timeout (`progress.rs:1232`,
  against `test.rs:29-31`); one that keeps a pipe open holds `run_child` in its
  join past any timeout; a signal after the reaping finds no recorded pid, or
  between `try_wait` and `clear` one that may have been reused.

Store, trust and registry
* a body that trickles on keeps a pull, and every one behind it, waiting for ever
  (`oci.rs:834`);
* concurrent imports may lose an index entry (and then fail an activation that needed
  it, `store.rs:611`), bring a removed one back or
  overwrite an enrichment; the import that loses the rename reports evidence that
  is dropped (`store.rs:520`, against `:56`); a removal that stopped half way may
  leave a record without its archive, which a later import lists;
* importing a digest that is stored keeps the sidecars there, so a pull can report
  the trust of evidence the store does not have;
* `artifact verify` matches the builder only with `--require-provenance`, a pull
  also when more than attested is required; the first matching publisher in file
  order counts; an SBOM of another artifact that lists this digest as a dependency
  is accepted; only the most specific protected namespace's minimum counts;
* `artifact verify` of the store ignores the archive's size, unsafe entries and
  the debug archive; the file transport reads the manifest twice, for resolve and
  for fetch; a static token refused with 403 never triggers the token exchange;
* a requirement compares the raw variant, the selector the canonical one; schema 1
  selectors leave the macOS block out; a record whose version differs from its
  producer's is accepted and has no selector.

Runtimes and compositions
* no runtime command takes a lock; `validate` persists a passing render of a tree
  that drifted; repairing a drifted build keeps the compatibility block of the old
  tree; a torn capture line refuses every later finished build until `--force`; a
  retry with another command line, and a refused finished build, lose the
  dependency closure (`runtime.rs:4940`, against `:4914`);
* the resolver never backtracks, so it may refuse what another order would grant;
* the composition lock is written in place after the prefix is published; the
  runtime digest leaves the producer manifest and evidence out, so a cache keyed by
  it may hold a prefix with other evidence; environment contributions apply by
  component id, not by dependency order; `consumer_package` re-reads the manifest
  and copies the store object after it verified both.

Plugin workspaces, products and libraries
* two packagings of one bundle share the package stage; a second build empties the
  prefix under the first; a rebuild that fails after its libraries replaces their
  snapshot, so the next package ships a library the bundle was not linked with; the
  compiler record is written by builds that finish only;
* two products packaged at once may mix (verify refuses the result, package does
  not); publish checks the manifest it read and the import reads dist again; copies
  of an excluded bundle that two members embed are not compared;
* a range is judged against 0.0.0 for pinned dependencies, so a malformed
  comparator after a failing one passes; two members may pin one external library
  to different digests and the graph passes; a workspace-wide closure check does
  not imply each bundle's; `--with` of the same version, kind and contract stands
  in for a pinned artifact, and is ignored beside a workspace provider; an external
  bundle's own requirements are not resolved; a torn extracted prefix is refused on
  every later run and never extracted again; a bundle alone in its workspace is
  built without asking the graph; a literal `__pycache__` pattern names a directory
  the scan excludes;
* on a runtime that is not real a test up to rung 2 lists rungs up to 5 as skipped;
  roundtrip fixtures that are listed lose the arguments of the same smoke fixture;
  a golden that is not UTF-8 is compared as empty; normalisation is not idempotent
  on a lone CR before CRLF; a test passes when every executed rung is skipped;
* building a dependency on its own changes its record and makes every dependent's
  evidence stale, and building a dependent rebuilds it without tests, after which
  its test is refused; a library record does not see sources; a failing
  `verify-consumer` may leave the earlier success report; package replaces archive,
  evidence and manifest one by one; composed plugin builds share the build tree
  with tests off; a runtime directory written `lib/` is used by tests and left out
  of the package's loader path; the header matcher takes a `*` in a file name
  literally; paths in other generator expressions are not inspected.

Renderers
* after merging a base without a session its unstamped checks are attributed to the
  later owner in a second merge; a later failed session cannot be merged over
  passes; a report that validation refused stays stamped and is never bound again
  unless rewritten; a second test or viewport that does not rewrite the primary
  report strands the evidence bound by the first; a failed viewport without a record
  makes `validate` fall back to a legacy one (against `renderer.rs:1359`); a CTest
  run that exits nonzero without failed tests writes a record `validate` accepts;
* `view` leaves an earlier `launch.json` when it fails after its build; of an
  external Hydra tree any one recorded root inside the runtime suffices; nested
  cameras are found as `/Name`; `adopt --version` cannot be repeated once the project
  exists, and `--version-file` wins over it silently.

Continuous integration
* a cached runtime is checked without a minimum trust or policy, so one with old
  provenance skips the pull and fails the verify at a raised minimum for good
  (`github.rs:545` says "speed only"); `CacheIsNeutralUntilRaised` states when;
* the release workflow restores its cache into `.ost-ci-home` and runs with
  `.ost-release-home`; hosted cells of the support lanes validate and cannot run;
  hosted candidates without a profile escape the billing acknowledgement;
  `ci validate` looks whether evidence is there, not whether it verifies;
* workflows are written one by one: a generate that fails or is killed in between
  leaves files of two matrices and perhaps a torn one, events start runs of them, and
  only the next complete generate repairs that (`ci.rs:1433`); a candidate that fails
  in the publisher's loop leaves the earlier ones published.

## Not modelled

Formatting, reports, flags, templates and generated text; the JSON of records
(their binding fields are); Windows (`taskkill`, share modes); disk-full errors
inside `write_atomic` (a rename either happens or not). Formation manifests and
their command, host discovery, extension selection, archive writing, binary
inspection and external-tool contracts of `ost-build` are sequential code over
files of their own; `components` in `PROJECT.json` gives the reason for every part.

## Plan

1. Done: the processes that share files (lease, target, children, store, pull,
   plugin builds, products, runtimes, compositions, CI at work), the decisions
   (trust, CI, manifests, registry, levels, graph, external members, renderers,
   libraries), and the proofs of eleven modules.
2. Proofs next: the layout of an SDK, whose links and activation are folds over the
   lock's components; the abstract store of item 3, as a refinement.
3. Left to model: formation manifests (`ost-formation/src/formation.rs`), staging
   directories of `ost-core/src/fs.rs`, external-tool contracts, host records; an
   abstract store that the calm store implements.
