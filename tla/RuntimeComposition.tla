------------------------- MODULE RuntimeComposition -------------------------
(***************************************************************************)
(* The commands on composed runtimes (runtime_composition.rs): compose,    *)
(* with a lock file and --locked, reconstruct, export, the consumer        *)
(* manifest and package, and the loader a package carries, which rebuilds  *)
(* the runtime in a cache shared by every process that imports it.         *)
(*                                                                         *)
(* No command takes a lock: each one reads the artifact store, the lock    *)
(* file and the prefixes at several moments, and relies on verifying what  *)
(* it has staged, on staging under a name of its own, and on renames.      *)
(*                                                                         *)
(* One component artifact stands for the inputs.  Its archive is pinned by *)
(* digest and never changes; meta is what the store may come to hold for   *)
(* it anew, its producer manifest and evidence.  A composition lock is     *)
(* [request, meta, sdk]: the composition manifest it resolves, the         *)
(* metadata it records, and whether it describes an SDK.  A prefix holds a *)
(* lock, the metadata retained beside it, and whether its files were       *)
(* touched since.                                                          *)
(***************************************************************************)
EXTENDS Naturals, FiniteSets, TLC

CONSTANTS
    Procs,          \* ost processes and programs that load a package
    Requests,       \* contents of the composition manifest
    Metas,          \* metadata the store or a source may hold for the input
    Dests,          \* output directories
    Input,          \* the component artifact's entry in the store's index
    NONE,           \* nothing there
    Torn,           \* a file whose write was cut short
    MaxCommands,    \* bound on the commands started
    MaxFaults       \* bound on crashes and changes made from outside

Locks == [request : Requests, meta : Metas, sdk : BOOLEAN]
Prefixes == [lock : Locks, meta : Metas, edited : BOOLEAN]
Manifests == [artifact : Locks, identity : Locks]
Packages == [manifest : Manifests, artifact : Locks, whole : BOOLEAN]
Listable == Locks \cup {Input}
Maybe(S) == S \cup {NONE}

ASSUME NoneAssumption == NONE \notin Metas \cup Locks \cup Prefixes \cup Manifests \cup Packages
ASSUME InputAssumption == Input \notin Locks
ASSUME TornAssumption == Torn \notin Locks \cup {NONE}

VARIABLES
    request,    \* the composition manifest file
    source,     \* the metadata at the input's pinned source, or NONE
    input,      \* the input artifact in the store: [held, intact, meta]
    lockFile,   \* NONE, Torn or a lock
    prefix,     \* destination -> NONE or a prefix
    composed,   \* lock -> NONE or the contents of the artifact exported from it
    manifest,   \* the consumer manifest file, or NONE
    package,    \* the assembled package: NONE or [manifest, artifact, whole]
    cache,      \* runtime identity -> NONE or a prefix
    bindings,   \* the consumer manifests with a binding file in the cache
    verified,   \* history: the consumer manifests consumer-verify has passed
    index,      \* the store's index: what of it a command can resolve
    dropped,    \* history: the entries lost to an overlapping write of the index
    proc,       \* process -> what it is doing
    commands,
    faults

vars == <<request, source, input, lockFile, prefix, composed, manifest,
          package, cache, bindings, verified, index, dropped, proc, commands, faults>>
files == <<request, source, input, lockFile, prefix, composed, manifest,
           package, cache, bindings, verified, index, dropped>>

(* RuntimeCompositionLock::identity leaves out the producer manifest and   *)
(* the evidence: two locks of one identity may record different ones.      *)
RuntimeDigest(lock) == [request |-> lock.request, sdk |-> lock.sdk]
Digests == {RuntimeDigest(l) : l \in Locks}

(* verify_prefix: the retained metadata is the one the lock records, every *)
(* file is in the inventory, as recorded, and none is missing.             *)
Verifies(p) == p # NONE /\ p.meta = p.lock.meta /\ ~p.edited

(* A prefix as its lock describes it.                                      *)
Fresh(l) == [lock |-> l, meta |-> l.meta, edited |-> FALSE]

(* What a process is doing: a step and what the command remembers at it.   *)
Idle == [pc |-> "idle"]
States ==
    {Idle}
    \cup [pc : {"build", "lock"}, request : Requests, expected : Maybe(Locks), dest : Dests, save : BOOLEAN]
    \cup [pc : {"pulled"}, request : Requests, expected : Maybe(Locks), dest : Dests,
          save : BOOLEAN, seen : SUBSET Listable]
    \cup [pc : {"stage"}, lock : Locks, expected : Maybe(Locks), dest : Dests, save : BOOLEAN]
    \cup [pc : {"publish"}, lock : Locks, expected : Maybe(Locks), dest : Dests, save : BOOLEAN,
          staged : Prefixes]
    \cup [pc : {"save", "saving"}, lock : Locks]
    \cup [pc : {"pack"}, lock : Locks, dest : Dests]
    \cup [pc : {"packed"}, lock : Locks, seen : SUBSET Listable]
    \cup [pc : {"embed", "failed"}, manifest : Manifests]
    \cup [pc : {"imported"}, manifest : Manifests, verify : BOOLEAN, artifact : Locks,
          seen : SUBSET Listable]
    \cup [pc : {"import", "verify", "rebuild", "observe"}, manifest : Manifests, verify : BOOLEAN]
    \cup [pc : {"rename"}, manifest : Manifests, verify : BOOLEAN, staged : Prefixes]
    \cup [pc : {"active"}, manifest : Manifests, loaded : Prefixes]

Set(p, state) == proc' = [proc EXCEPT ![p] = state]
Begin(p, state) ==
    /\ proc[p] = Idle
    /\ commands < MaxCommands
    /\ commands' = commands + 1
    /\ Set(p, state)
At(p, pc) == proc[p].pc = pc
Me(p) == proc[p]

(* An error ends a command; its staging directory goes with it.            *)
Fail(p) == Set(p, Idle) /\ UNCHANGED <<files, commands, faults>>

(* index_upsert: an import that has its object in place writes the index   *)
(* it has read back with its own entry.  Nothing locks the index: what     *)
(* another import listed meanwhile is lost, its object stays.              *)
Upsert(seen, entry) ==
    /\ index' = seen \cup {entry}
    /\ dropped' = dropped \cup (index \ (seen \cup {entry}))

-----------------------------------------------------------------------------
(* compose and reconstruct.                                                *)

(* A job: the manifest read, the lock to reproduce (NONE without --locked),*)
(* the destination and whether the lock file is written at the end.        *)
Job(r, expected, dest, save) ==
    [pc |-> "build", request |-> r, expected |-> expected, dest |-> dest, save |-> save]

Compose(p, d) ==
    /\ Begin(p, Job(request, NONE, d, TRUE))
    /\ UNCHANGED <<files, faults>>
(* --locked: the lock must be readable and be of this manifest.            *)
ComposeLocked(p, d) ==
    /\ lockFile \in Locks
    /\ lockFile.request = request
    /\ Begin(p, Job(request, lockFile, d, FALSE))
    /\ UNCHANGED <<files, faults>>
Reconstruct(p, d) ==
    /\ lockFile \in Locks
    /\ Begin(p, Job(lockFile.request, lockFile, d, FALSE))
    /\ UNCHANGED <<files, faults>>

(* fetch_inputs: an input that is not listed is pulled from its source and *)
(* imported (over an object that lost its entry, which may keep its own    *)
(* metadata); a listed one is compared with its source unless a lock is    *)
(* reproduced.                                                             *)
Pulled ==
    IF input.held THEN {input, [input EXCEPT !.meta = source]}
    ELSE {[held |-> TRUE, intact |-> TRUE, meta |-> source]}

Pull(p) ==
    /\ At(p, "build")
    /\ Input \notin index /\ source # NONE
    /\ input' \in Pulled
    /\ Set(p, [pc |-> "pulled", request |-> Me(p).request, expected |-> Me(p).expected,
               dest |-> Me(p).dest, save |-> Me(p).save, seen |-> index])
    /\ UNCHANGED <<request, source, lockFile, prefix, composed, manifest, package,
                   cache, bindings, verified, index, dropped, commands, faults>>
ListPulled(p) ==
    /\ At(p, "pulled")
    /\ Upsert(Me(p).seen, Input)
    /\ Set(p, [Job(Me(p).request, Me(p).expected, Me(p).dest, Me(p).save) EXCEPT !.pc = "lock"])
    /\ UNCHANGED <<request, source, input, lockFile, prefix, composed, manifest,
                   package, cache, bindings, verified, commands, faults>>

SourceAgrees(p) == Me(p).expected # NONE \/ source \in {NONE, input.meta}

BuiltLock(p) ==
    [request |-> Me(p).request, meta |-> input.meta,
     sdk |-> Me(p).expected = NONE \/ Me(p).expected.sdk]

(* Mutant: --locked does not compare what was built with the lock.         *)
SameLockUnchecked(p) == TRUE

(* require_same_lock *)
SameLock(p) == Me(p).expected = NONE \/ BuiltLock(p) = Me(p).expected

(* build_lock: the input is resolved through the index and verified, the   *)
(* lock is computed from what the store holds now.                         *)
InputResolves == Input \in index /\ input.held /\ input.intact
CanLock(p) ==
    /\ InputResolves
    /\ At(p, "build") => SourceAgrees(p)
    /\ SameLock(p)
BuildLock(p) ==
    /\ At(p, "build") \/ At(p, "lock")
    /\ CanLock(p)
    /\ Set(p, [pc |-> "stage", lock |-> BuiltLock(p), expected |-> Me(p).expected,
               dest |-> Me(p).dest, save |-> Me(p).save])
    /\ UNCHANGED <<files, commands, faults>>
BuildLockFails(p) ==
    /\ At(p, "build") \/ At(p, "lock")
    /\ At(p, "build") => Input \in index \/ source = NONE
    /\ ~CanLock(p)
    /\ Fail(p)

(* materialize: the store is read a second time for what is staged, and    *)
(* the staged prefix is verified against the lock.                         *)
Staged(p) == [lock |-> Me(p).lock, meta |-> input.meta, edited |-> FALSE]
CanStage(p) ==
    /\ prefix[Me(p).dest] = NONE
    /\ InputResolves

Publishing(l, expected, d, save, staged) ==
    [pc |-> "publish", lock |-> l, expected |-> expected, dest |-> d, save |-> save,
     staged |-> staged]

Stage(p) ==
    /\ At(p, "stage")
    /\ CanStage(p)
    /\ Verifies(Staged(p))
    /\ Set(p, Publishing(Me(p).lock, Me(p).expected, Me(p).dest, Me(p).save, Staged(p)))
    /\ UNCHANGED <<files, commands, faults>>
StageFails(p) ==
    /\ At(p, "stage")
    /\ ~(CanStage(p) /\ Verifies(Staged(p)))
    /\ Fail(p)

(* verified_composed_artifact: the artifact is resolved through the index, *)
(* intact, and what its identity says.                                     *)
Stored(l) == l \in index /\ Verifies(composed[l]) /\ composed[l].lock = l

(* reconstruct --from-artifact extracts it into the staging directory.     *)
ReconstructArtifact(p, d, l) ==
    /\ Stored(l)
    /\ prefix[d] = NONE
    /\ Begin(p, Publishing(l, l, d, FALSE, composed[l]))
    /\ UNCHANGED <<files, faults>>

(* publish: a destination that exists by now is not replaced.              *)
Publish(p) ==
    /\ At(p, "publish")
    /\ prefix[Me(p).dest] = NONE
    /\ prefix' = [prefix EXCEPT ![Me(p).dest] = Me(p).staged]
    /\ Set(p, IF Me(p).save THEN [pc |-> "save", lock |-> Me(p).lock] ELSE Idle)
    /\ UNCHANGED <<request, source, input, lockFile, composed, manifest,
                   package, cache, bindings, verified, index, dropped,
                   commands, faults>>
PublishFails(p) == At(p, "publish") /\ prefix[Me(p).dest] # NONE /\ Fail(p)

(* The lock file is written in place, after the prefix is published.       *)
SaveLock(p) ==
    /\ At(p, "save")
    /\ lockFile' = Torn
    /\ Set(p, [Me(p) EXCEPT !.pc = "saving"])
    /\ UNCHANGED <<request, source, input, prefix, composed, manifest,
                   package, cache, bindings, verified, index, dropped,
                   commands, faults>>
LockSaved(p) ==
    /\ At(p, "saving")
    /\ lockFile' = Me(p).lock
    /\ Set(p, Idle)
    /\ UNCHANGED <<request, source, input, prefix, composed, manifest,
                   package, cache, bindings, verified, index, dropped,
                   commands, faults>>

-----------------------------------------------------------------------------
(* export: the prefix is verified, packed, and what was packed is          *)
(* extracted, verified and compared before it is imported.                 *)

Export(p, d) ==
    /\ Verifies(prefix[d])
    /\ Begin(p, [pc |-> "pack", lock |-> prefix[d].lock, dest |-> d])
    /\ UNCHANGED <<files, faults>>

(* An import of an archive the store already has keeps the stored one.     *)
Imported(l, contents) == IF composed[l] = NONE THEN contents ELSE composed[l]

PackedIsRight(p) ==
    /\ Verifies(prefix[Me(p).dest])
    /\ prefix[Me(p).dest].lock = Me(p).lock
Pack(p) ==
    /\ At(p, "pack")
    /\ PackedIsRight(p)
    /\ composed' = [composed EXCEPT ![Me(p).lock] = Imported(Me(p).lock, prefix[Me(p).dest])]
    /\ Set(p, [pc |-> "packed", lock |-> Me(p).lock, seen |-> index])
    /\ UNCHANGED <<request, source, input, lockFile, prefix, manifest,
                   package, cache, bindings, verified, index, dropped,
                   commands, faults>>
ListPacked(p) ==
    /\ At(p, "packed")
    /\ Upsert(Me(p).seen, Me(p).lock)
    /\ Set(p, Idle)
    /\ UNCHANGED <<request, source, input, lockFile, prefix, composed, manifest,
                   package, cache, bindings, verified, commands, faults>>
PackFails(p) == At(p, "pack") /\ ~PackedIsRight(p) /\ Fail(p)

-----------------------------------------------------------------------------
(* Consumer manifests and packages.                                        *)

(* consumer_verify: the artifact is intact, has an SDK, and its identity,  *)
(* evidence included, is the one the manifest was derived from.            *)
ConsumerVerifies(m) ==
    /\ m \in Manifests
    /\ Stored(m.artifact)
    /\ m.artifact.sdk
    /\ m.identity = m.artifact

ConsumerManifest(p, l) ==
    /\ proc[p] = Idle /\ commands < MaxCommands
    /\ Stored(l) /\ l.sdk
    /\ manifest' = [artifact |-> l, identity |-> l]
    /\ commands' = commands + 1
    /\ UNCHANGED <<request, source, input, lockFile, prefix, composed,
                   package, cache, bindings, verified, index, dropped, proc,
                   faults>>

ConsumerPackage(p) ==
    /\ ConsumerVerifies(manifest)
    /\ Begin(p, [pc |-> "embed", manifest |-> manifest])
    /\ UNCHANGED <<files, faults>>
(* The manifest file is read again and the store's object copied, neither  *)
(* of them the one that was verified; an existing package is not replaced. *)
Embed(p) ==
    /\ At(p, "embed")
    /\ package = NONE /\ composed[Me(p).manifest.artifact] # NONE
    /\ package' = [manifest |-> manifest, artifact |-> Me(p).manifest.artifact,
                   whole |-> ~composed[Me(p).manifest.artifact].edited]
    /\ Set(p, Idle)
    /\ UNCHANGED <<request, source, input, lockFile, prefix, composed,
                   manifest, cache, bindings, verified, index, dropped,
                   commands, faults>>
EmbedFails(p) ==
    /\ At(p, "embed")
    /\ package # NONE \/ composed[Me(p).manifest.artifact] = NONE
    /\ Fail(p)

-----------------------------------------------------------------------------
(* The loader in a package: activate(), in the Python and npm packages.    *)

Identity(m) == RuntimeDigest(m.identity)

(* Mutant: a cached prefix is enough.                                      *)
MustVerifyPrefix(m) == cache[Identity(m)] = NONE

(* A prefix in the cache and a binding file for this artifact spare the    *)
(* verification of the embedded artifact.                                  *)
MustVerify(m) == cache[Identity(m)] = NONE \/ m \notin bindings

Activate(p) ==
    /\ package # NONE
    /\ LET m == package.manifest IN
       Begin(p, [pc |-> IF MustVerify(m) THEN "import" ELSE "rebuild",
                 manifest |-> m, verify |-> MustVerify(m)])
    /\ UNCHANGED <<files, faults>>
Raise(p) ==
    /\ Set(p, [pc |-> "failed", manifest |-> Me(p).manifest])
    /\ UNCHANGED <<files, commands, faults>>

(* ost artifact import, of the archive the package embeds.                 *)
LoaderImport(p) ==
    /\ At(p, "import")
    /\ package.whole
    /\ LET l == package.artifact IN
       composed' = [composed EXCEPT ![l] = Imported(l, Fresh(l))]
    /\ Set(p, [pc |-> "imported", manifest |-> Me(p).manifest, verify |-> Me(p).verify,
               artifact |-> package.artifact, seen |-> index])
    /\ UNCHANGED <<request, source, input, lockFile, prefix, manifest,
                   package, cache, bindings, verified, index, dropped,
                   commands, faults>>
LoaderList(p) ==
    /\ At(p, "imported")
    /\ Upsert(Me(p).seen, Me(p).artifact)
    /\ Set(p, [pc |-> "verify", manifest |-> Me(p).manifest, verify |-> Me(p).verify])
    /\ UNCHANGED <<request, source, input, lockFile, prefix, composed, manifest,
                   package, cache, bindings, verified, commands, faults>>
LoaderImportFails(p) == At(p, "import") /\ ~package.whole /\ Raise(p)

(* ost runtime consumer-verify *)
LoaderVerify(p) ==
    /\ At(p, "verify")
    /\ ConsumerVerifies(Me(p).manifest)
    /\ verified' = verified \cup {Me(p).manifest}
    /\ Set(p, [Me(p) EXCEPT !.pc = "rebuild"])
    /\ UNCHANGED <<request, source, input, lockFile, prefix, composed,
                   manifest, package, cache, bindings, index, dropped,
                   commands, faults>>
LoaderVerifyFails(p) == At(p, "verify") /\ ~ConsumerVerifies(Me(p).manifest) /\ Raise(p)

(* ost runtime reconstruct --from-artifact into a temporary directory,     *)
(* unless the cache has the runtime.                                       *)
LoaderSkipsRebuild(p) ==
    /\ At(p, "rebuild")
    /\ cache[Identity(Me(p).manifest)] # NONE
    /\ Set(p, [Me(p) EXCEPT !.pc = "observe"])
    /\ UNCHANGED <<files, commands, faults>>
LoaderRebuild(p) ==
    /\ At(p, "rebuild")
    /\ cache[Identity(Me(p).manifest)] = NONE
    /\ Stored(Me(p).manifest.artifact)
    /\ Set(p, [pc |-> "rename", manifest |-> Me(p).manifest, verify |-> Me(p).verify,
               staged |-> composed[Me(p).manifest.artifact]])
    /\ UNCHANGED <<files, commands, faults>>
LoaderRebuildFails(p) ==
    /\ At(p, "rebuild")
    /\ cache[Identity(Me(p).manifest)] = NONE
    /\ ~Stored(Me(p).manifest.artifact)
    /\ Raise(p)

Observing(p) ==
    [pc |-> "observe", manifest |-> Me(p).manifest, verify |-> Me(p).verify]

(* The rename loses to a prefix that appeared meanwhile, which is used.    *)
LoaderRename(p) ==
    /\ At(p, "rename")
    /\ cache' = [cache EXCEPT ![Identity(Me(p).manifest)] = IF @ = NONE THEN Me(p).staged ELSE @]
    /\ Set(p, Observing(p))
    /\ UNCHANGED <<request, source, input, lockFile, prefix, composed,
                   manifest, package, bindings, verified, index, dropped,
                   commands, faults>>

(* ost runtime env verifies the prefix and reports its identity; a binding *)
(* is written for an artifact that was verified on the way.                *)
Observed(m) ==
    /\ Verifies(cache[Identity(m)])
    /\ RuntimeDigest(cache[Identity(m)].lock) = Identity(m)
LoaderObserve(p) ==
    /\ At(p, "observe")
    /\ Observed(Me(p).manifest)
    /\ bindings' = IF Me(p).verify THEN bindings \cup {Me(p).manifest} ELSE bindings
    /\ Set(p, [pc |-> "active", manifest |-> Me(p).manifest, loaded |-> cache[Identity(Me(p).manifest)]])
    /\ UNCHANGED <<request, source, input, lockFile, prefix, composed,
                   manifest, package, cache, verified, index, dropped,
                   commands, faults>>
LoaderObserveFails(p) == At(p, "observe") /\ ~Observed(Me(p).manifest) /\ Raise(p)

-----------------------------------------------------------------------------
(* What happens outside these commands.                                    *)

Outside == faults < MaxFaults /\ faults' = faults + 1 /\ UNCHANGED <<proc, commands, verified, bindings, dropped>>

(* The manifest is edited; the store takes other metadata for the archive  *)
(* it has (import with new evidence), loses it, or finds it damaged.       *)
EditRequest ==
    /\ Outside /\ request' \in Requests \ {request}
    /\ UNCHANGED <<source, input, lockFile, prefix, composed, manifest,
                   package, cache, index>>
ReplaceMeta ==
    /\ Outside /\ input.held
    /\ \E m \in Metas \ {input.meta} : input' = [input EXCEPT !.meta = m]
    /\ UNCHANGED <<request, source, lockFile, prefix, composed, manifest,
                   package, cache, index>>
DamageInput ==
    /\ Outside /\ input.held
    /\ \/ input' = [input EXCEPT !.intact = FALSE] /\ UNCHANGED index
       \/ input' = [input EXCEPT !.held = FALSE] /\ index' = index \ {Input}
    /\ UNCHANGED <<request, source, lockFile, prefix, composed, manifest, package, cache>>
(* Files of a prefix, of the cache or of a stored artifact are touched.    *)
EditPrefix ==
    /\ Outside
    /\ \E d \in Dests : prefix[d] # NONE /\ prefix' = [prefix EXCEPT ![d].edited = TRUE]
    /\ UNCHANGED <<request, source, input, lockFile, composed, manifest,
                   package, cache, index>>
RemovePrefix ==
    /\ Outside
    /\ \E d \in Dests : prefix[d] # NONE /\ prefix' = [prefix EXCEPT ![d] = NONE]
    /\ UNCHANGED <<request, source, input, lockFile, composed, manifest,
                   package, cache, index>>
EditCache ==
    /\ Outside
    /\ \E i \in Digests : cache[i] # NONE /\ cache' = [cache EXCEPT ![i].edited = TRUE]
    /\ UNCHANGED <<request, source, input, lockFile, prefix, composed,
                   manifest, package, index>>
DamageComposed ==
    /\ Outside
    /\ \E l \in Locks : composed[l] # NONE /\ composed' = [composed EXCEPT ![l].edited = TRUE]
    /\ UNCHANGED <<request, source, input, lockFile, prefix, manifest,
                   package, cache, index>>
(* The consumer manifest is edited to name another runtime.                *)
EditManifest ==
    /\ Outside /\ manifest # NONE
    /\ \E l \in Locks : l.sdk /\ l # manifest.identity /\ manifest' = [manifest EXCEPT !.identity = l]
    /\ UNCHANGED <<request, source, input, lockFile, prefix, composed,
                   package, cache, index>>

(* Another package of the same name is installed in its place.             *)
Packaged(l) == [manifest |-> [artifact |-> l, identity |-> l], artifact |-> l, whole |-> TRUE]
InstallPackage ==
    /\ Outside /\ package # NONE
    /\ \E l \in Locks : l.sdk /\ package' = Packaged(l)
    /\ UNCHANGED <<request, source, input, lockFile, prefix, composed,
                   manifest, cache, index>>

(* A process dies; a lock file it was writing stays torn.                  *)
Crash(p) ==
    /\ proc[p] # Idle
    /\ faults < MaxFaults
    /\ faults' = faults + 1
    /\ Set(p, Idle)
    /\ UNCHANGED <<files, commands>>

-----------------------------------------------------------------------------
(* A composition manifest is there; a lock file may be, made by a version  *)
(* that knew no SDK, and the store may hold the input or not.  A consumer   *)
(* manifest may be there with its artifact in the store, or a package of   *)
(* it installed on a machine whose store does not have the artifact.       *)
Init ==
    /\ request \in Requests
    /\ source \in Metas \cup {NONE}
    /\ input \in [held : BOOLEAN, intact : {TRUE}, meta : Metas]
    /\ lockFile \in {NONE} \cup [request : {request}, meta : {input.meta}, sdk : {FALSE}]
    /\ prefix = [d \in Dests |-> NONE]
    /\ \E l \in [request : {request}, meta : Metas, sdk : {TRUE}] :
        \/ package = NONE /\ manifest = NONE /\ composed = [k \in Locks |-> NONE]
        \/ /\ package \in {NONE, Packaged(l)}
           /\ manifest = Packaged(l).manifest
           /\ composed = [k \in Locks |-> IF k = l /\ package = NONE THEN Fresh(l) ELSE NONE]
    /\ cache = [i \in Digests |-> NONE]
    /\ bindings = {}
    /\ verified = {}
    /\ index = {l \in Locks : composed[l] # NONE} \cup (IF input.held THEN {Input} ELSE {})
    /\ dropped = {}
    /\ proc = [p \in Procs |-> Idle]
    /\ commands = 0
    /\ faults = 0

Composing(p) ==
    \/ \E d \in Dests : Compose(p, d) \/ ComposeLocked(p, d) \/ Reconstruct(p, d)
    \/ Pull(p) \/ ListPulled(p)
    \/ BuildLock(p) \/ BuildLockFails(p)
    \/ Stage(p) \/ StageFails(p)
    \/ \E d \in Dests, l \in Locks : ReconstructArtifact(p, d, l)
    \/ Publish(p) \/ PublishFails(p)
    \/ SaveLock(p) \/ LockSaved(p)
Exporting(p) ==
    \/ \E d \in Dests : Export(p, d)
    \/ Pack(p) \/ ListPacked(p) \/ PackFails(p)
Consuming(p) ==
    \/ \E l \in Locks : ConsumerManifest(p, l)
    \/ ConsumerPackage(p) \/ Embed(p) \/ EmbedFails(p)
Loading(p) ==
    \/ Activate(p)
    \/ LoaderImport(p) \/ LoaderList(p) \/ LoaderImportFails(p)
    \/ LoaderVerify(p) \/ LoaderVerifyFails(p)
    \/ LoaderSkipsRebuild(p) \/ LoaderRebuild(p) \/ LoaderRebuildFails(p)
    \/ LoaderRename(p)
    \/ LoaderObserve(p) \/ LoaderObserveFails(p)
Disturbing ==
    \/ EditRequest \/ ReplaceMeta \/ DamageInput
    \/ EditPrefix \/ RemovePrefix \/ EditCache \/ DamageComposed
    \/ EditManifest \/ InstallPackage

Next ==
    \/ \E p \in Procs : Composing(p) \/ Exporting(p) \/ Consuming(p) \/ Loading(p) \/ Crash(p)
    \/ Disturbing

Spec == Init /\ [][Next]_vars

(* Processes are interchangeable.                                          *)
Symmetry == Permutations(Procs)

-----------------------------------------------------------------------------
TypeOK ==
    /\ request \in Requests
    /\ source \in Maybe(Metas)
    /\ input \in [held : BOOLEAN, intact : BOOLEAN, meta : Metas]
    /\ lockFile \in Locks \cup {NONE, Torn}
    /\ prefix \in [Dests -> Maybe(Prefixes)]
    /\ composed \in [Locks -> Maybe(Prefixes)]
    /\ manifest \in Maybe(Manifests)
    /\ package \in Maybe(Packages)
    /\ cache \in [Digests -> Maybe(Prefixes)]
    /\ bindings \subseteq Manifests
    /\ verified \subseteq Manifests
    /\ index \subseteq Listable /\ dropped \subseteq Listable
    /\ proc \in [Procs -> States]
    /\ commands \in Nat /\ faults \in Nat

(* A prefix nobody has touched verifies: it retains the metadata its lock  *)
(* records, although the lock was computed from one reading of the store   *)
(* and the prefix staged from a later one (materialize).                   *)
UntouchedVerifies ==
    \A d \in Dests : (prefix[d] # NONE /\ ~prefix[d].edited) => Verifies(prefix[d])

(* What --locked, reconstruct and reconstruct --from-artifact publish is   *)
(* what was locked: the same request and metadata, not those the manifest  *)
(* file, the source or the store have come to hold.                        *)
LockedIsReproduced ==
    [][\A d \in Dests : prefix'[d] # NONE /\ prefix[d] = NONE =>
        \A p \in Procs : (At(p, "publish") /\ proc'[p] # proc[p] /\ Me(p).expected # NONE) =>
            /\ prefix'[d].lock = Me(p).expected
            /\ prefix'[d].meta = Me(p).expected.meta]_vars

(* A published prefix is not replaced: two commands with one destination,  *)
(* both past their first check that it is free, leave the first result.    *)
PublishedIsNotReplaced ==
    [][\A d \in Dests : prefix[d] # NONE =>
        prefix'[d] \in {prefix[d], [prefix[d] EXCEPT !.edited = TRUE], NONE}]_vars

(* An exported artifact holds what its identity says, although the prefix  *)
(* may change between its verification and its packing (export).           *)
ExportedIsVerified ==
    \A l \in Locks : composed[l] # NONE => composed[l].lock = l /\ composed[l].meta = l.meta
        /\ (composed[l].edited => faults > 0)

(* A program that activated a package runs the runtime its manifest names, *)
(* rebuilt and verified whole when it was loaded, and its manifest was     *)
(* found true of the artifact on this machine, by this activation or an    *)
(* earlier one that left a binding, whatever became of the manifest, the   *)
(* store and the cache meanwhile.                                          *)
ActiveIsVerified ==
    \A p \in Procs : At(p, "active") =>
        /\ Me(p).manifest \in verified
        /\ Verifies(Me(p).loaded)
        /\ RuntimeDigest(Me(p).loaded.lock) = Identity(Me(p).manifest)

(* Processes that activate a package at the same time make each other fail *)
(* in one way only: without a change from outside, an activation raises    *)
(* over an entry that an overlapping write of the index lost.              *)
RaceLosesEntriesOnly ==
    faults = 0 => \A p \in Procs : At(p, "failed") => Me(p).manifest.artifact \in dropped

-----------------------------------------------------------------------------
(* A composed runtime that nobody touched verifies, what is exported or    *)
(* activated is what its lock or manifest names, and programs that         *)
(* activate it at once fail each other only through the store's index.     *)
CompositionIsVerified ==
    /\ TypeOK
    /\ UntouchedVerifies
    /\ ExportedIsVerified
    /\ ActiveIsVerified
    /\ RaceLosesEntriesOnly

(* What is rebuilt from a lock is what was locked, and no command replaces *)
(* a prefix that another one has published.                                *)
CompositionStays ==
    /\ LockedIsReproduced
    /\ PublishedIsNotReplaced
=============================================================================
