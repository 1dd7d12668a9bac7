------------------------------- MODULE Runtime -------------------------------
(* One managed runtime of the store: `ost runtime pull`, `validate`,          *)
(* `repair` and `export` over a prefix that holds the OpenUSD tree, the       *)
(* dependency ledgers of build_usd.py and the runtime manifest.  No command   *)
(* takes a lock, every manifest is written in place, and a command that is    *)
(* refused before its first write changes nothing and is not a step.          *)
EXTENDS OpenUsd

CONSTANTS
    Procs,       \* concurrent ost processes
    Versions,    \* OpenUSD versions a source tree or an install may report
    Catalog,     \* the version the extension catalog declares
    Deps,        \* third-party dependencies build_usd.py downloads
    Keys,        \* distinct build_usd.py command lines (argv, environment)
    Variant,     \* the OpenUSD variant of the platform's declared cell
    Requests,    \* the builds asked for: [ver, key, git, host]
    Sources,     \* the pull sources that are tried
    MaxCommands, \* bound: commands started
    MaxFaults,  \* bound: processes killed and trees changed by hand
    Torn, Empty  \* a truncated manifest, an empty staging directory

ASSUME RuntimeAssumption ==
    /\ \A v \in Versions \cup {Catalog} : v \in Seq(Nat)
    /\ \E v \in Versions : SameRelease(v, Catalog)
    /\ Requests \subseteq [ver : Versions, key : Keys, git : BOOLEAN, host : BOOLEAN]
    /\ Variant \in Variants
    /\ NONE \notin {"passed", "failed"}
    /\ MaxCommands \in Nat /\ MaxFaults \in Nat

VARIABLES
    manifest,    \* manifest.json of the prefix: NONE, Torn or a record
    prefix,      \* the tree in the prefix
    ledger,      \* key -> the dependency names the capture file holds
    external,    \* the developer's own OpenUSD install
    staging,     \* cache/runtime-export/<id>: NONE, Empty or an artifact
    registry,    \* the artifacts published from this runtime
    pc, local,   \* per process: the step it is at, and what it carries
    commands, faults,
    calm,        \* history: no two commands have ever overlapped
    rendered     \* history: a render passed since the last pull or repair

vars == <<manifest, prefix, ledger, external, staging, registry, pc, local,
          commands, faults, calm, rendered>>

(***************************************************************************)
(* Trees and manifests.  `sound` is what ost_runtime::validate and the     *)
(* consumer checks find in the files; `keys` and `finished` remember which *)
(* command lines built into a tree and how many script runs completed.     *)
(***************************************************************************)
NoTree == [usd |-> NONE, deps |-> {}, sound |-> FALSE, keys |-> {}, finished |-> 0]
LooksLikeUsd(tree) == tree.usd # NONE

NoGraphics == [loader |-> NONE, device |-> NONE, render |-> NONE]

(* The fields the identity digest covers; validation, source, external     *)
(* prefix and artifact digest are left out of it.                          *)
Identity(m) == <<m.ver, m.host, m.compat, m.gfx, m.src, m.deps>>
WithDigest(m) == [m EXCEPT !.digest = Identity(m)]

NewManifest(source, ver) ==
    WithDigest([source |-> source, ver |-> ver, host |-> FALSE, compat |-> NONE,
                gfx |-> NoGraphics, src |-> NONE, deps |-> {}, linked |-> FALSE,
                validation |-> "pending", artifact |-> FALSE, digest |-> <<>>])

SetHostRequirements(m, host) == WithDigest([m EXCEPT !.host = host])
SetCompatibility(m, compat) == WithDigest([m EXCEPT !.compat = compat])
SetVerification(m, gfx) == WithDigest([m EXCEPT !.gfx = gfx])
SetBuildIdentities(m, src, deps) == WithDigest([m EXCEPT !.src = src, !.deps = deps])

Real(m) == m.source # "mock"
EffectiveTree(m) == IF m.source = "local" THEN external ELSE prefix

(* The header's version replaces the catalog's unless both name a release. *)
Stamp(tree) == IF SameRelease(tree.usd, Catalog) THEN Catalog ELSE tree.usd
Drift(m, tree) == tree.usd # NONE /\ ~SameRelease(tree.usd, m.ver)

Readable == manifest \notin {NONE, Torn}

(***************************************************************************)
(* Validation.                                                             *)
(***************************************************************************)
(* The files of a real runtime: layout, usdcat, pxr, tool modes, schema    *)
(* generator modules, imaging SDK.                                         *)
RealChecks(tree) == LooksLikeUsd(tree) /\ tree.sound
ManifestChecks(m, tree) == m.digest = Identity(m) /\ (Real(m) => RealChecks(tree))

(* A scratch project: a timeout or a host that cannot run it is no answer. *)
Scratch == {"passed", "failed", "no answer"}

(* A failed consumer configure counts only where a trivial project works.  *)
ConsumerConfigure(c) ==
    CASE ~c.config \/ ~c.cmake \/ c.consumer = "no answer" -> "skip"
      [] c.consumer = "passed" -> "pass"
      [] c.toolchain = "passed" -> "fail"
      [] OTHER -> "skip"

(* Configure, build and run a linked consumer; the first failure decides.  *)
ConsumerLink(c) ==
    CASE ~c.ctest \/ c.relink = "no answer" -> "skip"
      [] c.relink = "failed" -> "fail"
      [] c.build # "passed" -> IF c.build = "failed" THEN "fail" ELSE "skip"
      [] c.test # "passed" -> IF c.test = "failed" THEN "fail" ELSE "skip"
      [] OTHER -> "pass"

ConsumerFacts ==
    [config : BOOLEAN, cmake : BOOLEAN, ctest : BOOLEAN, consumer : Scratch,
     toolchain : Scratch, relink : Scratch, build : Scratch, test : Scratch]

ConsumerVerdicts ==
    {ConsumerConfigure(c) # "fail" /\ (ConsumerConfigure(c) = "pass" => ConsumerLink(c) # "fail")
        : c \in ConsumerFacts}

Unobserved == [loader |-> NONE, device |-> NONE, render |-> NONE, ok |-> TRUE]
CellObservations == {Observe(Variant, h) : h \in GraphicsHosts}

(* Graphics is probed for a classified runtime, and rendered with the      *)
(* usdrecord of its tree.                                                  *)
Observations(m, tree) ==
    IF m.compat = NONE THEN {Unobserved}
    ELSE {o \in CellObservations : LooksLikeUsd(tree) \/ o.render = NONE}

(* current_validation_report; consumer checks are for real runtimes only.  *)
ReportPasses(m, tree, obs, consumer) ==
    /\ ManifestChecks(m, tree)
    /\ ~Drift(m, tree)
    /\ Real(m) => consumer
    /\ obs.ok

PersistObservationsAnyway(m, obs) ==
    SetVerification(m, [loader |-> obs.loader, device |-> obs.device, render |-> obs.render])

(* Only a status that was observed replaces a recorded one, and never the  *)
(* claims of an artifact's producer.                                       *)
PersistObservations(m, obs) ==
    LET keep(new, old) == IF new = NONE THEN old ELSE new IN
    IF m.source = "artifact" THEN m
    ELSE SetVerification(m, [loader |-> keep(obs.loader, m.gfx.loader),
                             device |-> keep(obs.device, m.gfx.device),
                             render |-> keep(obs.render, m.gfx.render)])

RequiresGraphics(m) == m.compat # NONE /\ VerifierApis(Variant, {}) # {}

CheckExportable(m) ==
    /\ Real(m) /\ ~m.linked /\ m.validation = "passed"
    /\ RequiresGraphics(m) =>
           m.gfx.loader = "passed" /\ m.gfx.device = "passed" /\ m.gfx.render = "passed"

(* Captured identities win over supplied metadata; explicit metadata that  *)
(* names another source or closure is refused, and a captured closure with *)
(* no source needs explicit metadata.                                      *)
BuildMetadataAccepted(m, supplied) ==
    \/ m.src = NONE /\ m.deps = {}
    \/ /\ m.src = NONE => supplied # "absent"
       /\ supplied # "other"

(***************************************************************************)
(* The plans an accepted `--build` may end with.                           *)
(***************************************************************************)
Selections == {ResolveBuild(f) : f \in BuildFacts} \ {Refused}
ViewedSelections ==
    {RequireProfileViewer(s, viewer, disabled) : s \in Selections, viewer \in BOOLEAN,
                                                 disabled \in BOOLEAN} \ {Refused}

Series(op, v) == [op |-> op, base |-> v]
PrepareFacts ==
    [os : Oses, family : {"gcc", "msvc", "apple-clang"}, pythons : {{}, {<<3, 13>>}, {<<3, 11>>}},
     python : {Series("", <<3, 13>>)}, pairs : {{}, {<<<<14>>, <<14>>>>}, {<<<<14>>, <<13>>>>}},
     tools : {NONE, <<14, 44>>}, clang : {NONE, <<17>>},
     compiler : {Series(">=", <<14>>), Series(">=", <<19, 44>>)},
     tbb : {Series("", <<2022>>), Series("", <<2020>>)}, noOneTbb : BOOLEAN]

Prepared == {Prepare(s, g) : s \in ViewedSelections, g \in PrepareFacts} \ {Refused}
Plans == {[planned |-> s.status = "planned", script |-> s.builder = "script"] : s \in Prepared}

FinalizeFacts ==
    [os : Oses, family : {"glibc", "msvc-runtime", "libcxx"}, measured : {NONE, <<2, 28>>, <<2, 40>>},
     floor : {Series("", <<2, 28>>), Series(">=", <<14, 30>>)}, compiler : {<<19, 44>>},
     sdk : {NONE, <<15>>}, sdkConstraint : {Series("", <<15>>)}, deployment : {<<2, 28>>}]

TbbSeries == Series("", <<2022>>)
Finalizes(planned, produced) ==
    {Finalize(planned, produced, tbb, TbbSeries, h) : tbb \in {NONE, <<2022, 1, 0>>}, h \in FinalizeFacts}

(* Whether the finished tree is accepted when its version is as planned.   *)
FinalizeVerdicts == Finalizes(<<26, 5>>, <<26, 5>>)

-----------------------------------------------------------------------------
Idle == [cmd |-> NONE]

(* An artifact another host published and this one pulled from a registry. *)
Downloaded ==
    [tree |-> [NoTree EXCEPT !.usd = CHOOSE v \in Versions : SameRelease(v, Catalog), !.sound = TRUE],
     m |-> [WithDigest([NewManifest("build", Catalog) EXCEPT !.host = TRUE, !.compat = CHOOSE v \in Versions : SameRelease(v, Catalog),
                !.gfx = [loader |-> "passed", device |-> "passed", render |-> "passed"]])
            EXCEPT !.validation = "passed"]]

Init ==
    /\ manifest = NONE /\ prefix = NoTree /\ ledger = [k \in Keys |-> {}]
    /\ external = Downloaded.tree
    /\ staging = NONE /\ registry \in {{}, {Downloaded}}
    /\ pc = [p \in Procs |-> "idle"] /\ local = [p \in Procs |-> Idle]
    /\ commands = 0 /\ faults = 0 /\ calm = TRUE
    /\ rendered = FALSE

Begin(p, step, carried) ==
    /\ pc[p] = "idle" /\ commands < MaxCommands
    /\ commands' = commands + 1
    /\ calm' = (calm /\ \A q \in Procs : pc[q] = "idle")
    /\ pc' = [pc EXCEPT ![p] = step]
    /\ local' = [local EXCEPT ![p] = carried]

Goto(p, step) == pc' = [pc EXCEPT ![p] = step] /\ UNCHANGED <<commands, calm>>
Return(p) == Goto(p, "idle") /\ local' = [local EXCEPT ![p] = Idle]
ToWrite(p, m) == Goto(p, "write") /\ local' = [local EXCEPT ![p] = [cmd |-> @.cmd, m |-> m]]

Disk == <<manifest, prefix, ledger>>
Beyond == <<external, staging, registry, faults, rendered>>

(* Nothing to pull over, or --force.                                       *)
MayPull(force) == manifest = NONE \/ force

(***************************************************************************)
(* pull --build                                                            *)
(***************************************************************************)
(* Selection, viewer check and preparation come before the first delete.   *)
PullBuild(p) ==
    \E force \in BOOLEAN, plan \in Plans, req \in Requests :
        /\ "build" \in Sources /\ MayPull(force)
        /\ Begin(p, IF force THEN "reset" ELSE "building",
                 [cmd |-> "pull", plan |-> plan, ver |-> req.ver, key |-> req.key, git |-> req.git,
                  host |-> req.host])
        /\ UNCHANGED <<manifest, prefix, ledger, Beyond>>

(* --force removes the prefix, with the manifest and ledgers in it.        *)
ResetManaged(p) ==
    /\ pc[p] = "reset"
    /\ manifest' = NONE /\ prefix' = NoTree /\ ledger' = [k \in Keys |-> {}]
    /\ Goto(p, "building")
    /\ UNCHANGED <<local, Beyond>>

(* remove_dir_all stops half-way: files are gone, the manifest maybe not.  *)
ResetFails(p) ==
    /\ pc[p] = "reset"
    /\ \E gone \in BOOLEAN : manifest' = IF gone THEN NONE ELSE manifest
    /\ prefix' = [prefix EXCEPT !.usd = NONE, !.sound = FALSE]
    /\ Return(p)
    /\ UNCHANGED <<ledger, Beyond>>

(* build_usd.py skips what is installed; the hook records a download and   *)
(* then the dependency is built and installed.                             *)
BuildDependency(p) ==
    /\ pc[p] = "building" /\ local[p].plan.script
    /\ \E d \in Deps \ prefix.deps :
        /\ ledger' = [ledger EXCEPT ![local[p].key] = @ \cup {d}]
        /\ prefix' = [prefix EXCEPT !.deps = @ \cup {d}, !.keys = @ \cup {local[p].key}]
    /\ UNCHANGED <<manifest, pc, local, commands, calm, Beyond>>

BuildFailsForgets(p) ==
    /\ pc[p] = "building"
    /\ ledger' = [ledger EXCEPT ![local[p].key] = {}]
    /\ prefix' = [prefix EXCEPT !.keys = @ \cup {local[p].key}]
    /\ Return(p)
    /\ UNCHANGED <<manifest, Beyond>>

(* The build fails, perhaps after a download or half-way through USD; the  *)
(* ledger is kept.                                                         *)
BuildFails(p) ==
    /\ pc[p] = "building"
    /\ \E new \in SUBSET (Deps \ prefix.deps) :
        /\ Cardinality(new) <= 1 /\ (new # {} => local[p].plan.script)
        /\ ledger' = [ledger EXCEPT ![local[p].key] = @ \cup new]
        /\ \/ prefix' = IF new = {} THEN prefix ELSE [prefix EXCEPT !.keys = @ \cup {local[p].key}]
           \/ /\ local[p].plan.script => Deps \subseteq prefix.deps
              /\ prefix' = [prefix EXCEPT !.usd = local[p].ver, !.sound = FALSE]
    /\ Return(p)
    /\ UNCHANGED <<manifest, Beyond>>

Built(p) == [prefix EXCEPT !.usd = local[p].ver, !.keys = @ \cup {local[p].key}, !.finished = @ + 1]

(* The whole build: the closure is read from this command line's ledger    *)
(* and the ledger removed; the manifest exists in memory only.             *)
BuildFinishes(p) ==
    /\ pc[p] = "building"
    /\ local[p].plan.script => Deps \subseteq prefix.deps /\ "torn" \notin ledger[local[p].key]
    /\ \E sound \in BOOLEAN : prefix' = [Built(p) EXCEPT !.sound = sound]
    /\ LET script == local[p].plan.script
           deps == IF script THEN ledger[local[p].key] ELSE {}
           m == [NewManifest("build", Stamp(Built(p))) EXCEPT !.linked = ~script]
       IN  /\ ledger' = IF script THEN [ledger EXCEPT ![local[p].key] = {}] ELSE ledger
           /\ local' = [local EXCEPT ![p] =
                          [cmd |-> @.cmd, plan |-> @.plan, ver |-> @.ver, host |-> @.host,
                           m |-> SetBuildIdentities(m, IF @.git THEN @.ver ELSE NONE, deps)]]
    /\ Goto(p, "finalize")
    /\ UNCHANGED <<manifest, Beyond>>

(* A line torn by a killed run makes the capture unreadable: the finished  *)
(* build is refused.                                                       *)
CaptureUnreadable(p) ==
    /\ pc[p] = "building" /\ local[p].plan.script
    /\ Deps \subseteq prefix.deps /\ "torn" \in ledger[local[p].key]
    /\ prefix' = [Built(p) EXCEPT !.sound = TRUE, !.finished = prefix.finished]
    /\ Return(p)
    /\ UNCHANGED <<manifest, ledger, Beyond>>

(* A planned cell is checked against the tree before the manifest is       *)
(* written; a refusal leaves a finished tree without one.                  *)
FinalizePasses(p) ==
    /\ pc[p] = "finalize"
    /\ local[p].plan.planned => prefix.usd = local[p].ver /\ TRUE \in FinalizeVerdicts
    /\ LET hosted == SetHostRequirements(local[p].m, local[p].host) IN
       ToWrite(p, IF local[p].plan.planned THEN SetCompatibility(hosted, local[p].ver) ELSE hosted)
    /\ UNCHANGED <<manifest, prefix, ledger, Beyond>>

FinalizeRefuses(p) ==
    /\ pc[p] = "finalize" /\ local[p].plan.planned
    /\ prefix.usd # local[p].ver \/ FALSE \in FinalizeVerdicts
    /\ Return(p)
    /\ UNCHANGED <<manifest, prefix, ledger, Beyond>>

(***************************************************************************)
(* The other sources of pull.                                              *)
(***************************************************************************)
(* Adoption leaves the prefix's own tree; missing schema modules may be    *)
(* installed into the adopted install.                                     *)
Adopt ==
    /\ LooksLikeUsd(external)
    /\ \E sound \in {external.sound, TRUE} : external' = [external EXCEPT !.sound = sound]
    /\ UNCHANGED <<manifest, prefix, ledger, staging, registry, faults, rendered>>

PullAdopt(p) ==
    \E force \in BOOLEAN, host \in {r.host : r \in Requests} :
        /\ "local" \in Sources /\ MayPull(force)
        /\ Begin(p, "write", [cmd |-> "pull",
                 m |-> SetHostRequirements(NewManifest("local", Stamp(external)), host)])
        /\ Adopt

PullMock(p) ==
    \E force \in BOOLEAN, host \in {r.host : r \in Requests} :
        /\ "mock" \in Sources /\ MayPull(force)
        /\ Begin(p, "write", [cmd |-> "pull", m |-> SetHostRequirements(NewManifest("mock", Catalog), host)])
        /\ UNCHANGED <<Disk, Beyond>>

(* A fetched runtime keeps its producer's manifest, claims included.       *)
Fetched(a) == [a.m EXCEPT !.source = "artifact", !.artifact = TRUE]

(* Host packages are checked before the prefix is removed.                 *)
PullArtifact(p) ==
    \E force \in BOOLEAN, a \in registry :
        /\ "artifact" \in Sources /\ MayPull(force)
        /\ Begin(p, "fetch", [cmd |-> "pull", a |-> a])
        /\ UNCHANGED <<Disk, Beyond>>

FetchRemoves(p) ==
    /\ pc[p] = "fetch"
    /\ manifest' = NONE /\ prefix' = NoTree /\ ledger' = [k \in Keys |-> {}]
    /\ Goto(p, "extract") /\ UNCHANGED <<local, Beyond>>

FetchExtracts(p) ==
    /\ pc[p] = "extract"
    /\ prefix' = local[p].a.tree
    /\ LooksLikeUsd(prefix')
    /\ ToWrite(p, Fetched(local[p].a))
    /\ UNCHANGED <<manifest, ledger, Beyond>>

(* Every command ends with the same in-place write: the file is truncated  *)
(* first.  The manifest's directory may be gone by then.                   *)
TruncateManifest(p) ==
    /\ pc[p] = "write"
    /\ manifest' = Torn
    /\ Goto(p, "torn") /\ UNCHANGED <<prefix, ledger, local, Beyond>>

WriteManifest(p) ==
    /\ pc[p] = "torn"
    /\ manifest' = local[p].m
    /\ rendered' = (rendered /\ local[p].cmd = "validate")
    /\ Return(p) /\ UNCHANGED <<prefix, ledger, external, staging, registry, faults>>

(***************************************************************************)
(* validate and repair                                                     *)
(***************************************************************************)
ValidateReads(p) ==
    /\ Readable
    /\ Begin(p, "check", [cmd |-> "validate", m |-> manifest])
    /\ UNCHANGED <<Disk, Beyond>>

(* The checks take minutes and see the tree of their own time.             *)
ValidateChecks(p) ==
    /\ pc[p] = "check"
    /\ \E obs \in Observations(local[p].m, EffectiveTree(local[p].m)), consumer \in ConsumerVerdicts :
        LET m == local[p].m
            tree == EffectiveTree(m)
            verdict == IF ReportPasses(m, tree, obs, consumer) THEN "passed" ELSE "failed"
        IN  /\ ToWrite(p, [PersistObservations(m, obs) EXCEPT !.validation = verdict])
            /\ rendered' = (rendered \/ obs.render = "passed")
    /\ UNCHANGED <<manifest, prefix, ledger, external, staging, registry, faults>>

(* A built tree is re-read in place: provenance and host packages are kept,*)
(* graphics observations and the validation stamp are not.                 *)
RedetectBuild(m) ==
    LET fresh == [NewManifest("build", Stamp(prefix)) EXCEPT !.linked = m.linked]
    IN  SetBuildIdentities(SetCompatibility(fresh, m.compat), m.src, m.deps)

RepairBuild(p) ==
    /\ Readable /\ manifest.source = "build" /\ LooksLikeUsd(prefix)
    /\ Begin(p, "write", [cmd |-> "repair", m |-> SetHostRequirements(RedetectBuild(manifest), manifest.host)])
    /\ UNCHANGED <<Disk, Beyond>>

RepairLocal(p) ==
    /\ Readable /\ manifest.source = "local"
    /\ Begin(p, "write", [cmd |-> "repair",
             m |-> SetHostRequirements(NewManifest("local", Stamp(external)), manifest.host)])
    /\ Adopt

(***************************************************************************)
(* export                                                                  *)
(***************************************************************************)
ExportReads(p) ==
    /\ Readable
    /\ \E supplied \in {"absent", "same", "other"} : BuildMetadataAccepted(manifest, supplied)
    /\ CheckExportable(manifest)
    /\ Begin(p, "recheck", [cmd |-> "export", m |-> manifest])
    /\ UNCHANGED <<Disk, Beyond>>

ExportTrustsStamp(p) ==
    /\ pc[p] = "recheck" /\ Goto(p, "stage")
    /\ UNCHANGED <<Disk, local, Beyond>>

(* The stamp is not trusted: the current checks are run again.             *)
ExportRevalidates(p) ==
    /\ pc[p] = "recheck"
    /\ \E obs \in Observations(local[p].m, EffectiveTree(local[p].m)), consumer \in ConsumerVerdicts :
        IF ReportPasses(local[p].m, EffectiveTree(local[p].m), obs, consumer)
        THEN Goto(p, "stage") /\ UNCHANGED local
        ELSE Return(p)
    /\ UNCHANGED <<Disk, Beyond>>

(* The default staging directory is named after the runtime: it is emptied *)
(* whoever is using it.                                                    *)
ExportStages(p) ==
    /\ pc[p] = "stage"
    /\ staging' = Empty
    /\ Goto(p, "pack")
    /\ UNCHANGED <<Disk, local, external, registry, faults, rendered>>

(* Packing reads the tree; archive, evidence, manifest and checksums go to *)
(* the staging directory, which must still be there.                       *)
ExportPacks(p) ==
    /\ pc[p] = "pack"
    /\ LET tree == EffectiveTree(local[p].m) IN
       IF staging # NONE /\ LooksLikeUsd(tree)
       THEN staging' = [tree |-> tree, m |-> local[p].m] /\ Goto(p, "publish") /\ UNCHANGED local
       ELSE Return(p) /\ UNCHANGED staging
    /\ UNCHANGED <<Disk, external, registry, faults, rendered>>

(* The registry imports what the staging directory holds.                  *)
ExportPublishes(p) ==
    /\ pc[p] = "publish"
    /\ IF staging \in {NONE, Empty}
       THEN UNCHANGED <<staging, registry>>
       ELSE registry' = registry \cup {staging} /\ staging' = NONE
    /\ Return(p)
    /\ UNCHANGED <<Disk, external, faults, rendered>>

(***************************************************************************)
(* The world.                                                              *)
(***************************************************************************)
AllIdle == \A p \in Procs : pc[p] = "idle"

(* The developer replaces or damages a tree while no command runs.         *)
Touch ==
    /\ AllIdle /\ faults < MaxFaults
    /\ \E v \in Versions, sound \in BOOLEAN :
        \/ /\ LooksLikeUsd(prefix)
           /\ prefix' = [prefix EXCEPT !.usd = v, !.sound = sound]
           /\ UNCHANGED external
        \/ external' = [external EXCEPT !.usd = v, !.sound = sound] /\ UNCHANGED prefix
    /\ faults' = faults + 1
    /\ UNCHANGED <<manifest, ledger, staging, registry, pc, local, commands, calm, rendered>>

(* A killed ost, with its build, leaves what is on disk; a kill in the     *)
(* middle of a recorded line tears the ledger.                             *)
Crash(p) ==
    /\ pc[p] # "idle" /\ faults < MaxFaults
    /\ faults' = faults + 1
    /\ \E tears \in BOOLEAN :
        ledger' = IF tears /\ pc[p] = "building" /\ local[p].plan.script
                  THEN [ledger EXCEPT ![local[p].key] = @ \cup {"torn"}] ELSE ledger
    /\ Return(p)
    /\ UNCHANGED <<manifest, prefix, external, staging, registry, rendered>>

Pull(p) ==
    \/ PullBuild(p) \/ ResetManaged(p) \/ ResetFails(p) \/ BuildDependency(p) \/ BuildFails(p)
    \/ BuildFinishes(p) \/ CaptureUnreadable(p) \/ FinalizePasses(p) \/ FinalizeRefuses(p)
    \/ PullAdopt(p) \/ PullMock(p) \/ PullArtifact(p) \/ FetchRemoves(p) \/ FetchExtracts(p)
    \/ TruncateManifest(p) \/ WriteManifest(p)

Next ==
    \/ \E p \in Procs :
        \/ Pull(p)
        \/ ValidateReads(p) \/ ValidateChecks(p) \/ RepairBuild(p) \/ RepairLocal(p)
        \/ ExportReads(p) \/ ExportRevalidates(p) \/ ExportStages(p) \/ ExportPacks(p)
        \/ ExportPublishes(p)
        \/ Crash(p)
    \/ Touch

Spec == Init /\ [][Next]_vars

-----------------------------------------------------------------------------
(* Values of every variable.                                               *)
TypeOK ==
    /\ manifest \in {NONE, Torn} \/ manifest.source \in {"build", "local", "mock", "artifact"}
    /\ prefix.usd \in Versions \cup {NONE} /\ prefix.deps \subseteq Deps
    /\ \A k \in Keys : ledger[k] \subseteq Deps \cup {"torn"}
    /\ external.usd \in Versions /\ external.sound \in BOOLEAN
    /\ staging \in {NONE, Empty} \/ staging.tree.usd \in Versions
    /\ \A p \in Procs : pc[p] = "idle" <=> local[p] = Idle
    /\ commands \in 0..MaxCommands /\ faults \in 0..MaxFaults /\ calm \in BOOLEAN

(* Every manifest that can be read carries the digest of its own fields,   *)
(* whichever setters, repairs and interleavings produced it                *)
(* (RuntimeManifest::compute_digest after each setter).                    *)
DigestIntegrity ==
    /\ Readable => manifest.digest = Identity(manifest)
    /\ \A a \in registry : a.m.digest = Identity(a.m)

(* What export publishes was sound when packed and is the version its      *)
(* manifest records, although the stamp in the manifest may be older than  *)
(* the tree (check_current_export_validation): as long as commands do not  *)
(* overlap.                                                                *)
ExportIsSound ==
    calm => \A a \in registry :
        a.tree.sound /\ a.m.validation = "passed" /\ ~Drift(a.m, a.tree)

(* A manifest that claims a rendered frame earned it: a render passed since *)
(* the last pull or repair, so neither a repair nor a rebuild carries the  *)
(* claim of an earlier tree over (redetect_build drops the graphics        *)
(* observations; a fetched manifest keeps its producer's).                 *)
GraphicsClaimIsEarned ==
    calm /\ Readable /\ manifest.source # "artifact" /\ manifest.gfx.render = "passed"
        => rendered

(* The captured dependencies are the whole closure when one command line   *)
(* built the tree and its script completed once, however often it failed   *)
(* or was killed before (build_with_script keeps the ledger).              *)
ClosureSurvivesFailure ==
    (/\ calm /\ Readable /\ manifest.source = "build" /\ ~manifest.linked
     /\ Cardinality(prefix.keys) = 1 /\ prefix.finished = 1)
    => manifest.deps = Deps

(* Whatever is written over a fetched runtime's manifest, by a fetch or by *)
(* a validation that read it before, repeats the graphics claims and the   *)
(* digest of an artifact as its producer published them.                   *)
ProducerClaimsStay ==
    [][manifest' \notin {NONE, Torn} /\ manifest'.artifact
        => \E a \in registry : manifest'.gfx = a.m.gfx /\ manifest'.digest = a.m.digest]_vars

(* Compatibility identities that differ in one or two of their parts.      *)
Provider == [family : BOOLEAN, provider : {TRUE}, constraint : {NONE, Series(">=", <<2>>)},
             version : {NONE, <<1, 9>>, <<2, 0>>}]
GoodProvider == [family |-> TRUE, provider |-> TRUE, constraint |-> Series(">=", <<2>>), version |-> <<2, 0>>]
Compatibilities ==
    [platform : {TRUE}, cxx : BOOLEAN, usdProfile : BOOLEAN, producer : {NONE, <<26, 5>>},
     consumer : {TRUE}, variant : {"gl", "headless"}, capabilities : {{}, {"imaging"}},
     os : {"linux", "macos"}, sdk : {NONE} \cup Provider, deployment : BOOLEAN,
     toolchain : {GoodProvider}, runtime : {GoodProvider}, python : Provider, tbb : {GoodProvider}]
VerifiersDisagree == {c \in Compatibilities : IsVerified(c) # (VerificationFailure(c) = {})}

(* The two verifiers of a compatibility identity agree on every identity,  *)
(* so a manifest the build accepts is never one validate rejects.          *)
VerifiersAgree == VerifiersDisagree = {}

(* Of the build selections, an explicit variant is never an unclassified   *)
(* build, and no accepted selection of a viewer profile lacks imaging.     *)
UnclaimedBuilds ==
    {f \in BuildFacts : f.explicit /\ ResolveBuild(f).status = "legacy"}
BlindViewers == {s \in ViewedSelections : s.usdview /\ ~s.imaging}
ClaimsAreKept == UnclaimedBuilds = {} /\ BlindViewers = {}

-----------------------------------------------------------------------------
(* What is exported was sound when it was packed and is what its manifest  *)
(* records, every manifest carries the digest of its fields, and the two   *)
(* verifiers of its identity agree.                                        *)
ExportsAreSound ==
    /\ TypeOK
    /\ DigestIntegrity
    /\ ExportIsSound
    /\ VerifiersAgree

(* What a manifest claims is earned: a rendered frame since the last pull  *)
(* or repair, a whole dependency closure although builds failed before,    *)
(* and the variant and imaging that the build was selected for.            *)
ClaimsAreTrue ==
    /\ GraphicsClaimIsEarned
    /\ ClosureSurvivesFailure
    /\ ClaimsAreKept
=============================================================================
