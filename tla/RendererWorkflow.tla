-------------------------- MODULE RendererWorkflow --------------------------
(***************************************************************************)
(* What a build directory knows about its renderer, from one command to the*)
(* next: managed builds, tests and viewports write reports and bind them in*)
(* their completions (build.rs, test.rs, renderer.rs), external evidence is*)
(* attached and merged, files are copied about, and `ost validate` says    *)
(* what of it still counts (validate.rs).  One step is one command, run to *)
(* its end; what the programs it starts write is its argument.             *)
(*                                                                         *)
(* tree has the directory, the runtime installed and the one locked, the   *)
(* build and test completions, the launch record of the viewport and the   *)
(* one an older ost left (legacy), and the number of the command.          *)
(*                                                                         *)
(* Launching a renderer (commands/renderer.rs): `view` builds the Hydra    *)
(* adapter against a runtime, installs it and starts usdview; `viewport`   *)
(* builds and starts the renderer's own program.  Both leave a launch      *)
(* record.  A CMake cache is the sequence of its lines; the programs that  *)
(* are started answer what the input says.                                 *)
(***************************************************************************)
EXTENDS RendererEvidence

CONSTANTS
    RunNames,      \* what distinguishes the sessions, one per command
    RendererOf     \* the renderer's manifest

-----------------------------------------------------------------------------

CachePath(cache, key) ==
    LET at == SelectInSeq(cache, LAMBDA line : line.key = key) IN IF at = 0 THEN NONE ELSE cache[at].value
CMakeTruthy(value) == value \in {"ON", "TRUE", "YES", "Y", "1"}
OptionEntries(cache, suffix) == SelectSeq(cache, LAMBDA line : Last(line.key) = suffix)
AnyEnabled(options) == \E i \in DOMAIN options : CMakeTruthy(options[i].value)

(* Where a build found OpenUSD, and whether it is the runtime selected. *)
HydraRoots(cache) ==
    LET single == {CachePath(cache, k) : k \in {<<"OST_RUNTIME_ROOT">>, <<"pxr_DIR">>, <<"PXR_DIR">>, <<"OpenUSD_DIR">>}}
        prefixes == CachePath(cache, <<"CMAKE_PREFIX_PATH">>)
    IN  (single \ {NONE, <<"NOTFOUND">>}) \cup (IF prefixes = NONE THEN {} ELSE ToSet(prefixes))
ValidateHydraBuild(cache, runtime) ==
    LET recorded(key) == CachePath(cache, key) IN
    IF cache = NONE THEN "not configured"
    ELSE IF ~AnyEnabled(OptionEntries(cache, "_ENABLE_HYDRA2")) THEN "not enabled"
    ELSE IF recorded(<<"OST_RUNTIME_ID">>) \notin {NONE, runtime.id} \/ recorded(<<"OST_RUNTIME_DIGEST">>) \notin {NONE, runtime.digest} THEN "mismatch"
    ELSE IF HydraRoots(cache) = {} THEN "fingerprint missing"
    ELSE IF \A root \in HydraRoots(cache) : ~IsPrefix(runtime.root, root) THEN "mismatch"
    ELSE "ok"

(* Build intents: what the project declares, with what the command adds.   *)
InsertDomainCache(intent, variable, entry) ==
    CASE intent = NONE -> NONE
      [] variable \notin DOMAIN intent.cache -> [intent EXCEPT !.cache = variable :> entry @@ @]
      [] intent.cache[variable] = entry -> intent
      [] OTHER -> NONE
RequestAdapter(intent, adapter) ==
    LET entry == IF <<"OST_RENDERER_ADAPTERS">> \in DOMAIN intent.cache THEN intent.cache[<<"OST_RENDERER_ADAPTERS">>]
                 ELSE [kind |-> "string", value |-> <<>>]
        wanted == IF Contains(entry.value, adapter) THEN entry.value ELSE Append(entry.value, adapter)
    IN  IF entry.kind # "string" THEN NONE
        ELSE [intent EXCEPT !.cache = <<"OST_RENDERER_ADAPTERS">> :> [entry EXCEPT !.value = wanted] @@ @]
WorkflowIntent(declared, selected, adapter) ==
    IF selected # NONE /\ selected \notin DOMAIN declared THEN NONE
    ELSE RequestAdapter([name |-> <<selected, "renderer", adapter>>, cache |-> declared[selected]], adapter)

(* A managed configure and build of the project, as the commands use it:   *)
(* the lines of the cache, the option of the adapter on if the intent says *)
(* so or the project turns it on for the adapters requested, or NONE.      *)
Configured(project, intent, adapter) ==
    LET recorded == SelectSeq(<<<<"OST_RUNTIME_ID">>, <<"OST_RUNTIME_DIGEST">>, <<"OST_RUNTIME_ROOT">>>>, LAMBDA k : k \in DOMAIN intent.cache)
        on(option) == IF option \in DOMAIN intent.cache THEN CMakeTruthy(intent.cache[option].value)
                      ELSE project.listens /\ Contains(intent.cache[<<"OST_RENDERER_ADAPTERS">>].value, adapter)
    IN  IF ~project.builds THEN NONE
        ELSE [i \in DOMAIN project.options |-> [key |-> project.options[i], value |-> IF on(project.options[i]) THEN "ON" ELSE "OFF"]]
             \o [i \in DOMAIN recorded |-> [key |-> recorded[i], value |-> intent.cache[recorded[i]].value]]
(* The only option for the adapter is switched on if the first build left  *)
(* it off, and the project is built again.                                 *)
BuildWithOption(project, intent, adapter, suffix) ==
    LET first == Configured(project, intent, adapter)
        options == OptionEntries(first, suffix)
        again == InsertDomainCache(intent, options[1].key, [kind |-> "bool", value |-> "ON"])
    IN  IF intent = NONE \/ first = NONE THEN NONE
        ELSE IF AnyEnabled(options) \/ Len(options) # 1 THEN first
        ELSE IF again = NONE THEN NONE ELSE Configured(project, again, adapter)
ManagedHydraBuild(project, declared, selected, runtime) ==
    LET intent == InsertDomainCache(InsertDomainCache(InsertDomainCache(WorkflowIntent(declared, selected, "hydra2"),
                      <<"OST_RUNTIME_ROOT">>, [kind |-> "path", value |-> runtime.root]),
                      <<"OST_RUNTIME_ID">>, [kind |-> "string", value |-> runtime.id]),
                      <<"OST_RUNTIME_DIGEST">>, [kind |-> "string", value |-> runtime.digest])
        cache == IF intent = NONE THEN NONE ELSE BuildWithOption(project, intent, "hydra2", "_ENABLE_HYDRA2")
    IN  IF cache # NONE /\ ValidateHydraBuild(cache, runtime) = "ok" THEN cache ELSE NONE

-----------------------------------------------------------------------------
(* What a view is shown with. *)
SelectViewProfile(explicit, project, runtimes) ==
    LET usable(n) == n \in DOMAIN runtimes /\ runtimes[n].pulled /\ runtimes[n].real /\ runtimes[n].usdview
        available == {n \in {project, "lookdev", "usd"} : usable(n)}
    IN  CASE explicit # NONE -> explicit
          [] explicit = NONE /\ available = {} -> "lookdev"
          [] explicit = NONE /\ Cardinality(available) = 1 -> CHOOSE n \in available : TRUE
          [] OTHER -> NONE
RequireRealRuntime(runtimes, profile) ==
    profile \in DOMAIN runtimes /\ runtimes[profile].pulled /\ runtimes[profile].real

(* The renderer plugin among the plugInfo files of an installed tree: the  *)
(* first that is the adapter's, unless an unreadable file or one without a *)
(* display name comes first.                                               *)
RendererTypes(file, adapter) ==
    IF ~file.readable THEN <<NONE>>
    ELSE FlattenSeq([i \in DOMAIN file.plugins |->
            IF file.plugins[i].name # adapter THEN <<>>
            ELSE SelectSeq(file.plugins[i].types, LAMBDA t : "HdRendererPlugin" \in t.bases)])
FindRendererPlugin(stage, adapter) ==
    LET types == FlattenSeq([i \in DOMAIN stage |-> RendererTypes(stage[i], adapter)]) IN
    IF types = <<>> THEN NONE ELSE IF types[1] = NONE THEN NONE ELSE types[1].display

(* The cameras a text scene defines, by the last part of their paths; one  *)
(* that cannot be read as text is not inspected.                           *)
SceneCameras(scene) == IF scene.text THEN [i \in DOMAIN scene.cameras |-> <<Last(scene.cameras[i])>>] ELSE NONE
SelectCamera(scene, requested) ==
    LET cameras == SceneCameras(scene) IN
    CASE requested # NONE /\ cameras = NONE -> [camera |-> requested, reason |-> "requested"]
      [] requested # NONE /\ cameras # NONE ->
            IF \E i \in DOMAIN cameras : Last(cameras[i]) = Last(requested) THEN [camera |-> requested, reason |-> "requested"]
            ELSE [camera |-> NONE, reason |-> "requested missing"]
      [] requested = NONE /\ cameras = NONE -> [camera |-> NONE, reason |-> "unknown"]
      [] OTHER -> IF cameras = <<>> THEN [camera |-> NONE, reason |-> "none in scene"] ELSE [camera |-> cameras[1], reason |-> "discovered"]

(* A launch record: of which run, how it ended, and what was shown. *)
BuildFailureRecord(v) == [run |-> v.run, outcome |-> "failure", state |-> "build-failure", exit |-> NONE, shown |-> NONE, reports |-> <<>>]
ViewRecord(v, shown) ==
    [run |-> v.run, outcome |-> IF v.exit = 0 THEN "success" ELSE "failure", state |-> IF v.exit = 0 THEN "success" ELSE "child-failure",
     exit |-> v.exit, shown |-> shown, reports |-> <<>>]
(* How a view ends and the record it leaves: one that is refused, before a *)
(* build or after it, leaves the record that was there.                    *)
View(v) ==
    LET profile == SelectViewProfile(v.profile, v.project.profile, v.runtimes)
        runtime == v.runtimes[profile]
        built == IF v.buildDir # NONE THEN v.buildDir ELSE ManagedHydraBuild(v.project, v.declared, v.intent, runtime)
        plugin == FindRendererPlugin(v.stage, v.adapters["hydra2"])
        scene == IF v.scene = NONE THEN v.smoke ELSE v.scene
        camera == SelectCamera(scene, v.camera)
        ends(why) == [result |-> why, record |-> v.record]
    IN  IF profile = NONE THEN ends("ambiguous profile")
        ELSE IF "hydra2" \notin DOMAIN v.adapters THEN ends("no adapter")
        ELSE IF ~RequireRealRuntime(v.runtimes, profile) THEN ends("no real runtime")
        ELSE IF v.scene # NONE /\ ~scene.exists THEN ends("no scene")
        ELSE IF v.buildDir # NONE /\ ValidateHydraBuild(built, runtime) # "ok" THEN ends("build mismatch")
        ELSE IF built = NONE THEN [result |-> "build failed", record |-> BuildFailureRecord(v)]
        ELSE IF ~v.installs THEN ends("install failed")
        ELSE IF plugin = NONE THEN ends("no plugin")
        ELSE IF scene = NONE THEN ends("no scene")
        ELSE IF ~runtime.usdview THEN ends("no usdview")
        ELSE    [result |-> IF v.exit = 0 THEN "ok" ELSE "usdview failed",
                 record |-> ViewRecord(v, [scene |-> scene, camera |-> camera, renderer |-> IF v.renderer = NONE THEN plugin ELSE v.renderer])]

-----------------------------------------------------------------------------
(* The viewport. *)
UsdSceneRequested(args) ==
    \E i \in DOMAIN args : args[i][1] \in {"--usd", "--scene", "--stage"} \/ Last(args[i]) \in {".usd", ".usda", ".usdc", ".usdz"}
Preflight(args, capabilities) ==
    LET requested == IF UsdSceneRequested(args) THEN {"usd-stage-read"} ELSE {} IN
    IF ~(requested \subseteq capabilities) THEN NONE
    ELSE [workflow |-> IF requested = {} THEN "standalone" ELSE "usd-scene", applied |-> requested,
          skipped |-> {"usd-stage-read"} \ requested, unrequested |-> capabilities \ requested]
PickBuiltExecutable(candidates, config) ==
    LET ofConfig == SelectSeq(candidates, LAMBDA p : Contains(p, config)) IN
    CASE candidates = <<>> -> NONE
      [] Len(candidates) > 1 /\ ofConfig # <<>> -> ofConfig[1]
      [] OTHER -> candidates[1]
ViewportOutcome(exit) == IF exit \in {0, 77} THEN "success" ELSE "failure"
ViewportExitState(exit) == CASE exit = 0 -> "success" [] exit = 77 -> "presentation-unavailable" [] OTHER -> "child-failure"
(* How far a viewport comes: refused, or built and with a program to start.*)
ViewportLaunch(v) ==
    LET intent == WorkflowIntent(v.declared, v.intent, "viewport")
        preflight == Preflight(v.args, v.capabilities)
        executable == PickBuiltExecutable(v.executables, v.config)
    IN  IF "viewport" \notin DOMAIN v.adapters THEN "no adapter"
        ELSE IF intent = NONE THEN "no intent"
        ELSE IF preflight = NONE THEN "capability missing"
        ELSE IF v.preflight THEN "preflight passed"
        ELSE IF BuildWithOption(v.project, intent, "viewport", "_ENABLE_VIEWPORT") = NONE THEN "build failed"
        ELSE IF executable = NONE THEN "no executable"
        ELSE "launched"

-----------------------------------------------------------------------------
Session(kind, t, outcome) ==
    [id |-> kind \o <<"-", RunNames[t.now]>>, kind |-> kind, target |-> <<"target">>, started |-> t.now,
     completed |-> IF outcome = "incomplete" THEN NONE ELSE t.now, outcome |-> outcome]
OstBuild == <<"ost", "-", "build">>
OstTest == <<"ost", "-", "test">>
OstViewport == <<"ost", "-", "renderer", "-", "viewport">>
ExternalKind == <<"external", "-", "unverified">>

StampedBy(kind, before, t, writes, outcome) ==
    StampChangedReports(RendererOf, before, writes @@ t.dir, Session(kind, t, outcome), outcome = "success", t.now)
(* What was stamped, for the properties: content by path and session.      *)
Wrote(t, stamped) == t.wrote \cup ToSet(stamped.bindings)

(* A build: the tree of another runtime goes first, then the completion,   *)
(* which is written again, with the bindings still true of the one before, *)
(* only after everything succeeded.                                        *)
Build(t, writes, outcome) ==
    LET tree == IF t.locked \in {NONE, t.runtime} THEN t ELSE [t EXCEPT !.dir = <<>>, !.tested = NONE]
        stamped == StampedBy(OstBuild, SnapshotReports(t.dir), tree, writes, outcome)
        previous == IF t.build # NONE /\ t.build.runtime = t.runtime THEN t.build.bindings ELSE <<>>
        bindings == RetainUnchanged(stamped.dir, SnapshotReports(t.dir), previous, stamped.bindings)
    IN  [tree EXCEPT !.dir = stamped.dir, !.now = @ + 1, !.locked = t.runtime, !.wrote = Wrote(t, stamped), !.last = "build",
                     !.build = IF outcome = "success" /\ stamped.ok THEN [runtime |-> t.runtime, bindings |-> bindings] ELSE NONE]

(* A test run, of a build that is complete: how CTest ended, and the number*)
(* of tests that failed.  The record of a run that ended is written        *)
(* whatever it says; one that was cut short or ran nothing writes none.    *)
BuildStands(t) == t.build # NONE /\ t.build.runtime = t.locked
TestOutcome(ended, failed) ==
    CASE ended = "cut" -> "incomplete" [] ended = "nothing ran" -> "failure"
      [] ended \in {"ok", "error"} -> IF ended = "ok" \/ failed > 0 THEN "success" ELSE "failure"
Test(t, writes, ended, failed) ==
    LET stamped == StampedBy(OstTest, SnapshotReports(t.dir), t, writes, TestOutcome(ended, failed)) IN
    [t EXCEPT !.dir = stamped.dir, !.now = @ + 1, !.wrote = Wrote(t, stamped), !.last = IF stamped.ok THEN "test" ELSE "refused",
              !.tested = IF ended \in {"ok", "error"} /\ stamped.ok
                         THEN [runtime |-> t.build.runtime, bindings |-> stamped.bindings, failed |-> failed] ELSE @]

(* A viewport: the launch record goes first; a build that fails leaves one *)
(* that says so; a program that ran leaves one with what it wrote, unless a*)
(* report of it is refused; without a program to run there is none.        *)
BuildFailure(t) == [run |-> t.now, state |-> "build-failure", exit |-> NONE, bindings |-> <<>>]
ViewportRecord(t, exit, bindings) == [run |-> t.now, state |-> ViewportExitState(exit), exit |-> exit, bindings |-> bindings]
Viewport(t, builds, hasProgram, writes, exit) ==
    LET built == Build([t EXCEPT !.launch = NONE], <<>>, IF builds THEN "success" ELSE "failure")
        ran == [built EXCEPT !.now = t.now]
        stamped == StampedBy(OstViewport, SnapshotReports(ran.dir), ran, writes, ViewportOutcome(exit))
        record == ViewportRecord(t, exit, stamped.bindings)
    IN  IF ~builds THEN [built EXCEPT !.launch = BuildFailure(t), !.last = "viewport"]
        ELSE IF ~hasProgram THEN [built EXCEPT !.last = "viewport"]
        ELSE [built EXCEPT !.dir = stamped.dir, !.wrote = Wrote(built, stamped), !.last = "viewport",
                           !.launch = IF stamped.ok THEN record ELSE NONE]

(* Commands on the primary report, and what is done without a command: a   *)
(* file written or copied back by hand, a runtime that is replaced.        *)
WritePrimary(t, report) == [t EXCEPT !.dir = PrimaryReport :> [regular |-> TRUE, report |-> report, stamp |-> t.now] @@ @, !.now = @ + 1, !.last = "report"]
Attach(t, report, outcome) ==
    LET attached == AttachSession(report, Session(ExternalKind, t, outcome), RendererOf) IN
    IF attached = NONE THEN t ELSE WritePrimary(t, attached)
MergeInto(t, overlay, replace) ==
    LET base == IF PrimaryReport \in DOMAIN t.dir THEN t.dir[PrimaryReport].report ELSE NONE
        merged == IF NONE \in {base, overlay} THEN NONE ELSE MergeReports(base, overlay, replace, RendererOf)
    IN  IF merged = NONE THEN t ELSE WritePrimary(t, merged)
Replace(t, name, report) ==
    [t EXCEPT !.dir = name :> [regular |-> TRUE, report |-> report, stamp |-> t.now] @@ @, !.now = @ + 1, !.last = "edit"]
ReplaceRuntime(t, runtime) == [t EXCEPT !.runtime = runtime, !.now = @ + 1, !.last = "runtime"]

-----------------------------------------------------------------------------
(* `ost validate`.                                                         *)
Built(t) == BuildStands(t)
Tested(t) == Built(t) /\ t.tested # NONE /\ t.tested.runtime = t.build.runtime /\ t.tested.failed = 0
(* The viewport record that is read: the build's own, or else the older one.*)
LaunchRecord(t) == IF t.launch # NONE THEN t.launch ELSE t.legacy

VerificationClass(s) ==
    CASE s = NONE -> "unbound"
      [] OTHER -> IF s.kind \in {OstBuild, OstTest, OstViewport} THEN "completion-bound"
                  ELSE IF s.kind = ExternalKind THEN "attached-external" ELSE "unbound"
BindingsFor(t, s) ==
    CASE s.kind = OstBuild -> IF Built(t) THEN t.build.bindings ELSE <<>>
      [] s.kind = OstTest -> IF Tested(t) THEN t.tested.bindings ELSE <<>>
      [] s.kind = OstViewport -> IF LaunchRecord(t) = NONE THEN <<>> ELSE LaunchRecord(t).bindings
      [] OTHER -> <<>>
(* Mutant: a binding of the path is enough, whatever the report now says. *)
VerifyBindingByPath(t, r) ==
    r.producer # NONE /\ IsPrefix(<<"ost", "-">>, r.producer.kind) =>
        \E i \in DOMAIN BindingsFor(t, r.producer) : BindingsFor(t, r.producer)[i].path = PrimaryReport
VerifyManagedBinding(t, r) ==
    r.producer # NONE /\ IsPrefix(<<"ost", "-">>, r.producer.kind) =>
        LET bindings == BindingsFor(t, r.producer)
            at == SelectInSeq(bindings, LAMBDA b : b.path = PrimaryReport /\ b.session = r.producer.id)
        IN  at # 0 /\ bindings[at].content = r

(* The primary report: whether its evidence is accepted, how far it is     *)
(* bound, and for each of its checks what is said of it.                   *)
ShownCheck(r, c) ==
    LET owner == IF c.producer # NONE THEN c.producer ELSE IF r.producer = NONE THEN NONE ELSE r.producer.id
        producer == IF r.producer # NONE /\ r.producer.id = owner THEN r.producer ELSE NONE
    IN  [id |-> c.id, status |-> c.status, owner |-> owner, class |-> VerificationClass(producer)]
Evidence(t) ==
    IF PrimaryReport \notin DOMAIN t.dir THEN [status |-> "skip", class |-> NONE, checks |-> <<>>]
    ELSE LET r == t.dir[PrimaryReport].report IN
         IF r = NONE THEN [status |-> "fail", class |-> NONE, checks |-> <<>>]
         ELSE IF ~(ReportValid(r, RendererOf, TRUE, TRUE) /\ VerifyManagedBinding(t, r)) THEN [status |-> "fail", class |-> NONE, checks |-> <<>>]
         ELSE [status |-> "pass", class |-> VerificationClass(r.producer), checks |-> [i \in DOMAIN r.checks |-> ShownCheck(r, r.checks[i])]]
ViewportLaunchCheck(t) ==
    LET record == LaunchRecord(t) IN
    IF record = NONE THEN "skip"
    ELSE IF \E i \in DOMAIN record.bindings :
                LET b == record.bindings[i] IN b.path \notin DOMAIN t.dir \/ t.dir[b.path].report # b.content THEN "fail"
    ELSE IF record.state = "success" /\ record.exit = 0 THEN "pass"
    ELSE IF record.state = "presentation-unavailable" THEN "skip" ELSE "fail"
RuntimeCompatible(t) == t.locked # NONE /\ t.locked = t.runtime
Validate(t) ==
    LET evidence == Evidence(t) IN
    [configured |-> t.locked # NONE, built |-> Built(t), tested |-> Tested(t), evidence |-> evidence,
     viewport |-> ViewportLaunchCheck(t),
     ok |-> /\ t.locked # NONE /\ Built(t) /\ RuntimeCompatible(t)
            /\ (t.tested # NONE /\ Built(t) => Tested(t))
            /\ evidence.status # "fail" /\ ViewportLaunchCheck(t) # "fail"
            /\ \A i \in DOMAIN evidence.checks : evidence.checks[i].status # "fail"]

=============================================================================
