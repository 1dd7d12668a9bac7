-------------------------- MODULE MemberDecisions ---------------------------
(***************************************************************************)
(* The decisions about a project's renderer and about the members of a     *)
(* workspace, beside those of Decisions.  Two of the inputs are stories: a *)
(* build directory with a renderer, and a few libraries, which the commands*)
(* change one after another, up to MaxCommands and MaxLibraryCommands of   *)
(* them.                                                                   *)
(***************************************************************************)
EXTENDS Decisions, RendererWorkflow, LibraryWorkflow

CONSTANTS
    Reports,         \* what a harness may write, and a user attach or merge
    PartialReports,  \* and what it may write beside the primary report
    MergeCases,      \* the reports that may be merged one after another
    Adoptions,       \* what an adoption may be asked for
    AdoptionTrees,   \* and of which project
    StandardChecks,  \* the assertions an adopted renderer gets
    Views,           \* the views that may be asked for
    Launches,        \* and the viewports
    HydraProjects,   \* projects a Hydra adapter may be built of
    HydraRuntimes,   \* and the runtimes they may be built with
    MaxCommands,     \* the commands of one story
    BundlePlaces,     \* file systems with a bundle, and what it declares
    LibraryManifests, \* descriptors of libraries, and what they install
    ToolManifests,    \* descriptors of tools, and what is built
    HeaderPatterns,   \* patterns of public headers
    HeaderPaths,      \* and the paths they are matched with
    Consumers,        \* what a consumer may find when it is configured
    Worked,           \* the libraries that commands are run on
    MaxLibraryCommands

JudgeMerge ==
    /\ Asked("merge")
    /\ \E a, b, c \in MergeCases, replace \in BOOLEAN : input' = [reports |-> <<a, b, c>>, replace |-> replace]
JudgeAdoption ==
    /\ Asked("adoption")
    /\ \E a \in Adoptions, t \in AdoptionTrees : input' = [args |-> a, tree |-> t]
JudgeView == Asked("view") /\ \E v \in Views : input' = [view |-> v]
JudgeLaunch == Asked("launch") /\ \E v \in Launches : input' = [launch |-> v]
JudgeHydra ==
    /\ Asked("hydra")
    /\ \E p \in HydraProjects, r, s \in HydraRuntimes :
        \E selected \in DOMAIN p.declared : input' = [project |-> p, selected |-> selected, with |-> r, for |-> s]

Fresh == [dir |-> <<>>, runtime |-> 1, locked |-> NONE, build |-> NONE, tested |-> NONE, launch |-> NONE, legacy |-> NONE,
          now |-> 1, wrote |-> {}, last |-> NONE]
OpenRenderer ==
    /\ Asked("renderer")
    /\ \E legacy \in {NONE, [run |-> 0, state |-> "success", exit |-> 0, bindings |-> <<>>]} :
        input' = [tree |-> [Fresh EXCEPT !.legacy = legacy]]
Story == About("renderer") /\ input.tree.now <= MaxCommands
Becomes(t) == input' = [input EXCEPT !.tree = t] /\ UNCHANGED subject
Writes ==
    {<<>>} \cup {w[1] :> [regular |-> TRUE, report |-> w[2], stamp |-> input.tree.now] :
                    w \in ({PrimaryReport} \X Reports) \cup ((Range(FileOrder) \ {PrimaryReport}) \X PartialReports)}
RunBuild == Story /\ \E w \in Writes, o \in {"success", "failure", "incomplete"} : Becomes(Build(input.tree, w, o))
RunTest ==
    /\ Story /\ BuildStands(input.tree)
    /\ \E w \in Writes, e \in {"ok", "error", "nothing ran", "cut"}, failed \in {0, 1} :
        (failed > 0 => e = "error") /\ Becomes(Test(input.tree, w, e, failed))
RunViewport ==
    /\ Story
    /\ \E builds, program \in BOOLEAN, w \in Writes, exit \in {0, 1, 77} : Becomes(Viewport(input.tree, builds, program, w, exit))
AttachEvidence == Story /\ \E r \in Reports, o \in {"success", "failure", "incomplete"} : Becomes(Attach(input.tree, r, o))
MergeEvidence ==
    /\ Story
    /\ \E n \in DOMAIN input.tree.dir, replace \in BOOLEAN : Becomes(MergeInto(input.tree, input.tree.dir[n].report, replace))
CopyBack == Story /\ \E b \in input.tree.wrote : Becomes(Replace(input.tree, PrimaryReport, b.content))
WriteByHand == Story /\ \E r \in Reports : Becomes(Replace(input.tree, PrimaryReport, r))
ChangeRuntime == Story /\ \E r \in {1, 2} \ {input.tree.runtime} : Becomes(ReplaceRuntime(input.tree, r))

RendererNext ==
    \/ Next \/ JudgeMerge \/ JudgeAdoption \/ JudgeView \/ JudgeLaunch \/ JudgeHydra \/ OpenRenderer
    \/ RunBuild \/ RunTest \/ RunViewport \/ AttachEvidence \/ MergeEvidence \/ CopyBack \/ WriteByHand \/ ChangeRuntime

JudgeBundlePaths == Asked("place") /\ \E b \in BundlePlaces : input' = [place |-> b]
JudgeLibraryDescriptor == Asked("descriptor") /\ \E m \in LibraryManifests : input' = [manifest |-> m.manifest, files |-> m.files]
JudgeToolDescriptor == Asked("tool") /\ \E m \in ToolManifests : input' = [manifest |-> m.manifest, files |-> m.files, windows |-> m.windows]
JudgeHeaders == Asked("headers") /\ \E p \in HeaderPatterns, f \in HeaderPaths : input' = [pattern |-> p, path |-> f]
JudgeConsumer == Asked("consumer") /\ \E c \in Consumers : input' = [consumer |-> c]

NoFailure == [member |-> NONE, ends |-> "ok"]
Untouched == [runtime |-> 1, lib |-> [l \in AllLibraries |-> NewLibrary]]
OpenLibraries ==
    /\ Asked("library")
    /\ \E built \in {NONE} \cup Worked :
        input' = [now |-> 1,
                  tree |-> IF built = NONE THEN Untouched ELSE BuildLibrary(Untouched, built, TRUE, NoFailure).tree]
LibraryStory == About("library") /\ input.now <= MaxLibraryCommands
Leaves(t) == input' = [input EXCEPT !.tree = t, !.now = @ + 1] /\ UNCHANGED subject
Failures(l, mode) ==
    {NoFailure} \cup {[member |-> m, ends |-> e] : m \in ClosureOf(l, mode) \cup {l}, e \in Range(MemberStages) \ {"ok"}}
RunLibraryBuild == LibraryStory /\ \E l \in Worked : \E f \in Failures(l, "test") : Leaves(BuildLibrary(input.tree, l, TRUE, f).tree)
RunLibraryTest == LibraryStory /\ \E l \in Worked, passes \in BOOLEAN : Leaves(TestLibrary(input.tree, l, passes))
RunLibraryPackage == LibraryStory /\ \E l \in Worked, evidence \in BOOLEAN : Leaves(PackageLibrary(input.tree, l, evidence))
RunVerifyConsumer ==
    /\ LibraryStory
    /\ \E l \in Worked, ends \in ConsumerStages : \E f \in {NoFailure, [member |-> l, ends |-> "compile"]} :
        (f # NoFailure => ends = "headers") /\ Leaves(VerifyConsumer(input.tree, l, f, ends))
ChangeLibrary ==
    /\ LibraryStory
    /\ \E l \in AllLibraries :
        Leaves(EditSource(input.tree, l)) \/ Leaves(EditDescriptor(input.tree, l)) \/ Leaves(Repin(input.tree, l)) \/ Leaves(ComposedBuild(input.tree, l))
ChangeLibraryRuntime == LibraryStory /\ Leaves(ExchangeRuntime(input.tree))

MemberNext ==
    \/ RendererNext \/ JudgeBundlePaths \/ JudgeLibraryDescriptor \/ JudgeToolDescriptor \/ JudgeHeaders \/ JudgeConsumer \/ OpenLibraries
    \/ RunLibraryBuild \/ RunLibraryTest \/ RunLibraryPackage \/ RunVerifyConsumer \/ ChangeLibrary \/ ChangeLibraryRuntime
MemberSpec == Init /\ [][MemberNext]_vars

-----------------------------------------------------------------------------
(* Merging loses nothing and earns nothing: every FAIL of a report stays   *)
(* one, every PASS is that of a session which completed successfully and   *)
(* is still named as its owner, and the session that started last owns the *)
(* whole.  Three reports may be merged from either end: if both ways are   *)
(* accepted they agree on every status, and on the owners too if each has a*)
(* session.                                                                *)
StatusOf(r) == [id \in Range(CheckIds(r)) |-> r.checks[SelectInSeq(r.checks, LAMBDA c : c.id = id)].status]
MergeKeepsEvidence ==
    About("merge") =>
        LET merge(r, s) == IF NONE \in {r, s} THEN NONE ELSE MergeReport(r, s, input.replace)
            from == Range(input.reports)
            sessions == {r.producer : r \in from} \ {NONE}
            inTurn == merge(merge(input.reports[1], input.reports[2]), input.reports[3])
            pairwise == merge(input.reports[1], merge(input.reports[2], input.reports[3]))
        IN  inTurn # NONE =>
                /\ \A r \in from : \A i \in DOMAIN r.checks :
                      r.checks[i].status = "fail" => StatusOf(inTurn)[r.checks[i].id] = "fail"
                /\ \A i \in DOMAIN inTurn.checks :
                      LET c == inTurn.checks[i] IN
                      c.status = "pass" => \E s \in sessions : CanAssertPass(s) /\ s.id = c.producer
                /\ \A s \in sessions : inTurn.producer.started >= s.started
                /\ pairwise # NONE => StatusOf(pairwise) = StatusOf(inTurn)
                /\ (\A r \in from : r.producer # NONE) => pairwise \in {NONE, inTurn}

(* What `ost validate` accepts as bound to a completion is what a managed  *)
(* run wrote, under the session it names, at that place; and a PASS in it  *)
(* is of a run that succeeded.  Nothing attached, merged, copied back or   *)
(* written by hand is taken for it.                                        *)
BoundIsProduced ==
    About("renderer") =>
        LET t == input.tree
            e == Evidence(t)
            r == t.dir[PrimaryReport].report
        IN  /\ e.class = "completion-bound" =>
                [path |-> PrimaryReport, session |-> r.producer.id, content |-> r] \in t.wrote
            /\ \A i \in DOMAIN e.checks :
                /\ e.checks[i].status = "pass" => r.producer.outcome = "success"
                /\ e.checks[i].class = "completion-bound" => e.class = "completion-bound" /\ e.checks[i].owner = r.producer.id

(* Evidence just made counts: after a managed run that succeeded, a primary*)
(* report it wrote passes validation and is bound; and a build that writes *)
(* none keeps what a build, a finished test or a viewport has bound,       *)
(* unless the runtime changed.  Building a valid tree again leaves it valid.*)
EvidenceCounts ==
    About("renderer") =>
        LET t == input.tree
            owner == t.dir[PrimaryReport].report.producer
            justWritten == PrimaryReport \in DOMAIN t.dir /\ owner # NONE /\ owner.started = t.now - 1
            stands ==
                CASE t.last = "build" -> t.build # NONE
                  [] t.last = "test" -> Tested(t) /\ owner.outcome = "success"
                  [] t.last = "viewport" -> t.launch # NONE /\ t.launch.exit \in {0, 77}
                  [] OTHER -> FALSE
        IN  /\ justWritten /\ stands => Evidence(t).class = "completion-bound"
            /\ Evidence(t).class = "completion-bound" /\ t.build # NONE /\ t.runtime = t.build.runtime =>
                Evidence(Build(t, <<>>, "success")) = Evidence(t)
            /\ Validate(t).ok => Validate(Build(t, <<>>, "success")).ok

(* A viewport that validation calls launched is the last one that was      *)
(* started, unless an older ost left a record of this directory and the    *)
(* last run ended before it had one of its own.                            *)
LaunchIsCurrent ==
    About("renderer") =>
        LET t == input.tree IN
        ViewportLaunchCheck(t) = "pass" =>
            /\ t.launch # NONE => t.launch.exit = 0
            /\ t.launch = NONE => t.legacy # NONE
            /\ t.last = "viewport" /\ t.launch # NONE => t.launch.run = t.now - 1

(* An adoption does what its dry run says and can be repeated: the same    *)
(* command again keeps everything, the version of an existing project is   *)
(* kept unless a version file is named, and project and renderer have one  *)
(* name.                                                                   *)
AdoptionIsAsPlanned ==
    About("adoption") =>
        LET adopt(writes, t) == Adopt([input.args EXCEPT !.write = writes], t, StandardChecks)
            dry == adopt(FALSE, input.tree)
            done == adopt(TRUE, input.tree)
            again == Adopt([input.args EXCEPT !.write = TRUE, !.version = NONE], done.tree, StandardChecks)
        IN  /\ dry # NONE => dry.tree = input.tree
            /\ done # NONE =>
                /\ dry # NONE /\ dry = [done EXCEPT !.tree = input.tree]
                /\ again # NONE /\ again.project = "keep" /\ again.renderer = "keep" /\ again.tree = done.tree
                /\ done.tree.manifest.name = done.tree.project.name
                /\ input.tree.project # NONE /\ input.args.versionFile = NONE => done.tree.project = input.tree.project

(* A view that was launched shows what was asked for, or says that it does *)
(* not: with the only runtime that can show it if none was chosen, a build *)
(* not known to be another runtime's, and the camera asked for unless the  *)
(* scene is readable and has none of that name.  A view that was not       *)
(* launched leaves no record of success that was not there.                *)
Honest(v, view) ==
        LET shown == view.record.shown
            usable == {n \in DOMAIN v.runtimes : v.runtimes[n].pulled /\ v.runtimes[n].real /\ v.runtimes[n].usdview}
            profile == SelectViewProfile(v.profile, v.project.profile, v.runtimes)
        IN  /\ view.result \in {"ok", "usdview failed"} =>
                /\ view.record.outcome = "success" <=> v.exit = 0
                /\ profile \in usable
                /\ v.profile = NONE => usable \cap {v.project.profile, "lookdev", "usd"} = {profile}
                /\ v.buildDir # NONE => CachePath(v.buildDir, <<"OST_RUNTIME_DIGEST">>) \in {NONE, v.runtimes[profile].digest}
                /\ v.camera # NONE /\ shown.camera.camera = NONE =>
                      shown.scene.text /\ \A i \in DOMAIN shown.scene.cameras : Last(shown.scene.cameras[i]) # Last(v.camera)
            /\ view.result \notin {"ok", "usdview failed"} => view.record = v.record \/ view.record.outcome = "failure"
ViewIsHonest == About("view") => Honest(input.view, View(input.view))

(* A Hydra adapter built for one runtime is accepted for that one only,    *)
(* whatever the project's intents say.                                     *)
HydraBuildsAreBound ==
    About("hydra") =>
        LET cache == ManagedHydraBuild(input.project, input.project.declared, input.selected, input.with) IN
        cache # NONE =>
            /\ ValidateHydraBuild(cache, input.for) = "ok" <=> input.for = input.with
            /\ \A k \in DOMAIN input.project.declared[input.selected] :
                  CachePath(cache, k) \in {NONE, input.project.declared[input.selected][k].value}

(* A preflight predicts: it passes exactly when the launch itself gets as  *)
(* far as building, and a scene is only opened where stages can be read.   *)
PreflightPredicts ==
    About("launch") =>
        LET v == input.launch
            launched == ViewportLaunch([v EXCEPT !.preflight = FALSE])
            scene == \E i \in DOMAIN v.args : v.args[i] \in {<<"--usd">>, <<"--scene", "x">>, <<"x", ".usda">>}
        IN  /\ ViewportLaunch([v EXCEPT !.preflight = TRUE]) = "preflight passed" <=> launched \in {"build failed", "no executable", "launched"}
            /\ launched = "launched" /\ scene => "usd-stage-read" \in v.capabilities

-----------------------------------------------------------------------------
(* Every path a loaded bundle declares leads below its root, also once the *)
(* directories that are still missing have been made; and so do its outputs*)
(* once an output tree is selected.                                        *)
ArrivesBelow(fs, root, rel) ==
    \E n \in {DeepestExisting(fs, root, rel)} :
        \E there \in {RealPath(fs, root \o SubSeq(rel, 1, n))} \ {NONE} : IsPrefix(root, there \o SubSeq(rel, n + 1, Len(rel)))
StaysInside(p, bundle) ==
    /\ \A d \in p.manifest.paths : ArrivesBelow(p.fs, bundle.root, d.segs)
    /\ \A staged \in {WithOutputRoot(p.fs, bundle, <<"plugInfo.json">>, p.output)} \ {NONE} :
          ArrivesBelow(p.fs, staged.output, <<"lib", "made">>)
DeclaredPathsStayInside ==
    About("place") => \A bundle \in {LoadBundle(input.place.fs, input.place.at, input.place.manifest)} \ {NONE} :
        StaysInside(input.place, bundle)

(* A file that a library must have at run time is found by a loader, in a  *)
(* test and from its package: some directory that is pointed at contains   *)
(* it.  From the package only if the directories are written without empty *)
(* or "." segments; a tool's executables are in a directory it ships.      *)
RuntimeFilesAreShipped ==
    /\ About("descriptor") =>
        LET m == input.manifest
            normal == \A i \in DOMAIN m.directories : PathComponents(m.directories[i].segs) = m.directories[i].segs
        IN  \A os \in {"linux", "windows"} :
            LibraryManifestValid(m) /\ m.required # NONE /\ VerifyRequiredInstallFiles(m, os, input.files) =>
                \A k \in DOMAIN m.required[os] :
                    LET f == m.required[os][k].segs IN
                    /\ \E i \in InstalledRuntimeDirs(m, input.files) : IsPrefix(PathComponents(m.directories[i].segs), f)
                    /\ normal => \E i \in PackagedRuntimeDirs(m, input.files) : IsPrefix(m.directories[i].segs, f)
    /\ About("tool") =>
        LET m == input.manifest
            located == LocateExecutables(m, input.files, input.windows)
        IN  ToolManifestValid(m) /\ located # NONE =>
                \A i \in DOMAIN located : Contains(BuiltDirectories(m, input.files), located[i].directory)

(* The matcher of public headers, which backtracks to the last star, and   *)
(* the one of workspace members, which follows every way a star may go,    *)
(* agree on every component without "?", and "**" stands for any run of    *)
(* components.                                                             *)
PatternsAgree ==
    About("headers") =>
        LET at(pattern, path) ==
                LET reached[i \in 0..Len(pattern)] ==
                        IF i = 0 THEN {0}
                        ELSE IF pattern[i] = AnyComponents THEN {j \in 0..Len(path) : \E k \in reached[i - 1] : k <= j}
                        ELSE {k + 1 : k \in {j \in reached[i - 1] \ {Len(path)} : WildcardComponentMatches(pattern[i], path[j + 1])}}
                IN  reached[Len(pattern)]
            reached == Len(input.path) \in at(input.pattern, input.path)
        IN  /\ PublicHeaderPatternMatches(input.pattern, input.path) <=> reached
            /\ VerifyPublicHeaders(<<input.pattern>>, input.path, {input.path}) = IF reached THEN {input.path} ELSE NONE

(* A consumer that configures links nothing from elsewhere: every path of  *)
(* every target it would link, also through links, is below the prefixes   *)
(* given or is the interpreter's, or the host's X11 targets had it before  *)
(* the package was loaded.                                                 *)
ConsumerIsClosed ==
    About("consumer") =>
        LET c == input.consumer
            links(n) == {m \in DOMAIN c.targets : \E v \in Values(c.targets, n) : v.property = "INTERFACE_LINK_LIBRARIES" /\ v.path = m}
            followed(n) == IF c.targets[n].alias # NONE THEN {c.targets[n].alias} ELSE links(n)
            reach[k \in 0..(2 * Cardinality(DOMAIN c.targets))] ==
                IF k = 0 THEN c.exported ELSE reach[k - 1] \cup UNION {followed(n) : n \in reach[k - 1]}
        IN  ConsumerConfigures(c) =>
                \A n \in reach[2 * Cardinality(DOMAIN c.targets)] : \A v \in Values(c.targets, n) :
                    v.absolute /\ v.form # "generator" =>
                        \/ \E p \in c.prefixes : IsPrefix(p, v.path)
                        \/ PythonPath(c.python, v)
                        \/ n \in Visited(c.before, HostTargets) /\ v \in Values(c.before, n)

-----------------------------------------------------------------------------
(* A build record that is accepted tells the truth about what is installed,*)
(* and so does a package whose manifest fits its archive: every library it *)
(* names is the one it was linked with, with the runtime it names.         *)
LinkedIsRecorded ==
    About("library") =>
        \A l \in AllLibraries :
            LET s == input.tree.lib[l] IN
            /\ ValidatedBuildRecord(input.tree, l) =>
                /\ s.prefix.runtime = input.tree.runtime
                /\ \A d \in ClosureOf(l, "build") : s.prefix.links[d] = input.tree.lib[d].prefix
            /\ s.manifest # NONE /\ s.manifest.archive = s.archive =>
                /\ s.manifest.record.runtime = s.archive.runtime
                /\ \A d \in DOMAIN s.manifest.dependencies : s.archive.links[d] = s.manifest.dependencies[d].record.files

(* Tests that passed were those of the build whose record they name, as    *)
(* long as that record is accepted: not of a tree another command has      *)
(* configured since.                                                       *)
TestedIsBuilt ==
    About("library") =>
        \A l \in AllLibraries :
            LET s == input.tree.lib[l] IN
            s.tested # NONE /\ s.tested.success /\ s.tested.build = s.record /\ ValidatedBuildRecord(input.tree, l) =>
                s.tested.ran = s.prefix

(* A consumer report that names the record accepted now is about what is   *)
(* installed now: the library, its closure and the runtime.                *)
ConsumerReportIsCurrent ==
    About("library") =>
        \A l \in AllLibraries :
            LET s == input.tree.lib[l] IN
            s.consumer # NONE /\ s.consumer.success /\ s.consumer.build = s.record /\ ValidatedBuildRecord(input.tree, l) =>
                /\ s.consumer.runtime = input.tree.runtime
                /\ \A d \in ClosureOf(l, "consumer") \cup {l} : s.consumer.linked[d] = input.tree.lib[d].prefix

(* From whatever earlier commands left behind, a build that succeeds can be*)
(* tested and packaged, and so can what it built first be packaged; a      *)
(* second one changes nothing.                                             *)
BuiltIsUsable ==
    About("library") =>
        \A l \in Worked :
            LET after == BuildLibrary(input.tree, l, TRUE, NoFailure).tree IN
            /\ TestAccepted(after, l) /\ TestsThere(after, l)
            /\ \A d \in ClosureOf(l, "test") \cup {l} : PackageLibrary(after, d, TRUE).lib[d].archive = after.lib[d].prefix
            /\ BuildLibrary(after, l, TRUE, NoFailure).tree = after

-----------------------------------------------------------------------------
(* A renderer's evidence (renderer.rs, validate.rs) counts for the run     *)
(* that produced it and for no other, however builds, tests, viewports,    *)
(* merges and copies follow each other, and adoption, views and viewports  *)
(* do what they announced.                                                 *)
RendererDecisions ==
    /\ MergeKeepsEvidence
    /\ BoundIsProduced
    /\ EvidenceCounts
    /\ LaunchIsCurrent
    /\ AdoptionIsAsPlanned
    /\ ViewIsHonest
    /\ HydraBuildsAreBound
    /\ PreflightPredicts

(* A library's records (library.rs) tell what is installed, linked and     *)
(* tested now, however commands, edits and composed builds follow each     *)
(* other, and what its descriptor declares is inside, shipped and closed.  *)
LibraryDecisions ==
    /\ DeclaredPathsStayInside
    /\ RuntimeFilesAreShipped
    /\ PatternsAgree
    /\ ConsumerIsClosed
    /\ LinkedIsRecorded
    /\ TestedIsBuilt
    /\ ConsumerReportIsCurrent
    /\ BuiltIsUsable
=============================================================================
