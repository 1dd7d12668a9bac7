-------------------------- MODULE RendererEvidence --------------------------
(***************************************************************************)
(* The evidence of a renderer: its manifest, the reports a harness writes  *)
(* about it and the sessions that own them (ost-manifest, renderer.rs),    *)
(* and the commands that attach a session to an external report, merge two *)
(* reports, stamp those a managed run wrote, and adopt an existing renderer*)
(* (commands/renderer.rs).                                                 *)
(*                                                                         *)
(* A name is a sequence of words and marks.  A directory is a function from*)
(* names to files; the content of a file stands for its digest, and stamp  *)
(* for its time of modification.                                           *)
(***************************************************************************)
EXTENDS Common, Integers, Sequences, FiniteSets, SequencesExt, Functions

CONSTANTS
    Letters,   \* what a portable name may begin with
    Lower,     \* the words in lower case
    Digits,    \* further words of a name
    FileOrder  \* the names of reports, in the order of their paths

Marks == {"-", "_"}
PortableName(v) == v # <<>> /\ v[1] \in Letters /\ ToSet(v) \subseteq Letters \cup Digits \cup Marks
EvidenceId(v) ==
    /\ Len(v) > 1
    /\ \A i \in DOMAIN v : v[i] # <<>> /\ v[i][1] \in Lower /\ ToSet(v[i]) \subseteq Lower \cup Digits \cup Marks
UniqueNames(s) == s # <<>> /\ IsInjective(s) /\ \A i \in DOMAIN s : PortableName(s[i])
LabelEntries(f) == \A k \in DOMAIN f : PortableName(k) /\ PortableName(f[k])

RendererManifestValid(m) ==
    /\ m.schema = "v1alpha1"
    /\ PortableName(m.name) /\ PortableName(m.backend)
    /\ UniqueNames(m.sceneInputs) /\ UniqueNames(m.products)
    /\ DOMAIN m.units # {} /\ LabelEntries(m.units) /\ LabelEntries(m.adapters)
    /\ m.contexts > 0 /\ m.completion # <<>>
    /\ m.assertions # <<>> /\ IsInjective(m.assertions)
    /\ \A i \in DOMAIN m.assertions : EvidenceId(m.assertions[i])

-----------------------------------------------------------------------------
(* Sessions and reports. *)
CanAssertPass(s) == s # NONE /\ s.outcome = "success" /\ s.completed # NONE
SessionValid(s) ==
    /\ PortableName(s.id) /\ PortableName(s.kind)
    /\ s.kind # <<"managed">> /\ ~IsPrefix(<<"managed", "-">>, s.kind)
    /\ s.target # <<>>
    /\ s.completed # NONE => s.completed >= s.started
AttachProducer(r, s) ==
    [r EXCEPT !.producer = s, !.checks = [i \in DOMAIN r.checks |-> [r.checks[i] EXCEPT !.producer = s.id]]]

UnownedPass(r) == ~CanAssertPass(r.producer) /\ \E i \in DOMAIN r.checks : r.checks[i].status = "pass"
CheckIds(r) == [i \in DOMAIN r.checks |-> r.checks[i].id]
ReportValid(r, m, requireAll, acceptEvidence) ==
    /\ r.name = m.name
    /\ r.device # NONE => PortableName(r.device.backend) /\ r.device.driver # <<>>
    /\ r.producer # NONE => SessionValid(r.producer)
    /\ acceptEvidence => ~UnownedPass(r)
    /\ IsInjective(CheckIds(r))
    /\ \A i \in DOMAIN r.checks : EvidenceId(r.checks[i].id) /\ (r.checks[i].status # "pass" => r.checks[i].detail)
    /\ requireAll => ToSet(m.assertions) \subseteq ToSet(CheckIds(r))

(* A check without an owner of its own belongs to its report's session. *)
Stamped(r) ==
    [i \in DOMAIN r.checks |->
        IF r.checks[i].producer = NONE /\ r.producer # NONE THEN [r.checks[i] EXCEPT !.producer = r.producer.id]
        ELSE r.checks[i]]
(* One check over those before it: a repeated one replaces the earlier if  *)
(* that is asked for, and never a FAIL by something else.                  *)
Overlay(checks, incoming, replace) ==
    LET at == SelectInSeq(checks, LAMBDA c : c.id = incoming.id) IN
    IF at = 0 THEN Append(checks, incoming)
    ELSE IF ~replace \/ (checks[at].status = "fail" /\ incoming.status # "fail") THEN NONE
    ELSE ReplaceAt(checks, at, incoming)
MergedChecks(base, overlay, replace) ==
    FoldLeft(LAMBDA acc, c : IF acc = NONE THEN NONE ELSE Overlay(acc, c, replace), Stamped(base), Stamped(overlay))
(* Two sessions follow each other if they wrote one target, in this order. *)
Succeeds(later, earlier) == later.target = earlier.target /\ later.started >= earlier.started
Mergeable(base, overlay) ==
    /\ base.name = overlay.name
    /\ \A s \in {base.producer, overlay.producer} \ {NONE} : SessionValid(s)
    /\ NONE \notin {base.producer, overlay.producer} => Succeeds(overlay.producer, base.producer)
    /\ ~UnownedPass(base) /\ ~UnownedPass(overlay)
    /\ NONE \notin {base.device, overlay.device} => base.device = overlay.device
MergeReport(base, overlay, replace) ==
    LET checks == MergedChecks(base, overlay, replace) IN
    IF ~Mergeable(base, overlay) \/ checks = NONE THEN NONE
    ELSE [base EXCEPT !.device = IF @ = NONE THEN overlay.device ELSE @,
                      !.producer = IF overlay.producer = NONE THEN @ ELSE overlay.producer,
                      !.checks = checks]

-----------------------------------------------------------------------------
(* The commands on reports: what is written, or NONE.                      *)
AttachSession(r, s, m) ==
    LET attached == AttachProducer(r, s) IN
    IF /\ (s.outcome = "incomplete") = (s.completed = NONE)
       /\ RendererManifestValid(m)
       /\ r.producer = NONE /\ \A i \in DOMAIN r.checks : r.checks[i].producer = NONE
       /\ SessionValid(s)
       /\ ReportValid(attached, m, FALSE, CanAssertPass(s))
    THEN attached ELSE NONE
MergeReports(base, overlay, replace, m) ==
    LET merged == MergeReport(base, overlay, replace) IN
    IF RendererManifestValid(m) /\ merged # NONE /\ ReportValid(merged, m, TRUE, TRUE) THEN merged ELSE NONE

(* The reports in a build directory: what is read before a managed run, and*)
(* what it changed.                                                        *)
PrimaryReport == <<"renderer", "-", "report", ".json">>
IsRendererReportPath(name) == name # <<>> /\ Last(name) = ".json" /\ {"renderer", "report"} \subseteq ToSet(name)
SnapshotReports(dir) == Restrict(dir, {n \in DOMAIN dir : dir[n].regular /\ IsRendererReportPath(n)})
Unchanged(before, n, file) == n \in DOMAIN before /\ before[n] = file

(* A report is written with its session before its validation can refuse   *)
(* it, and the first one refused ends the stamping: those before it stay.  *)
StampReport(acc, n, s, m, validate, now) ==
    LET file == acc.dir[n]
        stamped == AttachProducer(file.report, s)
    IN  IF file.report = NONE \/ ~SessionValid(s) THEN [acc EXCEPT !.ok = FALSE]
        ELSE [acc EXCEPT
                !.dir[n] = [file EXCEPT !.report = stamped, !.stamp = now],
                !.ok = validate => ReportValid(stamped, m, n = PrimaryReport, TRUE),
                !.bindings = Append(@, [path |-> n, session |-> s.id, content |-> stamped])]
StampChangedReports(m, before, dir, s, validate, now) ==
    LET start == [dir |-> dir, bindings |-> <<>>, ok |-> TRUE]
        after == SnapshotReports(dir)
        changed == SelectSeq(FileOrder, LAMBDA n : n \in DOMAIN after /\ ~Unchanged(before, n, after[n]))
    IN  IF m = NONE THEN start
        ELSE IF ~RendererManifestValid(m) THEN [start EXCEPT !.ok = FALSE]
        ELSE FoldLeft(LAMBDA acc, n : IF acc.ok THEN StampReport(acc, n, s, m, validate, now) ELSE acc, start, changed)

(* What an earlier run bound stays bound if nothing touched it since. *)
RetainUnchanged(dir, before, previous, changed) ==
    changed \o SelectSeq(previous, LAMBDA b :
        /\ \A i \in DOMAIN changed : changed[i].path # b.path
        /\ b.path \in DOMAIN before /\ before[b.path].report = b.content
        /\ b.path \in DOMAIN dir /\ Unchanged(before, b.path, dir[b.path]))

-----------------------------------------------------------------------------
(* Adoption of an existing renderer.  tree has the texts of the CMake files*)
(* by path, the one-line files, and the manifests of project and renderer, *)
(* NONE when absent.                                                       *)
CMakeScanExcluded == {".git", ".strata", "build", "target", "dist"}
CMakeSourcesContain(tree, label) ==
    \E p \in DOMAIN tree.cmake : ToSet(Front(p)) \cap CMakeScanExcluded = {} /\ label \in tree.cmake[p]

AdoptedProject(a) ==
    [name |-> a.name, version |-> IF a.versionFile # NONE THEN NONE ELSE IF a.version = NONE THEN "0.1.0" ELSE a.version,
     versionFile |-> a.versionFile]
(* The project after the adoption, or NONE: one that exists keeps its      *)
(* version unless a version file is named.                                 *)
ProjectPlan(a, tree) ==
    LET updated == IF a.versionFile # NONE THEN [tree.project EXCEPT !.version = NONE, !.versionFile = a.versionFile] ELSE tree.project IN
    IF tree.project = NONE
    THEN IF a.platform = NONE THEN NONE ELSE [action |-> "create", project |-> AdoptedProject(a)]
    ELSE IF a.version # NONE \/ tree.project.name # a.name THEN NONE
    ELSE [action |-> IF updated = tree.project THEN "keep" ELSE "update-version-source", project |-> updated]
EffectiveVersion(project, tree) ==
    IF (project.version = NONE) = (project.versionFile = NONE) THEN NONE
    ELSE IF project.version # NONE THEN project.version
    ELSE IF project.versionFile \in DOMAIN tree.versions THEN tree.versions[project.versionFile] ELSE NONE
AdoptedManifest(a, standard) ==
    LET given(role, label) == IF label = NONE THEN <<>> ELSE <<role>> :> label IN
    [schema |-> "v1alpha1", name |-> a.name, backend |-> a.backend,
     sceneInputs |-> <<<<"headless">>>> \o (IF a.hydra2 = NONE THEN <<>> ELSE <<<<"hydra2">>>>),
     units |-> <<"backend">> :> a.label @@ <<"core">> :> a.core @@ <<"extraction">> :> a.extraction,
     adapters |-> <<"headless">> :> a.headless @@ given("hydra2", a.hydra2) @@ given("viewport", a.viewport),
     products |-> <<<<"color">>, <<"depth">>>>, contexts |-> 3, completion |-> <<"explicit">>, assertions |-> standard]
Adopt(a, tree, standard) ==
    LET project == ProjectPlan(a, tree)
        m == AdoptedManifest(a, standard)
        action == IF tree.manifest = NONE THEN "create" ELSE IF tree.manifest = m THEN "keep" ELSE "replace"
        unresolved == {l \in Range(m.units) \cup Range(m.adapters) : ~CMakeSourcesContain(tree, l)}
    IN  IF \/ <<"CMakeLists.txt">> \notin DOMAIN tree.cmake
           \/ a.backend = <<>> \/ a.label = <<>>
           \/ project = NONE \/ EffectiveVersion(project.project, tree) = NONE
           \/ ~RendererManifestValid(m)
           \/ tree.manifest # NONE /\ ~RendererManifestValid(tree.manifest)
           \/ a.write /\ unresolved # {} /\ ~a.allowUnresolved
           \/ a.write /\ action = "replace" /\ ~a.replaceManifest
        THEN NONE
        ELSE [project |-> project.action, renderer |-> action, unresolved |-> unresolved,
              tree |-> IF a.write THEN [tree EXCEPT !.project = project.project, !.manifest = m, !.adoption = unresolved] ELSE tree]

=============================================================================
