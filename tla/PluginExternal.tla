--------------------------- MODULE PluginExternal ---------------------------
(***************************************************************************)
(* The members a plugin workspace takes from artifacts: which pins a       *)
(* bundle, a library or the whole workspace selects (commands/plugin.rs),  *)
(* how a pin is materialized from the store (external_library.rs,          *)
(* external_member.rs), and the bundles a session composes of workspace,   *)
(* artifacts and --with.                                                   *)
(*                                                                         *)
(* env has the target and the runtime selected, stored and remote, the     *)
(* records by digest the store holds and the sources offer, and prefixes,  *)
(* the files of the prefixes already extracted, by digest.                 *)
(***************************************************************************)
EXTENDS PluginGraph

ForTarget(artifact, target) ==
    CASE DOMAIN artifact.targets = {} -> artifact
      [] target \in DOMAIN artifact.targets -> artifact.targets[target]
      [] OTHER -> NONE

ComponentKinds(kind) ==
    CASE kind = "bundle" -> {"plugin", "host-addon"} [] kind = "tool" -> {"tool"} [] kind = "library" -> {"library"}
ArtifactKindOf(kind) == IF kind = "bundle" THEN "plugin" ELSE "package"

(* The record of a pin: the store's, or else the one its source offers,    *)
(* which is pulled if it has the kind and the target asked for.            *)
PinnedRecord(pin, kind, env) ==
    CASE pin.digest \in DOMAIN env.stored -> env.stored[pin.digest]
      [] pin.source = NONE \/ pin.digest \notin DOMAIN env.remote -> NONE
      [] env.remote[pin.digest].kind # ArtifactKindOf(kind) \/ env.remote[pin.digest].target # env.target -> NONE
      [] OTHER -> env.remote[pin.digest]
RecordMatches(record, d, kind, env) ==
    /\ record.intact
    /\ record.kind = ArtifactKindOf(kind) /\ record.target = env.target
    /\ record.name = d.id /\ RangeAnswer(record.version, d.range) = "yes"
    /\ record.component # NONE
    /\ record.component.kind \in ComponentKinds(kind)
    /\ record.component.id = d.id /\ record.component.version = record.version
    /\ record.runtime = env.runtime
(* What a library artifact says it needs, by capability and range: only    *)
(* libraries, and each with a version.                                     *)
RequirementsReadable(record) ==
    \A i \in DOMAIN record.component.requires :
        record.component.requires[i].library # NONE /\ record.component.requires[i].range # NONE
(* A prefix that is already there is used as it is, and then checked. *)
PrefixFiles(record, digest, env) ==
    IF digest \in DOMAIN env.prefixes THEN env.prefixes[digest] ELSE record.files
Materialize(d, kind, env) ==
    LET pin == ForTarget(d.artifact, env.target)
        record == PinnedRecord(pin, kind, env)
    IN  IF /\ pin # NONE /\ pin.digest # NONE /\ pin.digest > 0 /\ pin.source # "mutable"
           /\ record # NONE
           /\ RecordMatches(record, d, kind, env)
           /\ kind = "library" => RequirementsReadable(record) /\ record.component.cmake
           /\ PrefixFiles(record, pin.digest, env) = record.files
        THEN [id |-> d.id, version |-> record.version, digest |-> pin.digest, requires |-> record.component.requires,
              member |-> record.member]
        ELSE NONE

-----------------------------------------------------------------------------
(* Pins.  Two different pins of one id are an error. *)
ArtifactPins(deps) == {deps[i] : i \in {j \in DOMAIN deps : deps[j].artifact # NONE}}
Conflict(pins) == \E d, e \in pins : d.id = e.id /\ d # e
AllOrNone(members) == IF NONE \in members THEN NONE ELSE members
MaterializeAll(pins, kind, env) ==
    IF Conflict(pins) THEN NONE ELSE AllOrNone({Materialize(d, kind, env) : d \in pins})

(* What an artifact requires is among the artifacts selected with it, or   *)
(* else among the workspace's libraries.                                   *)
ValidateClosure(external, libraries) ==
    \A p \in external : \A i \in DOMAIN p.requires :
        LET r == p.requires[i]
            among(S) == {m \in S : m.id = r.library}
            locals == {[id |-> l.name, version |-> l.version] : l \in libraries}
            found == IF among(external) # {} THEN among(external) ELSE among(locals)
        IN  \E m \in found : RangeAnswer(m.version, r.range) = "yes"
Closed(external, libraries) == IF external # NONE /\ ValidateClosure(external, libraries) THEN external ELSE NONE
Members(members, ids) == {Member(members, id) : id \in ids}

ExternalDependenciesFromWorkspace(w, b) ==
    UNION ({ArtifactPins(c.libraries) : c \in Members(w.bundles, ToSet(DependencyOrder(w, b.name)) \cup {b.name})}
           \cup {ArtifactPins(l.libraries) : l \in Members(w.libraries, ToSet(LibraryDependencyOrder(w, b.name)))})
SelectedExternalLibraries(w, b, env) ==
    CASE SourceWorkspaceFor(w, b) = NONE -> {}
      [] SourceWorkspaceFor(w, b) = "error" -> NONE
      [] OTHER -> Closed(MaterializeAll(ExternalDependenciesFromWorkspace(w, b), "library", env),
                         Members(w.libraries, ToSet(LibraryDependencyOrder(w, b.name))))
ExternalPinsOfLibrary(w, l, mode) ==
    LET before == Members(w.libraries, ToSet(SelectedLibrariesForLibrary(w, l, mode)))
        ofPrerequisite == IF mode = "test" THEN "build" ELSE mode
    IN  UNION ({ArtifactPins(ModeDependencies(p, ofPrerequisite)) : p \in before} \cup {ArtifactPins(ModeDependencies(l, mode))})
SelectedExternalLibrariesForLibrary(w, l, mode, env) ==
    IF SelectedLibrariesForLibrary(w, l, mode) = NONE THEN NONE
    ELSE Closed(MaterializeAll(ExternalPinsOfLibrary(w, l, mode), "library", env),
                Members(w.libraries, ToSet(SelectedLibrariesForLibrary(w, l, mode))))

ExternalArtifactPins(w) ==
    UNION ({ArtifactPins(b.libraries) : b \in ToSet(w.bundles)} \cup {ArtifactPins(AllDependencies(l)) : l \in ToSet(w.libraries)}
           \cup {ArtifactPins(t.libraries) : t \in ToSet(w.tools)})
WorkspaceExternalLibraries(w, env) ==
    Closed(MaterializeAll(ExternalArtifactPins(w), "library", env), ToSet(w.libraries))
PullWorkspaceExternalLibraries(w, env) == IF GraphPassed(w) THEN WorkspaceExternalLibraries(w, env) ELSE NONE

(* The descriptor inside an artifact must be the one it was pinned for. *)
BundleKept(d, m) ==
    /\ m.member.name = d.id /\ RangeAnswer(m.member.version, d.range) = "yes"
    /\ d.contract # NONE => m.member.contract = d.contract
ExternalBundles(pins, env) ==
    IF MaterializeAll(pins, "bundle", env) = NONE \/ \E d \in pins : ~BundleKept(d, Materialize(d, "bundle", env)) THEN NONE
    ELSE {Materialize(d, "bundle", env).member : d \in pins}
SelectedExternalBundles(w, b, env) ==
    LET selected == Members(w.bundles, ToSet(SelectedWorkspaceDependencies(w, b))) \cup {b} IN
    IF b.packaged THEN {} ELSE ExternalBundles(UNION {ArtifactPins(c.bundles) : c \in selected}, env)
ToolKept(d, m) ==
    /\ m.member.name = d.id /\ RangeAnswer(m.member.version, d.range) = "yes"
    /\ ToSet(m.member.executables) \subseteq m.member.built
SelectedExternalTools(b, env) ==
    LET pins == ArtifactPins(b.tools) IN
    IF MaterializeAll(pins, "tool", env) = NONE \/ \E d \in pins : ~ToolKept(d, Materialize(d, "tool", env)) THEN NONE
    ELSE {Materialize(d, "tool", env).member : d \in pins}
WorkspaceExternalMembers(w, env) ==
    LET bundles == ExternalBundles(UNION {ArtifactPins(b.bundles) : b \in ToSet(w.bundles)}, env)
        tools == {SelectedExternalTools(b, env) : b \in ToSet(w.bundles)}
    IN  IF bundles = NONE \/ NONE \in tools \/ Conflict(UNION {ToSet(b.tools) : b \in ToSet(w.bundles)}) THEN NONE
        ELSE [bundles |-> bundles, tools |-> UNION tools]

-----------------------------------------------------------------------------
(* The bundles of a session.  The first of an id is kept; one that differs *)
(* from it in version, kind or contract is an error.                       *)
Signature(b) == <<b.version, b.kind, b.contract>>
(* Mutant: the first of an id is kept whatever the next one is. *)
MergeFirst(merged, b) ==
    IF \E i \in DOMAIN merged.kept : merged.kept[i].name = b.name THEN merged ELSE [merged EXCEPT !.kept = Append(@, b)]
MergeStep(merged, b) ==
    LET same == {i \in DOMAIN merged.kept : merged.kept[i].name = b.name} IN
    CASE merged.failed -> merged
      [] same = {} -> [merged EXCEPT !.kept = Append(@, b)]
      [] \A i \in same : Signature(merged.kept[i]) = Signature(b) -> merged
      [] OTHER -> [merged EXCEPT !.failed = TRUE]
MergeComposedBundles(primary, resolved, explicit) ==
    LET merged == FoldLeft(MergeStep, [kept |-> <<primary>>, failed |-> FALSE], resolved \o explicit) IN
    IF merged.failed \/ ImagingConflicts(ToSet(merged.kept)) # {} THEN NONE ELSE Tail(merged.kept)
ByName(S) == SetToSortSeq(S, LAMBDA a, b : a.name < b.name)
ComposedFor(w, b, order, explicit, env) ==
    LET local == MergeComposedBundles(b, [i \in DOMAIN order |-> Member(w.bundles, order[i])], explicit)
        external == SelectedExternalBundles(w, b, env)
    IN  IF local = NONE \/ external = NONE THEN NONE ELSE MergeComposedBundles(b, local, ByName(external))

(* What `ost plugin test` of a bundle runs with, and what the same bundle  *)
(* runs with under --workspace, where the graph is asked itself.           *)
TestAlone(w, b, explicit, env) ==
    IF SourceWorkspaceFor(w, b) = "error" THEN NONE
    ELSE [composed |-> ComposedFor(w, b, SelectedWorkspaceDependencies(w, b), explicit, env),
          libraries |-> SelectedLibraries(w, b), external |-> SelectedExternalLibraries(w, b, env)]
TestInWorkspace(w, b, explicit, env) ==
    [composed |-> ComposedFor(w, b, DependencyOrder(w, b.name), explicit, env),
     libraries |-> LibraryDependencyOrder(w, b.name), external |-> SelectedExternalLibraries(w, b, env)]
=============================================================================
