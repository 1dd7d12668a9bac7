---------------------------- MODULE PluginGraph ----------------------------
(***************************************************************************)
(* The plugin workspace: how its members are discovered                    *)
(* (commands/plugin.rs), how the graph of their dependencies is validated  *)
(* and ordered (ost-plugin, workspace.rs), and which part of it a command  *)
(* on one bundle or one library selects.                                   *)
(*                                                                         *)
(* A workspace w has the sequences bundles, libraries and tools of loaded  *)
(* descriptors.  An id is a number, its rank in the order of ids; 0 stands *)
(* for every id that is not portable.  A digest is a number too, 0 one     *)
(* that is malformed.  A directory is a sequence of names, a name a        *)
(* sequence of characters.                                                 *)
(***************************************************************************)
EXTENDS PluginLevels

CONSTANTS
    MAX_WORKSPACE_MEMBER_DEPTH, \* the deepest member below the root
    WORKSPACE_SCAN_EXCLUDED     \* the names the scan never enters, the hidden ones among them

-----------------------------------------------------------------------------
(* Discovery.  A tree has dirs, the directories below and with the root    *)
(* <<>>, links, those of them that are symbolic links, and descriptors,    *)
(* the kinds of descriptor each directory carries.                         *)
DescriptorKind(tree, d) ==
    LET kinds == tree.descriptors[d] IN
    CASE kinds = {} -> NONE
      [] Cardinality(kinds) = 1 -> CHOOSE k \in kinds : TRUE
      [] OTHER -> "ambiguous"

Enters(tree, d) == d \in tree.dirs /\ d \notin tree.links /\ Last(d) \notin WORKSPACE_SCAN_EXCLUDED
Ancestors(d) == {SubSeq(d, 1, i) : i \in 1..Len(d)}
Scanned(tree) ==
    {d \in tree.dirs : Len(d) <= MAX_WORKSPACE_MEMBER_DEPTH /\ \A a \in Ancestors(d) : Enters(tree, a)}
ScanWorkspaceDescriptors(tree) == {d \in Scanned(tree) : DescriptorKind(tree, d) # NONE}

(* The offsets of a name that the pattern read so far may have reached. *)
WildcardStep(name, reached, c) ==
    CASE c = "*" -> {o \in 0..Len(name) : \E p \in reached : p <= o}
      [] c = "?" -> {p + 1 : p \in reached \ {Len(name)}}
      [] OTHER -> {p + 1 : p \in {q \in reached \ {Len(name)} : name[q + 1] = c}}
WildcardComponentMatches(pattern, name) ==
    Len(name) \in FoldLeft(LAMBDA reached, c : WildcardStep(name, reached, c), {0}, pattern)
IsWildcard(component) == \E i \in DOMAIN component : component[i] \in {"*", "?"}

ExpandComponent(tree, parents, component) ==
    {d \in tree.dirs \ (tree.links \cup {<<>>}) :
        /\ Front(d) \in parents
        /\ IF IsWildcard(component)
           THEN Last(d) \notin WORKSPACE_SCAN_EXCLUDED /\ WildcardComponentMatches(component, Last(d))
           ELSE Last(d) = component}
ExpandWorkspaceMemberPattern(tree, pattern) ==
    FoldLeft(LAMBDA parents, c : ExpandComponent(tree, parents, c), {<<>>}, pattern)

(* What the project manifest accepts as a pattern: no deeper than the scan,*)
(* and no component that names generated state.                            *)
WorkspaceMemberValid(pattern, generated) ==
    /\ Len(pattern) <= MAX_WORKSPACE_MEMBER_DEPTH
    /\ \A i \in DOMAIN pattern : pattern[i] # <<>> /\ pattern[i] \notin generated

PatternError(tree, pattern) ==
    LET matches == ExpandWorkspaceMemberPattern(tree, pattern)
        wild == \E i \in DOMAIN pattern : IsWildcard(pattern[i])
        bare == {d \in matches : DescriptorKind(tree, d) = NONE}
    IN  CASE matches = {} -> "WORKSPACE_MEMBER_PATTERN_EMPTY"
          [] \E d \in matches : DescriptorKind(tree, d) = "ambiguous" -> "WORKSPACE_MEMBER_DESCRIPTOR_AMBIGUOUS"
          [] ~wild /\ bare # {} -> "WORKSPACE_MEMBER_DESCRIPTOR_MISSING"
          [] wild /\ bare = matches -> "WORKSPACE_MEMBER_PATTERN_EMPTY"
          [] OTHER -> NONE
DeclaredMembers(tree, patterns) ==
    {d \in UNION {ExpandWorkspaceMemberPattern(tree, patterns[i]) : i \in DOMAIN patterns} : DescriptorKind(tree, d) # NONE}
DiscoverWorkspaceMembers(tree, patterns) ==
    LET scanned == ScanWorkspaceDescriptors(tree)
        wrong == {i \in DOMAIN patterns : PatternError(tree, patterns[i]) # NONE}
        answer(error, members) == [error |-> error, members |-> members]
    IN  CASE \E d \in scanned : DescriptorKind(tree, d) = "ambiguous" ->
               answer("WORKSPACE_MEMBER_DESCRIPTOR_AMBIGUOUS", {})
          [] patterns = NONE -> answer(NONE, scanned \ {<<>>})
          [] wrong # {} -> answer(PatternError(tree, patterns[CHOOSE i \in wrong : \A j \in wrong : i <= j]), {})
          [] scanned \ DeclaredMembers(tree, patterns) # {} -> answer("WORKSPACE_DESCRIPTOR_NOT_DECLARED", {})
          [] OTHER -> answer(NONE, DeclaredMembers(tree, patterns))

-----------------------------------------------------------------------------
(* The graph.  Every rule adds its issues; an id that two members declare  *)
(* is no provider.                                                         *)
PortableId(id) == id > 0
Ids(members) == {members[i].name : i \in DOMAIN members}
Count(members, id) == Cardinality({i \in DOMAIN members : members[i].name = id})
Unique(members) == {id \in Ids(members) : Count(members, id) = 1}
Member(members, id) == members[CHOOSE i \in DOMAIN members : members[i].name = id]
Issue(code, at, of) == [code |-> code, at |-> at, of |-> of]
Ascending(S) == [k \in 1..Cardinality(S) |-> CHOOSE x \in S : Cardinality({y \in S : y <= x}) = k]

RangeUnusable(range) == range = <<>> \/ RangeAnswer(<<0, 0, 0>>, range) = "error"

(* A pin names one digest, or one per target and none of its own. *)
DigestPinned(pin) == pin.digest # NONE /\ pin.digest > 0 /\ pin.source # "blank"
ValidArtifactPin(artifact) ==
    IF DOMAIN artifact.targets = {} THEN DigestPinned(artifact)
    ELSE /\ artifact.digest = NONE /\ artifact.source = NONE
         /\ \A t \in DOMAIN artifact.targets :
                t # "blank" /\ DOMAIN artifact.targets[t].targets = {} /\ DigestPinned(artifact.targets[t])
RepeatsEarlier(deps, i) == \E j \in 1..(i - 1) : deps[j].id = deps[i].id

(* The dependencies of one kind of all members that count, in the order    *)
(* they are read: by the id of the consumer, then as declared.             *)
ReadOrder(members, DepsOf(_)) ==
    FlattenSeq([k \in 1..Cardinality(Unique(members)) |->
        LET m == Member(members, Ascending(Unique(members))[k]) IN
        [i \in DOMAIN DepsOf(m) |-> [at |-> m.name, index |-> i, dependency |-> DepsOf(m)[i]]]])
(* A pin that is not the pin last read for the same id is a conflict. *)
Replaces(reads, k) ==
    LET same == {j \in 1..(k - 1) : reads[j].dependency.id = reads[k].dependency.id} IN
    same # {} /\ reads[CHOOSE j \in same : \A l \in same : l <= j].dependency # reads[k].dependency
PinReads(bundles) ==
    SelectSeq(ReadOrder(bundles, LAMBDA b : b.bundles),
              LAMBDA r : /\ PortableId(r.dependency.id) /\ r.dependency.artifact # NONE
                         /\ ~RepeatsEarlier(Member(bundles, r.at).bundles, r.index))
ToolUsable(d) == PortableId(d.id) /\ ~RangeUnusable(d.range) /\ ValidArtifactPin(d.artifact)
ToolReads(bundles) ==
    SelectSeq(ReadOrder(bundles, LAMBDA b : b.tools),
              LAMBDA r : ToolUsable(r.dependency) /\ ~RepeatsEarlier(Member(bundles, r.at).tools, r.index))

ValidateContract(d, provider) ==
    LET schema == provider.kind = "usd-schema" IN
    CASE d.contract = 0 -> {"WORKSPACE_SCHEMA_CONTRACT_INVALID"}
      [] schema /\ d.contract = NONE /\ provider.contract # NONE -> {"WORKSPACE_SCHEMA_CONTRACT_REQUIRED"}
      [] schema /\ d.contract # NONE /\ provider.contract = NONE -> {"WORKSPACE_SCHEMA_CONTRACT_MISSING"}
      [] schema /\ d.contract # provider.contract -> {"WORKSPACE_SCHEMA_CONTRACT_MISMATCH"}
      [] ~schema /\ d.contract # NONE -> {"WORKSPACE_SCHEMA_CONTRACT_NOT_APPLICABLE"}
      [] OTHER -> {}
(* A schema depends on no bundle, and a resolver on no file format. *)
ValidateDirection(consumer, provider) ==
    IF \/ consumer.kind = "usd-schema"
       \/ consumer.kind \in {"usd-asset-resolver", "usd-package-resolver"} /\ provider.kind = "usd-fileformat"
    THEN {"WORKSPACE_DEPENDENCY_DIRECTION_FORBIDDEN"} ELSE {}
ValidateRange(version, range, invalid, mismatch) ==
    CASE range = <<>> -> {invalid}
      [] RangeAnswer(version, range) = "no" -> {mismatch}
      [] RangeAnswer(version, range) = "error" -> {invalid}
      [] OTHER -> {}

BundleDependencyIssues(w, b, i) ==
    LET d == b.bundles[i]
        local == d.id \in Unique(w.bundles)
        reads == PinReads(w.bundles)
        conflict == \E k \in DOMAIN reads : reads[k].at = b.name /\ reads[k].index = i /\ Replaces(reads, k)
    IN  CASE ~PortableId(d.id) -> {"WORKSPACE_DEPENDENCY_ID_INVALID"}
          [] RepeatsEarlier(b.bundles, i) -> {"WORKSPACE_DUPLICATE_DEPENDENCY"}
          [] d.artifact # NONE ->
               CASE conflict -> {"WORKSPACE_BUNDLE_ARTIFACT_CONFLICT"}
                 [] ~ValidArtifactPin(d.artifact) -> {"WORKSPACE_BUNDLE_ARTIFACT_DIGEST_INVALID"}
                 [] local -> {"WORKSPACE_BUNDLE_PROVIDER_AMBIGUOUS"}
                 [] RangeUnusable(d.range) -> {"WORKSPACE_DEPENDENCY_VERSION_INVALID"}
                 [] d.contract = 0 -> {"WORKSPACE_SCHEMA_CONTRACT_INVALID"}
                 [] OTHER -> {}
          [] ~local -> {"WORKSPACE_DEPENDENCY_MISSING"}
          [] OTHER -> LET p == Member(w.bundles, d.id) IN
                      ValidateRange(p.version, d.range, "WORKSPACE_DEPENDENCY_VERSION_INVALID", "WORKSPACE_DEPENDENCY_VERSION_MISMATCH")
                          \cup ValidateContract(d, p) \cup ValidateDirection(b, p)
(* Missing, malformed and ambiguous providers add no edge. *)
BundleEdges(w) ==
    {[from |-> b.name, to |-> d.id, external |-> d.artifact # NONE] :
        <<b, d>> \in UNION {{<<b, b.bundles[i]>> : i \in {j \in DOMAIN b.bundles :
                                IF b.bundles[j].artifact = NONE
                                THEN PortableId(b.bundles[j].id) /\ b.bundles[j].id \in Unique(w.bundles) /\ ~RepeatsEarlier(b.bundles, j)
                                ELSE BundleDependencyIssues(w, b, j) = {}}} :
                            b \in {Member(w.bundles, id) : id \in Unique(w.bundles)}}}

ValidateLibraryDependency(w, deps, i) ==
    LET d == deps[i]
        local == d.id \in Unique(w.libraries)
    IN  CASE RepeatsEarlier(deps, i) -> {"WORKSPACE_DUPLICATE_LIBRARY_DEPENDENCY"}
          [] ~PortableId(d.id) -> {"WORKSPACE_LIBRARY_DEPENDENCY_ID_INVALID"}
          [] d.artifact # NONE ->
               CASE ~ValidArtifactPin(d.artifact) -> {"WORKSPACE_LIBRARY_ARTIFACT_DIGEST_INVALID"}
                 [] local -> {"WORKSPACE_LIBRARY_PROVIDER_AMBIGUOUS"}
                 [] RangeUnusable(d.range) -> {"WORKSPACE_LIBRARY_DEPENDENCY_VERSION_INVALID"}
                 [] OTHER -> {}
          [] ~local -> {"WORKSPACE_LIBRARY_DEPENDENCY_MISSING"}
          [] OTHER -> ValidateRange(Member(w.libraries, d.id).version, d.range,
                   "WORKSPACE_LIBRARY_DEPENDENCY_VERSION_INVALID", "WORKSPACE_LIBRARY_DEPENDENCY_VERSION_MISMATCH")
AllDependencies(l) == l.libraries \o l.build \o l.test
ScopeOf(l, i) ==
    CASE i <= Len(l.libraries) -> "runtime" [] i <= Len(l.libraries) + Len(l.build) -> "build" [] OTHER -> "test"
LocalLibraries(w, deps) ==
    {i \in DOMAIN deps : deps[i].artifact = NONE /\ ~RepeatsEarlier(deps, i) /\ deps[i].id \in Unique(w.libraries)}
LibraryEdges(w) ==
    UNION {LET l == Member(w.libraries, id) IN
           {[from |-> id, to |-> AllDependencies(l)[i].id, scope |-> ScopeOf(l, i)] : i \in LocalLibraries(w, AllDependencies(l))} :
           id \in Unique(w.libraries)}
LibraryRoots(w, b) == {b.libraries[i].id : i \in LocalLibraries(w, b.libraries)}

ToolDependencyIssues(w, b, i) ==
    LET reads == ToolReads(w.bundles) IN
    CASE RepeatsEarlier(b.tools, i) -> {"WORKSPACE_DUPLICATE_TOOL_DEPENDENCY"}
      [] ~ToolUsable(b.tools[i]) -> {"WORKSPACE_TOOL_ARTIFACT_INVALID"}
      [] \E k \in DOMAIN reads : reads[k].at = b.name /\ reads[k].index = i /\ Replaces(reads, k) ->
           {"WORKSPACE_TOOL_ARTIFACT_CONFLICT"}
      [] b.tools[i].id \in Ids(w.tools) -> {"WORKSPACE_TOOL_PROVIDER_AMBIGUOUS"}
      [] OTHER -> {}

(* The cycles a depth-first walk meets: an edge back into the path walked. *)
RECURSIVE VisitCycles(_, _, _)
VisitCycles(adjacency, walk, id) ==
    LET entered == [walk EXCEPT !.state = (id :> 1) @@ @, !.stack = Append(@, id)]
        step(acc, d) ==
            CASE d \notin DOMAIN acc.state -> VisitCycles(adjacency, acc, d)
              [] acc.state[d] = 1 ->
                   LET start == CHOOSE i \in DOMAIN acc.stack : acc.stack[i] = d IN
                   [acc EXCEPT !.cycles = @ \cup {{acc.stack[i] : i \in start..Len(acc.stack)}}]
              [] OTHER -> acc
        left == FoldLeft(step, entered, Ascending(adjacency[id]))
    IN  [left EXCEPT !.state = (id :> 2) @@ @, !.stack = Front(@)]
FindCycles(nodes, adjacency) ==
    FoldLeft(LAMBDA walk, id : IF id \in DOMAIN walk.state THEN walk ELSE VisitCycles(adjacency, walk, id),
             [state |-> <<>>, stack |-> <<>>, cycles |-> {}], Ascending(nodes)).cycles
BundleAdjacency(w) ==
    LET edges == BundleEdges(w) IN [id \in Unique(w.bundles) |-> {e.to : e \in {f \in edges : f.from = id /\ ~f.external}}]
LibraryAdjacency(nodes, edges, Follows(_)) ==
    [id \in nodes |-> {e.to : e \in {f \in edges : f.from = id /\ Follows(f)}}]
AnyScope(e) == TRUE
FindLibraryCycles(w) == FindCycles(Unique(w.libraries), LibraryAdjacency(Unique(w.libraries), LibraryEdges(w), AnyScope))

BundleIssues(w, b) ==
    {c \in {"WORKSPACE_BUNDLE_ID_INVALID"} : ~PortableId(b.name)}
        \cup {c \in {"WORKSPACE_SCHEMA_CONTRACT_INVALID"} : b.kind = "usd-schema" /\ b.contract = 0}
        \cup {c \in {"WORKSPACE_SCHEMA_CONTRACT_NOT_APPLICABLE"} : b.kind # "usd-schema" /\ b.contract # NONE}
        \cup UNION {BundleDependencyIssues(w, b, i) : i \in DOMAIN b.bundles}
        \cup UNION {ValidateLibraryDependency(w, b.libraries, i) : i \in DOMAIN b.libraries}
        \cup UNION {ToolDependencyIssues(w, b, i) : i \in DOMAIN b.tools}
Duplicates(members, code) == {Issue(code, id, NONE) : id \in Ids(members) \ Unique(members)}
ValidateWorkspace(w) ==
    LET of(members, Codes(_)) ==
            UNION {{Issue(c, id, NONE) : c \in Codes(Member(members, id))} : id \in Unique(members)}
        libraryCodes(l) == UNION {ValidateLibraryDependency(w, AllDependencies(l), i) : i \in DOMAIN AllDependencies(l)}
        toolCodes(t) == UNION {ValidateLibraryDependency(w, t.libraries, i) : i \in DOMAIN t.libraries}
        bundleCodes(b) == BundleIssues(w, b)
    IN  {Issue("WORKSPACE_IMAGING_CONFLICT", NONE, k) : k \in ImagingConflicts(ToSet(w.bundles))}
            \cup Duplicates(w.bundles, "WORKSPACE_DUPLICATE_BUNDLE_ID")
            \cup Duplicates(w.libraries, "WORKSPACE_DUPLICATE_LIBRARY_ID")
            \cup Duplicates(w.tools, "WORKSPACE_DUPLICATE_TOOL_ID")
            \cup of(w.bundles, bundleCodes) \cup of(w.libraries, libraryCodes) \cup of(w.tools, toolCodes)
            \cup {Issue("WORKSPACE_DEPENDENCY_CYCLE", NONE, c) : c \in FindCycles(Unique(w.bundles), BundleAdjacency(w))}
            \cup {Issue("WORKSPACE_LIBRARY_DEPENDENCY_CYCLE", NONE, c) : c \in FindLibraryCycles(w)}

(* The members as they are loaded, with their graph. *)
LoadWorkspaceGraph(members) ==
    members @@ [graph |-> [passed |-> ValidateWorkspace(members) = {}, edges |-> BundleAdjacency(members),
                           libraryEdges |-> LibraryEdges(members)]]
GraphPassed(w) == w.graph.passed

-----------------------------------------------------------------------------
(* The orders of a graph that passed: depth first, each node after all it  *)
(* depends on.                                                             *)
RECURSIVE Visit(_, _, _)
Visit(adjacency, walk, id) ==
    IF id \in walk.visited THEN walk
    ELSE LET below == FoldLeft(LAMBDA acc, d : Visit(adjacency, acc, d),
                               [walk EXCEPT !.visited = @ \cup {id}], Ascending(adjacency[id]))
         IN  [below EXCEPT !.ordered = Append(@, id)]
OrderFrom(adjacency, roots) ==
    FoldLeft(LAMBDA acc, d : Visit(adjacency, acc, d), [visited |-> {}, ordered |-> <<>>], Ascending(roots)).ordered
DependencyOrder(w, id) == OrderFrom(w.graph.edges, w.graph.edges[id])
TopologicalOrder(w) == OrderFrom(w.graph.edges, Unique(w.bundles))
RuntimeScope(e) == e.scope = "runtime"
LibraryDependencyOrder(w, id) ==
    OrderFrom(LibraryAdjacency(Unique(w.libraries), w.graph.libraryEdges, RuntimeScope),
              UNION {LibraryRoots(w, Member(w.bundles, b)) : b \in ToSet(DependencyOrder(w, id)) \cup {id}})
(* The tests of a library may use more than the libraries it is built of,  *)
(* but the tests of what it depends on are not run.                        *)
LibraryOrder(w, id, mode) ==
    LET follows(e) ==
            \/ e.scope = "runtime"
            \/ e.scope = "build" /\ mode # "consumer"
            \/ e.scope = "test" /\ mode = "test" /\ e.from = id
        adjacency == LibraryAdjacency(Unique(w.libraries), w.graph.libraryEdges, follows)
    IN  OrderFrom(adjacency, adjacency[id])

-----------------------------------------------------------------------------
(* What a command on one member makes of its workspace.  A primary bundle  *)
(* that needs no other member, or stands alone, has none; otherwise the    *)
(* whole graph must pass.                                                  *)
HasMaterializedLibraryClosure(b) == b.packaged
PinsAny(deps) == \E i \in DOMAIN deps : deps[i].artifact # NONE
SourceWorkspaceFor(w, b) ==
    CASE b.bundles = <<>> /\ (b.libraries = <<>> \/ HasMaterializedLibraryClosure(b)) -> NONE
      [] /\ Len(w.bundles) < 2 /\ w.libraries = <<>> /\ b.tools = <<>>
         /\ ~PinsAny(b.libraries) /\ ~PinsAny(b.bundles) -> NONE
      [] b \notin ToSet(w.bundles) -> NONE
      [] ~GraphPassed(w) -> "error"
      [] OTHER -> "graph"
SelectedWorkspaceDependencies(w, b) ==
    IF SourceWorkspaceFor(w, b) = "graph" THEN DependencyOrder(w, b.name) ELSE <<>>
SelectedLibraries(w, b) ==
    IF SourceWorkspaceFor(w, b) = "graph" THEN LibraryDependencyOrder(w, b.name) ELSE <<>>
ModeDependencies(l, mode) ==
    l.libraries \o (IF mode = "consumer" THEN <<>> ELSE l.build) \o (IF mode = "test" THEN l.test ELSE <<>>)
SelectedLibrariesForLibrary(w, l, mode) ==
    CASE ModeDependencies(l, mode) = <<>> -> <<>>
      [] l \notin ToSet(w.libraries) \/ ~GraphPassed(w) -> NONE
      [] OTHER -> LibraryOrder(w, l.name, mode)
=============================================================================
