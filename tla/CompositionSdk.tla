--------------------------- MODULE CompositionSdk ---------------------------
(***************************************************************************)
(* The SDK layout of a composed runtime (ost-formation, composition_sdk):  *)
(* which file of which component goes where in the one prefix, how the     *)
(* symbolic links are rewritten, and what activating the prefix puts in    *)
(* the environment.  A path is the sequence of its parts; a component's    *)
(* file is [component, path, link], its link the parts of the target, or   *)
(* <<>> for a regular file.  Deriving is a function of the lock, which is  *)
(* the only state.                                                         *)
(***************************************************************************)
EXTENDS Integers, FiniteSets, Sequences, SequencesExt

CONSTANTS
    Layouts,      \* the composition locks whose SDK a run derives
    Fold(_)       \* the ASCII lower case of a part

VARIABLE lock     \* the composition lock whose SDK is derived

SdkInit == lock \in Layouts

SdkRoots == {"bin", "lib", "include", "share", "plugins", "python", "node", "metadata"}
Reserved == {"components", "metadata"}
Settings == {"PYTHONDONTWRITEBYTECODE", "PYTHONNOUSERSITE"}

Folded(path) == [i \in DOMAIN path |-> Fold(path[i])]
Below(dir, path) == IsStrictPrefix(dir, path)
Within(dir, path) == IsPrefix(dir, path)
From(path, n) == SubSeq(path, n + 1, Len(path))

(* Which paths are refused: rooted ones, those with a parent step, and     *)
(* parts some file system would rename ("x." stands for them).             *)
IsPortable(path) ==
    /\ path # <<>> => path[1] # ""
    /\ \A i \in DOMAIN path : path[i] \notin {"..", "x."}
Portable(path) == SelectSeq(path, LAMBDA part : part \notin {"", "."})

(* A destination under one of the SDK's directories takes that directory's *)
(* own spelling.                                                           *)
SdkDestination(path) ==
    LET p == Portable(path) IN
    IF p # <<>> /\ Fold(p[1]) \in SdkRoots THEN <<Fold(p[1])>> \o From(p, 1) ELSE p

Mapped(path, source, destination) == destination \o From(path, Len(source))

(* Walking a relative target from a link's directory; a walk that climbs   *)
(* out of the component is refused.                                        *)
Walk(from, target) ==
    FoldLeft(LAMBDA at, part :
                IF ~at.ok \/ part \in {"", "."} THEN at
                ELSE IF part # ".." THEN [at EXCEPT !.path = Append(@, part)]
                ELSE IF at.path = <<>> THEN [at EXCEPT !.ok = FALSE]
                ELSE [at EXCEPT !.path = Front(@)],
             [ok |-> TRUE, path |-> from], target)
LinkDestination(source, target) ==
    IF target[1] = "" THEN [ok |-> FALSE, path |-> <<>>] ELSE Walk(Front(source), target)

(* Mutant: the link's own name is taken for a directory.                   *)
RelativeLinkFromFile(path, target) == [i \in 1..Len(path) |-> ".."] \o target

(* The relative target that leads from one installed path to another.      *)
RelativeLink(path, target) ==
    LET dir == Front(path)
        common == CHOOSE n \in 0..Len(dir) :
            /\ n <= Len(target)
            /\ SubSeq(dir, 1, n) = SubSeq(target, 1, n)
            /\ (n < Len(dir) /\ n < Len(target)) => dir[n + 1] # target[n + 1]
        parts == [i \in 1..(Len(dir) - common) |-> ".."] \o From(target, common)
    IN  IF parts = <<>> THEN <<".">> ELSE parts

-----------------------------------------------------------------------------
(* RuntimeSdkLayout::derive, the files.                                    *)

(* A mapping installs the file it names, or every file below it.           *)
Expanded(l, m) ==
    {f \in l.inventory : f.component = m.component /\ Within(Portable(m.source), f.path)}
Placed(l) ==
    UNION {{[mapping |-> m, file |-> f,
             path |-> Portable(Mapped(f.path, Portable(m.source), SdkDestination(m.destination)))] :
                f \in Expanded(l, m)} : m \in l.install}

MappingsSound(l) ==
    \A m \in l.install :
        /\ IsPortable(m.source) /\ IsPortable(m.destination)
        /\ SdkDestination(m.destination) # <<>>
        /\ Fold(SdkDestination(m.destination)[1]) \notin Reserved
        /\ Expanded(l, m) # {}

(* No destination has two owners, no file is where a directory must be,    *)
(* and a directory is spelled one way.                                     *)
Uncontested(l) ==
    LET P == Placed(l) IN
    /\ \A p, q \in P : Folded(p.path) = Folded(q.path) => p = q
    /\ \A p, q \in P : ~Below(Folded(p.path), Folded(q.path))
    /\ \A p \in P : Len(p.path) = 1 => Fold(p.path[1]) \notin SdkRoots
    /\ \A p, q \in P : \A n \in 1..(Len(p.path) - 1) :
        (n < Len(q.path) /\ Folded(SubSeq(p.path, 1, n)) = Folded(SubSeq(q.path, 1, n)))
            => SubSeq(p.path, 1, n) = SubSeq(q.path, 1, n)

(* Where the target of a link went: the place of the file it names, or the *)
(* place of the directory, read off the files below it.                    *)
Destinations(l, p) ==
    LET t == LinkDestination(p.file.path, p.file.link).path IN
    {q.path : q \in {q \in Placed(l) : q.file.component = p.file.component /\ q.file.path = t}}
    \cup
    {SubSeq(q.path, 1, Len(q.path) - (Len(q.file.path) - Len(t))) :
        q \in {q \in Placed(l) :
                 /\ q.file.component = p.file.component
                 /\ Below(t, q.file.path)
                 /\ IsSuffix(From(q.file.path, Len(t)), q.path)
                 /\ Len(q.path) > Len(q.file.path) - Len(t)}}
IsLink(p) == p.file.link # <<>>
LinksSound(l) ==
    \A p \in Placed(l) : IsLink(p) =>
        /\ LinkDestination(p.file.path, p.file.link).ok
        /\ Cardinality(Destinations(l, p)) = 1

(* The link as it is written in the prefix.                                *)
Rewritten(l, p) ==
    RelativeLink(p.path, CHOOSE d \in Destinations(l, p) : TRUE)

-----------------------------------------------------------------------------
(* RuntimeSdkLayout::derive, the environment; a contribution is            *)
(* [variable, operation, source, values] with component-relative values.   *)

HasFiles(l, component, value) ==
    \E f \in l.inventory : f.component = component /\ Within(Portable(value), f.path)

(* A plugin's conventional directories are left out when it has no files   *)
(* there; every other value stays, present or not.                         *)
Optional(l, c, value) ==
    /\ c.operation # "set"
    /\ l.kind[c.source] = "plugin"
    /\ \/ c.variable = "PYTHONPATH" /\ Portable(value) = <<"python">>
       \/ c.variable \in {"PATH", "LD_LIBRARY_PATH", "DYLD_LIBRARY_PATH"} /\ Portable(value) = <<"lib">>
PathsOf(l, c) ==
    LET kept == SelectSeq(c.values, LAMBDA v : ~Optional(l, c, v) \/ HasFiles(l, c.source, v))
    IN  [i \in DOMAIN kept |-> <<c.source>> \o Portable(kept[i])]
Declared(l) ==
    SelectSeq([i \in DOMAIN l.environment |->
                  [key |-> l.environment[i].variable, operation |-> l.environment[i].operation,
                   paths |-> PathsOf(l, l.environment[i])]],
              LAMBDA e : e.paths # <<>>)

(* A runtime that provides usd and says nothing of PYTHONPATH gets the     *)
(* directory that holds its pxr package: an unversioned one first, then    *)
(* one of the Python its target names, or of any when it names none.       *)
Unversioned == <<<<"lib", "python">>, <<"lib", "site-packages">>, <<"Lib", "site-packages">>>>
Versioned == [v \in {"311", "312"} |->
                <<"lib", IF v = "311" THEN "python3.11" ELSE "python3.12", "site-packages">>]
HasPxr(l, component, root) ==
    \E f \in l.inventory : f.component = component /\ Within(Append(root, "pxr"), f.path)
PythonRoots(l, component) ==
    SelectSeq(Unversioned, LAMBDA r : HasPxr(l, component, r))
    \o SelectSeq(<<Versioned["311"], Versioned["312"]>>,
                 LAMBDA r : HasPxr(l, component, r)
                            /\ (l.python = "" \/ r = Versioned[l.python]))
RuntimePythonPath(l, component) == Head(PythonRoots(l, component))
NeedsPython(l) ==
    {c \in DOMAIN l.kind :
        /\ l.kind[c] = "runtime" /\ l.usd = c
        /\ ~\E i \in DOMAIN l.environment :
                l.environment[i].source = c /\ l.environment[i].variable = "PYTHONPATH"
        /\ PythonRoots(l, c) # <<>>}
Implied(l) ==
    [i \in 1..Cardinality(NeedsPython(l)) |->
        LET c == SetToSeq(NeedsPython(l))[i] IN
        [key |-> "PYTHONPATH", operation |-> "prepend", paths |-> <<<<c>> \o RuntimePythonPath(l, c)>>]]

SdkKeys(loader) ==
    <<<<"PATH", "bin">>, <<loader, "lib">>, <<"PYTHONPATH", "python">>, <<"NODE_PATH", "node">>,
      <<"PXR_PLUGINPATH_NAME", "plugins">>, <<"CMAKE_PREFIX_PATH", ".">>>>
SdkPaths(loader) ==
    [i \in 1..6 |-> [key |-> SdkKeys(loader)[i][1], operation |-> "prepend",
                     paths |-> <<Portable(<<SdkKeys(loader)[i][2]>>)>>]]

(* Settings are not contributed to, two sets of one variable agree on the  *)
(* resolved paths, and what the SDK prepends to nobody sets.               *)
EnvironmentSound(l, loader) ==
    LET D == ToSet(Declared(l)) IN
    /\ \A i \in DOMAIN l.environment :
        /\ l.environment[i].variable \notin Settings
        /\ \A j \in DOMAIN l.environment[i].values : IsPortable(l.environment[i].values[j])
    /\ \A d, e \in D : (d.operation = "set" /\ e.operation = "set" /\ d.key = e.key) => d.paths = e.paths
    /\ \A d \in D : d.operation = "set" => d.key \notin {SdkKeys(loader)[i][1] : i \in 1..6}
Environment(l, loader) == Declared(l) \o Implied(l) \o SdkPaths(loader)

Derives(l, loader) ==
    MappingsSound(l) /\ Uncontested(l) /\ LinksSound(l) /\ EnvironmentSound(l, loader)

(* RuntimeSdkLayout::activate: the contributions applied in order.  The    *)
(* value of a variable is the sequence of its paths.                       *)
Apply(value, e) ==
    CASE e.operation = "set" -> e.paths
      [] e.operation = "prepend" -> e.paths \o value
      [] e.operation = "append" -> value \o e.paths
Activate(l, loader, key) ==
    FoldLeft(LAMBDA value, e : IF e.key = key THEN Apply(value, e) ELSE value,
             <<>>, Environment(l, loader))

-----------------------------------------------------------------------------
(* On a file system that ignores case, a derived layout can be laid out in *)
(* any order of its files: no two of them meet in one path, and none needs *)
(* as a directory what another one writes as a file, whichever mappings,   *)
(* spellings and root aliases the components chose.                        *)
LayoutIsATree ==
    Derives(lock, "LD_LIBRARY_PATH") =>
        LET P == Placed(lock) IN
        /\ \A p, q \in P : p # q => ~Within(Folded(p.path), Folded(q.path))
        /\ \A p \in P : Fold(p.path[1]) \notin Reserved
        /\ \A p, q \in P : Fold(p.path[1]) = Fold(q.path[1]) => p.path[1] = q.path[1]

(* A link survives the move: followed from where the SDK puts it, the      *)
(* rewritten target is where the SDK put what the link named inside its    *)
(* component, a file or a directory with files of that component.          *)
LinksFollowTheirTargets ==
    Derives(lock, "LD_LIBRARY_PATH") =>
        \A p \in Placed(lock) : IsLink(p) =>
            LET there == Walk(Front(p.path), Rewritten(lock, p))
                named == Walk(Front(p.file.path), p.file.link).path IN
            /\ there.ok
            /\ \E q \in Placed(lock) :
                /\ q.file.component = p.file.component
                /\ Within(there.path, q.path) /\ Within(named, q.file.path)
                /\ From(q.path, Len(there.path)) = From(q.file.path, Len(named))

(* Activation loses nothing: every path a component contributes, the       *)
(* implied Python path and the SDK's own directories are in the value the  *)
(* variable ends with, the SDK's first, although a set contribution        *)
(* replaces what was there before it.                                      *)
ActivationKeepsEveryPath ==
    Derives(lock, "LD_LIBRARY_PATH") =>
        LET E == Environment(lock, "LD_LIBRARY_PATH") IN
        /\ \A i \in DOMAIN E : ToSet(E[i].paths) \subseteq ToSet(Activate(lock, "LD_LIBRARY_PATH", E[i].key))
        /\ \A i \in 1..6 :
            LET k == SdkKeys("LD_LIBRARY_PATH")[i] IN
            Activate(lock, "LD_LIBRARY_PATH", k[1])[1] = Portable(<<k[2]>>)

-----------------------------------------------------------------------------
(* The SDK derived of a lock can be laid out on any file system, its links *)
(* lead where they led, and its activation loses no path a component       *)
(* contributes.                                                            *)
LayoutIsSound ==
    /\ LayoutIsATree
    /\ LinksFollowTheirTargets
    /\ ActivationKeepsEveryPath
=============================================================================
