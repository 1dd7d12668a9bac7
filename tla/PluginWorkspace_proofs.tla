----------------------- MODULE PluginWorkspace_proofs -----------------------
(***************************************************************************)
(* Proofs about PluginWorkspace, for any workspace, any number of commands *)
(* at a time and any number of edits, failures and foreign builds.         *)
(***************************************************************************)
EXTENDS PluginWorkspace, SequenceTheorems, TLAPS

Bin == [src : Nat, env : Env, with : SUBSET (Member \X Nat \X Env)]
MaybeBin == Bin \cup {None}
MaybeEnv == Env \cup {None}
Rts == {e.rt : e \in Env}
Ccs == {e.cc : e \in Env}
Files == [File -> MaybeBin]
Dones == [env : Env, outs : Files]
Trees == [cache : MaybeEnv, mark : Rts \cup {None}, ident : Rts \cup {None},
          bin : MaybeBin, done : Dones \cup {None}]
Packages == [files : Files, libs : [Library -> MaybeBin], deps : [Bundle -> MaybeBin]]
States == [chain : MaybeEnv, cc : Ccs \cup {None}, snap : MaybeBin, listed : BOOLEAN,
           stage : Files, marked : BOOLEAN, lock : MaybeEnv, pkg : Packages \cup {None}]
Roots == [env : Env, outs : [Bundle -> Files]]
Statuses == {"untracked", "mismatched", "matched"}
Manifests == [archive : Packages, rt : Rts, status : Statuses,
              named : Dones \cup {None}, alone : BOOLEAN, fresh : BOOLEAN]
Dists == [archive : Packages \cup {None, Torn}, manifest : Manifests \cup {None}]
Settlings == (Bundle \X Nat) \cup {None}
BuildJobs == [cmd : {"build"}, b : Bundle, i : Nat, env : MaybeEnv, todo : SUBSET File,
              outs : Files \cup {None}]
PackageJobs == [cmd : {"package"}, b : Bundle, env : Env, allow : BOOLEAN,
                from : UNION {[S -> {"stage", "source"}] : S \in SUBSET Bundle},
                todo : {<<"info", "lib">>, <<"lib">>, << >>},
                status : Statuses \cup {None}, named : Dones \cup {None},
                packed : Packages \cup {None}, alone : BOOLEAN, settled : Settlings]

\* The files and their types.
FilesOK ==
  /\ env \in Env /\ src \in [Member -> Nat]
  /\ prefix \in [Member -> MaybeBin]
  /\ tree \in [Member -> Trees]
  /\ state \in [Member -> States]
  /\ out \in [Bundle -> Files]
  /\ root \in Roots \cup {None}
  /\ dist \in [Bundle -> Dists]
  /\ commands \in 0..MaxCommands /\ changes \in 0..MaxChanges
  /\ crossed \in BOOLEAN /\ settled \in Settlings

Steps == BuildSteps \cup PackageSteps \cup {"idle"}
ControlOK ==
  /\ holder \in [Bundle -> Run \cup {Nobody}]
  /\ pc \in [Run -> Steps]
  /\ job \in [Run -> BuildJobs \cup PackageJobs \cup {None}]

Building(r) == pc[r] \in BuildSteps
AtWork(r) == pc[r] \in BuildSteps \ {"member"}
Packaging(r) == pc[r] \in PackageSteps
Compiled == {"clear", "install", "stage", "snapshot", "inventory", "lock", "complete", "pin"}

\* Where a run is says what its locals are, and that it has the lease of its bundle.
StepOK(r) ==
  /\ pc[r] = "idle" => job[r] = None
  /\ Building(r) => job[r] \in BuildJobs /\ job[r].i \in 1..Len(Plan(job[r].b))
  /\ Packaging(r) => job[r] \in PackageJobs
  /\ AtWork(r) => job[r].env \in Env /\ state[Current(r)].chain \in Env
  /\ pc[r] \in {"snapshot", "inventory"} => Current(r) \in Library
  /\ pc[r] \in Leased => Current(r) \in Bundle
  /\ pc[r] \in {"lock", "complete", "pin"} => job[r].outs \in Files
  /\ pc[r] \in {"copy", "assess", "pack", "packing"} => state[job[r].b].pkg \in Packages
  /\ pc[r] \in {"pack", "packing", "manifest"} => job[r].status \in Statuses
  /\ pc[r] = "manifest" => job[r].packed \in Packages
  /\ AtWork(r) /\ Current(r) \in Bundle => holder[Current(r)] = r

\* A lease is with the run that is building the bundle.
LeaseOK(b) == holder[b] # Nobody => AtWork(holder[b]) /\ Current(holder[b]) = b

\* A member only its own builder writes: a leased bundle, or any if nothing crossed.
Steady(m) == m \in Bundle \/ ~crossed
OneRuntime(bin, rt) == \A x \in bin.with : x[3].rt = rt

\* A cache was made with the runtime that is marked in it, and a completion names
\* one compile.
MemberOK(m) ==
  /\ Steady(m) /\ tree[m].cache # None => tree[m].cache.rt = tree[m].mark
  /\ m \in Bundle \ Installable => prefix[m] = None
  /\ m \in Bundle /\ tree[m].done # None =>
       LET d == tree[m].done IN
       /\ d.outs # NoFiles => OneCompile(d.outs, d.env.rt)
       /\ ~crossed => \A f \in File : d.outs[f] # None => OneRuntime(d.outs[f], d.env.rt)

RootOK == root # None => \A b \in Bundle :
  root.outs[b] # NoFiles => OneCompile(root.outs[b], root.env.rt)

\* The stage or the source tree of a bundle holds its last compile.
Staged(m, todo) ==
  IF m \in Installable
  THEN \A f \in File : f \notin todo => state[m].stage[f] = tree[m].bin /\ tree[m].bin # None
  ELSE todo = {} /\ state[m].stage = NoFiles /\ out[m] = [f \in File |-> tree[m].bin]

\* What a build knows of the member m it is building.
WorkOK(r, m) ==
  LET e == job[r].env IN
  /\ AtWork(r) => state[m].chain = e
  /\ AtWork(r) /\ tree[m].cache # None => tree[m].cache.rt = e.rt
  /\ pc[r] \in Compiled => tree[m].bin.env.rt = e.rt
  /\ pc[r] \in {"clear", "install"} /\ m \in Bundle \ Installable =>
       out[m] = [f \in File |-> tree[m].bin]
  /\ pc[r] = "install" /\ m \in Bundle => job[r].todo = (IF m \in Installable THEN File ELSE {})
  /\ pc[r] = "install" /\ m \in Bundle \ Installable => state[m].stage = NoFiles
  /\ pc[r] = "stage" => Staged(m, job[r].todo)
  /\ pc[r] \in {"lock", "complete", "pin"} =>
       Staged(m, {}) /\ job[r].outs = [f \in File |-> tree[m].bin]

\* What a package takes along of a member.
Carried(x) == IF x \in Library THEN state[x].snap ELSE Source(x, ReadFrom(x))["lib"]
Linked(b, x) == <<x, Carried(x).src, Carried(x).env>> \in tree[b].bin.with
Before(r) == {Plan(job[r].b)[j] : j \in 1..(job[r].i - 1)}

\* A build that nothing crossed: the prefix has its own installs, and what it has
\* built so far is what a package would take along.
AllCarried(r) == \A x \in Before(r) : prefix[x] # None => Carried(x) = prefix[x]
AllLinked(m) == \A x \in Links(m) : Linked(m, x)
OneInstall == \A x \in Member : prefix[x] # None => prefix[x].env.rt = env.rt
QuietOK(r, m) ==
  /\ AtWork(r) => job[r].env = env
  /\ Len(Plan(job[r].b)) > 1 => OneInstall
  /\ AllCarried(r)
  /\ pc[r] \in Compiled => OneRuntime(tree[m].bin, env.rt)
  /\ pc[r] \in Compiled /\ ~IsDependency(r) => AllLinked(m)
  /\ pc[r] \in {"stage", "lock", "complete", "pin"} /\ IsDependency(r) /\ prefix[m] # None =>
       prefix[m] = tree[m].bin
  /\ pc[r] = "inventory" => state[m].snap = prefix[m]

BuildOK(r) == Building(r) =>
  /\ Steady(Current(r)) => WorkOK(r, Current(r))
  /\ ~crossed => QuietOK(r, Current(r))

SoleOK == ~crossed => \A q, r \in Run : Building(q) /\ Building(r) => q = r

\* Between builds, after one that nothing crossed.
SettledOK ==
  settled # None =>
    LET b == settled[1] IN
    /\ \A r \in Run : ~Building(r)
    /\ settled[2] >= commands
    /\ Source(b, ReadFrom(b)) = [f \in File |-> tree[b].bin]
    /\ AllLinked(b)

Ships(b, pkg) ==
  \A x \in Links(b) :
    LET y == IF x \in Library THEN pkg.libs[x] ELSE pkg.deps[x]
    IN <<x, y.src, y.env>> \in pkg.files["lib"].with
Honest(pkg, status, named, rt) ==
  status = "matched" => pkg.files = named.outs /\ OneCompile(pkg.files, rt)
StillSettled(r) == settled # None /\ job[r].settled = settled /\ settled[1] = job[r].b

AloneOK(r) == job[r].alone => \A q \in Run : Packaging(q) /\ job[q].b = job[r].b => q = r

\* What a packaging knows, most of it while it is alone with its stage.
PackData(r) ==
  LET j == job[r] IN
  /\ pc[r] = "closure" => j.todo = <<"info", "lib">>
  /\ j.settled # None => j.settled[2] > commands
  /\ StillSettled(r) => \A x \in Supplied(j.b) : j.from[x] = ReadFrom(x)
  /\ j.alone /\ StillSettled(r) =>
       /\ pc[r] = "copy" => \A f \in File \ Elements(j.todo) : state[j.b].pkg.files[f] = tree[j.b].bin
       /\ pc[r] \in {"assess", "pack", "packing"} => Ships(j.b, state[j.b].pkg)
       /\ pc[r] = "manifest" => Ships(j.b, j.packed)
  /\ j.alone =>
       /\ pc[r] \in {"pack", "packing"} => Honest(state[j.b].pkg, j.status, j.named, j.env.rt)
       /\ pc[r] = "manifest" => Honest(j.packed, j.status, j.named, j.env.rt)

PackOK(r) == Packaging(r) => AloneOK(r) /\ PackData(r)

ManifestOK(b) ==
  LET w == dist[b].manifest IN
  w # None /\ w.alone =>
    /\ Honest(w.archive, w.status, w.named, w.rt)
    /\ w.fresh => Ships(b, w.archive)

WorkspaceInv ==
  /\ FilesOK /\ ControlOK
  /\ \A r \in Run : StepOK(r)
  /\ \A b \in Bundle : LeaseOK(b)
  /\ \A m \in Member : MemberOK(m)
  /\ RootOK
  /\ SoleOK
  /\ \A r \in Run : BuildOK(r)
  /\ SettledOK
  /\ \A r \in Run : PackOK(r)
  /\ \A b \in Bundle : ManifestOK(b)
-----------------------------------------------------------------------------
(* Plans and positions in them                                             *)

\* A plan lists members and ends with the bundle itself.
LEMMA PlanFacts ==
  ASSUME NEW b \in Bundle
  PROVE /\ Plan(b) \in Seq(Member) /\ Len(Plan(b)) \in Nat /\ Len(Plan(b)) >= 1
        /\ DOMAIN Plan(b) = 1..Len(Plan(b))
        /\ Plan(b)[Len(Plan(b))] = b
        /\ Elements(Libs[b]) \subseteq Library /\ Elements(Deps[b]) \subseteq Bundle
<1>1. Libs[b] \in Seq(Library) /\ Deps[b] \in Seq(Bundle)
  BY PlanAssumption
<1>2. Libs[b] \in Seq(Member) /\ Deps[b] \in Seq(Member) /\ <<b>> \in Seq(Member)
  BY <1>1 DEF Member
<1> DEFINE p == Libs[b] \o Deps[b]
<1>11. p \in Seq(Member)
  BY <1>2, ConcatProperties
<1> HIDE DEF p
<1>3. p \in Seq(Member) /\ Len(p) \in Nat
  BY <1>11
<1>4. Plan(b) = p \o <<b>>
  BY DEF Plan, p
<1>5. p \o <<b>> \in Seq(Member) /\ Len(p \o <<b>>) = Len(p) + 1
  BY <1>2, <1>3
<1>6. (p \o <<b>>)[Len(p) + 1] = b
  BY <1>2, <1>3
<1>7. Elements(Libs[b]) \subseteq Library /\ Elements(Deps[b]) \subseteq Bundle
  BY <1>1 DEF Elements
<1>8. /\ Plan(b) \in Seq(Member) /\ Len(Plan(b)) = Len(p) + 1 /\ Plan(b)[Len(p) + 1] = b
  BY <1>4, <1>5, <1>6
<1>9. DOMAIN Plan(b) = 1..Len(Plan(b))
  BY <1>8
<1>10. QED
  BY <1>3, <1>7, <1>8, <1>9

\* What a bundle links comes before it in every plan it is part of.
LEMMA LinksFacts ==
  ASSUME NEW b \in Bundle
  PROVE /\ Links(b) \subseteq Member
        /\ b \notin Links(b)
        /\ \A x \in Links(b) : IF x \in Library THEN x \in Elements(Libs[b])
                               ELSE x \in Elements(Deps[b]) /\ x \in Supplied(b) /\ x \in Bundle
<1>1. Links(b) \subseteq Member
  BY PlanFacts DEF Links, Member
<1>2. Links(Plan(b)[Len(Plan(b))]) \subseteq {Plan(b)[j] : j \in 1..(Len(Plan(b)) - 1)}
  BY PlanAssumption, PlanFacts
<1>3. b \notin Links(b)
  <2> SUFFICES ASSUME b \in Links(b) PROVE FALSE
    OBVIOUS
  <2>1. PICK j \in 1..(Len(Plan(b)) - 1) : b = Plan(b)[j]
    BY <1>2, PlanFacts
  <2>2. \A i, k \in 1..Len(Plan(b)) : Plan(b)[i] = Plan(b)[k] => i = k
    BY PlanAssumption, PlanFacts
  <2>3. j \in 1..Len(Plan(b)) /\ Len(Plan(b)) \in 1..Len(Plan(b)) /\ j # Len(Plan(b))
    BY PlanFacts
  <2>4. QED
    BY <2>1, <2>2, <2>3, PlanFacts
<1>4. QED
  BY <1>1, <1>3, PlanFacts, PlanAssumption DEF Links, Supplied

\* Where a build is in its plan.
LEMMA Position ==
  ASSUME NEW r \in Run, ControlOK, StepOK(r), Building(r)
  PROVE /\ job[r] \in BuildJobs /\ job[r].b \in Bundle /\ job[r].i \in 1..Len(Plan(job[r].b))
        /\ Current(r) \in Member
        /\ Before(r) \subseteq Member /\ Current(r) \notin Before(r)
        /\ Links(Current(r)) \subseteq Before(r)
        /\ Before(r) # {} => Len(Plan(job[r].b)) > 1
        /\ IsDependency(r) => Len(Plan(job[r].b)) > 1
        /\ ~IsDependency(r) => Current(r) = job[r].b
<1> DEFINE b == job[r].b
           i == job[r].i
<1>1. job[r] \in BuildJobs /\ b \in Bundle /\ i \in 1..Len(Plan(b))
  BY DEF StepOK, BuildJobs
<1> HIDE DEF b, i
<1>2. /\ Plan(b) \in Seq(Member) /\ Len(Plan(b)) \in Nat /\ Len(Plan(b)) >= 1
      /\ DOMAIN Plan(b) = 1..Len(Plan(b)) /\ Plan(b)[Len(Plan(b))] = b
  BY <1>1, PlanFacts
<1>3. \A k \in 1..Len(Plan(b)) : Plan(b)[k] \in Member
  BY <1>2
<1>4. /\ Links(Plan(b)[i]) \subseteq {Plan(b)[j] : j \in 1..(i - 1)}
      /\ \A j \in 1..Len(Plan(b)) : Plan(b)[i] = Plan(b)[j] => i = j
  BY <1>1, <1>2, PlanAssumption
<1>5. Plan(b)[i] \notin {Plan(b)[j] : j \in 1..(i - 1)}
  BY <1>1, <1>2, <1>4
<1>6. {Plan(b)[j] : j \in 1..(i - 1)} # {} => Len(Plan(b)) > 1
  BY <1>1, <1>2
<1>7. i < Len(Plan(b)) => Len(Plan(b)) > 1
  BY <1>1, <1>2
<1>8. ~(i < Len(Plan(b))) => Plan(b)[i] = b
  BY <1>1, <1>2
<1>9. {Plan(b)[j] : j \in 1..(i - 1)} \subseteq Member
  BY <1>1, <1>2, <1>3
<1>10. Current(r) = Plan(b)[i] /\ Before(r) = {Plan(b)[j] : j \in 1..(i - 1)}
       /\ (IsDependency(r) <=> i < Len(Plan(b)))
  BY DEF Current, Before, IsDependency, b, i
<1>11. QED
  BY <1>1, <1>3, <1>4, <1>5, <1>6, <1>7, <1>8, <1>9, <1>10 DEF b, i

-----------------------------------------------------------------------------
(* What a step of one run leaves to the others                             *)

\* A step of a build touches its own member only.
BuildFrame(r, m) ==
  /\ UNCHANGED <<env, src, root, dist, commands, changes, crossed>>
  /\ \A x \in Member \ {m} : prefix'[x] = prefix[x] /\ tree'[x] = tree[x] /\ state'[x] = state[x]
  /\ state'[m].pkg = state[m].pkg
  /\ state'[m].chain \in Env \/ state'[m].chain = state[m].chain
  /\ \A x \in Bundle \ {m} : out'[x] = out[x] /\ holder'[x] = holder[x]
  /\ \A q \in Run \ {r} : pc'[q] = pc[q] /\ job'[q] = job[q]
  /\ m \in Bundle => holder[m] \in {r, Nobody}
  /\ m \in Bundle => holder'[m] \in {r, Nobody}
  /\ \/ settled' = settled
     \/ settled' # None => settled'[2] = commands

\* The state of the build that takes the step, and of its member.
OwnOK(r, m) ==
  /\ ControlOK /\ StepOK(r) /\ BuildOK(r) /\ MemberOK(m)
  /\ Building(r) \/ pc[r] = "idle"
  /\ m \in Bundle /\ holder[m] # Nobody => AtWork(r) /\ Current(r) = m

\* While somebody builds nothing is settled.
LEMMA NotSettled ==
  ASSUME WorkspaceInv, NEW r \in Run, Building(r) PROVE settled = None
BY DEF WorkspaceInv, SettledOK

\* Another build works on another member, or on a library nobody answers for.
LEMMA OthersElsewhere ==
  ASSUME WorkspaceInv, NEW r \in Run, NEW m \in Member, m = Current(r), Building(r),
         BuildFrame(r, m), NEW q \in Run, q # r, Building(q)
  PROVE /\ crossed /\ crossed'
        /\ AtWork(q) /\ Current(q) \in Bundle => Current(q) # m
        /\ Current(q) \in Member
        /\ pc'[q] = pc[q] /\ job'[q] = job[q] /\ Current(q)' = Current(q)
<1>1. crossed /\ crossed'
  BY DEF WorkspaceInv, SoleOK, BuildFrame, FilesOK
<1>2. StepOK(q) /\ ControlOK
  BY DEF WorkspaceInv
<1>3. AtWork(q) /\ Current(q) \in Bundle => holder[Current(q)] = q
  BY <1>2 DEF StepOK
<1>4. m \in Bundle => holder[m] # q
  BY NobodyAssumption DEF BuildFrame
<1>5. Current(q) \in Member
  BY <1>2, Position
<1>6. pc'[q] = pc[q] /\ job'[q] = job[q] /\ Current(q)' = Current(q)
  BY DEF BuildFrame, Current
<1>7. QED
  BY <1>1, <1>3, <1>4, <1>5, <1>6

LEMMA OthersKeepSteps ==
  ASSUME WorkspaceInv, NEW r \in Run, NEW m \in Member, m = Current(r), Building(r),
         BuildFrame(r, m), FilesOK', ControlOK', NEW q \in Run, q # r
  PROVE StepOK(q)'
<1>1. /\ pc'[q] = pc[q] /\ job'[q] = job[q] /\ Current(q)' = Current(q)
      /\ StepOK(q)
  BY DEF BuildFrame, Current, WorkspaceInv
<1>2. CASE Building(q)
  <2>1. Current(q) \in Bundle /\ AtWork(q) => holder'[Current(q)] = holder[Current(q)]
    BY <1>2, OthersElsewhere DEF BuildFrame
  <2>2. AtWork(q) => state'[Current(q)].chain \in Env
    <3>1. AtWork(q) => state[Current(q)].chain \in Env /\ Current(q) \in Member
      BY <1>1, <1>2, OthersElsewhere DEF StepOK
    <3>2. QED
      BY <3>1 DEF BuildFrame
  <2>3. QED
    BY <1>1, <1>2, <2>1, <2>2 DEF StepOK, Building, AtWork, Packaging, BuildSteps, PackageSteps, Leased
<1>3. CASE Packaging(q)
  <2>1. job[q].b \in Member
    BY <1>1, <1>3 DEF StepOK, PackageJobs, Member
  <2>2. state'[job[q].b].pkg = state[job[q].b].pkg
    BY <2>1 DEF BuildFrame
  <2>3. QED
    BY <1>1, <1>3, <2>2 DEF StepOK, Building, AtWork, Packaging, BuildSteps, PackageSteps, Leased
<1>4. CASE pc[q] = "idle"
  BY <1>1, <1>4 DEF StepOK, Building, AtWork, Packaging, BuildSteps, PackageSteps, Leased
<1>5. QED
  BY <1>2, <1>3, <1>4 DEF WorkspaceInv, ControlOK, Steps, Building, Packaging

LEMMA OthersKeepBuilding ==
  ASSUME WorkspaceInv, NEW r \in Run, NEW m \in Member, m = Current(r), Building(r),
         BuildFrame(r, m), NEW q \in Run, q # r
  PROVE BuildOK(q)'
<1> SUFFICES ASSUME Building(q)' PROVE BuildOK(q)'
  BY DEF BuildOK
<1>1. Building(q)
  BY DEF Building, BuildFrame
<1>2. /\ crossed /\ crossed'
      /\ AtWork(q) /\ Current(q) \in Bundle => Current(q) # m
      /\ Current(q) \in Member
      /\ pc'[q] = pc[q] /\ job'[q] = job[q] /\ Current(q)' = Current(q)
  BY <1>1, OthersElsewhere
<1> SUFFICES ASSUME Current(q) \in Bundle PROVE WorkOK(q, Current(q))'
  BY <1>2 DEF BuildOK, Steady
<1>3. WorkOK(q, Current(q))
  BY <1>1 DEF WorkspaceInv, BuildOK, Steady
<1>4. CASE ~AtWork(q)
  BY <1>2, <1>4 DEF WorkOK, AtWork, Compiled, BuildSteps
<1>5. CASE AtWork(q)
  <2>1. /\ tree'[Current(q)] = tree[Current(q)] /\ state'[Current(q)] = state[Current(q)]
        /\ out'[Current(q)] = out[Current(q)]
    BY <1>2, <1>5 DEF BuildFrame
  <2>2. QED
    BY <1>2, <1>3, <2>1 DEF WorkOK, Staged, AtWork
<1>6. QED
  BY <1>4, <1>5

LEMMA OthersKeepPackaging ==
  ASSUME WorkspaceInv, NEW r \in Run, NEW m \in Member, m = Current(r), Building(r),
         BuildFrame(r, m), OwnOK(r, m)', NEW q \in Run, q # r
  PROVE PackOK(q)'
<1> SUFFICES ASSUME Packaging(q)' PROVE PackOK(q)'
  BY DEF PackOK, AloneOK, PackData
<1>1. pc'[q] = pc[q] /\ job'[q] = job[q] /\ Packaging(q) /\ PackOK(q) /\ job[q] \in PackageJobs
  BY DEF BuildFrame, Packaging, WorkspaceInv, StepOK
<1>2. job[q].b \in Member
  BY <1>1 DEF PackageJobs, Member
<1>3. state'[job[q].b].pkg = state[job[q].b].pkg /\ commands' = commands
  BY <1>2 DEF BuildFrame
<1>4. job[q].settled # None => job[q].settled[2] \in Nat
  BY <1>1 DEF PackageJobs, Settlings
<1>5. ~StillSettled(q)'
  <2>1. settled = None /\ commands \in Nat
    BY NotSettled DEF WorkspaceInv, FilesOK
  <2>2. job[q].settled # None => job[q].settled[2] > commands
    BY <1>1 DEF PackOK, AloneOK, PackData
  <2>3. QED
    BY <1>1, <1>4, <2>1, <2>2 DEF StillSettled, BuildFrame
<1>6. job[q].alone => \A p \in Run : Packaging(p)' /\ job'[p].b = job[q].b => p = q
  <2>1. ~Packaging(r)'
    BY DEF OwnOK, Building, Packaging, BuildSteps, PackageSteps
  <2>2. \A p \in Run : Packaging(p)' => p # r /\ Packaging(p) /\ job'[p] = job[p]
    BY <2>1 DEF BuildFrame, Packaging
  <2>3. QED
    BY <1>1, <2>2 DEF PackOK, AloneOK, PackData
<1>7. QED
  BY <1>1, <1>3, <1>5, <1>6 DEF PackOK, AloneOK, PackData

\* A step of a build that leaves itself and its member in order keeps the invariant.
LEMMA BuildKeeps ==
  ASSUME WorkspaceInv, NEW r \in Run, NEW m \in Member, m = Current(r), Building(r),
         BuildFrame(r, m), FilesOK', OwnOK(r, m)', settled' # settled => SettledOK'
  PROVE WorkspaceInv'
<1>1. ControlOK' /\ StepOK(r)' /\ BuildOK(r)' /\ MemberOK(m)'
  BY DEF OwnOK
<1>2. \A q \in Run : StepOK(q)'
  BY <1>1, OthersKeepSteps
<1>3. \A b \in Bundle : LeaseOK(b)'
  <2> SUFFICES ASSUME NEW b \in Bundle, NEW h \in Run, h = holder'[b], h # Nobody
               PROVE AtWork(h)' /\ Current(h)' = b
    BY <1>1 DEF LeaseOK, AtWork, Current, ControlOK
  <2>1. CASE b = m
    BY <2>1 DEF OwnOK, BuildFrame
  <2>2. CASE b # m
    <3>1. h = holder[b] /\ LeaseOK(b)
      BY <2>2 DEF BuildFrame, WorkspaceInv
    <3>2. AtWork(h) /\ Current(h) = b
      BY <3>1 DEF LeaseOK
    <3>3. h # r
      BY <3>2, <2>2
    <3>4. pc'[h] = pc[h] /\ job'[h] = job[h]
      BY <3>3 DEF BuildFrame
    <3>5. QED
      BY <3>2, <3>4 DEF AtWork, Current
  <2>3. QED
    BY <2>1, <2>2
<1>4. \A x \in Member : MemberOK(x)'
  <2> SUFFICES ASSUME NEW x \in Member, x # m PROVE MemberOK(x)'
    BY <1>1
  <2>1. tree'[x] = tree[x] /\ prefix'[x] = prefix[x] /\ crossed' = crossed /\ MemberOK(x)
    BY DEF BuildFrame, WorkspaceInv
  <2>2. QED
    BY <2>1 DEF MemberOK, Steady
<1>5. RootOK'
  BY DEF RootOK, WorkspaceInv, BuildFrame
<1>6. SoleOK'
  BY DEF SoleOK, WorkspaceInv, BuildFrame, Building
<1>7. \A q \in Run : BuildOK(q)'
  BY <1>1, OthersKeepBuilding
<1>8. SettledOK'
  BY NotSettled DEF SettledOK
<1>9. \A q \in Run : PackOK(q)'
  <2>1. PackOK(r)'
    BY DEF PackOK, AloneOK, PackData, OwnOK, Building, Packaging, BuildSteps, PackageSteps
  <2>2. QED
    BY <2>1, OthersKeepPackaging
<1>10. \A b \in Bundle : ManifestOK(b)'
  BY DEF ManifestOK, WorkspaceInv, BuildFrame
<1>11. QED
  BY <1>1, <1>2, <1>3, <1>4, <1>5, <1>6, <1>7, <1>8, <1>9, <1>10 DEF WorkspaceInv

-----------------------------------------------------------------------------
(* The steps of a build                                                    *)

LEMMA BuildFacts ==
  ASSUME WorkspaceInv, NEW r \in Run, NEW m \in Member, m = Current(r), Building(r)
  PROVE /\ FilesOK /\ ControlOK /\ StepOK(r) /\ MemberOK(m)
        /\ job[r] \in BuildJobs /\ job[r].b \in Bundle /\ job[r].i \in 1..Len(Plan(job[r].b))
        /\ tree[m] \in Trees /\ state[m] \in States /\ prefix[m] \in MaybeBin /\ env \in Env
        /\ m \in Bundle => out[m] \in Files
        /\ AtWork(r) => job[r].env \in Env /\ state[m].chain \in Env
        /\ AtWork(r) /\ m \in Bundle => holder[m] = r
        /\ m \notin Library => m \in Bundle
        /\ Steady(m) => WorkOK(r, m)
        /\ ~crossed => QuietOK(r, m)
        /\ settled = None
<1>1. FilesOK /\ ControlOK /\ StepOK(r) /\ MemberOK(m) /\ BuildOK(r)
  BY DEF WorkspaceInv
<1>2. job[r] \in BuildJobs /\ job[r].b \in Bundle /\ job[r].i \in 1..Len(Plan(job[r].b))
  BY <1>1, Position
<1>3. tree[m] \in Trees /\ state[m] \in States /\ prefix[m] \in MaybeBin /\ env \in Env
      /\ (m \in Bundle => out[m] \in Files)
  BY <1>1 DEF FilesOK
<1>4. QED
  BY <1>1, <1>2, <1>3, NotSettled DEF StepOK, BuildOK, Member

LEMMA CarriedStays ==
  ASSUME NEW x \in Member, state'[x] = state[x], x \in Bundle => out'[x] = out[x]
  PROVE Carried(x)' = Carried(x)
BY DEF Carried, Source, ReadFrom, Member

\* A build that stays at its member: what it carries and what it linked stay too.
LEMMA SamePlace ==
  ASSUME WorkspaceInv, NEW r \in Run, NEW m \in Member, m = Current(r), Building(r),
         BuildFrame(r, m), job'[r].b = job[r].b, job'[r].i = job[r].i
  PROVE /\ Current(r)' = m /\ Before(r)' = Before(r) /\ IsDependency(r)' = IsDependency(r)
        /\ \A x \in Before(r) : Carried(x)' = Carried(x) /\ prefix'[x] = prefix[x]
        /\ AllCarried(r) => AllCarried(r)'
        /\ AllLinked(m) /\ tree'[m].bin = tree[m].bin => AllLinked(m)'
<1>1. Current(r)' = m /\ Before(r)' = Before(r) /\ IsDependency(r)' = IsDependency(r)
  BY DEF Current, Before, IsDependency
<1>2. Before(r) \subseteq Member \ {m} /\ Links(m) \subseteq Before(r)
  BY BuildFacts, Position
<1>3. \A x \in Before(r) : Carried(x)' = Carried(x) /\ prefix'[x] = prefix[x]
  BY <1>2, CarriedStays DEF BuildFrame
<1>4. AllCarried(r) => AllCarried(r)'
  BY <1>1, <1>3 DEF AllCarried
<1>5. AllLinked(m) /\ tree'[m].bin = tree[m].bin => AllLinked(m)'
  BY <1>2, <1>3 DEF AllLinked, Linked
<1>6. QED
  BY <1>1, <1>3, <1>4, <1>5

\* The part of QuietOK that a step at a member has to look after.
QuietOwn(r, m) ==
  /\ job[r].env = env
  /\ Len(Plan(job[r].b)) > 1 => OneInstall
  /\ pc[r] \in Compiled => OneRuntime(tree[m].bin, env.rt)
  /\ pc[r] \in {"stage", "lock", "complete", "pin"} /\ IsDependency(r) /\ prefix[m] # None =>
       prefix[m] = tree[m].bin
  /\ pc[r] = "inventory" => state[m].snap = prefix[m]

LEMMA SameMember ==
  ASSUME WorkspaceInv, NEW r \in Run, NEW m \in Member, m = Current(r), Building(r),
         BuildFrame(r, m), job'[r].b = job[r].b, job'[r].i = job[r].i,
         FilesOK', ControlOK', StepOK(r)', MemberOK(m)', AtWork(r)', settled' = settled,
         Steady(m) => WorkOK(r, m)',
         ~crossed => /\ QuietOwn(r, m)'
                     /\ pc'[r] \in Compiled /\ ~IsDependency(r) =>
                          \/ pc[r] \in Compiled /\ tree'[m].bin = tree[m].bin
                          \/ AllLinked(m)'
  PROVE WorkspaceInv'
<1>1. /\ Current(r)' = m /\ Before(r)' = Before(r) /\ IsDependency(r)' = IsDependency(r)
      /\ AllCarried(r) => AllCarried(r)'
      /\ AllLinked(m) /\ tree'[m].bin = tree[m].bin => AllLinked(m)'
  BY SamePlace
<1>2. crossed' = crossed
  BY DEF BuildFrame
<1>3. ~crossed => QuietOK(r, m)'
  <2> SUFFICES ASSUME ~crossed PROVE QuietOK(r, m)'
    OBVIOUS
  <2>1. QuietOK(r, m)
    BY BuildFacts
  <2>2. pc'[r] \in Compiled /\ ~IsDependency(r) => AllLinked(m)'
    BY <1>1, <2>1 DEF QuietOK
  <2>3. QED
    BY <1>1, <2>1, <2>2 DEF QuietOK, QuietOwn
<1>4. Building(r)'
  BY DEF Building, AtWork
<1>5. BuildOK(r)'
  BY <1>1, <1>2, <1>3, <1>4 DEF BuildOK, Steady
<1>6. OwnOK(r, m)'
  BY <1>1, <1>4, <1>5 DEF OwnOK
<1>7. QED
  BY <1>6, BuildKeeps

LEMMA ConfigureKeeps ==
  ASSUME WorkspaceInv, NEW r \in Run, NEW m \in Member, m = Current(r), Configure(r)
  PROVE WorkspaceInv'
<1>1. Building(r) /\ AtWork(r) /\ pc[r] = "configure"
  BY DEF Configure, At, Building, AtWork, BuildSteps
<1>2. /\ FilesOK /\ ControlOK /\ StepOK(r) /\ MemberOK(m)
      /\ job[r] \in BuildJobs /\ tree[m] \in Trees /\ state[m] \in States /\ job[r].env \in Env
      /\ (m \in Bundle => holder[m] = r) /\ (m \notin Library => m \in Bundle)
      /\ (Steady(m) => WorkOK(r, m)) /\ (~crossed => QuietOK(r, m))
  BY <1>1, BuildFacts
<1> DEFINE t == [tree[m] EXCEPT !.cache = IF tree[m].cache = None THEN state[m].chain ELSE tree[m].cache,
                                !.mark = state[m].chain.rt]
<1>3. /\ tree' = [tree EXCEPT ![m] = t]
      /\ pc' = [pc EXCEPT ![r] = "identify"]
      /\ UNCHANGED <<world, prefix, state, out, root, pinned, holder, dist, job, commands, history>>
  BY DEF Configure, Goto
<1>4. t \in Trees /\ t.done = tree[m].done /\ t.mark = state[m].chain.rt
      /\ t.cache = IF tree[m].cache = None THEN state[m].chain ELSE tree[m].cache
  BY <1>1, <1>2, BuildFacts DEF Trees, Rts, MaybeEnv
<1> HIDE DEF t
<1>5. /\ tree'[m] = t /\ pc'[r] = "identify" /\ job' = job /\ state' = state
      /\ AtWork(r)' /\ Current(r)' = m
  BY <1>1, <1>2, <1>3 DEF FilesOK, ControlOK, AtWork, BuildSteps, Current
<1>6. FilesOK'
  BY <1>2, <1>3, <1>4 DEF FilesOK, world, history
<1>7. ControlOK'
  BY <1>2, <1>3 DEF ControlOK, Steps, BuildSteps
<1>8. StepOK(r)'
  BY <1>1, <1>2, <1>3, <1>5 DEF StepOK, Building, AtWork, Packaging, BuildSteps, PackageSteps, Leased
<1>9. BuildFrame(r, m)
  BY <1>2, <1>3 DEF BuildFrame, world, history, FilesOK, ControlOK
<1>10. Steady(m) => WorkOK(r, m)'
  BY <1>1, <1>2, <1>4, <1>5 DEF WorkOK, AtWork, Compiled
<1>11. MemberOK(m)'
  BY <1>1, <1>2, <1>3, <1>4, <1>5 DEF MemberOK, Steady, WorkOK, history
<1>12. ~crossed => QuietOwn(r, m)'
  BY <1>1, <1>2, <1>3, <1>5 DEF QuietOwn, QuietOK, Compiled, OneInstall, world
<1>13. QED
  BY <1>1, <1>3, <1>5, <1>6, <1>7, <1>8, <1>9, <1>10, <1>11, <1>12, SameMember DEF history, Compiled

LEMMA IdentifyKeeps ==
  ASSUME WorkspaceInv, NEW r \in Run, NEW m \in Member, m = Current(r), Identify(r)
  PROVE WorkspaceInv'
<1>1. Building(r) /\ AtWork(r) /\ pc[r] = "identify"
  BY DEF Identify, At, Building, AtWork, BuildSteps
<1>2. /\ FilesOK /\ ControlOK /\ StepOK(r) /\ MemberOK(m)
      /\ job[r] \in BuildJobs /\ tree[m] \in Trees /\ state[m] \in States /\ prefix[m] \in MaybeBin
      /\ job[r].env \in Env /\ state[m].chain \in Env
      /\ (m \in Bundle => holder[m] = r) /\ (m \notin Library => m \in Bundle)
      /\ (Steady(m) => WorkOK(r, m)) /\ (~crossed => QuietOK(r, m))
  BY <1>1, BuildFacts
<1> DEFINE t == [tree[m] EXCEPT !.ident = job[r].env.rt]
<1>3. /\ tree' = [tree EXCEPT ![m] = t]
      /\ pc' = [pc EXCEPT ![r] = "compile"]
      /\ UNCHANGED <<world, prefix, state, out, root, pinned, holder, dist, job, commands, history>>
  BY DEF Identify, Goto
<1>4. t \in Trees /\ t.done = tree[m].done /\ t.mark = tree[m].mark /\ t.cache = tree[m].cache
  BY <1>2 DEF Trees, Rts
<1> HIDE DEF t
<1>5. /\ tree'[m] = t /\ pc'[r] = "compile" /\ job' = job /\ state' = state
      /\ AtWork(r)' /\ Current(r)' = m
  BY <1>1, <1>2, <1>3 DEF FilesOK, ControlOK, AtWork, BuildSteps, Current
<1>6. FilesOK'
  BY <1>2, <1>3, <1>4 DEF FilesOK, world, history
<1>7. ControlOK'
  BY <1>2, <1>3 DEF ControlOK, Steps, BuildSteps
<1>8. StepOK(r)'
  BY <1>1, <1>2, <1>3, <1>5 DEF StepOK, Building, AtWork, Packaging, BuildSteps, PackageSteps, Leased
<1>9. BuildFrame(r, m)
  BY <1>2, <1>3 DEF BuildFrame, world, history, FilesOK, ControlOK
<1>10. Steady(m) => WorkOK(r, m)'
  BY <1>1, <1>2, <1>4, <1>5 DEF WorkOK, AtWork, Compiled
<1>11. MemberOK(m)'
  BY <1>1, <1>2, <1>3, <1>4, <1>5 DEF MemberOK, Steady, history
<1>12. ~crossed => QuietOwn(r, m)'
  BY <1>1, <1>2, <1>3, <1>5 DEF QuietOwn, QuietOK, Compiled, OneInstall, world
<1>13. QED
  BY <1>1, <1>3, <1>5, <1>6, <1>7, <1>8, <1>9, <1>10, <1>11, <1>12, SameMember DEF history, Compiled

\* What a compile makes has its type, is of the cached runtime and, if nothing
\* crossed, linked installs of that runtime that a package would carry.
LEMMA BinaryFacts ==
  ASSUME WorkspaceInv, NEW r \in Run, NEW m \in Member, m = Current(r), pc[r] = "compile", Ready(r)
  PROVE /\ Binary(m) \in Bin /\ Binary(m).env = tree[m].cache /\ tree[m].cache # None
        /\ ~crossed => OneRuntime(Binary(m), env.rt)
        /\ ~crossed => \A x \in Links(m) : <<x, Carried(x).src, Carried(x).env>> \in Binary(m).with
<1>1. Building(r)
  BY DEF Building, BuildSteps
<1>2. /\ FilesOK /\ ControlOK /\ StepOK(r) /\ tree[m] \in Trees /\ job[r].b \in Bundle
      /\ ~crossed => QuietOK(r, m)
  BY <1>1, BuildFacts
<1>3. tree[m].cache # None /\ \A x \in Links(m) : prefix[x] # None
  BY DEF Ready, BuildSteps
<1>4. tree[m].cache \in Env
  BY <1>2, <1>3 DEF Trees, MaybeEnv
<1>5. Links(m) \subseteq Before(r) /\ Before(r) \subseteq Member
      /\ (Before(r) # {} => Len(Plan(job[r].b)) > 1)
  BY <1>1, <1>2, Position
<1>6. \A x \in Links(m) : x \in Member /\ prefix[x] \in Bin
  BY <1>2, <1>3, <1>5 DEF FilesOK, MaybeBin
<1> DEFINE W == {<<x, prefix[x].src, prefix[x].env>> : x \in Links(m)}
<1>7. \A x \in Links(m) : prefix[x].src \in Nat /\ prefix[x].env \in Env
  BY <1>6 DEF Bin
<1>8. W \subseteq Member \X Nat \X Env
  BY <1>6, <1>7
<1>9. Binary(m) = [src |-> src[m], env |-> tree[m].cache, with |-> W]
  BY DEF Binary
<1>10. src[m] \in Nat
  BY <1>2 DEF FilesOK
<1>11. Binary(m) \in Bin /\ Binary(m).env = tree[m].cache /\ Binary(m).with = W
  <2> HIDE DEF W
  <2> QED BY <1>4, <1>8, <1>9, <1>10 DEF Bin
<1>12. ASSUME ~crossed
       PROVE /\ OneRuntime(Binary(m), env.rt)
             /\ \A x \in Links(m) : <<x, Carried(x).src, Carried(x).env>> \in Binary(m).with
  <2>1. QuietOK(r, m)
    BY <1>2, <1>12
  <2>2. \A x \in Links(m) : prefix[x].env.rt = env.rt /\ Carried(x) = prefix[x]
    BY <1>3, <1>5, <2>1 DEF QuietOK, OneInstall, AllCarried
  <2>3. \A y \in W : y[3].rt = env.rt
    BY <2>2
  <2>4. \A x \in Links(m) : <<x, Carried(x).src, Carried(x).env>> \in W
    BY <2>2
  <2>5. QED
    BY <1>11, <2>3, <2>4 DEF OneRuntime
<1>13. QED
  BY <1>3, <1>11, <1>12

LEMMA CompileKeeps ==
  ASSUME WorkspaceInv, NEW r \in Run, NEW m \in Member, m = Current(r), Compile(r)
  PROVE WorkspaceInv'
<1>1. Building(r) /\ AtWork(r) /\ pc[r] = "compile"
  BY DEF Compile, At, Building, AtWork, BuildSteps
<1>2. /\ FilesOK /\ ControlOK /\ StepOK(r) /\ MemberOK(m)
      /\ job[r] \in BuildJobs /\ tree[m] \in Trees /\ state[m] \in States /\ prefix[m] \in MaybeBin
      /\ job[r].env \in Env /\ state[m].chain \in Env
      /\ (m \in Bundle => holder[m] = r) /\ (m \notin Library => m \in Bundle)
      /\ (Steady(m) => WorkOK(r, m)) /\ (~crossed => QuietOK(r, m))
  BY <1>1, BuildFacts
<1>3. PICK c : c = Binary(m)
  OBVIOUS
<1>4. /\ c \in Bin /\ c.env = tree[m].cache /\ tree[m].cache # None
      /\ ~crossed => OneRuntime(c, env.rt)
      /\ ~crossed => \A x \in Links(m) : <<x, Carried(x).src, Carried(x).env>> \in c.with
  BY <1>1, <1>3, BinaryFacts DEF Compile
<1> DEFINE t == [tree[m] EXCEPT !.bin = c]
           next == IF m \in Library THEN "install" ELSE "clear"
<1>5. /\ tree' = [tree EXCEPT ![m] = t]
      /\ out' = IF m \in Bundle \ Installable THEN [out EXCEPT ![m] = [f \in File |-> c]] ELSE out
      /\ pc' = [pc EXCEPT ![r] = next]
      /\ UNCHANGED <<world, prefix, state, root, pinned, holder, dist, job, commands, history>>
  BY <1>3 DEF Compile, Goto
<1>6. t \in Trees /\ t.done = tree[m].done /\ t.mark = tree[m].mark /\ t.cache = tree[m].cache
      /\ t.bin = c
  BY <1>2, <1>4 DEF Trees, MaybeBin
<1> HIDE DEF t
<1>7. /\ tree'[m] = t /\ pc'[r] = next /\ job' = job /\ state' = state
      /\ AtWork(r)' /\ Current(r)' = m
  BY <1>1, <1>2, <1>5 DEF FilesOK, ControlOK, AtWork, BuildSteps, Current
<1>8. m \in Bundle \ Installable => out'[m] = [f \in File |-> c]
  BY <1>2, <1>5 DEF FilesOK
<1>9. FilesOK'
  <2>1. [f \in File |-> c] \in Files
    BY <1>4 DEF Files, MaybeBin
  <2>2. out' \in [Bundle -> Files]
    BY <1>2, <1>5, <2>1 DEF FilesOK
  <2>3. QED
    BY <1>2, <1>5, <1>6, <2>2 DEF FilesOK, world, history
<1>10. ControlOK'
  BY <1>2, <1>5 DEF ControlOK, Steps, BuildSteps
<1>11. StepOK(r)'
  BY <1>1, <1>2, <1>5, <1>7 DEF StepOK, Building, AtWork, Packaging, BuildSteps, PackageSteps, Leased
<1>12. BuildFrame(r, m)
  BY <1>2, <1>5 DEF BuildFrame, world, history, FilesOK, ControlOK
<1>13. Steady(m) => WorkOK(r, m)'
  <2> SUFFICES ASSUME Steady(m) PROVE WorkOK(r, m)'
    OBVIOUS
  <2>1. tree[m].cache.rt = job[r].env.rt /\ state[m].chain = job[r].env
    BY <1>1, <1>2, <1>4 DEF WorkOK
  <2>2. CASE m \in Library
    <3>1. m \notin Bundle
      BY <2>2, PlanAssumption
    <3>2. QED
      BY <1>2, <1>4, <1>6, <1>7, <2>1, <2>2, <3>1 DEF WorkOK
  <2>3. CASE m \notin Library
    BY <1>2, <1>4, <1>6, <1>7, <1>8, <2>1, <2>3 DEF WorkOK
  <2>4. QED
    BY <2>2, <2>3
<1>14. MemberOK(m)'
  BY <1>1, <1>2, <1>5, <1>6, <1>7 DEF MemberOK, Steady, history
<1>15. ~crossed => QuietOwn(r, m)'
  BY <1>1, <1>2, <1>4, <1>5, <1>6, <1>7 DEF QuietOwn, QuietOK, Compiled, OneInstall, world
<1>16. ~crossed => AllLinked(m)'
  <2>1. Links(m) \subseteq Before(r)
    BY <1>1, <1>2, Position
  <2>2. \A x \in Before(r) : Carried(x)' = Carried(x)
    BY <1>1, <1>5, <1>12, SamePlace
  <2>3. QED
    BY <1>4, <1>6, <1>7, <2>1, <2>2 DEF AllLinked, Linked
<1>17. QED
  BY <1>1, <1>5, <1>7, <1>9, <1>10, <1>11, <1>12, <1>13, <1>14, <1>15, <1>16, SameMember DEF history

LEMMA ClearStageKeeps ==
  ASSUME WorkspaceInv, NEW r \in Run, NEW m \in Member, m = Current(r), ClearStage(r)
  PROVE WorkspaceInv'
<1>1. Building(r) /\ AtWork(r) /\ pc[r] = "clear"
  BY DEF ClearStage, At, Building, AtWork, BuildSteps
<1>2. /\ FilesOK /\ ControlOK /\ StepOK(r) /\ MemberOK(m)
      /\ job[r] \in BuildJobs /\ tree[m] \in Trees /\ state[m] \in States /\ prefix[m] \in MaybeBin
      /\ job[r].env \in Env /\ state[m].chain \in Env /\ (m \in Bundle => out[m] \in Files)
      /\ (m \in Bundle => holder[m] = r) /\ (m \notin Library => m \in Bundle)
      /\ (Steady(m) => WorkOK(r, m)) /\ (~crossed => QuietOK(r, m))
  BY <1>1, BuildFacts
<1>3. m \in Bundle
  BY <1>1, <1>2 DEF StepOK, Leased
<1> DEFINE s == [state[m] EXCEPT !.stage = NoFiles, !.marked = FALSE]
           j == [job[r] EXCEPT !.todo = IF m \in Installable THEN File ELSE {}]
           next == IF IsDependency(r) THEN "install" ELSE "stage"
<1>4. /\ state' = [state EXCEPT ![m] = s] /\ job' = [job EXCEPT ![r] = j]
      /\ pc' = [pc EXCEPT ![r] = next]
      /\ UNCHANGED <<world, prefix, tree, out, root, pinned, holder, dist, commands, history>>
  BY DEF ClearStage, Goto
<1>5. NoFiles \in Files
  BY DEF NoFiles, Files, MaybeBin
<1>6. s \in States /\ s.stage = NoFiles /\ s.chain = state[m].chain /\ s.pkg = state[m].pkg
  BY <1>2, <1>5 DEF States
<1>7. /\ j \in BuildJobs /\ j.todo = (IF m \in Installable THEN File ELSE {})
      /\ j.b = job[r].b /\ j.i = job[r].i /\ j.env = job[r].env /\ j.outs = job[r].outs
  BY <1>2 DEF BuildJobs
<1> HIDE DEF s, j
<1>8. /\ state'[m] = s /\ job'[r] = j /\ pc'[r] = next /\ tree' = tree /\ AtWork(r)'
      /\ Current(r)' = m /\ IsDependency(r)' = IsDependency(r)
  BY <1>1, <1>2, <1>4, <1>7 DEF FilesOK, ControlOK, AtWork, BuildSteps, Current, IsDependency
<1>9. FilesOK'
  BY <1>1, <1>2, <1>3, <1>4, <1>5, <1>6, <1>7, <1>8 DEF FilesOK, world, history
<1>10. ControlOK'
  BY <1>1, <1>2, <1>3, <1>4, <1>5, <1>6, <1>7, <1>8 DEF ControlOK, Steps, BuildSteps
<1>11. StepOK(r)'
  BY <1>1, <1>2, <1>3, <1>4, <1>5, <1>6, <1>7, <1>8 DEF StepOK, Building, AtWork, Packaging, BuildSteps, PackageSteps, Leased
<1>12. BuildFrame(r, m)
  BY <1>1, <1>2, <1>3, <1>4, <1>5, <1>6, <1>7, <1>8 DEF BuildFrame, world, history, FilesOK, ControlOK
<1>13. Steady(m) => WorkOK(r, m)'
  BY <1>1, <1>2, <1>3, <1>4, <1>5, <1>6, <1>7, <1>8 DEF WorkOK, Staged, AtWork, Compiled, Member
<1>14. MemberOK(m)'
  BY <1>1, <1>2, <1>3, <1>4, <1>5, <1>6, <1>7, <1>8 DEF MemberOK, Steady, history
<1>15. ~crossed => QuietOwn(r, m)'
  BY <1>1, <1>2, <1>3, <1>4, <1>5, <1>6, <1>7, <1>8 DEF QuietOwn, QuietOK, Compiled, OneInstall, world
<1>16. QED
  BY <1>1, <1>2, <1>3, <1>4, <1>5, <1>6, <1>7, <1>8, <1>9, <1>10, <1>11, <1>12, <1>13, <1>14, <1>15, SameMember DEF history, Compiled

LEMMA InstallToPrefixKeeps ==
  ASSUME WorkspaceInv, NEW r \in Run, NEW m \in Member, m = Current(r), InstallToPrefix(r)
  PROVE WorkspaceInv'
<1>1. Building(r) /\ AtWork(r) /\ pc[r] = "install"
  BY DEF InstallToPrefix, At, Building, AtWork, BuildSteps
<1>2. /\ FilesOK /\ ControlOK /\ StepOK(r) /\ MemberOK(m)
      /\ job[r] \in BuildJobs /\ tree[m] \in Trees /\ state[m] \in States /\ prefix[m] \in MaybeBin
      /\ job[r].env \in Env /\ state[m].chain \in Env /\ (m \in Bundle => out[m] \in Files)
      /\ (m \in Bundle => holder[m] = r) /\ (m \notin Library => m \in Bundle)
      /\ (Steady(m) => WorkOK(r, m)) /\ (~crossed => QuietOK(r, m))
  BY <1>1, BuildFacts
<1>3. m \in Library <=> m \notin Bundle
  BY <1>2, PlanAssumption
<1> DEFINE next == IF m \in Library THEN "snapshot" ELSE "stage"
<1>4. /\ prefix' = IF m \in Library \cup Installable THEN [prefix EXCEPT ![m] = tree[m].bin] ELSE prefix
      /\ pc' = [pc EXCEPT ![r] = next]
      /\ UNCHANGED <<world, tree, state, out, root, pinned, holder, dist, job, commands, history>>
  BY DEF InstallToPrefix, Goto
<1>5. tree[m].bin \in MaybeBin
  BY <1>2 DEF Trees
<1>6. /\ prefix'[m] = IF m \in Library \cup Installable THEN tree[m].bin ELSE prefix[m]
      /\ pc'[r] = next /\ tree' = tree /\ state' = state /\ out' = out /\ job' = job
      /\ AtWork(r)' /\ Current(r)' = m
  BY <1>1, <1>2, <1>4 DEF FilesOK, ControlOK, AtWork, BuildSteps, Current
<1>7. FilesOK'
  BY <1>1, <1>2, <1>3, <1>4, <1>5, <1>6 DEF FilesOK, world, history
<1>8. ControlOK'
  BY <1>1, <1>2, <1>3, <1>4, <1>5, <1>6 DEF ControlOK, Steps, BuildSteps
<1>9. StepOK(r)'
  BY <1>1, <1>2, <1>3, <1>4, <1>5, <1>6 DEF StepOK, Building, AtWork, Packaging, BuildSteps, PackageSteps, Leased
<1>10. BuildFrame(r, m)
  BY <1>1, <1>2, <1>3, <1>4, <1>5, <1>6 DEF BuildFrame, world, history, FilesOK, ControlOK
<1>11. Steady(m) => WorkOK(r, m)'
  BY <1>1, <1>2, <1>3, <1>4, <1>5, <1>6 DEF WorkOK, Staged, AtWork, Compiled
<1>12. MemberOK(m)'
  BY <1>1, <1>2, <1>3, <1>4, <1>5, <1>6 DEF MemberOK, Steady, history
<1>13. ~crossed => QuietOwn(r, m)'
  <2> SUFFICES ASSUME ~crossed PROVE QuietOwn(r, m)'
    OBVIOUS
  <2>1. WorkOK(r, m) /\ QuietOK(r, m)
    BY <1>2 DEF Steady
  <2>2. tree[m].bin.env.rt = env.rt
    BY <1>1, <2>1 DEF WorkOK, QuietOK, Compiled
  <2>3. Len(Plan(job[r].b)) > 1 => OneInstall'
    BY <1>2, <1>4, <1>6, <2>1, <2>2 DEF QuietOK, OneInstall, world, FilesOK
  <2>4. m \notin Library \cup Installable => prefix[m] = None
    BY <1>2, <1>3 DEF MemberOK
  <2>5. QED
    BY <1>1, <1>2, <1>4, <1>6, <2>1, <2>3, <2>4 DEF QuietOwn, QuietOK, Compiled, world
<1>14. QED
  BY <1>1, <1>2, <1>3, <1>4, <1>5, <1>6, <1>7, <1>8, <1>9, <1>10, <1>11, <1>12, <1>13, SameMember DEF history, Compiled

LEMMA InstallFileKeeps ==
  ASSUME WorkspaceInv, NEW r \in Run, NEW m \in Member, m = Current(r), NEW f \in File, InstallFile(r, f)
  PROVE WorkspaceInv'
<1>1. Building(r) /\ AtWork(r) /\ pc[r] = "stage"
  BY DEF InstallFile, At, Building, AtWork, BuildSteps
<1>2. /\ FilesOK /\ ControlOK /\ StepOK(r) /\ MemberOK(m)
      /\ job[r] \in BuildJobs /\ tree[m] \in Trees /\ state[m] \in States /\ prefix[m] \in MaybeBin
      /\ job[r].env \in Env /\ state[m].chain \in Env /\ (m \in Bundle => out[m] \in Files)
      /\ (m \in Bundle => holder[m] = r) /\ (m \notin Library => m \in Bundle)
      /\ (Steady(m) => WorkOK(r, m)) /\ (~crossed => QuietOK(r, m))
  BY <1>1, BuildFacts
<1>3. m \in Bundle
  BY <1>1, <1>2 DEF StepOK, Leased
<1>4. f \in job[r].todo /\ tree[m].bin # None /\ tree[m].bin \in MaybeBin
  BY <1>1, <1>2 DEF InstallFile, Ready, Trees, BuildSteps
<1> DEFINE s == [state[m] EXCEPT !.stage = [state[m].stage EXCEPT ![f] = tree[m].bin]]
           j == [job[r] EXCEPT !.todo = job[r].todo \ {f}]
<1>5. /\ state' = [state EXCEPT ![m] = s] /\ job' = [job EXCEPT ![r] = j]
      /\ UNCHANGED <<world, prefix, tree, out, root, pinned, holder, dist, pc, commands, history>>
  BY DEF InstallFile
<1>6. [state[m].stage EXCEPT ![f] = tree[m].bin] \in Files
  BY <1>2, <1>4 DEF States, Files
<1>7. s \in States /\ s.stage = [state[m].stage EXCEPT ![f] = tree[m].bin] /\ s.chain = state[m].chain
      /\ s.pkg = state[m].pkg
  BY <1>2, <1>6 DEF States
<1>8. /\ j \in BuildJobs /\ j.todo = job[r].todo \ {f}
      /\ j.b = job[r].b /\ j.i = job[r].i /\ j.env = job[r].env /\ j.outs = job[r].outs
  BY <1>2 DEF BuildJobs
<1> HIDE DEF s, j
<1>9. /\ state'[m] = s /\ job'[r] = j /\ tree' = tree /\ pc' = pc /\ AtWork(r)'
      /\ Current(r)' = m /\ IsDependency(r)' = IsDependency(r)
  BY <1>1, <1>2, <1>5, <1>8 DEF FilesOK, ControlOK, AtWork, BuildSteps, Current, IsDependency
<1>10. FilesOK'
  BY <1>1, <1>2, <1>3, <1>4, <1>5, <1>6, <1>7, <1>8, <1>9 DEF FilesOK, world, history
<1>11. ControlOK'
  BY <1>1, <1>2, <1>3, <1>4, <1>5, <1>6, <1>7, <1>8, <1>9 DEF ControlOK, Steps, BuildSteps
<1>12. StepOK(r)'
  BY <1>1, <1>2, <1>3, <1>4, <1>5, <1>6, <1>7, <1>8, <1>9 DEF StepOK, Building, AtWork, Packaging, BuildSteps, PackageSteps, Leased
<1>13. BuildFrame(r, m)
  BY <1>1, <1>2, <1>3, <1>4, <1>5, <1>6, <1>7, <1>8, <1>9 DEF BuildFrame, world, history, FilesOK, ControlOK
<1>14. Steady(m) => WorkOK(r, m)'
  <2>1. state[m].stage \in [File -> MaybeBin]
    BY <1>2 DEF States, Files
  <2>2. QED
    BY <1>1, <1>2, <1>3, <1>4, <1>7, <1>8, <1>9, <2>1 DEF WorkOK, Staged, AtWork, Compiled
<1>15. MemberOK(m)'
  BY <1>1, <1>2, <1>3, <1>4, <1>5, <1>6, <1>7, <1>8, <1>9 DEF MemberOK, Steady, history
<1>16. ~crossed => QuietOwn(r, m)'
  BY <1>1, <1>2, <1>3, <1>4, <1>5, <1>6, <1>7, <1>8, <1>9 DEF QuietOwn, QuietOK, Compiled, OneInstall, world
<1>17. QED
  BY <1>1, <1>2, <1>3, <1>4, <1>5, <1>6, <1>7, <1>8, <1>9, <1>10, <1>11, <1>12, <1>13, <1>14, <1>15, <1>16, SameMember DEF history, Compiled

LEMMA SnapshotKeeps ==
  ASSUME WorkspaceInv, NEW r \in Run, NEW m \in Member, m = Current(r), Snapshot(r)
  PROVE WorkspaceInv'
<1>1. Building(r) /\ AtWork(r) /\ pc[r] = "snapshot"
  BY DEF Snapshot, At, Building, AtWork, BuildSteps
<1>2. /\ FilesOK /\ ControlOK /\ StepOK(r) /\ MemberOK(m)
      /\ job[r] \in BuildJobs /\ tree[m] \in Trees /\ state[m] \in States /\ prefix[m] \in MaybeBin
      /\ job[r].env \in Env /\ state[m].chain \in Env /\ (m \in Bundle => out[m] \in Files)
      /\ (m \in Bundle => holder[m] = r) /\ (m \notin Library => m \in Bundle)
      /\ (Steady(m) => WorkOK(r, m)) /\ (~crossed => QuietOK(r, m))
  BY <1>1, BuildFacts
<1>3. m \in Library /\ m \notin Bundle
  BY <1>1, <1>2, PlanAssumption DEF StepOK
<1> DEFINE s == [state[m] EXCEPT !.snap = prefix[m], !.listed = FALSE]
<1>4. /\ state' = [state EXCEPT ![m] = s] /\ pc' = [pc EXCEPT ![r] = "inventory"]
      /\ UNCHANGED <<world, prefix, tree, out, root, pinned, holder, dist, job, commands, history>>
  BY DEF Snapshot, Goto
<1>5. s \in States /\ s.snap = prefix[m] /\ s.chain = state[m].chain /\ s.pkg = state[m].pkg
  BY <1>2 DEF States
<1> HIDE DEF s
<1>6. /\ state'[m] = s /\ job' = job /\ pc'[r] = "inventory" /\ tree' = tree /\ AtWork(r)'
      /\ Current(r)' = m
  BY <1>1, <1>2, <1>4 DEF FilesOK, ControlOK, AtWork, BuildSteps, Current
<1>7. FilesOK'
  BY <1>1, <1>2, <1>3, <1>4, <1>5, <1>6 DEF FilesOK, world, history
<1>8. ControlOK'
  BY <1>1, <1>2, <1>3, <1>4, <1>5, <1>6 DEF ControlOK, Steps, BuildSteps
<1>9. StepOK(r)'
  BY <1>1, <1>2, <1>3, <1>4, <1>5, <1>6 DEF StepOK, Building, AtWork, Packaging, BuildSteps, PackageSteps, Leased
<1>10. BuildFrame(r, m)
  BY <1>1, <1>2, <1>3, <1>4, <1>5, <1>6 DEF BuildFrame, world, history, FilesOK, ControlOK
<1>11. Steady(m) => WorkOK(r, m)'
  BY <1>1, <1>2, <1>3, <1>4, <1>5, <1>6 DEF WorkOK, AtWork, Compiled
<1>12. MemberOK(m)'
  BY <1>1, <1>2, <1>3, <1>4, <1>5, <1>6 DEF MemberOK, Steady, history
<1>13. ~crossed => QuietOwn(r, m)'
  BY <1>1, <1>2, <1>3, <1>4, <1>5, <1>6 DEF QuietOwn, QuietOK, Compiled, OneInstall, world
<1>14. QED
  BY <1>1, <1>2, <1>3, <1>4, <1>5, <1>6, <1>7, <1>8, <1>9, <1>10, <1>11, <1>12, <1>13, SameMember DEF history, Compiled

LEMMA CollectOutputsKeeps ==
  ASSUME WorkspaceInv, NEW r \in Run, NEW m \in Member, m = Current(r), CollectOutputs(r)
  PROVE WorkspaceInv'
<1>1. Building(r) /\ AtWork(r) /\ pc[r] = "stage"
  BY DEF CollectOutputs, At, Building, AtWork, BuildSteps
<1>2. /\ FilesOK /\ ControlOK /\ StepOK(r) /\ MemberOK(m)
      /\ job[r] \in BuildJobs /\ tree[m] \in Trees /\ state[m] \in States /\ prefix[m] \in MaybeBin
      /\ job[r].env \in Env /\ state[m].chain \in Env /\ (m \in Bundle => out[m] \in Files)
      /\ (m \in Bundle => holder[m] = r) /\ (m \notin Library => m \in Bundle)
      /\ (Steady(m) => WorkOK(r, m)) /\ (~crossed => QuietOK(r, m))
  BY <1>1, BuildFacts
<1>3. m \in Bundle /\ job[r].todo = {}
  BY <1>1, <1>2 DEF StepOK, Leased, CollectOutputs
<1> DEFINE s == [state[m] EXCEPT !.cc = job[r].env.cc]
           j == [job[r] EXCEPT !.outs = Outputs(m)]
<1>4. /\ state' = [state EXCEPT ![m] = s] /\ job' = [job EXCEPT ![r] = j]
      /\ pc' = [pc EXCEPT ![r] = "lock"]
      /\ UNCHANGED <<world, prefix, tree, out, root, pinned, holder, dist, commands, history>>
  BY DEF CollectOutputs, Goto
<1>5. state[m].stage \in Files /\ Outputs(m) \in Files
  BY <1>2, <1>3 DEF Outputs, States
<1>6. s \in States /\ s.stage = state[m].stage /\ s.chain = state[m].chain /\ s.pkg = state[m].pkg
  BY <1>2 DEF States, Ccs
<1>7. /\ j \in BuildJobs /\ j.todo = job[r].todo /\ j.outs = Outputs(m)
      /\ j.b = job[r].b /\ j.i = job[r].i /\ j.env = job[r].env
  BY <1>2, <1>5 DEF BuildJobs
<1>8. Staged(m, {}) /\ Outputs(m) = [f \in File |-> tree[m].bin]
  <2>1. Staged(m, {})
    BY <1>1, <1>2, <1>3 DEF WorkOK, Steady
  <2>2. CASE m \in Installable
    <3>1. \A f \in File : state[m].stage[f] = tree[m].bin /\ tree[m].bin # None
      BY <2>1, <2>2 DEF Staged
    <3>2. Installed(m)
      BY <3>1 DEF Installed, File
    <3>3. QED
      BY <1>5, <2>1, <3>1, <3>2 DEF Outputs, Files
  <2>3. CASE m \notin Installable
    BY <2>1, <2>3 DEF Staged, Outputs, Installed, NoFiles, File
  <2>4. QED
    BY <2>1, <2>2, <2>3
<1> HIDE DEF s, j
<1>9. /\ state'[m] = s /\ job'[r] = j /\ tree' = tree /\ pc'[r] = "lock" /\ out' = out /\ AtWork(r)'
      /\ Current(r)' = m /\ IsDependency(r)' = IsDependency(r)
  BY <1>1, <1>2, <1>4, <1>7 DEF FilesOK, ControlOK, AtWork, BuildSteps, Current, IsDependency
<1>10. FilesOK'
  BY <1>1, <1>2, <1>3, <1>4, <1>5, <1>6, <1>7, <1>8, <1>9 DEF FilesOK, world, history
<1>11. ControlOK'
  BY <1>1, <1>2, <1>3, <1>4, <1>5, <1>6, <1>7, <1>8, <1>9 DEF ControlOK, Steps, BuildSteps
<1>12. StepOK(r)'
  BY <1>1, <1>2, <1>3, <1>4, <1>5, <1>6, <1>7, <1>8, <1>9 DEF StepOK, Building, AtWork, Packaging, BuildSteps, PackageSteps, Leased
<1>13. BuildFrame(r, m)
  BY <1>1, <1>2, <1>3, <1>4, <1>5, <1>6, <1>7, <1>8, <1>9 DEF BuildFrame, world, history, FilesOK, ControlOK
<1>14. Steady(m) => WorkOK(r, m)'
  BY <1>1, <1>2, <1>3, <1>4, <1>5, <1>6, <1>7, <1>8, <1>9 DEF WorkOK, Staged, AtWork, Compiled
<1>15. MemberOK(m)'
  BY <1>1, <1>2, <1>3, <1>4, <1>5, <1>6, <1>7, <1>8, <1>9 DEF MemberOK, Steady, history
<1>16. ~crossed => QuietOwn(r, m)'
  BY <1>1, <1>2, <1>3, <1>4, <1>5, <1>6, <1>7, <1>8, <1>9 DEF QuietOwn, QuietOK, Compiled, OneInstall, world
<1>17. QED
  BY <1>1, <1>2, <1>3, <1>4, <1>5, <1>6, <1>7, <1>8, <1>9, <1>10, <1>11, <1>12, <1>13, <1>14, <1>15, <1>16, SameMember DEF history, Compiled

LEMMA WriteLockKeeps ==
  ASSUME WorkspaceInv, NEW r \in Run, NEW m \in Member, m = Current(r), WriteLock(r)
  PROVE WorkspaceInv'
<1>1. Building(r) /\ AtWork(r) /\ pc[r] = "lock"
  BY DEF WriteLock, At, Building, AtWork, BuildSteps
<1>2. /\ FilesOK /\ ControlOK /\ StepOK(r) /\ MemberOK(m)
      /\ job[r] \in BuildJobs /\ tree[m] \in Trees /\ state[m] \in States /\ prefix[m] \in MaybeBin
      /\ job[r].env \in Env /\ state[m].chain \in Env /\ (m \in Bundle => out[m] \in Files)
      /\ (m \in Bundle => holder[m] = r) /\ (m \notin Library => m \in Bundle)
      /\ (Steady(m) => WorkOK(r, m)) /\ (~crossed => QuietOK(r, m))
  BY <1>1, BuildFacts
<1>3. m \in Bundle
  BY <1>1, <1>2 DEF StepOK, Leased
<1> DEFINE s == [state[m] EXCEPT !.lock = job[r].env]
<1>4. /\ state' = [state EXCEPT ![m] = s] /\ pc' = [pc EXCEPT ![r] = "complete"]
      /\ UNCHANGED <<world, prefix, tree, out, root, pinned, holder, dist, job, commands, history>>
  BY DEF WriteLock, Goto
<1>5. s \in States /\ s.stage = state[m].stage /\ s.chain = state[m].chain /\ s.pkg = state[m].pkg
  BY <1>2 DEF States, MaybeEnv
<1> HIDE DEF s
<1>6. /\ state'[m] = s /\ job' = job /\ pc'[r] = "complete" /\ tree' = tree /\ out' = out
      /\ AtWork(r)' /\ Current(r)' = m /\ IsDependency(r)' = IsDependency(r)
  BY <1>1, <1>2, <1>4 DEF FilesOK, ControlOK, AtWork, BuildSteps, Current, IsDependency
<1>7. FilesOK'
  BY <1>1, <1>2, <1>3, <1>4, <1>5, <1>6 DEF FilesOK, world, history
<1>8. ControlOK'
  BY <1>1, <1>2, <1>3, <1>4, <1>5, <1>6 DEF ControlOK, Steps, BuildSteps
<1>9. StepOK(r)'
  BY <1>1, <1>2, <1>3, <1>4, <1>5, <1>6 DEF StepOK, Building, AtWork, Packaging, BuildSteps, PackageSteps, Leased
<1>10. BuildFrame(r, m)
  BY <1>1, <1>2, <1>3, <1>4, <1>5, <1>6 DEF BuildFrame, world, history, FilesOK, ControlOK
<1>11. Steady(m) => WorkOK(r, m)'
  BY <1>1, <1>2, <1>3, <1>4, <1>5, <1>6 DEF WorkOK, Staged, AtWork, Compiled
<1>12. MemberOK(m)'
  BY <1>1, <1>2, <1>3, <1>4, <1>5, <1>6 DEF MemberOK, Steady, history
<1>13. ~crossed => QuietOwn(r, m)'
  BY <1>1, <1>2, <1>3, <1>4, <1>5, <1>6 DEF QuietOwn, QuietOK, Compiled, OneInstall, world
<1>14. QED
  BY <1>1, <1>2, <1>3, <1>4, <1>5, <1>6, <1>7, <1>8, <1>9, <1>10, <1>11, <1>12, <1>13, SameMember DEF history, Compiled

LEMMA WriteCompletionKeeps ==
  ASSUME WorkspaceInv, NEW r \in Run, NEW m \in Member, m = Current(r), WriteCompletion(r)
  PROVE WorkspaceInv'
<1>1. Building(r) /\ AtWork(r) /\ pc[r] = "complete"
  BY DEF WriteCompletion, At, Building, AtWork, BuildSteps
<1>2. /\ FilesOK /\ ControlOK /\ StepOK(r) /\ MemberOK(m)
      /\ job[r] \in BuildJobs /\ tree[m] \in Trees /\ state[m] \in States /\ prefix[m] \in MaybeBin
      /\ job[r].env \in Env /\ state[m].chain \in Env /\ (m \in Bundle => out[m] \in Files)
      /\ (m \in Bundle => holder[m] = r) /\ (m \notin Library => m \in Bundle)
      /\ (Steady(m) => WorkOK(r, m)) /\ (~crossed => QuietOK(r, m))
  BY <1>1, BuildFacts
<1>3. m \in Bundle /\ job[r].outs \in Files
  BY <1>1, <1>2 DEF StepOK, Leased
<1> DEFINE d == [env |-> job[r].env, outs |-> job[r].outs]
           t == [tree[m] EXCEPT !.done = d]
<1>4. /\ tree' = [tree EXCEPT ![m] = t] /\ pc' = [pc EXCEPT ![r] = "pin"]
      /\ UNCHANGED <<world, prefix, state, out, root, pinned, holder, dist, job, commands, history>>
  BY DEF WriteCompletion, Goto
<1>5. d \in Dones /\ d.outs = job[r].outs /\ d.env = job[r].env
  BY <1>2, <1>3 DEF Dones
<1> HIDE DEF d
<1>6. /\ t \in Trees /\ t.done = d /\ t.bin = tree[m].bin
      /\ t.cache = tree[m].cache /\ t.mark = tree[m].mark
  BY <1>2, <1>5 DEF Trees
<1> HIDE DEF t
<1>7. /\ tree'[m] = t /\ job' = job /\ pc'[r] = "pin" /\ state' = state /\ out' = out
      /\ AtWork(r)' /\ Current(r)' = m /\ IsDependency(r)' = IsDependency(r)
  BY <1>1, <1>2, <1>4 DEF FilesOK, ControlOK, AtWork, BuildSteps, Current, IsDependency
<1>8. d.outs = [f \in File |-> tree[m].bin] /\ tree[m].bin.env.rt = d.env.rt
  BY <1>1, <1>2, <1>3, <1>5 DEF WorkOK, Steady, Compiled
<1>9. FilesOK'
  BY <1>1, <1>2, <1>3, <1>4, <1>5, <1>6, <1>7, <1>8 DEF FilesOK, world, history
<1>10. ControlOK'
  BY <1>1, <1>2, <1>3, <1>4, <1>5, <1>6, <1>7, <1>8 DEF ControlOK, Steps, BuildSteps
<1>11. StepOK(r)'
  BY <1>1, <1>2, <1>3, <1>4, <1>5, <1>6, <1>7, <1>8 DEF StepOK, Building, AtWork, Packaging, BuildSteps, PackageSteps, Leased
<1>12. BuildFrame(r, m)
  BY <1>1, <1>2, <1>3, <1>4, <1>5, <1>6, <1>7, <1>8 DEF BuildFrame, world, history, FilesOK, ControlOK
<1>13. Steady(m) => WorkOK(r, m)'
  BY <1>1, <1>2, <1>3, <1>4, <1>5, <1>6, <1>7, <1>8 DEF WorkOK, Staged, AtWork, Compiled
<1>14. MemberOK(m)'
  <2>1. d.outs # NoFiles => OneCompile(d.outs, d.env.rt)
    BY <1>8 DEF NoFiles, OneCompile, File
  <2>2. ~crossed => \A f \in File : OneRuntime(d.outs[f], d.env.rt)
    BY <1>1, <1>2, <1>5, <1>8 DEF QuietOK, Compiled
  <2>3. QED
    BY <1>2, <1>3, <1>4, <1>6, <1>7, <2>1, <2>2 DEF MemberOK, Steady, history
<1>15. ~crossed => QuietOwn(r, m)'
  BY <1>1, <1>2, <1>3, <1>4, <1>5, <1>6, <1>7, <1>8 DEF QuietOwn, QuietOK, Compiled, OneInstall, world
<1>16. QED
  BY <1>1, <1>2, <1>3, <1>4, <1>5, <1>6, <1>7, <1>8, <1>9, <1>10, <1>11, <1>12, <1>13, <1>14, <1>15, SameMember DEF history, Compiled

\* A directory that is kept is the one that was there and, with a cache, of this runtime.
LEMMA KeptFacts ==
  ASSUME NEW m \in Member, NEW e, NEW t \in Kept(m, e)
  PROVE t = NoTree \/ (t = tree[m] /\ (tree[m].cache # None => tree[m].mark = e.rt))
BY DEF Kept, Trusted, NoTree

LEMMA EmptyTree == /\ NoTree \in Trees /\ NoTree.cache = None /\ NoTree.done = None
BY DEF NoTree, Trees, MaybeEnv, MaybeBin

LEMMA PrepareLibraryKeeps ==
  ASSUME WorkspaceInv, NEW r \in Run, NEW m \in Member, m = Current(r), PrepareLibrary(r)
  PROVE WorkspaceInv'
<1>1. Building(r) /\ ~AtWork(r) /\ pc[r] = "member" /\ m \in Library
  BY DEF PrepareLibrary, At, Building, AtWork, BuildSteps
<1>2. /\ FilesOK /\ ControlOK /\ StepOK(r) /\ MemberOK(m)
      /\ job[r] \in BuildJobs /\ tree[m] \in Trees /\ state[m] \in States /\ prefix[m] \in MaybeBin
      /\ env \in Env /\ (~crossed => QuietOK(r, m))
  BY <1>1, BuildFacts
<1>3. PICK t \in Kept(m, env) : tree' = [tree EXCEPT ![m] = t]
  BY DEF PrepareLibrary
<1> DEFINE s == [state[m] EXCEPT !.chain = env, !.snap = None, !.listed = FALSE]
           j == [job[r] EXCEPT !.env = env]
<1>4. /\ state' = [state EXCEPT ![m] = s] /\ job' = [job EXCEPT ![r] = j]
      /\ pc' = [pc EXCEPT ![r] = "configure"]
      /\ UNCHANGED <<world, prefix, out, root, pinned, dist, commands, history>>
  BY DEF PrepareLibrary, Goto
<1>5. s \in States /\ s.chain = env /\ s.pkg = state[m].pkg
  BY <1>2 DEF States, MaybeEnv, MaybeBin
<1>6. /\ j \in BuildJobs /\ j.env = env /\ j.b = job[r].b /\ j.i = job[r].i
  BY <1>2 DEF BuildJobs, MaybeEnv
<1>7. t \in Trees /\ (t = NoTree \/ (t = tree[m] /\ (tree[m].cache # None => tree[m].mark = env.rt)))
      /\ NoTree.cache = None /\ NoTree.done = None
  BY <1>2, KeptFacts, EmptyTree
<1> HIDE DEF s, j
<1>8. /\ state'[m] = s /\ job'[r] = j /\ tree'[m] = t /\ pc'[r] = "configure" /\ AtWork(r)'
      /\ Current(r)' = m
  BY <1>1, <1>2, <1>3, <1>4, <1>6 DEF FilesOK, ControlOK, AtWork, BuildSteps, Current
<1>9. holder' = holder /\ m \notin Bundle
  BY <1>1, PlanAssumption DEF PrepareLibrary
<1>10. FilesOK'
  BY <1>1, <1>2, <1>3, <1>4, <1>5, <1>6, <1>7, <1>8, <1>9 DEF FilesOK, world, history
<1>11. ControlOK'
  BY <1>1, <1>2, <1>3, <1>4, <1>5, <1>6, <1>7, <1>8, <1>9 DEF ControlOK, Steps, BuildSteps
<1>12. StepOK(r)'
  BY <1>1, <1>2, <1>3, <1>4, <1>5, <1>6, <1>7, <1>8, <1>9 DEF StepOK, Building, AtWork, Packaging, BuildSteps, PackageSteps, Leased
<1>13. BuildFrame(r, m)
  BY <1>1, <1>2, <1>3, <1>4, <1>5, <1>6, <1>7, <1>8, <1>9 DEF BuildFrame, world, history, FilesOK, ControlOK
<1>14. Steady(m) => WorkOK(r, m)'
  BY <1>1, <1>2, <1>3, <1>4, <1>5, <1>6, <1>7, <1>8, <1>9 DEF WorkOK, AtWork, Compiled, MemberOK
<1>15. MemberOK(m)'
  BY <1>1, <1>2, <1>3, <1>4, <1>5, <1>6, <1>7, <1>8, <1>9 DEF MemberOK, Steady, history
<1>16. ~crossed => QuietOwn(r, m)'
  BY <1>1, <1>2, <1>3, <1>4, <1>5, <1>6, <1>7, <1>8, <1>9 DEF QuietOwn, QuietOK, Compiled, OneInstall, world
<1>17. QED
  BY <1>1, <1>2, <1>3, <1>4, <1>5, <1>6, <1>7, <1>8, <1>9, <1>10, <1>11, <1>12, <1>13, <1>14, <1>15, <1>16, SameMember DEF history, Compiled

LEMMA PrepareBundleKeeps ==
  ASSUME WorkspaceInv, NEW r \in Run, NEW m \in Member, m = Current(r), PrepareBundle(r)
  PROVE WorkspaceInv'
<1>1. Building(r) /\ ~AtWork(r) /\ pc[r] = "member" /\ m \in Bundle
  BY DEF PrepareBundle, At, Building, AtWork, BuildSteps
<1>2. /\ FilesOK /\ ControlOK /\ StepOK(r) /\ MemberOK(m)
      /\ job[r] \in BuildJobs /\ tree[m] \in Trees /\ state[m] \in States /\ prefix[m] \in MaybeBin
      /\ env \in Env /\ (~crossed => QuietOK(r, m))
  BY <1>1, BuildFacts
<1>3. PICK t \in Kept(m, env) : tree' = [tree EXCEPT ![m] = t]
  BY DEF PrepareBundle
<1> DEFINE s == [state[m] EXCEPT !.chain = env]
           j == [job[r] EXCEPT !.env = env]
<1>4. /\ state' = [state EXCEPT ![m] = s] /\ job' = [job EXCEPT ![r] = j]
      /\ pc' = [pc EXCEPT ![r] = "configure"]
      /\ UNCHANGED <<world, prefix, out, root, pinned, dist, commands, history>>
  BY DEF PrepareBundle, Goto
<1>5. s \in States /\ s.chain = env /\ s.pkg = state[m].pkg
  BY <1>2 DEF States, MaybeEnv, MaybeBin
<1>6. /\ j \in BuildJobs /\ j.env = env /\ j.b = job[r].b /\ j.i = job[r].i
  BY <1>2 DEF BuildJobs, MaybeEnv
<1>7. t \in Trees /\ (t = NoTree \/ (t = tree[m] /\ (tree[m].cache # None => tree[m].mark = env.rt)))
      /\ NoTree.cache = None /\ NoTree.done = None
  BY <1>2, KeptFacts, EmptyTree
<1> HIDE DEF s, j
<1>8. /\ state'[m] = s /\ job'[r] = j /\ tree'[m] = t /\ pc'[r] = "configure" /\ AtWork(r)'
      /\ Current(r)' = m
  BY <1>1, <1>2, <1>3, <1>4, <1>6 DEF FilesOK, ControlOK, AtWork, BuildSteps, Current
<1>9. holder' = [holder EXCEPT ![m] = r] /\ holder[m] = Nobody /\ holder'[m] = r
  BY <1>1, <1>2 DEF PrepareBundle, Ready, BuildSteps, ControlOK
<1>10. FilesOK'
  BY <1>1, <1>2, <1>3, <1>4, <1>5, <1>6, <1>7, <1>8, <1>9 DEF FilesOK, world, history
<1>11. ControlOK'
  BY <1>1, <1>2, <1>3, <1>4, <1>5, <1>6, <1>7, <1>8, <1>9 DEF ControlOK, Steps, BuildSteps
<1>12. StepOK(r)'
  BY <1>1, <1>2, <1>3, <1>4, <1>5, <1>6, <1>7, <1>8, <1>9 DEF StepOK, Building, AtWork, Packaging, BuildSteps, PackageSteps, Leased
<1>13. BuildFrame(r, m)
  BY <1>1, <1>2, <1>3, <1>4, <1>5, <1>6, <1>7, <1>8, <1>9 DEF BuildFrame, world, history, FilesOK, ControlOK
<1>14. Steady(m) => WorkOK(r, m)'
  BY <1>1, <1>2, <1>3, <1>4, <1>5, <1>6, <1>7, <1>8, <1>9 DEF WorkOK, AtWork, Compiled, MemberOK
<1>15. MemberOK(m)'
  BY <1>1, <1>2, <1>3, <1>4, <1>5, <1>6, <1>7, <1>8, <1>9 DEF MemberOK, Steady, history
<1>16. ~crossed => QuietOwn(r, m)'
  BY <1>1, <1>2, <1>3, <1>4, <1>5, <1>6, <1>7, <1>8, <1>9 DEF QuietOwn, QuietOK, Compiled, OneInstall, world
<1>17. QED
  BY <1>1, <1>2, <1>3, <1>4, <1>5, <1>6, <1>7, <1>8, <1>9, <1>10, <1>11, <1>12, <1>13, <1>14, <1>15, <1>16, SameMember DEF history, Compiled

\* A build that goes on to the next member of its plan.
LEMMA NextMember ==
  ASSUME WorkspaceInv, NEW r \in Run, NEW m \in Member, m = Current(r), Building(r),
         BuildFrame(r, m), FilesOK', ControlOK', MemberOK(m)', IsDependency(r), UNCHANGED <<settled, prefix>>,
         job' = [job EXCEPT ![r] = [job[r] EXCEPT !.i = job[r].i + 1]],
         pc' = [pc EXCEPT ![r] = "member"],
         m \in Bundle => holder'[m] = Nobody,
         ~crossed /\ prefix[m] # None => Carried(m)' = prefix[m]
  PROVE WorkspaceInv'
<1>1. /\ FilesOK /\ ControlOK /\ StepOK(r) /\ job[r] \in BuildJobs /\ job[r].b \in Bundle
      /\ job[r].i \in 1..Len(Plan(job[r].b)) /\ (~crossed => QuietOK(r, m))
  BY BuildFacts
<1>2. Before(r) \subseteq Member \ {m}
  BY <1>1, Position
<1> DEFINE j == [job[r] EXCEPT !.i = job[r].i + 1]
<1>3. j \in BuildJobs /\ j.b = job[r].b /\ j.i = job[r].i + 1
  BY <1>1 DEF BuildJobs
<1> HIDE DEF j
<1>4. job'[r] = j /\ pc'[r] = "member" /\ ~AtWork(r)' /\ Building(r)'
  BY <1>1 DEF ControlOK, j, AtWork, Building, BuildSteps
<1>5. Len(Plan(job[r].b)) \in Nat
  BY <1>1, PlanFacts
<1>6. j.i \in 1..Len(Plan(j.b))
  BY <1>1, <1>3, <1>5 DEF IsDependency
<1>7. StepOK(r)'
  BY <1>3, <1>4, <1>6 DEF StepOK, Building, AtWork, Packaging, BuildSteps, PackageSteps, Leased
<1>8. Before(r)' \subseteq Before(r) \cup {m}
  <2> DEFINE p == Plan(job[r].b)
             i == job[r].i
  <2>1. Before(r)' = {p[k] : k \in 1..((i + 1) - 1)}
    BY <1>3, <1>4 DEF Before
  <2>2. Before(r) = {p[k] : k \in 1..(i - 1)} /\ m = p[i]
    BY DEF Before, Current
  <2>3. i \in Nat
    BY <1>1, <1>5
  <2> HIDE DEF p, i
  <2>4. \A k \in 1..((i + 1) - 1) : k = i \/ k \in 1..(i - 1)
    BY <2>3
  <2>5. QED
    BY <2>1, <2>2, <2>4
<1>9. ~crossed => AllCarried(r)'
  <2> SUFFICES ASSUME ~crossed, NEW x \in Before(r)', prefix'[x] # None
               PROVE Carried(x)' = prefix'[x]
    BY DEF AllCarried
  <2>1. CASE x = m
    BY <2>1
  <2>2. CASE x \in Before(r)
    <3>1. x \in Member \ {m} /\ state'[x] = state[x] /\ (x \in Bundle => out'[x] = out[x])
      BY <1>2, <2>2 DEF BuildFrame
    <3>2. Carried(x)' = Carried(x)
      BY <3>1, CarriedStays
    <3>3. QED
      BY <1>1, <2>2, <3>2 DEF QuietOK, AllCarried
  <2>3. QED
    BY <1>8, <2>1, <2>2
<1>10. PICK n : n = Current(r)'
  OBVIOUS
<1>11. WorkOK(r, n)'
  BY <1>4 DEF WorkOK, AtWork, Compiled, BuildSteps
<1>12. ~crossed => QuietOK(r, n)'
  BY <1>1, <1>3, <1>4, <1>9 DEF QuietOK, Compiled, OneInstall, BuildFrame
<1>13. BuildOK(r)'
  BY <1>10, <1>11, <1>12 DEF BuildOK, BuildFrame
<1>14. OwnOK(r, m)'
  BY <1>4, <1>7, <1>13 DEF OwnOK
<1>15. QED
  BY <1>14, BuildKeeps

LEMMA ListSnapshotKeeps ==
  ASSUME WorkspaceInv, NEW r \in Run, NEW m \in Member, m = Current(r), ListSnapshot(r)
  PROVE WorkspaceInv'
<1>1. Building(r) /\ AtWork(r) /\ pc[r] = "inventory"
  BY DEF ListSnapshot, At, Building, AtWork, BuildSteps
<1>2. /\ FilesOK /\ ControlOK /\ StepOK(r) /\ MemberOK(m)
      /\ job[r] \in BuildJobs /\ state[m] \in States /\ job[r].env \in Env /\ job[r].b \in Bundle
      /\ (~crossed => QuietOK(r, m))
  BY <1>1, BuildFacts
<1>3. m \in Library /\ m \notin Bundle
  BY <1>1, <1>2, PlanAssumption DEF StepOK
<1>4. IsDependency(r)
  BY <1>1, <1>2, <1>3, Position
<1> DEFINE s == [state[m] EXCEPT !.listed = TRUE, !.cc = job[r].env.cc]
<1>5. /\ state' = [state EXCEPT ![m] = s]
      /\ UNCHANGED <<world, prefix, tree, out, root, pinned, holder, dist, commands, crossed>>
  BY DEF ListSnapshot
<1>6. /\ job' = [job EXCEPT ![r] = [job[r] EXCEPT !.i = job[r].i + 1]]
      /\ pc' = [pc EXCEPT ![r] = "member"] /\ settled' = settled
  BY <1>4 DEF ListSnapshot, EndMember, Goto
<1>7. s \in States /\ s.snap = state[m].snap /\ s.chain = state[m].chain /\ s.pkg = state[m].pkg
  BY <1>2 DEF States, Ccs
<1> HIDE DEF s
<1>8. state'[m] = s
  BY <1>2, <1>5 DEF FilesOK
<1>9. FilesOK'
  BY <1>2, <1>5, <1>6, <1>7 DEF FilesOK, world
<1>10. [job[r] EXCEPT !.i = job[r].i + 1] \in BuildJobs
  BY <1>2 DEF BuildJobs
<1>11. ControlOK'
  BY <1>2, <1>5, <1>6, <1>10 DEF ControlOK, Steps, BuildSteps
<1>12. BuildFrame(r, m)
  BY <1>2, <1>3, <1>5, <1>6, <1>7, <1>8 DEF BuildFrame, world, FilesOK, ControlOK
<1>13. MemberOK(m)'
  BY <1>2, <1>5 DEF MemberOK, Steady
<1>14. ~crossed /\ prefix[m] # None => Carried(m)' = prefix[m]
  BY <1>1, <1>2, <1>3, <1>7, <1>8 DEF QuietOK, Carried
<1>15. QED
  BY <1>1, <1>3, <1>4, <1>5, <1>6, <1>9, <1>11, <1>12, <1>13, <1>14, NextMember

LEMMA FinishBundleKeeps ==
  ASSUME WorkspaceInv, NEW r \in Run, NEW m \in Member, m = Current(r), FinishBundle(r)
  PROVE WorkspaceInv'
<1>1. Building(r) /\ AtWork(r) /\ pc[r] = "pin"
  BY DEF FinishBundle, At, Building, AtWork, BuildSteps
<1>2. /\ FilesOK /\ ControlOK /\ StepOK(r) /\ MemberOK(m)
      /\ job[r] \in BuildJobs /\ state[m] \in States /\ job[r].env \in Env /\ job[r].b \in Bundle
      /\ (Steady(m) => WorkOK(r, m)) /\ (~crossed => QuietOK(r, m)) /\ settled = None
      /\ (m \in Bundle => holder[m] = r /\ out[m] \in Files)
  BY <1>1, BuildFacts
<1>3. m \in Bundle /\ m \notin Library
  BY <1>1, <1>2, PlanAssumption DEF StepOK, Leased
<1> DEFINE s == [state[m] EXCEPT !.marked = Installed(m)]
<1>4. /\ state' = [state EXCEPT ![m] = s] /\ holder' = [holder EXCEPT ![m] = Nobody]
      /\ EndMember(r)
      /\ UNCHANGED <<world, prefix, tree, out, root, dist, commands, crossed>>
  BY DEF FinishBundle
<1>5. Installed(m) \in BOOLEAN
  BY DEF Installed
<1>6. /\ s \in States /\ s.marked = Installed(m) /\ s.stage = state[m].stage
      /\ s.chain = state[m].chain /\ s.pkg = state[m].pkg
  BY <1>2, <1>5 DEF States
<1> HIDE DEF s
<1>7. state'[m] = s /\ holder'[m] = Nobody
  BY <1>2, <1>3, <1>4 DEF FilesOK, ControlOK
<1>8. Source(m, ReadFrom(m))' = [f \in File |-> tree[m].bin]
  <2>1. Staged(m, {})
    BY <1>1, <1>2, <1>3 DEF WorkOK, Steady
  <2>2. CASE m \in Installable
    <3>1. \A f \in File : state[m].stage[f] = tree[m].bin /\ tree[m].bin # None
      BY <2>1, <2>2 DEF Staged
    <3>2. Installed(m) /\ state[m].stage \in [File -> MaybeBin]
      BY <1>2, <3>1 DEF Installed, File, States, Files
    <3>3. state[m].stage = [f \in File |-> tree[m].bin]
      BY <3>1, <3>2
    <3>4. QED
      BY <1>6, <1>7, <3>2, <3>3 DEF Source, ReadFrom
  <2>3. CASE m \notin Installable
    <3>1. out[m] = [f \in File |-> tree[m].bin] /\ ~Installed(m)
      BY <2>1, <2>3 DEF Staged, Installed, NoFiles, File
    <3>2. QED
      BY <1>4, <1>6, <1>7, <3>1 DEF Source, ReadFrom
  <2>4. QED
    BY <2>2, <2>3
<1>9. MemberOK(m)'
  BY <1>2, <1>4 DEF MemberOK, Steady
<1>10. CASE IsDependency(r)
  <2>1. /\ job' = [job EXCEPT ![r] = [job[r] EXCEPT !.i = job[r].i + 1]]
        /\ pc' = [pc EXCEPT ![r] = "member"] /\ settled' = settled
    BY <1>4, <1>10 DEF EndMember, Goto
  <2>2. FilesOK'
    BY <1>2, <1>4, <1>6, <2>1 DEF FilesOK, world
  <2>3. [job[r] EXCEPT !.i = job[r].i + 1] \in BuildJobs
    BY <1>2 DEF BuildJobs
  <2>4. ControlOK'
    BY <1>2, <1>3, <1>4, <2>1, <2>3 DEF ControlOK, Steps, BuildSteps
  <2>5. BuildFrame(r, m)
    BY <1>2, <1>3, <1>4, <1>6, <1>7, <2>1 DEF BuildFrame, world, FilesOK, ControlOK
  <2>6. ~crossed /\ prefix[m] # None => Carried(m)' = prefix[m]
    <3>1. Carried(m)' = tree[m].bin
      BY <1>3, <1>8 DEF Carried, File
    <3>2. QED
      BY <1>1, <1>2, <1>10, <3>1 DEF QuietOK
  <2>7. QED
    BY <1>1, <1>4, <1>7, <1>9, <1>10, <2>1, <2>2, <2>4, <2>5, <2>6, NextMember
<1>11. CASE ~IsDependency(r)
  <2>1. /\ job' = [job EXCEPT ![r] = None] /\ pc' = [pc EXCEPT ![r] = "idle"]
        /\ settled' = IF crossed THEN None ELSE <<job[r].b, commands>>
    BY <1>4, <1>11 DEF EndMember, Return, Goto
  <2>2. m = job[r].b /\ commands \in Nat
    BY <1>1, <1>2, <1>11, Position DEF FilesOK
  <2>3. settled' \in Settlings
    BY <1>2, <2>1, <2>2 DEF Settlings
  <2>4. FilesOK'
    BY <1>2, <1>4, <1>6, <2>3 DEF FilesOK, world
  <2>5. ControlOK'
    BY <1>2, <1>3, <1>4, <2>1 DEF ControlOK, Steps
  <2>6. BuildFrame(r, m)
    BY <1>2, <1>3, <1>4, <1>6, <1>7, <2>1 DEF BuildFrame, world, FilesOK, ControlOK
  <2>7. pc'[r] = "idle" /\ job'[r] = None /\ ~Building(r)' /\ ~AtWork(r)' /\ ~Packaging(r)'
    BY <1>2, <2>1 DEF ControlOK, Building, AtWork, Packaging, BuildSteps, PackageSteps
  <2>8. StepOK(r)' /\ BuildOK(r)'
    BY <2>7 DEF StepOK, BuildOK, Leased
  <2>9. OwnOK(r, m)'
    BY <1>7, <1>9, <2>5, <2>7, <2>8 DEF OwnOK
  <2>10. SettledOK'
    <3> SUFFICES ASSUME settled' # None PROVE SettledOK'
      BY DEF SettledOK
    <3>1. ~crossed /\ settled' = <<m, commands>>
      BY <2>1, <2>2
    <3>2. \A q \in Run : ~Building(q)'
      BY <1>1, <2>6, <2>7, <3>1 DEF WorkspaceInv, SoleOK, BuildFrame, Building
    <3>3. AllLinked(m)
      BY <1>1, <1>2, <1>11, <3>1 DEF QuietOK, Compiled
    <3>4. AllLinked(m)'
      <4>1. Links(m) \subseteq Member \ {m}
        BY <1>3, LinksFacts
      <4>2. \A x \in Links(m) : Carried(x)' = Carried(x)
        BY <4>1, <2>6, CarriedStays DEF BuildFrame
      <4>3. QED
        BY <1>4, <3>3, <4>2 DEF AllLinked, Linked
    <3>5. settled'[1] = m /\ settled'[2] = commands /\ commands' = commands /\ tree' = tree
      BY <1>4, <3>1
    <3>6. QED
      BY <1>8, <2>2, <3>2, <3>4, <3>5 DEF SettledOK
  <2>11. QED
    BY <1>1, <2>4, <2>6, <2>9, <2>10, BuildKeeps
<1>12. QED
  BY <1>10, <1>11

-----------------------------------------------------------------------------
(* Starting, changing and giving up                                        *)

LEMMA ActiveBuilds ==
  ASSUME WorkspaceInv, NEW q \in Run
  PROVE q \in Active("build") <=> Building(q)
<1>1. StepOK(q) /\ pc[q] \in Steps
  BY DEF WorkspaceInv, ControlOK
<1>2. QED
  BY <1>1 DEF Active, StepOK, Steps, Building, Packaging, BuildSteps, PackageSteps, BuildJobs, PackageJobs

LEMMA ActivePackages ==
  ASSUME WorkspaceInv, NEW q \in Run
  PROVE q \in Active("package") <=> Packaging(q)
<1>1. StepOK(q) /\ pc[q] \in Steps
  BY DEF WorkspaceInv, ControlOK
<1>2. QED
  BY <1>1 DEF Active, StepOK, Steps, Building, Packaging, BuildSteps, PackageSteps, BuildJobs, PackageJobs

\* What crosses a build does not uncross it.
LEMMA MembersStay ==
  ASSUME WorkspaceInv, NEW x \in Member, tree' = tree, prefix'[x] \in {prefix[x], None}, crossed => crossed'
  PROVE MemberOK(x)'
BY DEF WorkspaceInv, MemberOK, Steady

\* A packaging while something else starts or changes: nothing is settled any more.
LEMMA PackagingStays ==
  ASSUME WorkspaceInv, NEW q \in Run, settled' = None, commands' \in Nat, commands' <= commands,
         pc'[q] = pc[q], job'[q] = job[q],
         \A x \in Run : Packaging(x)' => Packaging(x) /\ job'[x] = job[x],
         \A x \in Member : state'[x].pkg = state[x].pkg
  PROVE PackOK(q)'
<1> SUFFICES ASSUME Packaging(q)' PROVE PackOK(q)'
  BY DEF PackOK, AloneOK, PackData
<1>1. Packaging(q) /\ PackOK(q) /\ job[q] \in PackageJobs /\ commands \in Nat
  BY DEF Packaging, WorkspaceInv, StepOK, FilesOK
<1>2. job[q].b \in Member /\ (job[q].settled # None => job[q].settled[2] \in Nat)
  BY <1>1 DEF PackageJobs, Settlings, Member
<1>3. ~StillSettled(q)'
  BY DEF StillSettled
<1>4. state'[job[q].b].pkg = state[job[q].b].pkg
  BY <1>2
<1>5. job[q].settled # None => job[q].settled[2] > commands'
  BY <1>1, <1>2 DEF PackOK, AloneOK, PackData
<1>6. job[q].alone => \A x \in Run : Packaging(x)' /\ job'[x].b = job[q].b => x = q
  BY <1>1 DEF PackOK, AloneOK, PackData
<1>7. QED
  BY <1>1, <1>3, <1>4, <1>5, <1>6 DEF PackOK, AloneOK, PackData

\* A build that is crossed keeps what its lease protects.
LEMMA CrossedStays ==
  ASSUME WorkspaceInv, NEW q \in Run, crossed', pc'[q] = pc[q], job'[q] = job[q], tree' = tree,
         \A x \in Bundle : holder[x] # Nobody => state'[x] = state[x] /\ out'[x] = out[x]
  PROVE BuildOK(q)'
<1> SUFFICES ASSUME Building(q)', Current(q) \in Bundle PROVE WorkOK(q, Current(q))'
  BY DEF BuildOK, Steady, Current
<1>1. Building(q) /\ WorkOK(q, Current(q)) /\ StepOK(q)
  BY DEF Building, WorkspaceInv, BuildOK, Steady
<1>2. Current(q)' = Current(q)
  BY DEF Current
<1>3. CASE ~AtWork(q)
  BY <1>2, <1>3 DEF WorkOK, AtWork, Compiled, BuildSteps
<1>4. CASE AtWork(q)
  <2>1. holder[Current(q)] = q /\ q # Nobody
    BY <1>1, <1>4, NobodyAssumption DEF StepOK
  <2>2. QED
    BY <1>1, <1>2, <2>1 DEF WorkOK, Staged, AtWork
<1>5. QED
  BY <1>3, <1>4

\* The steps of the runs that a start or a change leaves alone.
LEMMA StepsStay ==
  ASSUME WorkspaceInv, NEW q \in Run, pc'[q] = pc[q], job'[q] = job[q], holder' = holder,
         \A x \in Member : state'[x].pkg = state[x].pkg /\ state'[x].chain = state[x].chain
  PROVE StepOK(q)'
<1>1. StepOK(q) /\ ControlOK /\ Current(q)' = Current(q)
  BY DEF WorkspaceInv, Current
<1>2. Building(q) => Current(q) \in Member
  BY <1>1, Position
<1>3. Packaging(q) => job[q].b \in Member
  BY <1>1 DEF StepOK, PackageJobs, Member
<1>4. QED
  BY <1>1, <1>2, <1>3 DEF StepOK, Building, AtWork, Packaging, BuildSteps, PackageSteps, Leased

LEMMA LeasesStay ==
  ASSUME WorkspaceInv, NEW b \in Bundle, holder' = holder,
         \A q \in Run : Building(q) => pc'[q] = pc[q] /\ job'[q] = job[q]
  PROVE LeaseOK(b)'
<1> SUFFICES ASSUME NEW h \in Run, h = holder[b], h # Nobody
             PROVE AtWork(h)' /\ Current(h)' = b
  BY DEF LeaseOK, AtWork, Current, WorkspaceInv, ControlOK
<1>1. AtWork(h) /\ Current(h) = b
  BY DEF WorkspaceInv, LeaseOK
<1>2. QED
  BY <1>1 DEF AtWork, Building, Current

LEMMA StartBuildKeeps ==
  ASSUME WorkspaceInv, NEW r \in Run, NEW b \in Bundle, StartBuild(r, b)
  PROVE WorkspaceInv'
<1> DEFINE j == [cmd |-> "build", b |-> b, i |-> 1, env |-> None, todo |-> File, outs |-> None]
<1>1. /\ pc[r] = "idle" /\ commands > 0 /\ commands' = commands - 1
      /\ job' = [job EXCEPT ![r] = j] /\ pc' = [pc EXCEPT ![r] = "member"]
      /\ prefix' = IF Len(Plan(b)) > 1 THEN [m \in Member |-> None] ELSE prefix
      /\ crossed' = (crossed \/ Active("build") # {})
      /\ settled' = None
      /\ UNCHANGED <<world, tree, state, out, root, pinned, holder, dist>>
  BY DEF StartBuild, At, Goto
<1>2. FilesOK /\ ControlOK
  BY DEF WorkspaceInv
<1>3. j \in BuildJobs /\ j.b = b /\ j.i = 1
  BY DEF BuildJobs, MaybeEnv
<1> HIDE DEF j
<1>4. /\ pc'[r] = "member" /\ job'[r] = j /\ Building(r)' /\ ~AtWork(r)' /\ ~Packaging(r)'
      /\ ~Building(r) /\ ~Packaging(r)
      /\ \A q \in Run \ {r} : pc'[q] = pc[q] /\ job'[q] = job[q]
  BY <1>1, <1>2 DEF ControlOK, Building, AtWork, Packaging, BuildSteps, PackageSteps
<1>5. FilesOK'
  <2>1. crossed' \in BOOLEAN
    BY <1>1
  <2>2. commands' \in 0..MaxCommands
    BY <1>1, <1>2, BoundsAssumption DEF FilesOK
  <2>3. prefix' \in [Member -> MaybeBin] /\ settled' \in Settlings
    BY <1>1, <1>2 DEF FilesOK, MaybeBin, Settlings
  <2>4. QED
    BY <1>1, <1>2, <2>1, <2>2, <2>3 DEF FilesOK, world
<1>6. ControlOK'
  BY <1>1, <1>2, <1>3 DEF ControlOK, Steps, BuildSteps
<1>7. \A q \in Run : StepOK(q)'
  <2>1. Len(Plan(b)) \in Nat /\ Len(Plan(b)) >= 1
    BY PlanFacts
  <2>2. 1 \in 1..Len(Plan(b))
    BY <2>1
  <2>3. StepOK(r)'
    BY <1>3, <1>4, <2>2 DEF StepOK, Building, AtWork, Packaging, BuildSteps, PackageSteps, Leased
  <2>4. QED
    BY <1>1, <1>4, <2>3, StepsStay
<1>8. \A x \in Bundle : LeaseOK(x)'
  BY <1>1, <1>4, LeasesStay
<1>9. \A x \in Member : MemberOK(x)'
  <2>1. \A x \in Member : prefix'[x] \in {prefix[x], None}
    BY <1>1
  <2>2. QED
    BY <1>1, <2>1, MembersStay
<1>10. RootOK'
  BY <1>1 DEF RootOK, WorkspaceInv
<1>11. ASSUME NEW q \in Run, Building(q) PROVE crossed'
  BY <1>1, <1>11, ActiveBuilds
<1>12. SoleOK'
  BY <1>4, <1>11 DEF SoleOK, Building
<1>13. \A q \in Run : BuildOK(q)'
  <2>1. ASSUME NEW q \in Run \ {r} PROVE BuildOK(q)'
    <3>1. CASE Building(q)
      BY <1>1, <1>4, <1>11, <3>1, CrossedStays
    <3>2. CASE ~Building(q)
      BY <1>4, <3>2 DEF BuildOK, Building
    <3>3. QED
      BY <3>1, <3>2
  <2>2. PICK n : n = Current(r)'
    OBVIOUS
  <2>3. WorkOK(r, n)'
    BY <1>4 DEF WorkOK, AtWork, Compiled
  <2>4. AllCarried(r)'
    BY <1>3, <1>4 DEF AllCarried, Before
  <2>5. QuietOK(r, n)'
    BY <1>1, <1>3, <1>4, <2>4 DEF QuietOK, OneInstall, Compiled
  <2>6. BuildOK(r)'
    BY <2>2, <2>3, <2>5 DEF BuildOK
  <2>7. QED
    BY <2>1, <2>6
<1>14. SettledOK'
  BY <1>1 DEF SettledOK
<1>15. \A q \in Run : PackOK(q)'
  <2>1. commands' \in Nat /\ commands' <= commands
    BY <1>1, <1>2 DEF FilesOK
  <2>2. \A x \in Run : Packaging(x)' => Packaging(x) /\ job'[x] = job[x]
    BY <1>4 DEF Packaging
  <2>3. PackOK(r)'
    BY <1>4 DEF PackOK, AloneOK, PackData
  <2>4. QED
    BY <1>1, <1>4, <2>1, <2>2, <2>3, PackagingStays
<1>16. \A x \in Bundle : ManifestOK(x)'
  BY <1>1 DEF ManifestOK, WorkspaceInv
<1>17. QED
  BY <1>5, <1>6, <1>7, <1>8, <1>9, <1>10, <1>12, <1>13, <1>14, <1>15, <1>16 DEF WorkspaceInv

\* Whatever the developer does, the members under a lease stay as they are.
LEMMA ChangeKeeps ==
  ASSUME WorkspaceInv, Change, FilesOK', RootOK',
         \A x \in Member : state'[x].pkg = state[x].pkg /\ state'[x].chain = state[x].chain,
         \A x \in Bundle : holder[x] # Nobody => state'[x] = state[x] /\ out'[x] = out[x]
  PROVE WorkspaceInv'
<1>1. /\ settled' = None /\ crossed' = (crossed \/ Active("build") # {})
      /\ UNCHANGED <<prefix, tree, pinned, holder, dist, pc, job, commands>>
  BY DEF Change
<1>2. ControlOK' /\ commands' \in Nat /\ commands' <= commands
  BY <1>1 DEF WorkspaceInv, ControlOK, FilesOK
<1>3. \A q \in Run : StepOK(q)'
  BY <1>1, StepsStay
<1>4. \A x \in Bundle : LeaseOK(x)'
  BY <1>1, LeasesStay
<1>5. \A x \in Member : MemberOK(x)'
  BY <1>1, MembersStay
<1>6. SoleOK'
  BY <1>1 DEF SoleOK, WorkspaceInv, Building
<1>7. \A q \in Run : BuildOK(q)'
  <2> SUFFICES ASSUME NEW q \in Run PROVE BuildOK(q)'
    OBVIOUS
  <2>1. CASE Building(q)
    <3>1. crossed'
      BY <1>1, <2>1, ActiveBuilds
    <3>2. QED
      BY <1>1, <3>1, CrossedStays
  <2>2. CASE ~Building(q)
    BY <1>1, <2>2 DEF BuildOK, Building
  <2>3. QED
    BY <2>1, <2>2
<1>8. SettledOK'
  BY <1>1 DEF SettledOK
<1>9. \A q \in Run : PackOK(q)'
  <2>1. \A x \in Run : Packaging(x)' => Packaging(x) /\ job'[x] = job[x]
    BY <1>1 DEF Packaging
  <2>2. QED
    BY <1>1, <1>2, <2>1, PackagingStays
<1>10. \A x \in Bundle : ManifestOK(x)'
  BY <1>1 DEF ManifestOK, WorkspaceInv
<1>11. QED
  BY <1>2, <1>3, <1>4, <1>5, <1>6, <1>7, <1>8, <1>9, <1>10 DEF WorkspaceInv

LEMMA ForeignFacts ==
  ASSUME WorkspaceInv, NEW b \in Bundle
  PROVE Foreign(b) \in Bin /\ Foreign(b).env = env
BY DEF WorkspaceInv, FilesOK, Foreign, Bin, Member

LEMMA DeveloperKeeps ==
  ASSUME WorkspaceInv,
         \/ \E m \in Member : Edit(m)
         \/ \E e \in Env : SwitchEnv(e)
         \/ \E b \in Bundle, f \in File : PlainCMake(b, f)
         \/ RootBuild
  PROVE WorkspaceInv'
<1>1. /\ FilesOK /\ RootOK
      /\ \A b \in Bundle : Foreign(b) \in MaybeBin
  BY ForeignFacts DEF WorkspaceInv, MaybeBin
<1>2. Change => /\ changes' \in 0..MaxChanges /\ crossed' \in BOOLEAN /\ settled' \in Settlings
                /\ UNCHANGED <<prefix, tree, dist, commands>>
  <2>1. Change => changes' \in 0..MaxChanges /\ settled' \in Settlings
    BY <1>1, BoundsAssumption DEF Change, FilesOK, Settlings
  <2>2. Change => crossed' \in BOOLEAN /\ UNCHANGED <<prefix, tree, dist, commands>>
    BY DEF Change
  <2>3. QED
    BY <2>1, <2>2
<1>3. ASSUME NEW m \in Member, Edit(m) PROVE WorkspaceInv'
  <2>1. FilesOK'
    BY <1>1, <1>2, <1>3 DEF Edit, FilesOK
  <2>2. RootOK'
    BY <1>1, <1>3 DEF Edit, RootOK
  <2>3. QED
    BY <1>3, <2>1, <2>2, ChangeKeeps DEF Edit
<1>4. ASSUME NEW e \in Env, SwitchEnv(e) PROVE WorkspaceInv'
  <2>1. FilesOK'
    BY <1>1, <1>2, <1>4 DEF SwitchEnv, FilesOK
  <2>2. RootOK'
    BY <1>1, <1>4 DEF SwitchEnv, RootOK
  <2>3. QED
    BY <1>4, <2>1, <2>2, ChangeKeeps DEF SwitchEnv
<1>5. ASSUME NEW b \in Bundle, NEW f \in File, PlainCMake(b, f) PROVE WorkspaceInv'
  <2>1. b \in Member /\ state[b] \in States /\ out[b] \in Files /\ state[b].stage \in Files
    BY <1>1 DEF FilesOK, Member, States
  <2>2. /\ [out[b] EXCEPT ![f] = Foreign(b)] \in Files
        /\ [state[b].stage EXCEPT ![f] = Foreign(b)] \in Files
    BY <1>1, <2>1 DEF Files
  <2> DEFINE s == [state[b] EXCEPT !.stage = [state[b].stage EXCEPT ![f] = Foreign(b)]]
  <2>3. s \in States /\ s.pkg = state[b].pkg /\ s.chain = state[b].chain
    BY <2>1, <2>2 DEF States
  <2>4. \/ state' = [state EXCEPT ![b] = s] /\ out' = out
        \/ state' = state /\ out' = [out EXCEPT ![b] = [out[b] EXCEPT ![f] = Foreign(b)]]
    BY <1>5 DEF PlainCMake
  <2> HIDE DEF s
  <2>5. Change /\ holder[b] = Nobody /\ UNCHANGED <<env, src, root>>
    BY <1>5 DEF PlainCMake
  <2>6. FilesOK'
    BY <1>1, <1>2, <2>2, <2>3, <2>4, <2>5 DEF FilesOK
  <2>7. RootOK'
    BY <1>1, <2>5 DEF RootOK
  <2>8. \A x \in Member : state'[x].pkg = state[x].pkg /\ state'[x].chain = state[x].chain
    BY <1>1, <2>3, <2>4 DEF FilesOK
  <2>9. \A x \in Bundle : holder[x] # Nobody => state'[x] = state[x] /\ out'[x] = out[x]
    BY <1>1, <2>4, <2>5 DEF FilesOK, Member
  <2>10. QED
    BY <2>5, <2>6, <2>7, <2>8, <2>9, ChangeKeeps
<1>6. ASSUME RootBuild PROVE WorkspaceInv'
  <2>1. /\ Change /\ \A b \in Bundle : holder[b] = Nobody
        /\ out' = [b \in Bundle |-> [f \in File |-> Foreign(b)]]
        /\ root' = [env |-> env, outs |-> out']
        /\ UNCHANGED <<env, src, state>>
    BY <1>6 DEF RootBuild
  <2>2. out' \in [Bundle -> Files]
    BY <1>1, <2>1 DEF Files
  <2>3. root' \in Roots
    BY <1>1, <2>1, <2>2 DEF Roots, FilesOK
  <2>4. FilesOK'
    BY <1>1, <1>2, <2>1, <2>2, <2>3 DEF FilesOK
  <2>5. RootOK'
    <3> SUFFICES ASSUME NEW b \in Bundle, root'.outs[b] # NoFiles
                 PROVE OneCompile(root'.outs[b], root'.env.rt)
      BY DEF RootOK, OneCompile
    <3>1. PICK c : c = Foreign(b)
      OBVIOUS
    <3>2. root'.outs[b] = [f \in File |-> c] /\ root'.env = env /\ c.env = env
      BY <2>1, <3>1, ForeignFacts
    <3>3. c # None
      BY <3>2 DEF NoFiles
    <3>4. QED
      BY <3>2, <3>3 DEF OneCompile, File
  <2>6. QED
    BY <2>1, <2>4, <2>5, ChangeKeeps
<1>7. QED
  BY <1>3, <1>4, <1>5, <1>6

LEMMA GiveUpKeeps ==
  ASSUME WorkspaceInv, NEW r \in Run, GiveUp(r), changes' \in 0..MaxChanges
  PROVE WorkspaceInv'
<1>1. /\ holder' = [b \in Bundle |-> IF holder[b] = r THEN Nobody ELSE holder[b]]
      /\ pc' = [pc EXCEPT ![r] = "idle"] /\ job' = [job EXCEPT ![r] = None]
      /\ UNCHANGED <<env, src, prefix, tree, state, out, root, pinned, dist, commands, crossed, settled>>
  BY DEF GiveUp, Return, Goto, history
<1>2. FilesOK /\ ControlOK
  BY DEF WorkspaceInv
<1>3. /\ pc'[r] = "idle" /\ job'[r] = None /\ ~Building(r)' /\ ~AtWork(r)' /\ ~Packaging(r)'
      /\ \A q \in Run \ {r} : /\ pc'[q] = pc[q] /\ job'[q] = job[q] /\ Current(q)' = Current(q)
                              /\ Building(q)' = Building(q) /\ AtWork(q)' = AtWork(q)
                              /\ Packaging(q)' = Packaging(q)
  BY <1>1, <1>2 DEF ControlOK, Building, AtWork, Packaging, BuildSteps, PackageSteps, Current
<1>4. FilesOK' /\ ControlOK'
  BY <1>1, <1>2 DEF FilesOK, ControlOK, Steps
<1>5. \A q \in Run : StepOK(q)'
  <2>1. StepOK(r)'
    BY <1>3 DEF StepOK, Leased
  <2>2. ASSUME NEW q \in Run \ {r} PROVE StepOK(q)'
    <3>1. StepOK(q)
      BY DEF WorkspaceInv
    <3>2. AtWork(q) /\ Current(q) \in Bundle => holder'[Current(q)] = q
      BY <1>1, <3>1 DEF StepOK
    <3>3. QED
      BY <1>1, <1>3, <3>1, <3>2 DEF StepOK
  <2>3. QED
    BY <2>1, <2>2
<1>6. \A b \in Bundle : LeaseOK(b)'
  <2> SUFFICES ASSUME NEW b \in Bundle, NEW h \in Run, h = holder'[b], h # Nobody
               PROVE AtWork(h)' /\ Current(h)' = b
    BY <1>4 DEF LeaseOK, AtWork, Current, ControlOK
  <2>1. h = holder[b] /\ h # r
    BY <1>1
  <2>2. AtWork(h) /\ Current(h) = b
    BY <2>1 DEF WorkspaceInv, LeaseOK
  <2>3. QED
    BY <1>3, <2>1, <2>2
<1>7. \A x \in Member : MemberOK(x)'
  BY <1>1, MembersStay
<1>8. RootOK' /\ \A b \in Bundle : ManifestOK(b)'
  BY <1>1 DEF RootOK, ManifestOK, WorkspaceInv
<1>9. SoleOK'
  BY <1>1, <1>3 DEF SoleOK, WorkspaceInv
<1>10. \A q \in Run : BuildOK(q)'
  <2> SUFFICES ASSUME NEW q \in Run \ {r}, Building(q) PROVE BuildOK(q)'
    BY <1>3 DEF BuildOK
  <2>1. BuildOK(q)
    BY DEF WorkspaceInv
  <2>2. PICK m : m = Current(q)
    OBVIOUS
  <2>3. WorkOK(q, m) => WorkOK(q, m)'
    BY <1>1, <1>3 DEF WorkOK, Staged
  <2>4. QuietOK(q, m) => QuietOK(q, m)'
    BY <1>1, <1>3 DEF QuietOK, OneInstall, AllCarried, AllLinked, Linked, Carried, Source, ReadFrom,
                      Before, IsDependency
  <2>5. QED
    BY <1>1, <1>3, <2>1, <2>2, <2>3, <2>4 DEF BuildOK, Steady
<1>11. SettledOK'
  BY <1>1, <1>3 DEF SettledOK, AllLinked, Linked, Carried, Source, ReadFrom, WorkspaceInv
<1>12. \A q \in Run : PackOK(q)'
  <2> SUFFICES ASSUME NEW q \in Run \ {r}, Packaging(q) PROVE PackOK(q)'
    BY <1>3 DEF PackOK, AloneOK, PackData
  <2>1. PackOK(q)
    BY DEF WorkspaceInv
  <2>2. \A x \in Run : Packaging(x)' => Packaging(x) /\ job'[x] = job[x]
    BY <1>3
  <2>3. QED
    BY <1>1, <1>3, <2>1, <2>2 DEF PackOK, AloneOK, PackData, StillSettled, ReadFrom
<1>13. QED
  BY <1>4, <1>5, <1>6, <1>7, <1>8, <1>9, <1>10, <1>11, <1>12 DEF WorkspaceInv

-----------------------------------------------------------------------------
(* The steps of a packaging                                                *)

\* A step of a packaging touches the package stage and the dist directory of its
\* bundle only.
PackFrame(r, b) ==
  /\ UNCHANGED <<env, src, prefix, tree, out, root, holder, commands, changes, crossed, settled>>
  /\ \A x \in Member : /\ state'[x].chain = state[x].chain /\ state'[x].snap = state[x].snap
                       /\ state'[x].stage = state[x].stage /\ state'[x].marked = state[x].marked
  /\ \A x \in Member \ {b} : state'[x].pkg = state[x].pkg
  /\ state'[b].pkg \in Packages \/ state'[b].pkg = state[b].pkg
  /\ \A x \in Bundle \ {b} : dist'[x] = dist[x]
  /\ \A q \in Run \ {r} : pc'[q] = pc[q] /\ job'[q] = job[q]
  /\ Packaging(r)' => job'[r].b = b /\ job'[r].alone = job[r].alone
  /\ ~Building(r)'

LEMMA PackagingKeeps ==
  ASSUME WorkspaceInv, NEW r \in Run, NEW b \in Bundle, b = job[r].b, Packaging(r),
         PackFrame(r, b), FilesOK', ControlOK', StepOK(r)', ManifestOK(b)',
         Packaging(r)' => PackData(r)'
  PROVE WorkspaceInv'
<1>1. /\ UNCHANGED <<env, src, prefix, tree, out, root, holder, commands, changes, crossed, settled>>
      /\ \A x \in Member : /\ state'[x].chain = state[x].chain /\ state'[x].snap = state[x].snap
                           /\ state'[x].stage = state[x].stage /\ state'[x].marked = state[x].marked
      /\ \A q \in Run \ {r} : pc'[q] = pc[q] /\ job'[q] = job[q]
      /\ b \in Member
  BY DEF PackFrame, Member
<1>2. \A x \in Member : Carried(x)' = Carried(x)
  BY <1>1 DEF Carried, Source, ReadFrom, Member
<1>3. ~Building(r) /\ ~Building(r)' /\ ~AtWork(r) /\ ~AtWork(r)'
  BY DEF Building, Packaging, AtWork, BuildSteps, PackageSteps, PackFrame
<1>4. \A q \in Run \ {r} : StepOK(q)'
  <2> SUFFICES ASSUME NEW q \in Run \ {r} PROVE StepOK(q)'
    OBVIOUS
  <2>1. StepOK(q) /\ ControlOK /\ Current(q)' = Current(q) /\ pc'[q] = pc[q] /\ job'[q] = job[q]
    BY <1>1 DEF WorkspaceInv, Current
  <2>2. Building(q) => Current(q) \in Member
    BY <2>1, Position
  <2>3. Packaging(q) => job[q].b \in Member
    BY <2>1 DEF StepOK, PackageJobs, Member
  <2>4. AtWork(q) => state'[Current(q)].chain \in Env
    BY <1>1, <2>1, <2>2 DEF StepOK, AtWork, Building
  <2>5. pc[q] \in {"copy", "assess", "pack", "packing"} => state'[job[q].b].pkg \in Packages
    BY <2>1, <2>3 DEF StepOK, PackFrame, Packaging, PackageSteps
  <2>6. QED
    BY <1>1, <2>1, <2>4, <2>5 DEF StepOK, Building, AtWork, Packaging
<1>5. \A x \in Bundle : LeaseOK(x)'
  BY <1>1, <1>3, LeasesStay
<1>6. \A x \in Member : MemberOK(x)'
  BY <1>1, MembersStay
<1>7. RootOK' /\ SoleOK'
  BY <1>1, <1>3 DEF RootOK, SoleOK, WorkspaceInv, Building
<1>8. \A q \in Run : BuildOK(q)'
  <2> SUFFICES ASSUME NEW q \in Run \ {r}, Building(q) PROVE BuildOK(q)'
    BY <1>1, <1>3 DEF BuildOK, Building
  <2>1. BuildOK(q) /\ ControlOK /\ StepOK(q)
    BY DEF WorkspaceInv
  <2>2. PICK m : m = Current(q)
    OBVIOUS
  <2>3. m \in Member /\ Before(q) \subseteq Member /\ Links(m) \subseteq Member
    BY <2>1, <2>2, Position
  <2>4. /\ pc'[q] = pc[q] /\ job'[q] = job[q] /\ Current(q)' = m /\ AtWork(q)' = AtWork(q)
        /\ Before(q)' = Before(q) /\ IsDependency(q)' = IsDependency(q) /\ Building(q)'
    BY <1>1, <2>2 DEF Current, AtWork, Before, IsDependency, Building
  <2>5. WorkOK(q, m) => WorkOK(q, m)'
    BY <1>1, <2>3, <2>4 DEF WorkOK, Staged
  <2>6. (AllCarried(q) => AllCarried(q)') /\ (AllLinked(m) => AllLinked(m)')
    BY <1>1, <1>2, <2>3, <2>4 DEF AllCarried, AllLinked, Linked
  <2>7. QuietOK(q, m) => QuietOK(q, m)'
    BY <1>1, <2>3, <2>4, <2>6 DEF QuietOK, OneInstall
  <2>8. QED
    BY <1>1, <2>1, <2>2, <2>4, <2>5, <2>7 DEF BuildOK, Steady
<1>9. SettledOK'
  <2> SUFFICES ASSUME settled # None PROVE SettledOK'
    BY <1>1 DEF SettledOK
  <2>1. PICK c : c = settled[1]
    OBVIOUS
  <2>2. c \in Bundle
    BY <2>1 DEF WorkspaceInv, FilesOK, Settlings
  <2>3. /\ \A q \in Run : ~Building(q)
        /\ settled[2] >= commands /\ AllLinked(c)
        /\ Source(c, ReadFrom(c)) = [f \in File |-> tree[c].bin]
    BY <2>1 DEF WorkspaceInv, SettledOK
  <2>4. \A q \in Run : ~Building(q)'
    BY <1>1, <1>3, <2>3 DEF Building
  <2>5. Source(c, ReadFrom(c))' = Source(c, ReadFrom(c))
    BY <1>1, <2>2 DEF Source, ReadFrom, Member
  <2>6. Links(c) \subseteq Member
    BY <2>2, LinksFacts
  <2>7. AllLinked(c)'
    BY <1>1, <1>2, <2>3, <2>6 DEF AllLinked, Linked
  <2>8. QED
    BY <1>1, <2>1, <2>3, <2>4, <2>5, <2>7 DEF SettledOK
<1>10. \A q \in Run : PackOK(q)'
  <2>1. \A q, p \in Run : Packaging(q)' /\ Packaging(p)' =>
          /\ Packaging(q) /\ Packaging(p)
          /\ job'[q].b = job[q].b /\ job'[q].alone = job[q].alone /\ job'[p].b = job[p].b
    BY <1>1 DEF Packaging, PackFrame
  <2>2. \A q \in Run : Packaging(q)' => AloneOK(q)'
    BY <2>1 DEF AloneOK, WorkspaceInv, PackOK
  <2>3. ASSUME NEW q \in Run \ {r}, Packaging(q) PROVE PackData(q)'
    <3>1. /\ PackData(q) /\ AloneOK(q) /\ pc'[q] = pc[q] /\ job'[q] = job[q]
          /\ job[q] \in PackageJobs /\ StillSettled(q)' = StillSettled(q)
      BY <1>1, <2>3 DEF WorkspaceInv, PackOK, StepOK, StillSettled
    <3>2. job[q].b \in Bundle /\ Supplied(job[q].b) \subseteq Member
      BY <3>1, PlanFacts DEF PackageJobs, Supplied, Member
    <3>3. StillSettled(q) => \A x \in Supplied(job[q].b) : job[q].from[x] = ReadFrom(x)'
      BY <1>1, <3>1, <3>2 DEF PackData, ReadFrom
    <3>4. CASE job[q].b = b
      <4>1. ~job[q].alone
        BY <3>1, <3>4 DEF AloneOK
      <4>2. QED
        BY <1>1, <3>1, <3>3, <4>1 DEF PackData
    <3>5. CASE job[q].b # b
      <4>1. state'[job[q].b].pkg = state[job[q].b].pkg
        BY <3>2, <3>5 DEF PackFrame, Member
      <4>2. QED
        BY <1>1, <3>1, <3>3, <4>1 DEF PackData
    <3>6. QED
      BY <3>4, <3>5
  <2>4. QED
    BY <1>1, <2>2, <2>3 DEF PackOK, Packaging
<1>11. \A x \in Bundle : ManifestOK(x)'
  BY DEF ManifestOK, PackFrame, WorkspaceInv
<1>12. QED
  BY <1>4, <1>5, <1>6, <1>7, <1>8, <1>9, <1>10, <1>11 DEF WorkspaceInv

LEMMA PackFacts ==
  ASSUME WorkspaceInv, NEW r \in Run, NEW b \in Bundle, b = job[r].b, Packaging(r)
  PROVE /\ FilesOK /\ ControlOK /\ StepOK(r) /\ PackData(r) /\ job[r] \in PackageJobs
        /\ b \in Member /\ state[b] \in States /\ tree[b] \in Trees /\ out[b] \in Files
        /\ dist[b] \in Dists /\ ManifestOK(b)
BY DEF WorkspaceInv, FilesOK, StepOK, PackOK, Member

\* What is left to copy.
LEMMA TodoFacts ==
  /\ Elements(<<"info", "lib">>) = File /\ Elements(<<"lib">>) = {"lib"} /\ Elements(<< >>) = {}
  /\ Head(<<"info", "lib">>) = "info" /\ Tail(<<"info", "lib">>) = <<"lib">>
  /\ Head(<<"lib">>) = "lib" /\ Tail(<<"lib">>) = << >>
<1>1. Elements(<<"info", "lib">>) = File
  <2>1. DOMAIN <<"info", "lib">> = {1, 2}
    OBVIOUS
  <2>2. QED
    BY <2>1 DEF Elements, File
<1>2. Elements(<<"lib">>) = {"lib"}
  <2>1. DOMAIN <<"lib">> = {1}
    OBVIOUS
  <2>2. QED
    BY <2>1 DEF Elements
<1>3. Elements(<< >>) = {}
  BY DEF Elements
<1>4. Head(<<"info", "lib">>) = "info" /\ Head(<<"lib">>) = "lib"
  OBVIOUS
<1>5. Tail(<<"info", "lib">>) = <<"lib">> /\ Tail(<<"lib">>) = << >>
  OBVIOUS
<1>6. QED
  BY <1>1, <1>2, <1>3, <1>4, <1>5

\* A bundle that is still settled is read where its last compile is.
LEMMA SettledFacts ==
  ASSUME WorkspaceInv, NEW r \in Run, NEW b \in Bundle, b = job[r].b, Packaging(r), StillSettled(r)
  PROVE /\ Source(b, job[r].from[b]) = [f \in File |-> tree[b].bin]
        /\ AllLinked(b)
        /\ \A x \in Supplied(b) : job[r].from[x] = ReadFrom(x)
<1>1. \A x \in Supplied(b) : job[r].from[x] = ReadFrom(x)
  BY PackFacts DEF PackData
<1>2. settled # None /\ settled[1] = b
  BY DEF StillSettled
<1>3. AllLinked(b) /\ Source(b, ReadFrom(b)) = [f \in File |-> tree[b].bin]
  BY <1>2 DEF WorkspaceInv, SettledOK
<1>4. b \in Supplied(b)
  BY DEF Supplied
<1>5. QED
  BY <1>1, <1>3, <1>4

LEMMA PrepareStageKeeps ==
  ASSUME WorkspaceInv, NEW r \in Run, NEW b \in Bundle, b = job[r].b, PrepareStage(r)
  PROVE WorkspaceInv'
<1>1. Packaging(r) /\ pc[r] = "closure"
  BY DEF PrepareStage, At, Packaging, PackageSteps
<1>2. /\ FilesOK /\ ControlOK /\ StepOK(r) /\ PackData(r) /\ job[r] \in PackageJobs
      /\ b \in Member /\ state[b] \in States /\ tree[b] \in Trees /\ out[b] \in Files
      /\ dist[b] \in Dists /\ ManifestOK(b)
  BY <1>1, PackFacts
<1>3. NoPackage \in Packages
  BY DEF NoPackage, NoFiles, Packages, Files, MaybeBin
<1> DEFINE s == [state[b] EXCEPT !.pkg = NoPackage]
<1>4. /\ state' = [state EXCEPT ![b] = s] /\ pc' = [pc EXCEPT ![r] = "copy"]
      /\ UNCHANGED <<world, prefix, tree, out, root, pinned, holder, dist, job, commands, history>>
  BY DEF PrepareStage, Goto
<1>5. /\ s \in States /\ s.pkg = NoPackage /\ s.chain = state[b].chain /\ s.snap = state[b].snap
      /\ s.stage = state[b].stage /\ s.marked = state[b].marked
  BY <1>2, <1>3 DEF States
<1> HIDE DEF s
<1>6. state'[b] = s /\ pc'[r] = "copy" /\ job' = job /\ tree' = tree /\ dist' = dist
  BY <1>2, <1>4 DEF FilesOK, ControlOK
<1>7. job[r].todo = <<"info", "lib">> /\ Elements(job[r].todo) = File
  BY <1>1, <1>2, TodoFacts DEF PackData
<1>8. /\ StillSettled(r)' = StillSettled(r) /\ commands' = commands
      /\ \A x \in Member : ReadFrom(x)' = ReadFrom(x)
  BY <1>2, <1>4, <1>5, <1>6 DEF StillSettled, ReadFrom, FilesOK, history
<1>9. Supplied(b) \subseteq Member
  BY PlanFacts DEF Supplied, Member
<1>10. FilesOK'
  BY <1>1, <1>2, <1>3, <1>4, <1>5, <1>6, <1>7, <1>8, <1>9 DEF FilesOK, world, built, history
<1>11. ControlOK'
  BY <1>1, <1>2, <1>3, <1>4, <1>5, <1>6, <1>7, <1>8, <1>9 DEF ControlOK, Steps, PackageSteps, built
<1>12. StepOK(r)'
  BY <1>1, <1>2, <1>3, <1>4, <1>5, <1>6, <1>7, <1>8, <1>9 DEF StepOK, Building, AtWork, Packaging, BuildSteps, PackageSteps, Leased, built
<1>13. PackFrame(r, b)
  BY <1>1, <1>2, <1>3, <1>4, <1>5, <1>6, <1>7, <1>8, <1>9 DEF PackFrame, world, built, history, FilesOK, ControlOK, Building, Packaging, BuildSteps, PackageSteps
<1>14. ManifestOK(b)'
  BY <1>1, <1>2, <1>3, <1>4, <1>5, <1>6, <1>7, <1>8, <1>9 DEF ManifestOK
<1>15. Packaging(r)' => PackData(r)'
  BY <1>1, <1>2, <1>3, <1>4, <1>5, <1>6, <1>7, <1>8, <1>9 DEF PackData
<1>16. QED
  BY <1>1, <1>2, <1>3, <1>4, <1>5, <1>6, <1>7, <1>8, <1>9, <1>10, <1>11, <1>12, <1>13, <1>14, <1>15, PackagingKeeps

LEMMA CopyOutputKeeps ==
  ASSUME WorkspaceInv, NEW r \in Run, NEW b \in Bundle, b = job[r].b, CopyOutput(r)
  PROVE WorkspaceInv'
<1>1. Packaging(r) /\ pc[r] = "copy"
  BY DEF CopyOutput, At, Packaging, PackageSteps
<1>2. /\ FilesOK /\ ControlOK /\ StepOK(r) /\ PackData(r) /\ job[r] \in PackageJobs
      /\ b \in Member /\ state[b] \in States /\ tree[b] \in Trees /\ out[b] \in Files
      /\ dist[b] \in Dists /\ ManifestOK(b)
  BY <1>1, PackFacts
<1>3. PICK f : f = Head(job[r].todo)
  OBVIOUS
<1>4. job[r].todo \in {<<"info", "lib">>, <<"lib">>} /\ f \in File
  BY <1>2, <1>3, TodoFacts DEF PackageJobs, CopyOutput, File
<1>5. /\ Tail(job[r].todo) \in {<<"lib">>, << >>}
      /\ \A g \in File \ Elements(Tail(job[r].todo)) : g = f \/ g \in File \ Elements(job[r].todo)
  BY <1>3, <1>4, TodoFacts DEF File
<1>6. PICK v : v = Source(b, job[r].from[b])[f]
  OBVIOUS
<1>7. v \in MaybeBin
  <2>1. Source(b, job[r].from[b]) \in Files
    BY <1>2 DEF Source, States
  <2>2. QED
    BY <1>4, <1>6, <2>1 DEF Files
<1>8. state[b].pkg \in Packages
  BY <1>1, <1>2 DEF StepOK
<1> DEFINE k == [state[b].pkg EXCEPT !.files = [state[b].pkg.files EXCEPT ![f] = v]]
           s == [state[b] EXCEPT !.pkg = k]
           j == [job[r] EXCEPT !.todo = Tail(job[r].todo)]
<1>9. /\ state' = [state EXCEPT ![b] = s] /\ job' = [job EXCEPT ![r] = j]
      /\ UNCHANGED <<world, prefix, tree, out, root, pinned, holder, dist, pc, commands, history>>
  BY <1>3, <1>6 DEF CopyOutput
<1>10. k \in Packages /\ k.files = [state[b].pkg.files EXCEPT ![f] = v] /\ state[b].pkg.files \in [File -> MaybeBin]
  BY <1>4, <1>7, <1>8 DEF Packages, Files
<1> HIDE DEF k
<1>11. /\ s \in States /\ s.pkg = k /\ s.chain = state[b].chain /\ s.snap = state[b].snap
       /\ s.stage = state[b].stage /\ s.marked = state[b].marked
  BY <1>2, <1>10 DEF States
<1>12. /\ j \in PackageJobs /\ j.todo = Tail(job[r].todo) /\ j.b = b /\ j.alone = job[r].alone
       /\ j.from = job[r].from /\ j.settled = job[r].settled
  BY <1>2, <1>5 DEF PackageJobs
<1> HIDE DEF s, j
<1>13. state'[b] = s /\ pc' = pc /\ job'[r] = j /\ tree' = tree /\ dist' = dist
  BY <1>2, <1>9 DEF FilesOK, ControlOK
<1>14. /\ StillSettled(r)' = StillSettled(r) /\ commands' = commands
       /\ \A x \in Member : ReadFrom(x)' = ReadFrom(x)
  BY <1>2, <1>9, <1>11, <1>12, <1>13 DEF StillSettled, ReadFrom, FilesOK, history
<1>15. Supplied(b) \subseteq Member
  BY PlanFacts DEF Supplied, Member
<1>16. StillSettled(r) => v = tree[b].bin
  BY <1>1, <1>4, <1>6, SettledFacts
<1>17. FilesOK'
  BY <1>1, <1>2, <1>3, <1>4, <1>5, <1>6, <1>7, <1>8, <1>9, <1>10, <1>11, <1>12, <1>13, <1>14, <1>15, <1>16 DEF FilesOK, world, built, history
<1>18. ControlOK'
  BY <1>1, <1>2, <1>3, <1>4, <1>5, <1>6, <1>7, <1>8, <1>9, <1>10, <1>11, <1>12, <1>13, <1>14, <1>15, <1>16 DEF ControlOK, Steps, PackageSteps, built
<1>19. StepOK(r)'
  BY <1>1, <1>2, <1>3, <1>4, <1>5, <1>6, <1>7, <1>8, <1>9, <1>10, <1>11, <1>12, <1>13, <1>14, <1>15, <1>16 DEF StepOK, Building, AtWork, Packaging, BuildSteps, PackageSteps, Leased, built
<1>20. PackFrame(r, b)
  BY <1>1, <1>2, <1>3, <1>4, <1>5, <1>6, <1>7, <1>8, <1>9, <1>10, <1>11, <1>12, <1>13, <1>14, <1>15, <1>16 DEF PackFrame, world, built, history, FilesOK, ControlOK, Building, Packaging, BuildSteps, PackageSteps
<1>21. ManifestOK(b)'
  BY <1>1, <1>2, <1>3, <1>4, <1>5, <1>6, <1>7, <1>8, <1>9, <1>10, <1>11, <1>12, <1>13, <1>14, <1>15, <1>16 DEF ManifestOK
<1>22. Packaging(r)' => PackData(r)'
  <2>1. j.alone /\ StillSettled(r) => \A g \in File \ Elements(j.todo) : k.files[g] = tree[b].bin
    BY <1>1, <1>2, <1>4, <1>5, <1>10, <1>12, <1>16 DEF PackData
  <2>2. QED
    BY <1>1, <1>2, <1>11, <1>12, <1>13, <1>14, <1>15, <2>1 DEF PackData
<1>23. QED
  BY <1>1, <1>2, <1>3, <1>4, <1>5, <1>6, <1>7, <1>8, <1>9, <1>10, <1>11, <1>12, <1>13, <1>14, <1>15, <1>16, <1>17, <1>18, <1>19, <1>20, <1>21, <1>22, PackagingKeeps

LEMMA CopyClosureKeeps ==
  ASSUME WorkspaceInv, NEW r \in Run, NEW b \in Bundle, b = job[r].b, CopyClosure(r)
  PROVE WorkspaceInv'
<1>1. Packaging(r) /\ pc[r] = "copy"
  BY DEF CopyClosure, At, Packaging, PackageSteps
<1>2. /\ FilesOK /\ ControlOK /\ StepOK(r) /\ PackData(r) /\ job[r] \in PackageJobs
      /\ b \in Member /\ state[b] \in States /\ tree[b] \in Trees /\ out[b] \in Files
      /\ dist[b] \in Dists /\ ManifestOK(b)
  BY <1>1, PackFacts
<1> DEFINE libs == [l \in Library |-> IF l \in Elements(Libs[b]) THEN state[l].snap ELSE None]
           deps == [d \in Bundle |-> IF d \in Elements(Deps[b])
                                     THEN Source(d, job[r].from[d])["lib"] ELSE None]
           k == [state[b].pkg EXCEPT !.libs = libs, !.deps = deps]
           s == [state[b] EXCEPT !.pkg = k]
<1>3. /\ state' = [state EXCEPT ![b] = s] /\ pc' = [pc EXCEPT ![r] = "assess"]
      /\ UNCHANGED <<world, prefix, tree, out, root, pinned, holder, dist, job, commands, history>>
  BY DEF CopyClosure, Goto
<1>4. state[b].pkg \in Packages /\ job[r].todo = << >>
  BY <1>1, <1>2 DEF StepOK, CopyClosure
<1>5. libs \in [Library -> MaybeBin] /\ deps \in [Bundle -> MaybeBin]
  <2>1. \A l \in Library : state[l].snap \in MaybeBin
    BY <1>2 DEF FilesOK, Member, States
  <2>2. \A d \in Bundle : \A w : Source(d, w) \in [File -> MaybeBin]
    BY <1>2 DEF FilesOK, Member, States, Source, Files
  <2>3. None \in MaybeBin /\ "lib" \in File
    BY DEF MaybeBin, File
  <2>4. QED
    BY <2>1, <2>2, <2>3
<1>6. /\ \A l \in Elements(Libs[b]) : libs[l] = state[l].snap
      /\ \A d \in Elements(Deps[b]) : deps[d] = Source(d, job[r].from[d])["lib"]
  BY PlanFacts
<1> HIDE DEF libs, deps
<1>7. k \in Packages /\ k.files = state[b].pkg.files /\ k.libs = libs /\ k.deps = deps
  BY <1>4, <1>5 DEF Packages
<1> HIDE DEF k
<1>8. /\ s \in States /\ s.pkg = k /\ s.chain = state[b].chain /\ s.snap = state[b].snap
      /\ s.stage = state[b].stage /\ s.marked = state[b].marked
  BY <1>2, <1>7 DEF States
<1> HIDE DEF s
<1>9. state'[b] = s /\ pc'[r] = "assess" /\ job' = job /\ tree' = tree /\ dist' = dist
  BY <1>2, <1>3 DEF FilesOK, ControlOK
<1>10. /\ StillSettled(r)' = StillSettled(r) /\ commands' = commands
       /\ \A x \in Member : ReadFrom(x)' = ReadFrom(x)
  BY <1>2, <1>3, <1>8, <1>9 DEF StillSettled, ReadFrom, FilesOK, history
<1>11. Supplied(b) \subseteq Member
  BY PlanFacts DEF Supplied, Member
<1>12. job[r].alone /\ StillSettled(r) => Ships(b, k)
  <2> SUFFICES ASSUME job[r].alone, StillSettled(r), NEW x \in Links(b)
               PROVE LET y == IF x \in Library THEN k.libs[x] ELSE k.deps[x]
                     IN <<x, y.src, y.env>> \in k.files["lib"].with
    BY DEF Ships
  <2>1. k.files["lib"] = tree[b].bin
    BY <1>1, <1>2, <1>4, <1>7, TodoFacts DEF PackData, File
  <2>2. AllLinked(b) /\ \A z \in Supplied(b) : job[r].from[z] = ReadFrom(z)
    BY <1>1, SettledFacts
  <2>3. <<x, Carried(x).src, Carried(x).env>> \in tree[b].bin.with
    BY <2>2 DEF AllLinked, Linked
  <2>4. (IF x \in Library THEN k.libs[x] ELSE k.deps[x]) = Carried(x)
    BY <1>6, <1>7, <2>2, LinksFacts DEF Carried
  <2>5. QED
    BY <2>1, <2>3, <2>4
<1>13. FilesOK'
  BY <1>1, <1>2, <1>3, <1>4, <1>5, <1>6, <1>7, <1>8, <1>9, <1>10, <1>11, <1>12 DEF FilesOK, world, built, history
<1>14. ControlOK'
  BY <1>1, <1>2, <1>3, <1>4, <1>5, <1>6, <1>7, <1>8, <1>9, <1>10, <1>11, <1>12 DEF ControlOK, Steps, PackageSteps, built
<1>15. StepOK(r)'
  BY <1>1, <1>2, <1>3, <1>4, <1>5, <1>6, <1>7, <1>8, <1>9, <1>10, <1>11, <1>12 DEF StepOK, Building, AtWork, Packaging, BuildSteps, PackageSteps, Leased, built
<1>16. PackFrame(r, b)
  BY <1>1, <1>2, <1>3, <1>4, <1>5, <1>6, <1>7, <1>8, <1>9, <1>10, <1>11, <1>12 DEF PackFrame, world, built, history, FilesOK, ControlOK, Building, Packaging, BuildSteps, PackageSteps
<1>17. ManifestOK(b)'
  BY <1>1, <1>2, <1>3, <1>4, <1>5, <1>6, <1>7, <1>8, <1>9, <1>10, <1>11, <1>12 DEF ManifestOK
<1>18. Packaging(r)' => PackData(r)'
  BY <1>1, <1>2, <1>3, <1>4, <1>5, <1>6, <1>7, <1>8, <1>9, <1>10, <1>11, <1>12 DEF PackData
<1>19. QED
  BY <1>1, <1>2, <1>3, <1>4, <1>5, <1>6, <1>7, <1>8, <1>9, <1>10, <1>11, <1>12, <1>13, <1>14, <1>15, <1>16, <1>17, <1>18, PackagingKeeps

\* What an assessment may say, and what it means that outputs match.
LEMMA StatusFacts ==
  ASSUME WorkspaceInv, NEW r \in Run, NEW b \in Bundle, b = job[r].b, pc[r] = "assess"
  PROVE /\ Status(r) \in Statuses
        /\ Local(r) = "matched" =>
             /\ tree[b].done # None /\ tree[b].done.outs = Observed(r)
             /\ OneCompile(Observed(r), job[r].env.rt)
        /\ Status(r) = "matched" /\ Local(r) # "matched" =>
             /\ root # None /\ root.outs[b] = Observed(r)
             /\ OneCompile(Observed(r), job[r].env.rt)
<1>1. MemberOK(b) /\ RootOK
  BY DEF WorkspaceInv, Member
<1>2. PICK o : o = Observed(r)
  OBVIOUS
<1>3. PICK e : e = job[r].env
  OBVIOUS
<1>4. Local(r) = LocalStatus(b, e, o) /\ Status(r) = Combined(Local(r), RootStatus(b, e, o))
  BY <1>2, <1>3 DEF Local, Status
<1>5. LocalStatus(b, e, o) \in Statuses
  BY DEF LocalStatus, Statuses
<1>6. RootStatus(b, e, o) # None => RootStatus(b, e, o) \in Statuses
  BY DEF RootStatus, Statuses
<1>7. LocalStatus(b, e, o) = "matched" =>
        /\ tree[b].done # None /\ tree[b].done.outs = o /\ tree[b].done.outs # NoFiles
        /\ tree[b].done.env = state[b].lock /\ state[b].lock.rt = e.rt
  BY DEF LocalStatus
<1>8. RootStatus(b, e, o) # None /\ RootStatus(b, e, o) = "matched" =>
        root # None /\ root.outs[b] = o /\ root.outs[b] # NoFiles /\ root.env.rt = e.rt
  BY DEF RootStatus
<1>9. Status(r) \in Statuses
  BY <1>4, <1>5, <1>6 DEF Combined, Statuses
<1>10. Status(r) = "matched" /\ Local(r) # "matched" =>
         RootStatus(b, e, o) # None /\ RootStatus(b, e, o) = "matched"
  BY <1>4 DEF Combined
<1>11. LocalStatus(b, e, o) = "matched" => OneCompile(o, e.rt)
  BY <1>1, <1>7 DEF MemberOK
<1>12. RootStatus(b, e, o) # None /\ RootStatus(b, e, o) = "matched" => OneCompile(o, e.rt)
  BY <1>1, <1>8 DEF RootOK
<1>13. QED
  BY <1>2, <1>3, <1>4, <1>7, <1>8, <1>9, <1>10, <1>11, <1>12

LEMMA AssessKeeps ==
  ASSUME WorkspaceInv, NEW r \in Run, NEW b \in Bundle, b = job[r].b, Assess(r)
  PROVE WorkspaceInv'
<1>1. Packaging(r) /\ pc[r] = "assess"
  BY DEF Assess, At, Packaging, PackageSteps
<1>2. /\ FilesOK /\ ControlOK /\ StepOK(r) /\ PackData(r) /\ job[r] \in PackageJobs
      /\ b \in Member /\ state[b] \in States /\ tree[b] \in Trees /\ out[b] \in Files
      /\ dist[b] \in Dists /\ ManifestOK(b)
  BY <1>1, PackFacts
<1>3. /\ Status(r) \in Statuses
      /\ Local(r) = "matched" =>
           /\ tree[b].done # None /\ tree[b].done.outs = Observed(r)
           /\ OneCompile(Observed(r), job[r].env.rt)
      /\ Status(r) = "matched" /\ Local(r) # "matched" =>
           /\ root # None /\ root.outs[b] = Observed(r)
           /\ OneCompile(Observed(r), job[r].env.rt)
  BY <1>1, StatusFacts
<1>4. PICK n : n = IF Status(r) # "matched" THEN None
                   ELSE IF Local(r) = "matched" THEN tree[b].done
                   ELSE [env |-> root.env, outs |-> root.outs[b]]
  OBVIOUS
<1>5. PICK a : a = Status(r)
  OBVIOUS
<1> DEFINE j == [job[r] EXCEPT !.status = a, !.named = n]
<1>6. /\ job' = [job EXCEPT ![r] = j] /\ pc' = [pc EXCEPT ![r] = "pack"]
      /\ UNCHANGED <<world, built, dist, commands, history>>
  BY <1>4, <1>5 DEF Assess, Goto
<1>7. state[b].pkg \in Packages /\ Observed(r) = state[b].pkg.files
  BY <1>1, <1>2 DEF StepOK, Observed
<1>8. n \in Dones \cup {None}
  <2>1. Status(r) = "matched" /\ Local(r) = "matched" => n \in Dones
    BY <1>2, <1>3, <1>4 DEF Trees
  <2>2. Status(r) = "matched" /\ Local(r) # "matched" => n \in Dones
    BY <1>2, <1>3, <1>4 DEF FilesOK, Roots, Dones
  <2>3. QED
    BY <1>4, <2>1, <2>2
<1>9. Honest(state[b].pkg, a, n, job[r].env.rt)
  BY <1>3, <1>4, <1>5, <1>7 DEF Honest
<1>10. /\ j \in PackageJobs /\ j.status = a /\ j.named = n /\ j.b = b /\ j.alone = job[r].alone
       /\ j.from = job[r].from /\ j.settled = job[r].settled /\ j.env = job[r].env
  BY <1>2, <1>3, <1>5, <1>8 DEF PackageJobs
<1> HIDE DEF j
<1>11. state' = state /\ pc'[r] = "pack" /\ job'[r] = j /\ tree' = tree /\ dist' = dist
  BY <1>2, <1>6 DEF ControlOK, built
<1>12. /\ StillSettled(r)' = StillSettled(r) /\ commands' = commands
       /\ \A x \in Member : ReadFrom(x)' = ReadFrom(x)
  BY <1>6, <1>10, <1>11 DEF StillSettled, ReadFrom, history
<1>13. Supplied(b) \subseteq Member
  BY PlanFacts DEF Supplied, Member
<1>14. a \in Statuses
  BY <1>3, <1>5
<1>15. FilesOK'
  BY <1>1, <1>2, <1>3, <1>4, <1>5, <1>6, <1>7, <1>8, <1>9, <1>10, <1>11, <1>12, <1>13, <1>14 DEF FilesOK, world, built, history
<1>16. ControlOK'
  BY <1>1, <1>2, <1>3, <1>4, <1>5, <1>6, <1>7, <1>8, <1>9, <1>10, <1>11, <1>12, <1>13, <1>14 DEF ControlOK, Steps, PackageSteps, built
<1>17. StepOK(r)'
  BY <1>1, <1>2, <1>3, <1>4, <1>5, <1>6, <1>7, <1>8, <1>9, <1>10, <1>11, <1>12, <1>13, <1>14 DEF StepOK, Building, AtWork, Packaging, BuildSteps, PackageSteps, Leased, built
<1>18. PackFrame(r, b)
  BY <1>1, <1>2, <1>3, <1>4, <1>5, <1>6, <1>7, <1>8, <1>9, <1>10, <1>11, <1>12, <1>13, <1>14 DEF PackFrame, world, built, history, FilesOK, ControlOK, Building, Packaging, BuildSteps, PackageSteps
<1>19. ManifestOK(b)'
  BY <1>1, <1>2, <1>3, <1>4, <1>5, <1>6, <1>7, <1>8, <1>9, <1>10, <1>11, <1>12, <1>13, <1>14 DEF ManifestOK
<1>20. Packaging(r)' => PackData(r)'
  BY <1>1, <1>2, <1>3, <1>4, <1>5, <1>6, <1>7, <1>8, <1>9, <1>10, <1>11, <1>12, <1>13, <1>14 DEF PackData
<1>21. QED
  BY <1>1, <1>2, <1>3, <1>4, <1>5, <1>6, <1>7, <1>8, <1>9, <1>10, <1>11, <1>12, <1>13, <1>14, <1>15, <1>16, <1>17, <1>18, <1>19, <1>20, PackagingKeeps

LEMMA OpenArchiveKeeps ==
  ASSUME WorkspaceInv, NEW r \in Run, NEW b \in Bundle, b = job[r].b, OpenArchive(r)
  PROVE WorkspaceInv'
<1>1. Packaging(r) /\ pc[r] = "pack"
  BY DEF OpenArchive, At, Packaging, PackageSteps
<1>2. /\ FilesOK /\ ControlOK /\ StepOK(r) /\ PackData(r) /\ job[r] \in PackageJobs
      /\ b \in Member /\ state[b] \in States /\ tree[b] \in Trees /\ out[b] \in Files
      /\ dist[b] \in Dists /\ ManifestOK(b)
  BY <1>1, PackFacts
<1> DEFINE d == [dist[b] EXCEPT !.archive = Torn]
<1>3. /\ dist' = [dist EXCEPT ![b] = d] /\ pc' = [pc EXCEPT ![r] = "packing"]
      /\ UNCHANGED <<world, built, job, commands, history>>
  BY DEF OpenArchive, Goto
<1>4. d \in Dists /\ d.manifest = dist[b].manifest
  BY <1>2 DEF Dists
<1> HIDE DEF d
<1>5. state' = state /\ pc'[r] = "packing" /\ job' = job /\ tree' = tree /\ dist'[b] = d
  BY <1>2, <1>3 DEF ControlOK, FilesOK, built
<1>6. /\ StillSettled(r)' = StillSettled(r) /\ commands' = commands
      /\ \A x \in Member : ReadFrom(x)' = ReadFrom(x)
  BY <1>3, <1>5 DEF StillSettled, ReadFrom, history
<1>7. Supplied(b) \subseteq Member
  BY PlanFacts DEF Supplied, Member
<1>8. FilesOK'
  BY <1>1, <1>2, <1>3, <1>4, <1>5, <1>6, <1>7 DEF FilesOK, world, built, history
<1>9. ControlOK'
  BY <1>1, <1>2, <1>3, <1>4, <1>5, <1>6, <1>7 DEF ControlOK, Steps, PackageSteps, built
<1>10. StepOK(r)'
  BY <1>1, <1>2, <1>3, <1>4, <1>5, <1>6, <1>7 DEF StepOK, Building, AtWork, Packaging, BuildSteps, PackageSteps, Leased, built
<1>11. PackFrame(r, b)
  BY <1>1, <1>2, <1>3, <1>4, <1>5, <1>6, <1>7 DEF PackFrame, world, built, history, FilesOK, ControlOK, Building, Packaging, BuildSteps, PackageSteps
<1>12. ManifestOK(b)'
  BY <1>1, <1>2, <1>3, <1>4, <1>5, <1>6, <1>7 DEF ManifestOK
<1>13. Packaging(r)' => PackData(r)'
  BY <1>1, <1>2, <1>3, <1>4, <1>5, <1>6, <1>7 DEF PackData
<1>14. QED
  BY <1>1, <1>2, <1>3, <1>4, <1>5, <1>6, <1>7, <1>8, <1>9, <1>10, <1>11, <1>12, <1>13, PackagingKeeps

LEMMA PackKeeps ==
  ASSUME WorkspaceInv, NEW r \in Run, NEW b \in Bundle, b = job[r].b, Pack(r)
  PROVE WorkspaceInv'
<1>1. Packaging(r) /\ pc[r] = "packing"
  BY DEF Pack, At, Packaging, PackageSteps
<1>2. /\ FilesOK /\ ControlOK /\ StepOK(r) /\ PackData(r) /\ job[r] \in PackageJobs
      /\ b \in Member /\ state[b] \in States /\ tree[b] \in Trees /\ out[b] \in Files
      /\ dist[b] \in Dists /\ ManifestOK(b)
  BY <1>1, PackFacts
<1> DEFINE d == [dist[b] EXCEPT !.archive = state[b].pkg]
           j == [job[r] EXCEPT !.packed = state[b].pkg]
<1>3. /\ dist' = [dist EXCEPT ![b] = d] /\ pc' = [pc EXCEPT ![r] = "manifest"]
      /\ job' = [job EXCEPT ![r] = j]
      /\ UNCHANGED <<world, built, commands, history>>
  BY DEF Pack, Goto
<1>4. state[b].pkg \in Packages
  BY <1>1, <1>2 DEF StepOK
<1>5. d \in Dists /\ d.manifest = dist[b].manifest
  BY <1>2, <1>4 DEF Dists
<1>6. /\ j \in PackageJobs /\ j.packed = state[b].pkg /\ j.b = b /\ j.alone = job[r].alone
      /\ j.from = job[r].from /\ j.settled = job[r].settled /\ j.env = job[r].env
      /\ j.status = job[r].status /\ j.named = job[r].named
  BY <1>2, <1>4 DEF PackageJobs
<1> HIDE DEF d, j
<1>7. state' = state /\ pc'[r] = "manifest" /\ job'[r] = j /\ tree' = tree /\ dist'[b] = d
  BY <1>2, <1>3 DEF ControlOK, FilesOK, built
<1>8. /\ StillSettled(r)' = StillSettled(r) /\ commands' = commands
      /\ \A x \in Member : ReadFrom(x)' = ReadFrom(x)
  BY <1>3, <1>6, <1>7 DEF StillSettled, ReadFrom, history
<1>9. Supplied(b) \subseteq Member
  BY PlanFacts DEF Supplied, Member
<1>10. FilesOK'
  BY <1>1, <1>2, <1>3, <1>4, <1>5, <1>6, <1>7, <1>8, <1>9 DEF FilesOK, world, built, history
<1>11. ControlOK'
  BY <1>1, <1>2, <1>3, <1>4, <1>5, <1>6, <1>7, <1>8, <1>9 DEF ControlOK, Steps, PackageSteps, built
<1>12. StepOK(r)'
  BY <1>1, <1>2, <1>3, <1>4, <1>5, <1>6, <1>7, <1>8, <1>9 DEF StepOK, Building, AtWork, Packaging, BuildSteps, PackageSteps, Leased, built
<1>13. PackFrame(r, b)
  BY <1>1, <1>2, <1>3, <1>4, <1>5, <1>6, <1>7, <1>8, <1>9 DEF PackFrame, world, built, history, FilesOK, ControlOK, Building, Packaging, BuildSteps, PackageSteps
<1>14. ManifestOK(b)'
  BY <1>1, <1>2, <1>3, <1>4, <1>5, <1>6, <1>7, <1>8, <1>9 DEF ManifestOK
<1>15. Packaging(r)' => PackData(r)'
  BY <1>1, <1>2, <1>3, <1>4, <1>5, <1>6, <1>7, <1>8, <1>9 DEF PackData
<1>16. QED
  BY <1>1, <1>2, <1>3, <1>4, <1>5, <1>6, <1>7, <1>8, <1>9, <1>10, <1>11, <1>12, <1>13, <1>14, <1>15, PackagingKeeps

LEMMA WriteManifestKeeps ==
  ASSUME WorkspaceInv, NEW r \in Run, NEW b \in Bundle, b = job[r].b, WriteManifest(r)
  PROVE WorkspaceInv'
<1>1. Packaging(r) /\ pc[r] = "manifest"
  BY DEF WriteManifest, At, Packaging, PackageSteps
<1>2. /\ FilesOK /\ ControlOK /\ StepOK(r) /\ PackData(r) /\ job[r] \in PackageJobs
      /\ b \in Member /\ state[b] \in States /\ tree[b] \in Trees /\ out[b] \in Files
      /\ dist[b] \in Dists /\ ManifestOK(b)
  BY <1>1, PackFacts
<1>3. PICK fresh : fresh = (settled # None /\ job[r].settled = settled /\ settled[1] = b)
  OBVIOUS
<1> DEFINE w == [archive |-> job[r].packed, rt |-> job[r].env.rt, status |-> job[r].status,
                 named |-> job[r].named, alone |-> job[r].alone, fresh |-> fresh]
           d == [dist[b] EXCEPT !.manifest = w]
<1>4. /\ dist' = [dist EXCEPT ![b] = d] /\ pc' = [pc EXCEPT ![r] = "idle"]
      /\ job' = [job EXCEPT ![r] = None]
      /\ UNCHANGED <<world, built, commands, history>>
  BY <1>3 DEF WriteManifest, Return, Goto
<1>5. fresh \in BOOLEAN /\ (fresh <=> StillSettled(r))
  BY <1>3 DEF StillSettled
<1>6. /\ w \in Manifests /\ w.archive = job[r].packed /\ w.status = job[r].status
      /\ w.named = job[r].named /\ w.alone = job[r].alone /\ w.rt = job[r].env.rt /\ w.fresh = fresh
  BY <1>1, <1>2, <1>5 DEF Manifests, PackageJobs, StepOK, Rts
<1> HIDE DEF w
<1>7. d \in Dists /\ d.manifest = w
  BY <1>2, <1>6 DEF Dists
<1> HIDE DEF d
<1>8. state' = state /\ pc'[r] = "idle" /\ job'[r] = None /\ tree' = tree /\ dist'[b] = d
  BY <1>2, <1>4 DEF ControlOK, FilesOK, built
<1>9. ~Packaging(r)'
  BY <1>8 DEF Packaging, PackageSteps
<1>10. FilesOK'
  BY <1>1, <1>2, <1>3, <1>4, <1>5, <1>6, <1>7, <1>8, <1>9 DEF FilesOK, world, built, history
<1>11. ControlOK'
  BY <1>1, <1>2, <1>3, <1>4, <1>5, <1>6, <1>7, <1>8, <1>9 DEF ControlOK, Steps, PackageSteps, built
<1>12. StepOK(r)'
  BY <1>1, <1>2, <1>3, <1>4, <1>5, <1>6, <1>7, <1>8, <1>9 DEF StepOK, Building, AtWork, Packaging, BuildSteps, PackageSteps, Leased, built
<1>13. PackFrame(r, b)
  BY <1>1, <1>2, <1>3, <1>4, <1>5, <1>6, <1>7, <1>8, <1>9 DEF PackFrame, world, built, history, FilesOK, ControlOK, Building, Packaging, BuildSteps, PackageSteps
<1>14. ManifestOK(b)'
  <2>1. w.alone => Honest(w.archive, w.status, w.named, w.rt)
    BY <1>1, <1>2, <1>6 DEF PackData
  <2>2. w.alone /\ w.fresh => Ships(b, w.archive)
    BY <1>1, <1>2, <1>5, <1>6 DEF PackData
  <2>3. QED
    BY <1>7, <1>8, <2>1, <2>2 DEF ManifestOK
<1>15. Packaging(r)' => PackData(r)'
  BY <1>9
<1>16. QED
  BY <1>1, <1>2, <1>3, <1>4, <1>5, <1>6, <1>7, <1>8, <1>9, <1>10, <1>11, <1>12, <1>13, <1>14, <1>15, PackagingKeeps

LEMMA StartPackageKeeps ==
  ASSUME WorkspaceInv, NEW r \in Run, NEW b \in Bundle, NEW allow \in BOOLEAN, StartPackage(r, b, allow)
  PROVE WorkspaceInv'
<1> DEFINE others == {q \in Active("package") : job[q].b = b}
           from == [x \in Supplied(b) |-> ReadFrom(x)]
<1>1. PICK alone : alone = (others = {})
  OBVIOUS
<1> DEFINE j == [cmd |-> "package", b |-> b, env |-> env, allow |-> allow, from |-> from,
                 todo |-> <<"info", "lib">>, status |-> None, named |-> None,
                 packed |-> None, alone |-> alone, settled |-> settled]
<1>2. /\ pc[r] = "idle" /\ commands > 0 /\ commands' = commands - 1
      /\ job' = [q \in Run |-> IF q = r THEN j
                               ELSE IF q \in others THEN [job[q] EXCEPT !.alone = FALSE] ELSE job[q]]
      /\ pc' = [pc EXCEPT ![r] = "closure"]
      /\ UNCHANGED <<world, built, dist, history>>
  BY <1>1 DEF StartPackage, At, Goto
<1>3. /\ UNCHANGED <<env, src, changes, prefix, tree, state, out, root, holder, dist, crossed, settled>>
  BY <1>2 DEF world, built, history
<1>4. FilesOK /\ ControlOK /\ SettledOK /\ Supplied(b) \subseteq Bundle
  BY PlanFacts DEF WorkspaceInv, Supplied
<1>5. from \in UNION {[S -> {"stage", "source"}] : S \in SUBSET Bundle}
  <2>1. from \in [Supplied(b) -> {"stage", "source"}]
    BY DEF ReadFrom
  <2>2. QED
    BY <1>4, <2>1
<1>6. \A x \in Supplied(b) : from[x] = ReadFrom(x)
  OBVIOUS
<1> HIDE DEF from
<1>7. alone \in BOOLEAN /\ (alone => others = {})
  BY <1>1
<1>8. \A q \in Run : q \in others <=> Packaging(q) /\ job[q].b = b
  BY ActivePackages
<1> HIDE DEF others
<1>9. /\ j \in PackageJobs /\ j.b = b /\ j.alone = alone /\ j.settled = settled /\ j.from = from
      /\ j.todo = <<"info", "lib">>
  BY <1>4, <1>5, <1>7 DEF PackageJobs, FilesOK
<1> HIDE DEF j
<1>10. ASSUME NEW q \in Run, Packaging(q)
       PROVE /\ [job[q] EXCEPT !.alone = FALSE] \in PackageJobs
             /\ \A k : k = [job[q] EXCEPT !.alone = FALSE] =>
                  /\ k.b = job[q].b /\ k.alone = FALSE /\ k.settled = job[q].settled
                  /\ k.from = job[q].from /\ k.todo = job[q].todo /\ k.packed = job[q].packed
                  /\ k.status = job[q].status
  <2>1. job[q] \in PackageJobs
    BY <1>10 DEF WorkspaceInv, StepOK
  <2>2. QED
    BY <2>1 DEF PackageJobs
<1>11. /\ pc'[r] = "closure" /\ job'[r] = j /\ Packaging(r)' /\ ~Building(r) /\ ~Packaging(r)
       /\ ~Building(r)' /\ ~AtWork(r)'
       /\ \A q \in Run \ {r} : pc'[q] = pc[q]
       /\ \A q \in Run \ {r} : q \notin others => job'[q] = job[q]
       /\ \A q \in Run \ {r} : q \in others => job'[q] = [job[q] EXCEPT !.alone = FALSE]
  BY <1>2, <1>4 DEF ControlOK, Building, AtWork, Packaging, BuildSteps, PackageSteps
<1>12. FilesOK'
  <2>1. commands' \in 0..MaxCommands
    BY <1>2, <1>4, BoundsAssumption DEF FilesOK
  <2>2. QED
    BY <1>3, <1>4, <2>1 DEF FilesOK
<1>13. ControlOK'
  <2>1. \A q \in Run : job'[q] \in BuildJobs \cup PackageJobs \cup {None}
    BY <1>4, <1>8, <1>9, <1>10, <1>11 DEF ControlOK
  <2>2. job' \in [Run -> BuildJobs \cup PackageJobs \cup {None}]
    BY <1>2, <2>1
  <2>3. QED
    BY <1>2, <1>3, <1>4, <2>2 DEF ControlOK, Steps, PackageSteps
<1>14. \A q \in Run : Building(q) => q # r /\ q \notin others /\ pc'[q] = pc[q] /\ job'[q] = job[q]
  BY <1>8, <1>11 DEF Building, Packaging, BuildSteps, PackageSteps
<1>15. \A q \in Run : StepOK(q)'
  <2>1. StepOK(r)'
    BY <1>9, <1>11 DEF StepOK, Building, AtWork, Packaging, BuildSteps, PackageSteps, Leased
  <2>2. ASSUME NEW q \in Run \ {r}, q \notin others PROVE StepOK(q)'
    BY <1>3, <1>11, <2>2, StepsStay
  <2>3. ASSUME NEW q \in Run \ {r}, q \in others PROVE StepOK(q)'
    <3>1. Packaging(q) /\ StepOK(q) /\ pc'[q] = pc[q]
      BY <1>8, <1>11, <2>3 DEF WorkspaceInv
    <3>2. /\ job'[q] \in PackageJobs /\ job'[q].b = job[q].b /\ job'[q].packed = job[q].packed
          /\ job'[q].status = job[q].status
      BY <1>10, <1>11, <2>3, <3>1
    <3>3. QED
      BY <1>3, <3>1, <3>2 DEF StepOK, Building, AtWork, Packaging, BuildSteps, PackageSteps, Leased
  <2>4. QED
    BY <2>1, <2>2, <2>3
<1>16. \A x \in Bundle : LeaseOK(x)'
  BY <1>3, <1>14, LeasesStay
<1>17. \A x \in Member : MemberOK(x)'
  BY <1>3, MembersStay
<1>18. RootOK' /\ SoleOK' /\ \A x \in Bundle : ManifestOK(x)'
  <2>1. \A q \in Run : Building(q)' => Building(q)
    BY <1>11 DEF Building
  <2>2. QED
    BY <1>3, <2>1 DEF RootOK, SoleOK, ManifestOK, WorkspaceInv
<1>19. \A q \in Run : BuildOK(q)'
  <2> SUFFICES ASSUME NEW q \in Run, Building(q)' PROVE BuildOK(q)'
    BY DEF BuildOK
  <2>1. Building(q) /\ pc'[q] = pc[q] /\ job'[q] = job[q]
    BY <1>11, <1>14 DEF Building
  <2>2. PICK m : m = Current(q)
    OBVIOUS
  <2>3. /\ Current(q)' = m /\ AtWork(q)' = AtWork(q) /\ Before(q)' = Before(q)
        /\ IsDependency(q)' = IsDependency(q)
    BY <2>1, <2>2 DEF Current, AtWork, Before, IsDependency
  <2>4. WorkOK(q, m) => WorkOK(q, m)'
    BY <1>3, <2>1, <2>3 DEF WorkOK, Staged
  <2>5. QuietOK(q, m) => QuietOK(q, m)'
    BY <1>3, <2>1, <2>3 DEF QuietOK, OneInstall, AllCarried, AllLinked, Linked, Carried, Source, ReadFrom
  <2>6. BuildOK(q)
    BY DEF WorkspaceInv
  <2>7. QED
    BY <1>3, <2>1, <2>2, <2>3, <2>4, <2>5, <2>6 DEF BuildOK, Steady
<1>20. settled # None => settled[2] \in Nat /\ settled[2] > commands' /\ settled[2] >= commands'
  BY <1>2, <1>4 DEF SettledOK, Settlings, FilesOK
<1>21. SettledOK'
  <2>1. \A q \in Run : Building(q)' => Building(q)
    BY <1>11 DEF Building
  <2>2. QED
    BY <1>3, <1>4, <1>20, <2>1 DEF SettledOK, AllLinked, Linked, Carried, Source, ReadFrom
<1>22. \A q \in Run : PackOK(q)'
  <2>1. \A q \in Run : Packaging(q)' => q = r \/ (Packaging(q) /\ job'[q].b = job[q].b)
    BY <1>8, <1>10, <1>11 DEF Packaging
  <2>2. PackOK(r)'
    <3>1. AloneOK(r)'
      <4> SUFFICES ASSUME alone, NEW q \in Run, Packaging(q)', job'[q].b = b PROVE q = r
        BY <1>9, <1>11 DEF AloneOK
      <4>1. q # r => q \in others
        BY <1>8, <2>1
      <4>2. QED
        BY <1>7, <4>1
    <3>2. PackData(r)'
      BY <1>3, <1>6, <1>9, <1>11, <1>20 DEF PackData, StillSettled, ReadFrom
    <3>3. QED
      BY <3>1, <3>2 DEF PackOK
  <2>3. ASSUME NEW q \in Run \ {r}, Packaging(q)' PROVE PackOK(q)'
    <3>1. Packaging(q) /\ AloneOK(q) /\ PackData(q) /\ pc'[q] = pc[q] /\ job[q] \in PackageJobs
      BY <1>11, <2>3 DEF Packaging, WorkspaceInv, PackOK, StepOK
    <3>2. job[q].settled # None => job[q].settled[2] > commands'
      <4>1. job[q].settled # None => job[q].settled[2] > commands /\ job[q].settled[2] \in Nat
        BY <3>1 DEF PackData, PackageJobs, Settlings
      <4>2. QED
        BY <1>2, <1>4, <4>1 DEF FilesOK
    <3>3. CASE q \in others
      <4>1. PICK k : k = job'[q]
        OBVIOUS
      <4>2. /\ k.b = job[q].b /\ k.alone = FALSE /\ k.settled = job[q].settled
            /\ k.from = job[q].from /\ k.todo = job[q].todo
        BY <1>10, <1>11, <3>1, <3>3, <4>1
      <4>3. AloneOK(q)'
        BY <4>1, <4>2 DEF AloneOK
      <4>4. PackData(q)'
        BY <1>3, <3>1, <3>2, <4>1, <4>2 DEF PackData, StillSettled, ReadFrom
      <4>5. QED
        BY <4>3, <4>4 DEF PackOK
    <3>4. CASE q \notin others
      <4>1. job'[q] = job[q] /\ job[q].b # b
        BY <1>8, <1>11, <3>1, <3>4
      <4>2. AloneOK(q)'
        BY <1>9, <1>11, <2>1, <3>1, <4>1 DEF AloneOK
      <4>3. PackData(q)'
        BY <1>3, <3>1, <3>2, <4>1 DEF PackData, StillSettled, ReadFrom
      <4>4. QED
        BY <4>2, <4>3 DEF PackOK
    <3>5. QED
      BY <3>3, <3>4
  <2>4. QED
    BY <2>2, <2>3 DEF PackOK
<1>23. QED
  BY <1>12, <1>13, <1>15, <1>16, <1>17, <1>18, <1>19, <1>21, <1>22 DEF WorkspaceInv

-----------------------------------------------------------------------------
(* The invariant and its consequences                                      *)

LEMMA InitHasInv == Init => WorkspaceInv
<1> SUFFICES ASSUME Init PROVE WorkspaceInv
  OBVIOUS
<1>1. NoFiles \in Files /\ NoTree \in Trees /\ NoTree.cache = None /\ NoTree.done = None
  BY EmptyTree DEF NoFiles, Files, MaybeBin
<1>2. NoState \in States
  BY <1>1 DEF NoState, States, MaybeEnv, MaybeBin
<1>3. FilesOK
  <2>1. env \in Env /\ src \in [Member -> Nat] /\ prefix \in [Member -> MaybeBin]
    BY EnvAssumption DEF Init, MaybeBin
  <2>2. tree \in [Member -> Trees] /\ state \in [Member -> States] /\ out \in [Bundle -> Files]
    BY <1>1, <1>2 DEF Init
  <2>3. dist \in [Bundle -> Dists]
    <3>1. [archive |-> None, manifest |-> None] \in Dists
      BY DEF Dists
    <3>2. QED
      BY <3>1 DEF Init
  <2>4. commands \in 0..MaxCommands /\ changes \in 0..MaxChanges
    BY BoundsAssumption DEF Init
  <2>5. root \in Roots \cup {None} /\ crossed \in BOOLEAN /\ settled \in Settlings
    BY DEF Init, Settlings
  <2>6. QED
    BY <2>1, <2>2, <2>3, <2>4, <2>5 DEF FilesOK
<1>4. ControlOK
  BY DEF Init, ControlOK, Steps
<1>5. \A r \in Run : pc[r] = "idle" /\ ~Building(r) /\ ~AtWork(r) /\ ~Packaging(r) /\ job[r] = None
  BY DEF Init, Building, AtWork, Packaging, BuildSteps, PackageSteps
<1>6. \A r \in Run : StepOK(r)
  BY <1>5 DEF StepOK, Leased
<1>7. (\A r \in Run : BuildOK(r) /\ PackOK(r)) /\ SoleOK /\ SettledOK /\ RootOK
  BY <1>5 DEF BuildOK, PackOK, SoleOK, SettledOK, RootOK, Init
<1>8. (\A b \in Bundle : LeaseOK(b) /\ ManifestOK(b)) /\ \A m \in Member : MemberOK(m)
  BY <1>1 DEF Init, LeaseOK, ManifestOK, MemberOK
<1>9. QED
  BY <1>3, <1>4, <1>6, <1>7, <1>8 DEF WorkspaceInv

LEMMA BuildStepKeeps ==
  ASSUME WorkspaceInv, NEW r \in Run, BuildStep(r)
  PROVE WorkspaceInv'
<1>1. Building(r)
  BY DEF BuildStep, PrepareLibrary, PrepareBundle, Configure, Identify, Compile, ClearStage,
         InstallToPrefix, InstallFile, Snapshot, ListSnapshot, CollectOutputs, WriteLock,
         WriteCompletion, FinishBundle, At, Building, BuildSteps
<1>2. PICK m \in Member : m = Current(r)
  BY <1>1, Position DEF WorkspaceInv
<1>3. QED
  BY <1>2, PrepareLibraryKeeps, PrepareBundleKeeps, ConfigureKeeps, IdentifyKeeps, CompileKeeps,
     ClearStageKeeps, InstallToPrefixKeeps, InstallFileKeeps, SnapshotKeeps, ListSnapshotKeeps,
     CollectOutputsKeeps, WriteLockKeeps, WriteCompletionKeeps, FinishBundleKeeps DEF BuildStep

LEMMA PackageStepKeeps ==
  ASSUME WorkspaceInv, NEW r \in Run, PackageStep(r)
  PROVE WorkspaceInv'
<1>1. Packaging(r)
  BY DEF PackageStep, PrepareStage, CopyOutput, CopyClosure, Assess, OpenArchive, Pack,
         WriteManifest, At, Packaging, PackageSteps
<1>2. PICK b \in Bundle : b = job[r].b
  BY <1>1 DEF WorkspaceInv, StepOK, PackageJobs
<1>3. QED
  BY <1>2, PrepareStageKeeps, CopyOutputKeeps, CopyClosureKeeps, AssessKeeps, OpenArchiveKeeps,
     PackKeeps, WriteManifestKeeps DEF PackageStep

LEMMA StutterKeeps ==
  ASSUME WorkspaceInv, UNCHANGED vars
  PROVE WorkspaceInv'
<1>1. UNCHANGED <<env, src, prefix, tree, state, out, root, holder, dist, pc, job, commands, changes,
                  crossed, settled>>
  BY DEF vars, world, built, history
<1>2. FilesOK' /\ ControlOK'
  BY <1>1 DEF WorkspaceInv, FilesOK, ControlOK
<1>3. \A r \in Run : StepOK(r)'
  BY <1>1, StepsStay
<1>4. \A b \in Bundle : LeaseOK(b)'
  BY <1>1, LeasesStay
<1>5. \A m \in Member : MemberOK(m)'
  BY <1>1, MembersStay
<1>6. RootOK' /\ SoleOK' /\ \A b \in Bundle : ManifestOK(b)'
  BY <1>1 DEF WorkspaceInv, RootOK, SoleOK, ManifestOK, Building
<1>7. \A r \in Run : BuildOK(r)'
  <2> SUFFICES ASSUME NEW q \in Run PROVE BuildOK(q)'
    OBVIOUS
  <2>1. PICK m : m = Current(q)
    OBVIOUS
  <2>2. Current(q)' = m /\ WorkOK(q, m)' = WorkOK(q, m) /\ Building(q)' = Building(q)
    BY <1>1, <2>1 DEF Current, WorkOK, Staged, AtWork, Building
  <2>3. QuietOK(q, m) => QuietOK(q, m)'
    BY <1>1 DEF QuietOK, OneInstall, AllCarried, AllLinked, Linked, Carried, Source, ReadFrom,
                AtWork, Before, IsDependency
  <2>4. BuildOK(q)
    BY DEF WorkspaceInv
  <2>5. QED
    BY <1>1, <2>1, <2>2, <2>3, <2>4 DEF BuildOK, Steady
<1>8. SettledOK'
  BY <1>1 DEF WorkspaceInv, SettledOK, AllLinked, Linked, Carried, Source, ReadFrom, Building
<1>9. \A r \in Run : PackOK(r)'
  BY <1>1 DEF WorkspaceInv, PackOK, AloneOK, PackData, StillSettled, ReadFrom, Packaging
<1>10. QED
  BY <1>2, <1>3, <1>4, <1>5, <1>6, <1>7, <1>8, <1>9 DEF WorkspaceInv

LEMMA StepKeepsInv ==
  ASSUME WorkspaceInv, [Next]_vars
  PROVE WorkspaceInv'
<1>1. ASSUME NEW r \in Run, Refuse(r) PROVE WorkspaceInv'
  <2>1. changes' \in 0..MaxChanges /\ GiveUp(r)
    BY <1>1 DEF Refuse, WorkspaceInv, FilesOK
  <2>2. QED
    BY <2>1, GiveUpKeeps
<1>2. ASSUME NEW r \in Run, Fail(r) PROVE WorkspaceInv'
  <2>1. changes' \in 0..MaxChanges /\ GiveUp(r)
    BY <1>2, BoundsAssumption DEF Fail, WorkspaceInv, FilesOK
  <2>2. QED
    BY <2>1, GiveUpKeeps
<1>3. QED
  BY <1>1, <1>2, StartBuildKeeps, StartPackageKeeps, BuildStepKeeps, PackageStepKeeps, DeveloperKeeps,
     StutterKeeps DEF Next

LEMMA InvImpliesBuilds == WorkspaceInv => BuildsAreOne
<1> SUFFICES ASSUME WorkspaceInv PROVE BuildsAreOne
  OBVIOUS
<1>1. TypeOK
  <2>1. env \in Env /\ commands \in 0..MaxCommands /\ changes \in 0..MaxChanges
    BY DEF WorkspaceInv, FilesOK
  <2>2. ASSUME NEW r \in Run
        PROVE \/ pc[r] = "idle" /\ job[r] = None
              \/ pc[r] \in BuildSteps /\ job[r].cmd = "build"
              \/ pc[r] \in PackageSteps /\ job[r].cmd = "package"
    <3>1. StepOK(r) /\ pc[r] \in Steps
      BY DEF WorkspaceInv, ControlOK
    <3>2. QED
      BY <3>1 DEF StepOK, Steps, Building, Packaging, BuildJobs, PackageJobs
  <2>3. ASSUME NEW r \in Run, pc[r] \in Leased PROVE holder[Current(r)] = r
    BY <2>3 DEF WorkspaceInv, StepOK, AtWork, Leased, BuildSteps
  <2>4. ASSUME NEW b \in Bundle, holder[b] # Nobody PROVE pc[holder[b]] \in BuildSteps \ {"member"}
    BY <2>4 DEF WorkspaceInv, LeaseOK, AtWork
  <2>5. QED
    BY <2>1, <2>2, <2>3, <2>4 DEF TypeOK
<1>2. \A b \in Bundle : MemberOK(b)
  BY DEF WorkspaceInv, Member
<1>3. CompletionIsOneCompile
  BY <1>2 DEF CompletionIsOneCompile, MemberOK
<1>4. LinksOneRuntime
  BY <1>2 DEF LinksOneRuntime, MemberOK, OneRuntime
<1>5. QED
  BY <1>1, <1>3, <1>4 DEF BuildsAreOne

LEMMA InvImpliesPackages == WorkspaceInv => PackagesAreHonest
<1> SUFFICES ASSUME WorkspaceInv, NEW b \in Bundle, dist[b].manifest # None, dist[b].manifest.alone,
                    dist[b].manifest.status = "matched"
             PROVE LET m == dist[b].manifest IN
                   /\ m.archive.files = m.named.outs /\ OneCompile(m.archive.files, m.rt)
                   /\ m.fresh => Ships(b, m.archive)
  BY DEF PackagesAreHonest, MatchedIsManaged, ShipsWhatItLinked, Ships
<1>1. ManifestOK(b)
  BY DEF WorkspaceInv
<1>2. QED
  BY <1>1 DEF ManifestOK, Honest

\* The inductive invariant: what a lease protects, what a build that nothing crossed
\* knows, and what a packaging that is alone with its stage knows.
THEOREM WorkspaceInvHolds == Spec => []WorkspaceInv
<1>1. Init => WorkspaceInv
  BY InitHasInv
<1>2. WorkspaceInv /\ [Next]_vars => WorkspaceInv'
  BY StepKeepsInv
<1>3. QED
  BY <1>1, <1>2, PTL DEF Spec

\* plugin.rs: the lease of a bundle makes a completion stand over the outputs of one
\* compile with its runtime, however builds, packagings and developers interleave,
\* and a build that nothing crossed links members of its runtime only.
THEOREM CompletionsAreOne == Spec => []BuildsAreOne
BY WorkspaceInvHolds, InvImpliesBuilds, PTL

\* plugin.rs: the provenance of a package "describes the bytes that will actually be
\* archived", and after an undisturbed build the package carries what was linked.
THEOREM PackagesStayHonest == Spec => []PackagesAreHonest
BY WorkspaceInvHolds, InvImpliesPackages, PTL
=============================================================================
