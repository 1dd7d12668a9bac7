--------------------------- MODULE PluginWorkspace ---------------------------
(***************************************************************************)
(* `ost plugin build` and `ost plugin package` over one source workspace. *)
(* A build wipes the workspace prefix all builds share and then builds,   *)
(* one after the other, the libraries, the dependency bundles and the     *)
(* bundle itself.  A bundle is built under its target lease and publishes *)
(* a completion with the bytes of its outputs; a library is built under   *)
(* no lease and leaves a snapshot of its install.  Packaging takes no     *)
(* lease: it copies outputs and snapshots into a package stage, compares  *)
(* the copy with the completions, and archives the stage.  Commands fail  *)
(* or die at any step.  CMake and the user's own CMake are external.      *)
(***************************************************************************)
EXTENDS Naturals, Sequences

CONSTANTS Run,          \* concurrent invocations of ost
          Nobody,       \* no run: a free lease
          None,         \* an absent file, tree or value
          Torn,         \* an archive that is half written
          Bundle,       \* the plugin bundles of the workspace
          Library,      \* its plain libraries
          Libs,         \* bundle -> its libraries in build order
          Deps,         \* bundle -> the bundles it depends on in build order
          Installable,  \* the bundles whose CMake has install rules
          First,        \* the one in place at the start
          Env,          \* runtime digest and compiler: [rt : ..., cc : ...]
          MaxCommands,  \* bound: commands that are started
          MaxChanges    \* bound: edits, other runtimes, foreign builds, failures

Member == Bundle \cup Library
File == {"info", "lib"}     \* the registration tree and the library directory
Plan(b) == Libs[b] \o Deps[b] \o <<b>>
Elements(s) == {s[i] : i \in DOMAIN s}
Links(m) == IF m \in Bundle THEN Elements(Libs[m]) \cup Elements(Deps[m]) ELSE {}

ASSUME PlanAssumption ==
  /\ Bundle \cap Library = {}
  /\ Libs \in [Bundle -> Seq(Library)] /\ Deps \in [Bundle -> Seq(Bundle)]
  /\ Installable \subseteq Bundle
  /\ \A b \in Bundle : \A i \in DOMAIN Plan(b) :
       /\ Links(Plan(b)[i]) \subseteq {Plan(b)[j] : j \in 1..(i - 1)}
       /\ \A j \in DOMAIN Plan(b) : Plan(b)[i] = Plan(b)[j] => i = j
ASSUME NobodyAssumption == Nobody \notin Run
ASSUME EnvAssumption == First \in Env
ASSUME BoundsAssumption == MaxCommands \in Nat /\ MaxChanges \in Nat

VARIABLES env,       \* the runtime and the compiler that a command resolves
          src,       \* member -> the version of its sources
          prefix,    \* member -> its install in workspace-prefix
          tree,      \* member -> build/<id>
          state,     \* member -> .strata/targets/<id>
          out,       \* bundle -> the outputs in its source tree
          root,      \* the completion `ost build` left at the project root
          pinned,    \* the runtime strata.lock pins
          holder,    \* bundle -> who holds its target lease
          dist,      \* bundle -> its dist directory
          pc, job,   \* run -> its next step, and its command and locals
          commands, changes,  \* what the bounds have left
          crossed,   \* history: something changed under a running build
          settled    \* history: the last build and when, if nothing happened since

world == <<env, src, changes>>
built == <<prefix, tree, state, out, root, pinned, holder>>
history == <<crossed, settled>>
vars == <<world, built, dist, pc, job, commands, history>>

NoFiles == [f \in File |-> None]
NoTree == [cache |-> None, mark |-> None, ident |-> None, bin |-> None, done |-> None]
NoPackage == [files |-> NoFiles, libs |-> [l \in Library |-> None],
              deps |-> [b \in Bundle |-> None]]
NoState == [chain |-> None, cc |-> None, snap |-> None, listed |-> FALSE,
            stage |-> NoFiles, marked |-> FALSE, lock |-> None, pkg |-> None]

Init == /\ env = First
        /\ src = [m \in Member |-> 0]
        /\ prefix = [m \in Member |-> None]
        /\ tree = [m \in Member |-> NoTree]
        /\ state = [m \in Member |-> NoState]
        /\ out = [b \in Bundle |-> NoFiles]
        /\ root = None /\ pinned = None
        /\ holder = [b \in Bundle |-> Nobody]
        /\ dist = [b \in Bundle |-> [archive |-> None, manifest |-> None]]
        /\ pc = [r \in Run |-> "idle"] /\ job = [r \in Run |-> None]
        /\ commands = MaxCommands /\ changes = MaxChanges
        /\ crossed = FALSE /\ settled = None

BuildSteps == {"member", "configure", "identify", "compile", "clear", "install",
               "stage", "snapshot", "inventory", "lock", "complete", "pin"}
PackageSteps == {"closure", "copy", "assess", "pack", "packing", "manifest"}

Active(cmd) == {r \in Run : pc[r] # "idle" /\ job[r].cmd = cmd}
Current(r) == Plan(job[r].b)[job[r].i]
IsDependency(r) == job[r].i < Len(Plan(job[r].b))
At(r, step) == pc[r] = step
Goto(r, step) == pc' = [pc EXCEPT ![r] = step]
Return(r) == Goto(r, "idle") /\ job' = [job EXCEPT ![r] = None]

-----------------------------------------------------------------------------
(* ost plugin build                                                        *)

\* What a step needs from the files other runs write too; without it the step
\* fails, and the command with it.
Ready(r) ==
  LET m == Current(r)
      t == tree[m] IN
  CASE pc[r] = "member" -> m \in Bundle => holder[m] = Nobody
    [] pc[r] \in {"identify", "complete"} -> t.cache # None
    [] pc[r] = "compile" -> t.cache # None /\ \A x \in Links(m) : prefix[x] # None
    [] pc[r] = "install" -> t.bin # None
    [] pc[r] = "stage" -> job[r].todo = {} \/ t.bin # None
    [] pc[r] = "snapshot" -> t.bin # None /\ prefix[m] # None
    [] pc[r] = "inventory" -> state[m].snap # None
    [] OTHER -> TRUE

\* A composed build empties the prefix every build of the workspace shares.
StartBuild(r, b) ==
  /\ At(r, "idle") /\ commands > 0
  /\ commands' = commands - 1
  /\ job' = [job EXCEPT ![r] = [cmd |-> "build", b |-> b, i |-> 1, env |-> None,
                                todo |-> File, outs |-> None]]
  /\ Goto(r, "member")
  /\ prefix' = IF Len(Plan(b)) > 1 THEN [m \in Member |-> None] ELSE prefix
  /\ crossed' = (crossed \/ Active("build") # {})
  /\ settled' = None
  /\ UNCHANGED <<world, tree, state, out, root, pinned, holder, dist>>

\* A cache is kept only if the record of the last configure and the markers in
\* the cache both name this runtime.
Trusted(m, e) == tree[m].ident = e.rt /\ tree[m].mark = e.rt

\* What the two invalidations leave of a build directory.  A cached compiler
\* that differs may also be gone from the host, which drops the tree too.
Kept(m, e) ==
  LET t == IF tree[m].cache # None /\ ~Trusted(m, e) THEN NoTree ELSE tree[m]
  IN IF state[m].cc \notin {None, e.cc} THEN {NoTree}
     ELSE IF t.cache # None /\ t.cache.cc # e.cc THEN {t, NoTree} ELSE {t}

\* Every member resolves the target again, writes its toolchain file, and (a
\* library) drops its old snapshot.
PrepareLibrary(r) ==
  LET m == Current(r) IN
  /\ At(r, "member") /\ m \in Library
  /\ \E t \in Kept(m, env) : tree' = [tree EXCEPT ![m] = t]
  /\ state' = [state EXCEPT ![m].chain = env, ![m].snap = None, ![m].listed = FALSE]
  /\ job' = [job EXCEPT ![r].env = env]
  /\ Goto(r, "configure")
  /\ UNCHANGED <<world, prefix, out, root, pinned, holder, dist, commands, history>>

\* Mutant: the target is written without asking for its lease.
PrepareBundleUnleased(r) ==
  LET m == Current(r) IN
  /\ At(r, "member") /\ m \in Bundle
  /\ holder' = [holder EXCEPT ![m] = r]
  /\ \E t \in Kept(m, env) : tree' = [tree EXCEPT ![m] = t]
  /\ state' = [state EXCEPT ![m].chain = env]
  /\ job' = [job EXCEPT ![r].env = env]
  /\ Goto(r, "configure")
  /\ UNCHANGED <<world, prefix, out, root, pinned, dist, commands, history>>

\* The lease is asked for once (LeaseMode::Fail) before the first file.
PrepareBundle(r) ==
  LET m == Current(r) IN
  /\ At(r, "member") /\ m \in Bundle /\ Ready(r)
  /\ holder' = [holder EXCEPT ![m] = r]
  /\ \E t \in Kept(m, env) : tree' = [tree EXCEPT ![m] = t]
  /\ state' = [state EXCEPT ![m].chain = env]
  /\ job' = [job EXCEPT ![r].env = env]
  /\ Goto(r, "configure")
  /\ UNCHANGED <<world, prefix, out, root, pinned, dist, commands, history>>

\* CMake takes the toolchain file for a new cache; an existing one keeps its
\* package paths and its compiler, and only the markers are forced.
Configure(r) ==
  LET m == Current(r) IN
  /\ At(r, "configure")
  /\ tree' = [tree EXCEPT ![m].cache = IF @ = None THEN state[m].chain ELSE @,
                          ![m].mark = state[m].chain.rt]
  /\ Goto(r, "identify")
  /\ UNCHANGED <<world, prefix, state, out, root, pinned, holder, dist, job, commands, history>>

\* The runtime identity is recorded after a configure that succeeded.
Identify(r) ==
  LET m == Current(r) IN
  /\ At(r, "identify") /\ Ready(r)
  /\ tree' = [tree EXCEPT ![m].ident = job[r].env.rt]
  /\ Goto(r, "compile")
  /\ UNCHANGED <<world, prefix, state, out, root, pinned, holder, dist, job, commands, history>>

\* What a compile makes: its sources with the cached runtime and compiler, and
\* whatever the prefix holds of the members it links.
Binary(m) ==
  [src |-> src[m], env |-> tree[m].cache,
   with |-> {<<x, prefix[x].src, prefix[x].env>> : x \in Links(m)}]

\* A bundle without install rules writes its outputs into its source tree.
Compile(r) ==
  LET m == Current(r) IN
  /\ At(r, "compile") /\ Ready(r)
  /\ tree' = [tree EXCEPT ![m].bin = Binary(m)]
  /\ out' = IF m \in Bundle \ Installable
            THEN [out EXCEPT ![m] = [f \in File |-> Binary(m)]] ELSE out
  /\ Goto(r, IF m \in Library THEN "install" ELSE "clear")
  /\ UNCHANGED <<world, prefix, state, root, pinned, holder, dist, job, commands, history>>

\* The bundle stage goes before its new install, with its marker.
ClearStage(r) ==
  LET m == Current(r) IN
  /\ At(r, "clear")
  /\ state' = [state EXCEPT ![m].stage = NoFiles, ![m].marked = FALSE]
  /\ job' = [job EXCEPT ![r].todo = IF m \in Installable THEN File ELSE {}]
  /\ Goto(r, IF IsDependency(r) THEN "install" ELSE "stage")
  /\ UNCHANGED <<world, prefix, tree, out, root, pinned, holder, dist, commands, history>>

\* Libraries and dependency bundles install for the members that link them.
InstallToPrefix(r) ==
  LET m == Current(r) IN
  /\ At(r, "install") /\ Ready(r)
  /\ prefix' = IF m \in Library \cup Installable
               THEN [prefix EXCEPT ![m] = tree[m].bin] ELSE prefix
  /\ Goto(r, IF m \in Library THEN "snapshot" ELSE "stage")
  /\ UNCHANGED <<world, tree, state, out, root, pinned, holder, dist, job, commands, history>>

\* cmake --install writes the bundle stage file by file.
InstallFile(r, f) ==
  LET m == Current(r) IN
  /\ At(r, "stage") /\ Ready(r) /\ f \in job[r].todo
  /\ state' = [state EXCEPT ![m].stage[f] = tree[m].bin]
  /\ job' = [job EXCEPT ![r].todo = @ \ {f}]
  /\ UNCHANGED <<world, prefix, tree, out, root, pinned, holder, dist, pc, commands, history>>

EndMember(r) == IF IsDependency(r)
            THEN /\ job' = [job EXCEPT ![r].i = @ + 1]
                 /\ Goto(r, "member")
                 /\ settled' = settled
            ELSE /\ Return(r)
                 /\ settled' = IF crossed THEN None ELSE <<job[r].b, commands>>

\* The files that the install manifest names are copied from the prefix, and
\* listed only once all of them are there.
Snapshot(r) ==
  LET m == Current(r) IN
  /\ At(r, "snapshot") /\ Ready(r)
  /\ state' = [state EXCEPT ![m].snap = prefix[m], ![m].listed = FALSE]
  /\ Goto(r, "inventory")
  /\ UNCHANGED <<world, prefix, tree, out, root, pinned, holder, dist, job, commands, history>>

ListSnapshot(r) ==
  LET m == Current(r) IN
  /\ At(r, "inventory") /\ Ready(r)
  /\ state' = [state EXCEPT ![m].listed = TRUE, ![m].cc = job[r].env.cc]
  /\ EndMember(r)
  /\ UNCHANGED <<world, prefix, tree, out, root, pinned, holder, dist, commands, crossed>>

\* The outputs of a bundle: its stage once plugInfo is installed there, else
\* its source tree.
Installed(b) == state[b].stage["info"] # None
Outputs(b) == IF Installed(b) THEN state[b].stage ELSE out[b]

CollectOutputs(r) ==
  LET m == Current(r) IN
  /\ At(r, "stage") /\ job[r].todo = {}
  /\ state' = [state EXCEPT ![m].cc = job[r].env.cc]
  /\ job' = [job EXCEPT ![r].outs = Outputs(m)]
  /\ Goto(r, "lock")
  /\ UNCHANGED <<world, prefix, tree, out, root, pinned, holder, dist, commands, history>>

WriteLock(r) ==
  LET m == Current(r) IN
  /\ At(r, "lock")
  /\ state' = [state EXCEPT ![m].lock = job[r].env]
  /\ Goto(r, "complete")
  /\ UNCHANGED <<world, prefix, tree, out, root, pinned, holder, dist, job, commands, history>>

WriteCompletion(r) ==
  LET m == Current(r) IN
  /\ At(r, "complete") /\ Ready(r)
  /\ tree' = [tree EXCEPT ![m].done = [env |-> job[r].env, outs |-> job[r].outs]]
  /\ Goto(r, "pin")
  /\ UNCHANGED <<world, prefix, state, out, root, pinned, holder, dist, job, commands, history>>

\* strata.lock pins the runtime as it is now; then the stage is marked usable
\* and the lease released.
FinishBundle(r) ==
  LET m == Current(r) IN
  /\ At(r, "pin")
  /\ pinned' = env.rt
  /\ state' = [state EXCEPT ![m].marked = Installed(m)]
  /\ holder' = [holder EXCEPT ![m] = Nobody]
  /\ EndMember(r)
  /\ UNCHANGED <<world, prefix, tree, out, root, dist, commands, crossed>>

-----------------------------------------------------------------------------
(* ost plugin package                                                      *)

\* A stage without its marker is not trusted: the source tree is read instead.
ReadFrom(b) == IF state[b].marked THEN "stage" ELSE "source"
Source(b, from) == IF from = "stage" THEN state[b].stage ELSE out[b]
Supplied(b) == {b} \cup Elements(Deps[b])

\* The command resolves where outputs are read from, refuses a runtime that
\* strata.lock does not pin, and diagnoses the bundle as it stands.
StartPackage(r, b, allow) ==
  LET others == {q \in Active("package") : job[q].b = b} IN
  /\ At(r, "idle") /\ commands > 0
  /\ pinned \in {None, env.rt}
  /\ \A f \in File : Source(b, ReadFrom(b))[f] # None
  /\ commands' = commands - 1
  /\ job' = [q \in Run |->
       IF q = r THEN [cmd |-> "package", b |-> b, env |-> env, allow |-> allow,
                      from |-> [x \in Supplied(b) |-> ReadFrom(x)],
                      todo |-> <<"info", "lib">>, status |-> None, named |-> None,
                      packed |-> None, alone |-> others = {}, settled |-> settled]
       ELSE IF q \in others THEN [job[q] EXCEPT !.alone = FALSE] ELSE job[q]]
  /\ Goto(r, "closure")
  /\ UNCHANGED <<world, built, dist, history>>

\* The closure is checked before anything is staged, and its files again when
\* they are copied.
Closed(r) ==
  LET b == job[r].b IN
  /\ \A l \in Elements(Libs[b]) : state[l].listed
  /\ \A d \in Elements(Deps[b]) : \A f \in File : Source(d, job[r].from[d])[f] # None
Present(r) ==
  LET b == job[r].b IN
  /\ \A l \in Elements(Libs[b]) : state[l].snap # None
  /\ \A d \in Elements(Deps[b]) : Source(d, job[r].from[d])["lib"] # None

\* Every library has a listed snapshot and every dependency its outputs; then
\* the package stage is emptied.  Its path depends on the bundle only.
PrepareStage(r) ==
  LET b == job[r].b IN
  /\ At(r, "closure") /\ Closed(r)
  /\ state' = [state EXCEPT ![b].pkg = NoPackage]
  /\ Goto(r, "copy")
  /\ UNCHANGED <<world, prefix, tree, out, root, pinned, holder, dist, job, commands, history>>

\* The registration tree and then the libraries, as they are now.
CopyOutput(r) ==
  LET b == job[r].b
      f == Head(job[r].todo) IN
  /\ At(r, "copy") /\ job[r].todo # << >>
  /\ state' = [state EXCEPT ![b].pkg.files[f] = Source(b, job[r].from[b])[f]]
  /\ job' = [job EXCEPT ![r].todo = Tail(@)]
  /\ UNCHANGED <<world, prefix, tree, out, root, pinned, holder, dist, pc, commands, history>>

\* The files of the library snapshots and of the dependencies have to be there.
CopyClosure(r) ==
  LET b == job[r].b IN
  /\ At(r, "copy") /\ job[r].todo = << >> /\ Present(r)
  /\ state' = [state EXCEPT
       ![b].pkg.libs = [l \in Library |-> IF l \in Elements(Libs[b]) THEN state[l].snap ELSE None],
       ![b].pkg.deps = [d \in Bundle |-> IF d \in Elements(Deps[b])
                                         THEN Source(d, job[r].from[d])["lib"] ELSE None]]
  /\ Goto(r, "assess")
  /\ UNCHANGED <<world, prefix, tree, out, root, pinned, holder, dist, job, commands, history>>

\* The completion of the bundle's own build against the staged bytes.
LocalStatus(b, e, observed) ==
  LET done == tree[b].done
      lock == state[b].lock IN
  IF done = None /\ lock = None THEN "untracked"
  ELSE IF done = None \/ lock = None THEN "mismatched"
  ELSE IF lock.rt # e.rt \/ done.env # lock THEN "mismatched"
  ELSE IF done.outs = NoFiles THEN "untracked"
  ELSE IF done.outs = observed THEN "matched" ELSE "mismatched"

\* The completion of the root build; None where it says nothing of the bundle.
RootStatus(b, e, observed) ==
  IF root = None THEN None
  ELSE IF root.env.rt # e.rt THEN "mismatched"
  ELSE IF root.outs[b] = NoFiles THEN None
  ELSE IF root.outs[b] = observed THEN "matched" ELSE "mismatched"

\* A match with either producer wins; else evidence wins over its absence.
Combined(local, rooted) ==
  IF rooted = None \/ local = "matched" THEN local
  ELSE IF rooted = "matched" \/ local = "untracked" THEN rooted
  ELSE local

\* Mutant: the provenance is taken of the mutable outputs, not of the staged copy.
ObservedAtSource(r) == Source(job[r].b, job[r].from[job[r].b])
\* The digests are of the staged copy.
Observed(r) == state[job[r].b].pkg.files
Local(r) == LocalStatus(job[r].b, job[r].env, Observed(r))
Status(r) == Combined(Local(r), RootStatus(job[r].b, job[r].env, Observed(r)))
Accepted(r) == Status(r) = "mismatched" => job[r].allow

\* A mismatch refuses to package unless unmanaged output is allowed.
Assess(r) ==
  LET b == job[r].b IN
  /\ At(r, "assess") /\ Accepted(r)
  /\ job' = [job EXCEPT ![r].status = Status(r),
       ![r].named = IF Status(r) # "matched" THEN None
                    ELSE IF Local(r) = "matched" THEN tree[b].done
                    ELSE [env |-> root.env, outs |-> root.outs[b]]]
  /\ Goto(r, "pack")
  /\ UNCHANGED <<world, built, dist, commands, history>>

\* The archive is truncated, and then holds what the stage holds.
OpenArchive(r) ==
  /\ At(r, "pack")
  /\ dist' = [dist EXCEPT ![job[r].b].archive = Torn]
  /\ Goto(r, "packing")
  /\ UNCHANGED <<world, built, job, commands, history>>

Pack(r) ==
  LET b == job[r].b IN
  /\ At(r, "packing")
  /\ dist' = [dist EXCEPT ![b].archive = state[b].pkg]
  /\ job' = [job EXCEPT ![r].packed = state[b].pkg]
  /\ Goto(r, "manifest")
  /\ UNCHANGED <<world, built, commands, history>>

WriteManifest(r) ==
  LET j == job[r] IN
  /\ At(r, "manifest")
  /\ dist' = [dist EXCEPT ![j.b].manifest =
       [archive |-> j.packed, rt |-> j.env.rt, status |-> j.status, named |-> j.named,
        alone |-> j.alone,
        fresh |-> settled # None /\ j.settled = settled /\ settled[1] = j.b]]
  /\ Return(r)
  /\ UNCHANGED <<world, built, commands, history>>

-----------------------------------------------------------------------------
(* What the commands meet                                                  *)

\* The command ends early and cleans nothing up; the kernel gives the lease back.
GiveUp(r) ==
  /\ holder' = [b \in Bundle |-> IF holder[b] = r THEN Nobody ELSE holder[b]]
  /\ Return(r)
  /\ UNCHANGED <<env, src, prefix, tree, state, out, root, pinned, dist, commands, history>>

\* A step that lacks what it needs: a busy target, a file another run took away,
\* an incomplete closure, a mismatch that is not allowed.
Refuse(r) ==
  /\ \/ pc[r] \in BuildSteps /\ ~Ready(r)
     \/ At(r, "closure") /\ ~Closed(r)
     \/ At(r, "copy") /\ job[r].todo = << >> /\ ~Present(r)
     \/ At(r, "assess") /\ ~Accepted(r)
  /\ GiveUp(r)
  /\ UNCHANGED changes

\* CMake or a write fails, or the run dies, at any step.
Fail(r) ==
  /\ pc[r] # "idle" /\ changes > 0
  /\ changes' = changes - 1
  /\ GiveUp(r)

Change == /\ changes > 0
          /\ changes' = changes - 1
          /\ settled' = None
          /\ crossed' = (crossed \/ Active("build") # {})
          /\ UNCHANGED <<prefix, tree, pinned, holder, dist, pc, job, commands>>

Edit(m) == /\ Change
           /\ src' = [src EXCEPT ![m] = @ + 1]
           /\ UNCHANGED <<env, state, out, root>>

SwitchEnv(e) == /\ Change
                /\ e # env /\ env' = e
                /\ UNCHANGED <<src, state, out, root>>

\* Plain CMake, which knows no lease, rewrites one output of a bundle that no
\* managed build is writing.
Foreign(b) == [src |-> src[b], env |-> env, with |-> {}]
PlainCMake(b, f) ==
  /\ Change /\ holder[b] = Nobody
  /\ IF state[b].marked
     THEN state' = [state EXCEPT ![b].stage[f] = Foreign(b)] /\ UNCHANGED out
     ELSE out' = [out EXCEPT ![b][f] = Foreign(b)] /\ UNCHANGED state
  /\ UNCHANGED <<env, src, root>>

\* `ost build` at the project root writes every bundle's source tree and one
\* completion for all of them (ManagedTarget has its steps).
RootBuild ==
  /\ Change /\ \A b \in Bundle : holder[b] = Nobody
  /\ out' = [b \in Bundle |-> [f \in File |-> Foreign(b)]]
  /\ root' = [env |-> env, outs |-> out']
  /\ UNCHANGED <<env, src, state>>

BuildStep(r) ==
  \/ PrepareLibrary(r) \/ PrepareBundle(r) \/ Configure(r) \/ Identify(r)
  \/ Compile(r) \/ ClearStage(r) \/ InstallToPrefix(r)
  \/ \E f \in File : InstallFile(r, f)
  \/ Snapshot(r) \/ ListSnapshot(r) \/ CollectOutputs(r) \/ WriteLock(r)
  \/ WriteCompletion(r) \/ FinishBundle(r)
PackageStep(r) ==
  \/ PrepareStage(r) \/ CopyOutput(r) \/ CopyClosure(r) \/ Assess(r)
  \/ OpenArchive(r) \/ Pack(r) \/ WriteManifest(r)

Next ==
  \/ \E r \in Run :
       \/ \E b \in Bundle : StartBuild(r, b) \/ \E a \in BOOLEAN : StartPackage(r, b, a)
       \/ BuildStep(r) \/ PackageStep(r) \/ Refuse(r) \/ Fail(r)
  \/ \E m \in Member : Edit(m)
  \/ \E e \in Env : SwitchEnv(e)
  \/ \E b \in Bundle, f \in File : PlainCMake(b, f)
  \/ RootBuild

Spec == Init /\ [][Next]_vars

-----------------------------------------------------------------------------
(* Properties                                                              *)

\* Where the member at hand is a bundle whose lease the run has.
Leased == {"clear", "stage", "lock", "complete", "pin"}

\* The shape of the control state: a run that is past the lease of a bundle has
\* it, and nobody else's command is idle with a lease in hand.
TypeOK ==
  /\ env \in Env /\ commands \in 0..MaxCommands /\ changes \in 0..MaxChanges
  /\ \A r \in Run :
       \/ pc[r] = "idle" /\ job[r] = None
       \/ pc[r] \in BuildSteps /\ job[r].cmd = "build"
       \/ pc[r] \in PackageSteps /\ job[r].cmd = "package"
  /\ \A r \in Run : pc[r] \in Leased => holder[Current(r)] = r
  /\ \A b \in Bundle : holder[b] # Nobody => pc[holder[b]] \in BuildSteps \ {"member"}

OneCompile(outs, rt) ==
  \E f \in File : outs[f] # None /\ outs = [g \in File |-> outs[f]] /\ outs[f].env.rt = rt

\* plugin.rs: without the lease "two plugin builds can hash outputs from
\* different invocations into one apparently managed record".  A completion's
\* outputs come from one compile, with the runtime the completion names,
\* whatever else runs.
CompletionIsOneCompile ==
  \A b \in Bundle : tree[b].done # None /\ tree[b].done.outs # NoFiles =>
    OneCompile(tree[b].done.outs, tree[b].done.env.rt)

\* The provenance in the manifest "describes the bytes that will actually be
\* archived": a package said to match a managed build holds exactly the outputs
\* of that build, made with the runtime the manifest names, even if builds or
\* plain CMake rewrite them meanwhile -- unless two packagings of the bundle
\* share the package stage.
MatchedIsManaged ==
  \A b \in Bundle :
    LET m == dist[b].manifest IN
    m # None /\ m.alone /\ m.status = "matched" =>
      m.archive.files = m.named.outs /\ OneCompile(m.archive.files, m.rt)

\* A build that no other build, edit or runtime change crosses links members
\* built with its own runtime, whatever earlier builds left half done.
LinksOneRuntime ==
  ~crossed => \A b \in Bundle : tree[b].done # None =>
    \A f \in File : tree[b].done.outs[f] # None =>
      \A x \in tree[b].done.outs[f].with : x[3].rt = tree[b].done.env.rt

\* A package made after an undisturbed build of its bundle ships the libraries
\* and the providers that the bundle was linked with.
ShipsWhatItLinked ==
  \A b \in Bundle :
    LET m == dist[b].manifest IN
    m # None /\ m.alone /\ m.fresh /\ m.status = "matched" =>
      LET linked == m.archive.files["lib"].with IN
      \A x \in Links(b) :
        LET y == IF x \in Library THEN m.archive.libs[x] ELSE m.archive.deps[x]
        IN <<x, y.src, y.env>> \in linked

-----------------------------------------------------------------------------
(* However builds fail or interleave, a completion stands over the outputs *)
(* of one compile with its runtime, and a build nobody crossed linked      *)
(* members of that runtime only.                                           *)
BuildsAreOne ==
    /\ TypeOK
    /\ CompletionIsOneCompile
    /\ LinksOneRuntime

(* A package that says it matches a managed build holds the outputs of     *)
(* that build, and after an undisturbed one the libraries and providers    *)
(* they were linked with.                                                  *)
PackagesAreHonest ==
    /\ MatchedIsManaged
    /\ ShipsWhatItLinked
=============================================================================
