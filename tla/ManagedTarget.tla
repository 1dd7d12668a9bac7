---------------------------- MODULE ManagedTarget ----------------------------
(***************************************************************************)
(* One managed target and the commands that write and read it: `ost       *)
(* configure`, `ost build`, `ost test` and `ost package` run as separate  *)
(* processes over target.lock.json, the build trees (one per intent), the *)
(* build and test completion records and the target lease.  The lease is  *)
(* used through LeaseContract; CMake and CTest are external.              *)
(***************************************************************************)
EXTENDS Naturals

CONSTANTS Run,        \* invocations of ost
          Nobody,     \* no run
          Toolchain,  \* compiler and generator fingerprints
          Runtime,    \* runtime digests
          Flavor,     \* CMAKE_BUILD_TYPE: in the intent, not in the directory
          Intent,     \* build intents, one build directory each
          Default,    \* the intent whose directory is build/<id>
          Op,         \* the commands in use
          Mode,       \* the busy policies in use
          Fault,      \* the faults that may happen
          Before,     \* run -> the runs that are started before it
          Resolved,   \* run -> the configurations it may resolve
          None,       \* an absent file or value
          Torn,       \* a file or tree that is half written
          Gutted      \* a tree whose removal stopped half way

AllOps == {"configure", "build", "test", "package"}
AllModes == {"fail", "wait", "readOnly"}
AllFaults == {"death", "survivor", "removal", "write"}

Config == [toolchain : Toolchain, runtime : Runtime]
Job == [op : Op, mode : Mode, intent : Intent, flavor : Flavor, config : Config]
Bin == [config : Config, flavor : Flavor, by : Run]
Absent == {None, Torn, Gutted}
Tree == [cache : Config \cup {None}, bin : Bin \cup Absent]
Completion == [config : Config, flavor : Flavor, invocation : Run \cup {Nobody}]
TestRecord == [config : Config, flavor : Flavor, invocation : Run \cup {Nobody},
               passed : BOOLEAN, ran : Bin \cup Absent]
TestRun == [bin : Bin \cup Absent, passed : BOOLEAN]
Artifact == [config : Config, flavor : Flavor, bin : Bin \cup Absent]

ASSUME OpAssumption == Op \subseteq AllOps
ASSUME ModeAssumption == Mode \subseteq AllModes
ASSUME FaultAssumption == Fault \subseteq AllFaults
ASSUME DefaultAssumption == Default \in Intent
ASSUME BeforeAssumption == Before \in [Run -> SUBSET Run]
ASSUME ResolvedAssumption == Resolved \in [Run -> SUBSET Config]
ASSUME NobodyAssumption == Nobody \notin Run
ASSUME AbsentAssumption ==
  /\ None # Torn /\ None # Gutted /\ Torn # Gutted
  /\ Absent \cap (Config \cup Job \cup Bin \cup Completion \cup TestRecord
                  \cup TestRun \cup Artifact) = {}

VARIABLES lock,        \* target.lock.json
          tree,        \* intent -> its build directory
          completion,  \* intent -> .ost-build-complete.json
          tested,      \* intent -> .ost-test-complete.json
          artifact,    \* run -> what its `ost package` produced
          holder,      \* the target lease, as LeaseContract has it
          record,
          pc,          \* run -> the next step of its command
          job,         \* run -> its command and what it resolved at the start
          seen,        \* run -> the completion it validated before the lease
          inv,         \* run -> lease.invocation()
          ran,         \* run -> the tests it has run, not yet published
          orphan       \* run -> the work a CMake it left behind may still do

target == <<lock, tree, completion, tested>>
lease == <<holder, record>>
local == <<job, seen, inv, ran>>
vars == <<target, artifact, lease, pc, local, orphan>>

\* Where a run owns the lease; a read-only run passes the same steps without it.
Working == {"begun", "generating", "removing", "checking", "purging", "writing",
            "lockTorn", "generated",
            "configuring", "building", "compiling", "verifying", "testing", "ran",
            "releasing"}
ChildPhases == {"configuring", "building", "compiling"}
Ended == {"refused", "returned", "done", "dead"}
Steps == {"idle", "reading", "asking", "locked", "installing"} \cup Working \cup Ended

TypeOK ==
  /\ lock \in Config \cup {None, Torn}
  /\ tree \in [Intent -> Tree]
  /\ completion \in [Intent -> Completion \cup {None}]
  /\ tested \in [Intent -> TestRecord \cup {None}]
  /\ artifact \in [Run -> Artifact \cup {None}]
  /\ holder \in Run \cup {Nobody}
  /\ record \in Run \cup {Nobody}
  /\ pc \in [Run -> Steps]
  /\ job \in [Run -> Job \cup {None}]
  /\ seen \in [Run -> Completion \cup {None}]
  /\ inv \in [Run -> Run \cup {Nobody}]
  /\ ran \in [Run -> TestRun \cup {None}]
  /\ orphan \in [Run -> {"none", "configuring", "compiling"}]
  /\ \A r \in Run : pc[r] = "idle" <=> job[r] = None
  /\ \A r \in Run : pc[r] \in {"testing", "ran", "installing"} => seen[r] # None

Init ==
  /\ lock = None
  /\ tree = [i \in Intent |-> [cache |-> None, bin |-> None]]
  /\ completion = [i \in Intent |-> None]
  /\ tested = [i \in Intent |-> None]
  /\ artifact = [r \in Run |-> None]
  /\ holder = Nobody /\ record = Nobody
  /\ pc = [r \in Run |-> "idle"]
  /\ job = [r \in Run |-> None]
  /\ seen = [r \in Run |-> None]
  /\ inv = [r \in Run |-> Nobody]
  /\ ran = [r \in Run |-> None]
  /\ orphan = [r \in Run |-> "none"]

-----------------------------------------------------------------------------
\* Helpers

Goto(r, step) == pc' = [pc EXCEPT ![r] = step]

ReadOnly(r) == job[r].mode = "readOnly"

\* BuildCompletion::validate_against: the record is that of the locked target.
Validates(i) == lock \in Config /\ completion[i] # None /\ completion[i].config = lock

\* invalidate_build_tree_if_configuration_changed: an unreadable lock is none.
ToolchainChanged(c) == lock \in Config /\ lock.toolchain # c.toolchain

\* invalidate_build_tree_if_runtime_changed, from the tree's CMakeCache.txt.
RuntimeChanged(i, c) == tree[i].cache # None /\ tree[i].cache.runtime # c.runtime

\* Directory i and the records in it are gone.
RemoveTree(i) ==
  /\ tree' = [tree EXCEPT ![i] = [cache |-> None, bin |-> None]]
  /\ completion' = [completion EXCEPT ![i] = None]
  /\ tested' = [tested EXCEPT ![i] = None]

\* The run ends and its lease file is closed with the record left as it is.
CloseLease(r) == /\ holder' = IF holder = r THEN Nobody ELSE holder
                 /\ UNCHANGED record

\* The child of r ends with its phase, or some of it lives on and keeps writing:
\* a SIGKILLed ost reaps nothing, an interrupt between `spawn` and `set_active`
\* cannot name the child, and a timeout is content when the group's leader has
\* gone, its descendants or not.
MayLeaveChild(r) ==
  \/ UNCHANGED orphan
  \/ /\ "survivor" \in Fault /\ pc[r] \in ChildPhases
     /\ orphan' = [orphan EXCEPT ![r] =
                      IF pc[r] = "configuring" THEN "configuring" ELSE "compiling"]

\* Something that is left of a run may still write the directory of intent i.
Left(i) == \E r \in Run : orphan[r] # "none" /\ job[r].intent = i

-----------------------------------------------------------------------------
\* Every command: resolve, read what it needs, ask for the lease

\* The target and the compiler are resolved before the lease is asked for.
Start(r) ==
  /\ pc[r] = "idle" /\ \A q \in Before[r] : pc[q] # "idle"
  /\ \E j \in Job :
       /\ j.config \in Resolved[r]
       /\ j.op = "package" => j.mode = CHOOSE m \in Mode : TRUE
       /\ j.op = "configure" => j.intent = Default
       /\ j.op # "build" => j.flavor = CHOOSE f \in Flavor : TRUE
       /\ j.op = "test" => j.config = CHOOSE c \in Resolved[r] : TRUE
       /\ job' = [job EXCEPT ![r] = j]
       /\ Goto(r, IF j.op \in {"test", "package"} THEN "reading" ELSE "asking")
  /\ UNCHANGED <<target, artifact, lease, seen, inv, ran, orphan>>

\* test and package validate the completion on disk, without the lease.
ReadCompletion(r) ==
  /\ pc[r] = "reading" /\ Validates(job[r].intent)
  /\ job[r].op = "package" => lock.runtime = job[r].config.runtime
  /\ seen' = [seen EXCEPT ![r] = completion[job[r].intent]]
  /\ Goto(r, IF job[r].op = "package" THEN "installing" ELSE "asking")
  /\ UNCHANGED <<target, artifact, lease, job, inv, ran, orphan>>

RefuseUnbuilt(r) ==
  /\ pc[r] = "reading"
  /\ Validates(job[r].intent) =>
       job[r].op = "package" /\ lock.runtime # job[r].config.runtime
  /\ Goto(r, "refused")
  /\ UNCHANGED <<target, artifact, lease, local, orphan>>

LockTarget(r) ==
  /\ pc[r] = "asking" /\ ~ReadOnly(r) /\ holder = Nobody
  /\ holder' = r
  /\ Goto(r, "locked")
  /\ UNCHANGED <<target, artifact, record, local, orphan>>

\* TARGET_BUSY: at once, or when the time of a bounded wait runs out ("fail"
\* stands for both, "wait" for a wait without a deadline).
RefuseBusy(r) ==
  /\ pc[r] = "asking" /\ job[r].mode = "fail" /\ holder # Nobody
  /\ Goto(r, "refused")
  /\ UNCHANGED <<target, artifact, lease, local, orphan>>

FirstStep(r) == CASE job[r].op = "build" -> "begun"
                  [] job[r].op = "configure" -> "generating"
                  [] OTHER -> "testing"

\* The owner record is written over the one found; invocation() is this run.
ClaimTarget(r) ==
  /\ pc[r] = "locked"
  /\ record' = r
  /\ inv' = [inv EXCEPT ![r] = r]
  /\ Goto(r, FirstStep(r))
  /\ UNCHANGED <<target, artifact, holder, job, seen, ran, orphan>>

\* Mutant: a busy target is entered whatever the policy.
AttachWhenBusy(r) ==
  /\ pc[r] = "asking" /\ (ReadOnly(r) \/ holder # Nobody)
  /\ inv' = [inv EXCEPT ![r] = record]
  /\ Goto(r, FirstStep(r))
  /\ UNCHANGED <<target, artifact, lease, job, seen, ran, orphan>>

\* LeaseMode::ReadOnly: no lock, and invocation() is whoever the record names.
AttachReadOnly(r) ==
  /\ pc[r] = "asking" /\ ReadOnly(r)
  /\ inv' = [inv EXCEPT ![r] = record]
  /\ Goto(r, FirstStep(r))
  /\ UNCHANGED <<target, artifact, lease, job, seen, ran, orphan>>

\* Mutant: the release clears the record and forgets the lock.
ReleaseKeepsLock(r) ==
  /\ pc[r] = "releasing"
  /\ record' = IF ReadOnly(r) THEN record ELSE Nobody
  /\ Goto(r, "done")
  /\ UNCHANGED <<target, artifact, holder, local, orphan>>

\* lease.release(): the record is cleared and the lock dropped.
Release(r) ==
  /\ pc[r] = "releasing"
  /\ IF ReadOnly(r) THEN UNCHANGED lease ELSE holder' = Nobody /\ record' = Nobody
  /\ Goto(r, "done")
  /\ UNCHANGED <<target, artifact, local, orphan>>

\* An error returned through `?`: the lease is dropped, its record is not
\* cleared.  Snapshots, generate, the chainloaded toolchain file, the report
\* stamps and write_completion in build; the whole of generate in configure; the enumeration, a timed-out
\* CTest and the record's write in test.
EarlyReturn(r) ==
  /\ pc[r] \in {"begun", "generating", "purging", "writing", "lockTorn", "generated",
                "configuring", "verifying", "testing", "ran"}
  /\ pc[r] = "purging" => "removal" \in Fault
  /\ pc[r] = "lockTorn" => "write" \in Fault
  /\ CloseLease(r)
  /\ Goto(r, "returned")
  /\ UNCHANGED <<target, artifact, local, orphan>>

-----------------------------------------------------------------------------
\* generate_with_generator_mode, under configure and build

\* Mutant: the completion of the last build is left in place.
InvalidateNothing(r) ==
  /\ pc[r] = "begun"
  /\ Goto(r, "generating")
  /\ UNCHANGED <<target, artifact, lease, local, orphan>>

\* invalidate_completion: build removes its record before it touches the tree.
Invalidate(r) ==
  /\ pc[r] = "begun"
  /\ completion' = [completion EXCEPT ![job[r].intent] = None]
  /\ Goto(r, "generating")
  /\ UNCHANGED <<lock, tree, tested, artifact, lease, local, orphan>>

Exists(i) == tree[i] # [cache |-> None, bin |-> None]

\* remove_dir_all on directory i is under way: some of its files are gone, and
\* the records and the cache may or may not be among them.
Gut(i) ==
  \E cache \in {tree[i].cache, None}, c \in {completion[i], None}, t \in {tested[i], None} :
    /\ tree' = [tree EXCEPT ![i] = [cache |-> cache, bin |-> Gutted]]
    /\ completion' = [completion EXCEPT ![i] = c]
    /\ tested' = [tested EXCEPT ![i] = t]

\* A changed compiler or generator drops build/<id>, and only that directory.
DropForToolchain(r) ==
  /\ pc[r] = "generating" /\ ToolchainChanged(job[r].config) /\ Exists(Default)
  /\ Gut(Default)
  /\ Goto(r, "removing")
  /\ UNCHANGED <<lock, artifact, lease, local, orphan>>

\* A changed runtime drops it too.
DropForRuntime(r) ==
  /\ pc[r] = "checking" /\ RuntimeChanged(Default, job[r].config)
  /\ Gut(Default)
  /\ Goto(r, "purging")
  /\ UNCHANGED <<lock, artifact, lease, local, orphan>>

FinishRemoval(r) ==
  /\ pc[r] \in {"removing", "purging"}
  /\ RemoveTree(Default)
  /\ Goto(r, IF pc[r] = "removing" THEN "checking" ELSE "writing")
  /\ UNCHANGED <<lock, artifact, lease, local, orphan>>

\* A failed removal for the toolchain is ignored; for the runtime it is an
\* EarlyReturn.
IgnoreRemovalError(r) ==
  /\ "removal" \in Fault
  /\ pc[r] = "removing"
  /\ Goto(r, "checking")
  /\ UNCHANGED <<target, artifact, lease, local, orphan>>

KeepTree(r) ==
  /\ \/ /\ pc[r] = "generating"
        /\ ~ToolchainChanged(job[r].config) \/ ~Exists(Default)
        /\ Goto(r, "checking")
     \/ /\ pc[r] = "checking" /\ ~RuntimeChanged(Default, job[r].config)
        /\ Goto(r, "writing")
  /\ UNCHANGED <<target, artifact, lease, local, orphan>>

\* toolchain.cmake, env.json and target.lock.json are written in place.
TruncateLock(r) ==
  /\ pc[r] = "writing"
  /\ lock' = Torn
  /\ Goto(r, "lockTorn")
  /\ UNCHANGED <<tree, completion, tested, artifact, lease, local, orphan>>

WriteLock(r) ==
  /\ pc[r] = "lockTorn"
  /\ lock' = job[r].config
  /\ Goto(r, IF job[r].op = "configure" THEN "releasing" ELSE "generated")
  /\ UNCHANGED <<tree, completion, tested, artifact, lease, local, orphan>>

-----------------------------------------------------------------------------
\* The rest of `ost build`

\* The runtime check once more, on the directory of this build's intent (its
\* records are already gone, so a half-done removal is not told apart).
PrepareTree(r) ==
  LET i == job[r].intent IN
  /\ pc[r] = "generated"
  /\ IF RuntimeChanged(i, job[r].config)
     THEN RemoveTree(i) ELSE UNCHANGED <<tree, completion, tested>>
  /\ Goto(r, "configuring")
  /\ UNCHANGED <<lock, artifact, lease, local, orphan>>

\* `cmake --preset` (external): the compiler of a first configure stays in the
\* cache, the runtime's package directories are those of the toolchain file.
Configured(cache, c) ==
  IF cache = None THEN c ELSE [toolchain |-> cache.toolchain, runtime |-> c.runtime]

CMakeConfigure(r) ==
  LET i == job[r].intent IN
  /\ pc[r] = "configuring"
  /\ tree' = [tree EXCEPT ![i].cache = Configured(@, job[r].config)]
  /\ Goto(r, "building")
  /\ UNCHANGED <<lock, completion, tested, artifact, lease, local, orphan>>

\* `cmake --build` (external): objects appear one by one.
StartCompile(r) ==
  /\ pc[r] = "building"
  /\ tree' = [tree EXCEPT ![job[r].intent].bin = Torn]
  /\ Goto(r, "compiling")
  /\ UNCHANGED <<lock, completion, tested, artifact, lease, local, orphan>>

Product(r, c) == [config |-> c, flavor |-> job[r].flavor, by |-> r]

\* What is built is what the cache says, whoever configured it last.
FinishCompile(r) ==
  LET cache == tree[job[r].intent].cache IN
  /\ pc[r] = "compiling"
  /\ tree' = [tree EXCEPT ![job[r].intent].bin =
                Product(r, IF cache = None THEN job[r].config ELSE cache)]
  /\ Goto(r, "verifying")
  /\ UNCHANGED <<lock, completion, tested, artifact, lease, local, orphan>>

\* A failing or timed-out child, or an empty tree: handled, the lease released,
\* whether or not something of the child is left.
ChildFails(r) ==
  /\ pc[r] \in ChildPhases \cup {"verifying"}
  /\ MayLeaveChild(r)
  /\ Goto(r, "releasing")
  /\ UNCHANGED <<target, artifact, lease, local>>

\* write_completion: the lock is read back, the record written atomically.
WriteCompletion(r) ==
  /\ pc[r] = "verifying" /\ lock \in Config
  /\ completion' = [completion EXCEPT ![job[r].intent] =
       [config |-> lock, flavor |-> job[r].flavor, invocation |-> inv[r]]]
  /\ Goto(r, "releasing")
  /\ UNCHANGED <<lock, tree, tested, artifact, lease, local, orphan>>

-----------------------------------------------------------------------------
\* `ost test` and `ost package`

\* CTest (external) runs what is in the tree and passes or fails.
RunTests(r) ==
  /\ pc[r] = "testing"
  /\ \E passed \in BOOLEAN :
       ran' = [ran EXCEPT ![r] = [bin |-> tree[job[r].intent].bin, passed |-> passed]]
  /\ Goto(r, "ran")
  /\ UNCHANGED <<target, artifact, lease, job, seen, inv, orphan>>

\* No tests ran: nothing is recorded.
NoTests(r) ==
  /\ pc[r] = "testing"
  /\ Goto(r, "releasing")
  /\ UNCHANGED <<target, artifact, lease, local, orphan>>

\* The record binds the completion that was read before the lease was held.
WriteTestCompletion(r) ==
  /\ pc[r] = "ran"
  /\ tested' = [tested EXCEPT ![job[r].intent] =
       [config |-> seen[r].config, flavor |-> seen[r].flavor, invocation |-> inv[r],
        passed |-> ran[r].passed, ran |-> ran[r].bin]]
  /\ Goto(r, "releasing")
  /\ UNCHANGED <<lock, tree, completion, artifact, lease, local, orphan>>

\* `cmake --install` from the tree, then the archive; no lease is taken.
Install(r) ==
  /\ pc[r] = "installing"
  /\ artifact' = [artifact EXCEPT ![r] =
       [config |-> seen[r].config, flavor |-> seen[r].flavor,
        bin |-> tree[job[r].intent].bin]]
  /\ Goto(r, "done")
  /\ UNCHANGED <<target, lease, local, orphan>>

-----------------------------------------------------------------------------
\* The user and the operating system

\* Ctrl-C, SIGTERM or SIGKILL: the kernel frees the lock and the record stays.
Die(r) ==
  /\ "death" \in Fault
  /\ pc[r] \notin {"idle"} \cup Ended
  /\ MayLeaveChild(r)
  /\ CloseLease(r)
  /\ Goto(r, "dead")
  /\ UNCHANGED <<target, artifact, local>>

\* What is left of a run writes when it likes and as often as it likes, leased
\* or not: the cache in a configure, an object or the product in a build.  Its
\* compile commands are those of its own configure.
OrphanConfigures(r) ==
  /\ orphan[r] = "configuring"
  /\ tree' = [tree EXCEPT ![job[r].intent].cache = Configured(@, job[r].config)]
  /\ UNCHANGED <<lock, completion, tested, artifact, lease, pc, local, orphan>>

OrphanCompiles(r) ==
  LET i == job[r].intent IN
  /\ orphan[r] = "compiling"
  /\ \E bin \in {Torn, Product(r, Configured(tree[i].cache, job[r].config))} :
       tree' = [tree EXCEPT ![i].bin = bin]
  /\ UNCHANGED <<lock, completion, tested, artifact, lease, pc, local, orphan>>

LeaseStep(r) == \/ LockTarget(r) \/ ClaimTarget(r) \/ RefuseBusy(r)
                \/ AttachReadOnly(r) \/ Release(r) \/ EarlyReturn(r)
GenerateStep(r) == \/ Invalidate(r) \/ DropForToolchain(r) \/ DropForRuntime(r) \/ FinishRemoval(r)
                   \/ IgnoreRemovalError(r) \/ KeepTree(r) \/ TruncateLock(r) \/ WriteLock(r)
BuildStep(r) == \/ PrepareTree(r) \/ CMakeConfigure(r) \/ StartCompile(r)
                \/ FinishCompile(r) \/ ChildFails(r) \/ WriteCompletion(r)
ReaderStep(r) == \/ ReadCompletion(r) \/ RefuseUnbuilt(r)
                 \/ RunTests(r) \/ NoTests(r) \/ WriteTestCompletion(r) \/ Install(r)
RunStep(r) == LeaseStep(r) \/ GenerateStep(r) \/ BuildStep(r) \/ ReaderStep(r)

Next == \E r \in Run : \/ Start(r) \/ RunStep(r) \/ Die(r)
                       \/ OrphanConfigures(r) \/ OrphanCompiles(r)

Spec == Init /\ [][Next]_vars

\* A started run keeps going: its children are bounded by the phase timeouts.
FairSpec == Spec /\ \A r \in Run : WF_vars(RunStep(r))

-----------------------------------------------------------------------------
\* Properties

\* A completion on disk describes the tree beside it: the run it names built
\* that tree, with that runtime and configuration, and nothing has written it
\* since.  There are two exceptions: a tree that a removal is emptying (configure
\* removes it first, and a run that dies before it writes the lock leaves the
\* completion), and one that something left of an earlier run may still write.
RecordsDescribeTrees ==
  \A i \in Intent : completion[i] # None =>
    \/ tree[i].bin = Gutted \/ Left(i)
    \/ /\ tree[i].bin \in Bin
       /\ tree[i].bin.by = completion[i].invocation
       /\ tree[i].bin.flavor = completion[i].flavor
       /\ tree[i].bin.config.runtime = completion[i].config.runtime

\* A completion names the run that held the lease and did that build
\* (completion.rs: "The invocation that held the target lease while this build
\* ran").
RecordsBelongToRuns ==
  \A i \in Intent : completion[i] # None =>
    LET r == completion[i].invocation IN
    /\ r \in Run
    /\ job[r] # None
    /\ job[r].op = "build" /\ job[r].intent = i
    /\ job[r].flavor = completion[i].flavor /\ job[r].config = completion[i].config

\* Nobody was told to ignore the lease.
NoReadOnly == \A r \in Run : job[r] # None => ~ReadOnly(r)

\* build: "one transaction over one managed target".  Leased runs, however they
\* interleave, fail or die, leave no completion over a tree it does not describe,
\* in every directory that no survivor of theirs may write.
CompletionDescribesTree == NoReadOnly => RecordsDescribeTrees

\* Nor "a completion record that belonged to neither" of two runs (lease.rs),
\* whatever a survivor does to the tree.
CompletionBelongsToItsRun == NoReadOnly => RecordsBelongToRuns

\* The target's files change only by a step of the run that holds the lease,
\* but for the build directory of a run that left a child, where its lock and
\* both records are still out of the survivor's reach.
WrittenUnderLease ==
  [][NoReadOnly /\ target' # target =>
       \/ holder \in Run /\ pc'[holder] # pc[holder]
       \/ /\ UNCHANGED <<lock, completion, tested, pc>>
          /\ \A i \in Intent : tree'[i] # tree[i] => Left(i)]_vars

\* Every run that is started comes to an end: it is refused, returns or dies,
\* and nobody waits for a lease that is never given back.
EveryRunEnds == \A r \in Run : pc[r] # "idle" ~> pc[r] \in Ended

Contract == INSTANCE LeaseContract WITH evidence <- record

\* The commands use the lease the way LeaseContract allows.
UsesLease == Contract!Spec

-----------------------------------------------------------------------------
\* The inductive strengthening of the invariants above

\* Which command is at which step.
BuildPhases == {"begun", "generated", "configuring", "building", "compiling", "verifying"}
GeneratePhases == {"generating", "removing", "checking", "purging", "writing", "lockTorn"}
StepsBelongToOps ==
  \A r \in Run :
    /\ pc[r] \in BuildPhases => job[r].op = "build"
    /\ pc[r] \in GeneratePhases => job[r].op \in {"configure", "build"}
    /\ pc[r] \in {"testing", "ran"} => job[r].op = "test"
    /\ pc[r] \in {"asking", "locked"} => job[r].op # "package"
    /\ pc[r] = "reading" => job[r].op \in {"test", "package"}
    /\ pc[r] = "installing" => job[r].op = "package"

\* What was read is there when it is used.
LocalsAreSet ==
  \A r \in Run :
    /\ pc[r] \in {"asking", "locked"} /\ job[r].op = "test" => seen[r] \in Completion
    /\ pc[r] \in {"testing", "ran", "installing"} => seen[r] \in Completion
    /\ pc[r] = "ran" => ran[r] # None

TypeInv == /\ TypeOK /\ StepsBelongToOps /\ LocalsAreSet
           /\ \A r \in Run : orphan[r] # "none" => job[r] # None

\* The lock is held exactly by the writer that is between acquire and release.
HolderIsTheWriter ==
  \A r \in Run : /\ holder = r <=> pc[r] \in {"locked"} \cup Working /\ ~ReadOnly(r)
                 /\ pc[r] = "locked" => ~ReadOnly(r)

\* From Invalidate to WriteCompletion the writer's own tree has no completion.
NoCompletionWhileBuilding ==
  \A r \in Run : (pc[r] \in (GeneratePhases \cup BuildPhases) \ {"begun"} /\ job[r].op = "build")
                   => completion[job[r].intent] = None

\* What the writer has established by the time it publishes.
WriterProgress ==
  \A r \in Run :
    /\ pc[r] \in Working => inv[r] = r
    /\ pc[r] \in BuildPhases \ {"begun"} => lock = job[r].config
    /\ pc[r] \in {"building", "compiling"} /\ ~Left(job[r].intent) =>
         LET cache == tree[job[r].intent].cache IN
         cache # None /\ cache.runtime = job[r].config.runtime
    /\ pc[r] = "verifying" /\ ~Left(job[r].intent) =>
         LET b == tree[job[r].intent].bin IN
         /\ b \in Bin /\ b.by = r /\ b.flavor = job[r].flavor
         /\ b.config.runtime = job[r].config.runtime

TargetInv == /\ TypeInv /\ HolderIsTheWriter
             /\ NoCompletionWhileBuilding /\ WriterProgress
             /\ RecordsDescribeTrees /\ RecordsBelongToRuns
=============================================================================
