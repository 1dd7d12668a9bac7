------------------------ MODULE ManagedTarget_proofs ------------------------
(***************************************************************************)
(* The commands use the lease as LeaseContract allows, and - when nobody   *)
(* attaches read-only - a completion on disk names the run that built it  *)
(* and describes the tree beside it unless a child that outlived its run  *)
(* may still write there, for every set of runs, configurations and       *)
(* intents, with deaths, failed removals and failed writes at any step.   *)
(***************************************************************************)
EXTENDS ManagedTarget, TLAPS

\* The markers for absent files are not values of the records.
LEMMA Markers == /\ None \notin Config /\ Torn \notin Config
                 /\ None \notin Job /\ None \notin Completion /\ None \notin TestRecord
                 /\ None \notin Artifact /\ None \notin TestRun
                 /\ None \notin Bin /\ Torn \notin Bin /\ Gutted \notin Bin
BY AbsentAssumption DEF Absent

\* A run that has started has a job, and so has one that left a child.
LEMMA RunJob ==
  ASSUME TypeInv, NEW r \in Run, pc[r] # "idle" \/ orphan[r] # "none"
  PROVE  /\ job[r] \in Job
         /\ job[r].op \in Op /\ job[r].mode \in Mode /\ job[r].intent \in Intent
         /\ job[r].flavor \in Flavor /\ job[r].config \in Config
<1>1. job[r] \in Job
  BY DEF TypeInv, TypeOK
<1> QED BY <1>1 DEF Job

\* CMake's cache holds a configuration after a configure.
LEMMA ConfiguredType ==
  ASSUME NEW cache \in Config \cup {None}, NEW c \in Config
  PROVE  Configured(cache, c) \in Config /\ Configured(cache, c).runtime = c.runtime
BY DEF Configured, Config

\* What a build leaves in the tree.
LEMMA ProductType ==
  ASSUME NEW r \in Run, job[r] \in Job, NEW c \in Config
  PROVE  /\ Product(r, c) \in Bin
         /\ Product(r, c).by = r /\ Product(r, c).flavor = job[r].flavor
         /\ Product(r, c).config = c
BY DEF Product, Bin, Job

\* Where a command goes once it has the lease, or does without.
LEMMA FirstStepType ==
  ASSUME TypeInv, NEW r \in Run, pc[r] \in {"asking", "locked"}
  PROVE  /\ job[r] \in Job
         /\ FirstStep(r) \in {"begun", "generating", "testing"}
         /\ FirstStep(r) = "begun" => job[r].op = "build"
         /\ FirstStep(r) = "generating" => job[r].op = "configure"
         /\ FirstStep(r) = "testing" => job[r].op = "test"
<1>1. job[r] \in Job /\ job[r].op \in Op /\ job[r].op # "package"
  BY RunJob DEF TypeInv, StepsBelongToOps
<1>2. job[r].op \in {"configure", "build", "test"}
  BY <1>1, OpAssumption DEF AllOps
<1> QED BY <1>1, <1>2 DEF FirstStep

\* The initial state is well typed.
LEMMA InitTypeInv == Init => TypeInv
BY NobodyAssumption
DEF Init, TypeInv, TypeOK, StepsBelongToOps, LocalsAreSet, Tree, Absent, Steps, BuildPhases,
    GeneratePhases

\* Every step keeps the types, whatever the policies and the faults.
LEMMA NextTypeInv == TypeInv /\ [Next]_vars => TypeInv'
<1> SUFFICES ASSUME TypeInv, [Next]_vars PROVE TypeInv'
  OBVIOUS
<1> USE Markers, NobodyAssumption, DefaultAssumption
<1> USE DEF TypeInv, TypeOK, StepsBelongToOps, LocalsAreSet, Steps, Working, Ended, BuildPhases,
            GeneratePhases, ChildPhases, Goto, Absent, target, lease, local
<1>1. ASSUME NEW r \in Run, Start(r) PROVE TypeInv'
  <2>1. PICK j \in Job :
          /\ job' = [job EXCEPT ![r] = j]
          /\ Goto(r, IF j.op \in {"test", "package"} THEN "reading" ELSE "asking")
    BY <1>1 DEF Start
  <2>2. j.op \in AllOps
    BY OpAssumption DEF Job
  <2>3. pc[r] = "idle" /\ UNCHANGED <<target, artifact, lease, seen, inv, ran, orphan>>
    BY <1>1 DEF Start
  <2>4. \/ pc' = [pc EXCEPT ![r] = "reading"] /\ j.op \in {"test", "package"}
        \/ pc' = [pc EXCEPT ![r] = "asking"] /\ j.op \in {"configure", "build"}
    <3>1. CASE j.op \in {"test", "package"}
      BY <3>1, <2>1
    <3>2. CASE j.op \notin {"test", "package"}
      BY <3>2, <2>1, <2>2 DEF AllOps
    <3> QED BY <3>1, <3>2
  <2>5. job' \in [Run -> Job \cup {None}] /\ pc' \in [Run -> Steps]
    BY <2>1, <2>4
  <2>6. TypeOK'
    BY <2>1, <2>3, <2>4, <2>5
  <2>7. StepsBelongToOps'
    BY <2>1, <2>3, <2>4
  <2>8. LocalsAreSet' /\ \A o \in Run : orphan'[o] # "none" => job'[o] # None
    BY <2>1, <2>3, <2>4
  <2> QED BY <2>6, <2>7, <2>8 DEF TypeInv
<1>2. ASSUME NEW r \in Run, ReadCompletion(r) PROVE TypeInv'
  <2>1. pc[r] = "reading" /\ job[r] \in Job /\ job[r].intent \in Intent
        /\ job[r].op \in {"test", "package"}
    BY <1>2, RunJob DEF ReadCompletion
  <2>2. completion[job[r].intent] \in Completion
    BY <1>2, <2>1 DEF ReadCompletion, Validates
  <2>3. \/ pc' = [pc EXCEPT ![r] = "installing"] /\ job[r].op = "package"
        \/ pc' = [pc EXCEPT ![r] = "asking"] /\ job[r].op = "test"
    BY <1>2, <2>1 DEF ReadCompletion
  <2> QED BY <1>2, <2>1, <2>2, <2>3 DEF ReadCompletion
<1>3. ASSUME NEW r \in Run, RefuseUnbuilt(r) PROVE TypeInv'
  BY <1>3 DEF RefuseUnbuilt
<1>4. ASSUME NEW r \in Run, LockTarget(r) PROVE TypeInv'
  BY <1>4 DEF LockTarget, ReadOnly
<1>5. ASSUME NEW r \in Run, RefuseBusy(r) PROVE TypeInv'
  BY <1>5 DEF RefuseBusy
<1>6. ASSUME NEW r \in Run, ClaimTarget(r) PROVE TypeInv'
  BY <1>6, FirstStepType DEF ClaimTarget
<1>7. ASSUME NEW r \in Run, AttachReadOnly(r) PROVE TypeInv'
  BY <1>7, FirstStepType DEF AttachReadOnly
<1>8. ASSUME NEW r \in Run, Release(r) PROVE TypeInv'
  BY <1>8 DEF Release, ReadOnly
<1>9. ASSUME NEW r \in Run, EarlyReturn(r) PROVE TypeInv'
  BY <1>9 DEF EarlyReturn, CloseLease
<1>10. ASSUME NEW r \in Run, Invalidate(r) PROVE TypeInv'
  BY <1>10 DEF Invalidate
<1>11. ASSUME NEW r \in Run, DropForToolchain(r) PROVE TypeInv'
  BY <1>11 DEF DropForToolchain, Gut, Tree
<1>12. ASSUME NEW r \in Run, DropForRuntime(r) PROVE TypeInv'
  BY <1>12 DEF DropForRuntime, Gut, Tree
<1>13. ASSUME NEW r \in Run, FinishRemoval(r) PROVE TypeInv'
  BY <1>13 DEF FinishRemoval, RemoveTree, Tree
<1>14. ASSUME NEW r \in Run, IgnoreRemovalError(r) PROVE TypeInv'
  BY <1>14 DEF IgnoreRemovalError
<1>15. ASSUME NEW r \in Run, KeepTree(r) PROVE TypeInv'
  BY <1>15 DEF KeepTree
<1>16. ASSUME NEW r \in Run, TruncateLock(r) PROVE TypeInv'
  BY <1>16 DEF TruncateLock
<1>17. ASSUME NEW r \in Run, WriteLock(r) PROVE TypeInv'
  <2>1. job[r] \in Job /\ job[r].config \in Config /\ job[r].op \in Op
    BY <1>17, RunJob DEF WriteLock
  <2> QED BY <1>17, <2>1 DEF WriteLock
<1>18. ASSUME NEW r \in Run, PrepareTree(r) PROVE TypeInv'
  <2>1. job[r] \in Job /\ job[r].intent \in Intent /\ job[r].config \in Config
        /\ job[r].flavor \in Flavor
    BY <1>18, RunJob DEF PrepareTree
  <2>2. [cache |-> None, bin |-> None] \in Tree
    BY DEF Tree
  <2>3. tree' \in [Intent -> Tree] /\ completion' \in [Intent -> Completion \cup {None}]
        /\ tested' \in [Intent -> TestRecord \cup {None}]
    BY <1>18, <2>1, <2>2 DEF PrepareTree, RemoveTree
  <2> QED BY <1>18, <2>1, <2>3 DEF PrepareTree
<1>19. ASSUME NEW r \in Run, CMakeConfigure(r) PROVE TypeInv'
  <2>1. job[r] \in Job /\ job[r].intent \in Intent /\ job[r].config \in Config
        /\ job[r].flavor \in Flavor
    BY <1>19, RunJob DEF CMakeConfigure
  <2>2. tree[job[r].intent] \in Tree
    BY <2>1
  <2>3. Configured(tree[job[r].intent].cache, job[r].config) \in Config
    BY <2>1, <2>2, ConfiguredType DEF Tree
  <2> DEFINE t == [tree[job[r].intent] EXCEPT !.cache = Configured(tree[job[r].intent].cache, job[r].config)]
  <2>4. t \in Tree
    BY <2>2, <2>3 DEF Tree
  <2>5. tree' = [tree EXCEPT ![job[r].intent] = t]
    BY <1>19, <2>1 DEF CMakeConfigure
  <2> HIDE DEF t
  <2>6. tree' \in [Intent -> Tree]
    BY <2>1, <2>4, <2>5
  <2> QED BY <1>19, <2>1, <2>6 DEF CMakeConfigure
<1>20. ASSUME NEW r \in Run, StartCompile(r) PROVE TypeInv'
  <2>1. job[r] \in Job /\ job[r].intent \in Intent /\ job[r].config \in Config
        /\ job[r].flavor \in Flavor
    BY <1>20, RunJob DEF StartCompile
  <2>2. tree' \in [Intent -> Tree]
    BY <1>20, <2>1 DEF StartCompile, Tree
  <2> QED BY <1>20, <2>1, <2>2 DEF StartCompile
<1>21. ASSUME NEW r \in Run, FinishCompile(r) PROVE TypeInv'
  <2>1. job[r] \in Job /\ job[r].intent \in Intent /\ job[r].config \in Config
        /\ job[r].flavor \in Flavor
    BY <1>21, RunJob DEF FinishCompile
  <2> DEFINE cache == tree[job[r].intent].cache
  <2> DEFINE built == IF cache = None THEN job[r].config ELSE cache
  <2>2. built \in Config
    BY <2>1 DEF Tree
  <2>3. tree' = [tree EXCEPT ![job[r].intent].bin = Product(r, built)]
    BY <1>21 DEF FinishCompile
  <2> HIDE DEF built
  <2>4. Product(r, built) \in Bin
    BY <2>1, <2>2, ProductType
  <2>5. tree' \in [Intent -> Tree]
    BY <2>1, <2>3, <2>4 DEF Tree
  <2> QED BY <1>21, <2>1, <2>5 DEF FinishCompile
<1>22. ASSUME NEW r \in Run, ChildFails(r) PROVE TypeInv'
  BY <1>22 DEF ChildFails, MayLeaveChild
<1>23. ASSUME NEW r \in Run, WriteCompletion(r) PROVE TypeInv'
  <2>1. job[r] \in Job /\ job[r].intent \in Intent /\ job[r].config \in Config
        /\ job[r].flavor \in Flavor
    BY <1>23, RunJob DEF WriteCompletion
  <2>2. [config |-> lock, flavor |-> job[r].flavor, invocation |-> inv[r]] \in Completion
    BY <1>23, <2>1 DEF WriteCompletion, Completion
  <2>3. completion' \in [Intent -> Completion \cup {None}]
    BY <1>23, <2>1, <2>2 DEF WriteCompletion
  <2> QED BY <1>23, <2>1, <2>3 DEF WriteCompletion
<1>24. ASSUME NEW r \in Run, RunTests(r) PROVE TypeInv'
  <2>1. job[r] \in Job /\ job[r].intent \in Intent /\ job[r].config \in Config
        /\ job[r].flavor \in Flavor
    BY <1>24, RunJob DEF RunTests
  <2>2. tree[job[r].intent].bin \in Bin \cup Absent
    BY <2>1 DEF Tree
  <2>3. PICK passed \in BOOLEAN :
          ran' = [ran EXCEPT ![r] = [bin |-> tree[job[r].intent].bin, passed |-> passed]]
    BY <1>24 DEF RunTests
  <2> DEFINE t == [bin |-> tree[job[r].intent].bin, passed |-> passed]
  <2>4. t \in TestRun
    BY <2>2 DEF TestRun
  <2> HIDE DEF t
  <2>5. ran' = [ran EXCEPT ![r] = t]
    BY <2>3 DEF t
  <2> QED BY <1>24, <2>1, <2>4, <2>5 DEF RunTests
<1>25. ASSUME NEW r \in Run, NoTests(r) PROVE TypeInv'
  BY <1>25 DEF NoTests
<1>26. ASSUME NEW r \in Run, WriteTestCompletion(r) PROVE TypeInv'
  <2>1. job[r] \in Job /\ job[r].intent \in Intent /\ job[r].config \in Config
        /\ job[r].flavor \in Flavor
    BY <1>26, RunJob DEF WriteTestCompletion
  <2>2. seen[r] \in Completion /\ ran[r] \in TestRun
    BY <1>26 DEF WriteTestCompletion
  <2> DEFINE t == [config |-> seen[r].config, flavor |-> seen[r].flavor, invocation |-> inv[r],
                   passed |-> ran[r].passed, ran |-> ran[r].bin]
  <2>3. t \in TestRecord
    BY <2>2 DEF Completion, TestRecord, TestRun
  <2> HIDE DEF t
  <2>4. tested' = [tested EXCEPT ![job[r].intent] = t]
    BY <1>26 DEF WriteTestCompletion, t
  <2> QED BY <1>26, <2>1, <2>3, <2>4 DEF WriteTestCompletion
<1>27. ASSUME NEW r \in Run, Install(r) PROVE TypeInv'
  <2>1. job[r] \in Job /\ job[r].intent \in Intent /\ job[r].config \in Config
        /\ job[r].flavor \in Flavor
    BY <1>27, RunJob DEF Install
  <2>2. seen[r] \in Completion /\ tree[job[r].intent].bin \in Bin \cup Absent
    BY <1>27, <2>1 DEF Install, Tree
  <2> DEFINE a == [config |-> seen[r].config, flavor |-> seen[r].flavor,
                   bin |-> tree[job[r].intent].bin]
  <2>3. a \in Artifact
    BY <2>2 DEF Completion, Artifact
  <2> HIDE DEF a
  <2>4. artifact' = [artifact EXCEPT ![r] = a]
    BY <1>27 DEF Install, a
  <2> QED BY <1>27, <2>1, <2>3, <2>4 DEF Install
<1>28. ASSUME NEW r \in Run, Die(r) PROVE TypeInv'
  BY <1>28 DEF Die, CloseLease, MayLeaveChild
<1>29. ASSUME NEW r \in Run, OrphanConfigures(r) PROVE TypeInv'
  <2>1. job[r] \in Job /\ job[r].intent \in Intent /\ job[r].config \in Config
    BY <1>29, RunJob DEF OrphanConfigures
  <2> DEFINE c == Configured(tree[job[r].intent].cache, job[r].config)
  <2>2. c \in Config
    BY <2>1, ConfiguredType DEF Tree
  <2>3. tree' = [tree EXCEPT ![job[r].intent].cache = c]
    BY <1>29, <2>1 DEF OrphanConfigures
  <2> HIDE DEF c
  <2>4. tree' \in [Intent -> Tree]
    BY <2>1, <2>2, <2>3 DEF Tree
  <2> QED BY <1>29, <2>1, <2>4 DEF OrphanConfigures
<1>30. ASSUME NEW r \in Run, OrphanCompiles(r) PROVE TypeInv'
  <2>1. job[r] \in Job /\ job[r].intent \in Intent /\ job[r].config \in Config
    BY <1>30, RunJob DEF OrphanCompiles
  <2> DEFINE c == Configured(tree[job[r].intent].cache, job[r].config)
  <2>2. c \in Config
    BY <2>1, ConfiguredType DEF Tree
  <2>3. PICK bin \in {Torn, Product(r, c)} : tree' = [tree EXCEPT ![job[r].intent].bin = bin]
    BY <1>30 DEF OrphanCompiles
  <2> HIDE DEF c
  <2>4. bin \in Bin \cup Absent
    BY <2>1, <2>2, <2>3, ProductType
  <2>5. tree' \in [Intent -> Tree]
    BY <2>1, <2>3, <2>4 DEF Tree
  <2> QED BY <1>30, <2>1, <2>5 DEF OrphanCompiles
<1>31. CASE UNCHANGED vars
  BY <1>31 DEF vars
<1> QED
  BY <1>1, <1>2, <1>3, <1>4, <1>5, <1>6, <1>7, <1>8, <1>9, <1>10, <1>11, <1>12, <1>13, <1>14, <1>15, <1>16, <1>17, <1>18, <1>19, <1>20, <1>21, <1>22, <1>23, <1>24, <1>25, <1>26, <1>27, <1>28, <1>29, <1>30, <1>31
  DEF Next, RunStep, LeaseStep, GenerateStep, BuildStep, ReaderStep

\* Types of the target, its records and its runs, under every policy and fault.
THEOREM TargetTypes == Spec => []TypeOK
<1>1. Spec => []TypeInv
  BY InitTypeInv, NextTypeInv, PTL DEF Spec
<1>2. TypeInv => TypeOK
  BY DEF TypeInv
<1> QED BY <1>1, <1>2, PTL

-----------------------------------------------------------------------------
\* The lease: who holds it, and that the commands keep to its contract.

LeaseUse == TypeInv /\ HolderIsTheWriter

\* Between acquire and release a leased run holds the lock, and nobody else.
LEMMA NextHolder == LeaseUse /\ [Next]_vars => LeaseUse'
<1> SUFFICES ASSUME LeaseUse, [Next]_vars PROVE HolderIsTheWriter'
  BY NextTypeInv DEF LeaseUse
<1> USE NobodyAssumption DEF LeaseUse, TypeInv, TypeOK, HolderIsTheWriter, ReadOnly, Goto, Steps,
        Working, Ended, ChildPhases, target, lease, local
<1>1. ASSUME NEW r \in Run, Start(r) PROVE HolderIsTheWriter'
  <2>1. PICK j \in Job :
          /\ job' = [job EXCEPT ![r] = j]
          /\ Goto(r, IF j.op \in {"test", "package"} THEN "reading" ELSE "asking")
    BY <1>1 DEF Start
  <2>2. pc[r] = "idle" /\ UNCHANGED holder
    BY <1>1 DEF Start
  <2> QED BY <2>1, <2>2
<1>2. ASSUME NEW r \in Run, ReadCompletion(r) PROVE HolderIsTheWriter'
  BY <1>2 DEF ReadCompletion
<1>3. ASSUME NEW r \in Run, RefuseUnbuilt(r) \/ RefuseBusy(r) \/ Install(r)
      PROVE  HolderIsTheWriter'
  BY <1>3 DEF RefuseUnbuilt, RefuseBusy, Install
<1>4. ASSUME NEW r \in Run, LockTarget(r) PROVE HolderIsTheWriter'
  BY <1>4 DEF LockTarget
<1>5. ASSUME NEW r \in Run, ClaimTarget(r) PROVE HolderIsTheWriter'
  <2>1. FirstStep(r) \in Working
    BY DEF FirstStep
  <2> QED BY <1>5, <2>1 DEF ClaimTarget
<1>6. ASSUME NEW r \in Run, AttachReadOnly(r) PROVE HolderIsTheWriter'
  <2>1. FirstStep(r) \in Working
    BY DEF FirstStep
  <2> QED BY <1>6, <2>1 DEF AttachReadOnly
<1>7. ASSUME NEW r \in Run, Release(r) PROVE HolderIsTheWriter'
  BY <1>7 DEF Release
<1>8. ASSUME NEW r \in Run, EarlyReturn(r) PROVE HolderIsTheWriter'
  BY <1>8 DEF EarlyReturn, CloseLease
<1>9. ASSUME NEW r \in Run, Die(r) PROVE HolderIsTheWriter'
  BY <1>9 DEF Die, CloseLease
<1>10. ASSUME NEW r \in Run, OrphanConfigures(r) PROVE HolderIsTheWriter'
  BY <1>10 DEF OrphanConfigures
<1>11. ASSUME NEW r \in Run, Invalidate(r) \/ DropForToolchain(r) \/ DropForRuntime(r) \/ IgnoreRemovalError(r) \/ TruncateLock(r)
      PROVE  HolderIsTheWriter'
  BY <1>11 DEF Invalidate, DropForToolchain, DropForRuntime, IgnoreRemovalError, TruncateLock
<1>12. ASSUME NEW r \in Run, FinishRemoval(r) PROVE HolderIsTheWriter'
  BY <1>12 DEF FinishRemoval
<1>13. ASSUME NEW r \in Run, KeepTree(r) PROVE HolderIsTheWriter'
  BY <1>13 DEF KeepTree
<1>14. ASSUME NEW r \in Run, WriteLock(r) PROVE HolderIsTheWriter'
  BY <1>14 DEF WriteLock
<1>15. ASSUME NEW r \in Run, PrepareTree(r) \/ CMakeConfigure(r) \/ StartCompile(r) \/ FinishCompile(r)
      PROVE  HolderIsTheWriter'
  BY <1>15 DEF PrepareTree, CMakeConfigure, StartCompile, FinishCompile
<1>16. ASSUME NEW r \in Run, ChildFails(r) \/ WriteCompletion(r) \/ RunTests(r) \/ NoTests(r) \/ WriteTestCompletion(r)
      PROVE  HolderIsTheWriter'
  BY <1>16 DEF ChildFails, WriteCompletion, RunTests, NoTests, WriteTestCompletion
<1>17. ASSUME NEW r \in Run, OrphanCompiles(r) PROVE HolderIsTheWriter'
  BY <1>17 DEF OrphanCompiles
<1>18. CASE UNCHANGED vars
  BY <1>18 DEF vars
<1> QED
  BY <1>1, <1>2, <1>3, <1>4, <1>5, <1>6, <1>7, <1>8, <1>9, <1>10, <1>11, <1>12, <1>13, <1>14, <1>15, <1>16, <1>17, <1>18
  DEF Next, RunStep, LeaseStep, GenerateStep, BuildStep, ReaderStep

\* The lock is held exactly by the run that is between acquire and release.
LEMMA LeaseUseHolds == Spec => []LeaseUse
<1>1. Init => LeaseUse
  BY InitTypeInv, NobodyAssumption DEF Init, LeaseUse, HolderIsTheWriter, Working
<1> QED BY <1>1, NextHolder, PTL DEF Spec

\* Every step of a command is a step of the contract or leaves the lease alone.
LEMMA NextUsesLease == LeaseUse /\ [Next]_vars => [Contract!Next]_Contract!vars
<1> SUFFICES ASSUME LeaseUse, [Next]_vars PROVE Contract!Next \/ UNCHANGED lease
  BY DEF Contract!vars, lease
<1> USE NobodyAssumption DEF LeaseUse, TypeInv, TypeOK, HolderIsTheWriter, ReadOnly, Working, lease
<1>1. ASSUME NEW r \in Run, LockTarget(r) PROVE Contract!Acquire(r)
  BY <1>1 DEF LockTarget, Contract!Acquire
<1>2. ASSUME NEW r \in Run, ClaimTarget(r) PROVE Contract!Claim(r)
  <2>1. pc[r] = "locked" /\ record' = r /\ UNCHANGED holder
    BY <1>2 DEF ClaimTarget
  <2>2. holder = r \/ ReadOnly(r)
    BY <2>1
  <2>3. ~ReadOnly(r)
    BY <2>1
  <2> QED BY <2>1, <2>2, <2>3 DEF Contract!Claim
<1>3. ASSUME NEW r \in Run, Release(r) PROVE Contract!End(r) \/ UNCHANGED lease
  BY <1>3 DEF Release, Contract!End
<1>4. ASSUME NEW r \in Run, EarlyReturn(r) \/ Die(r)
      PROVE  Contract!End(r) \/ UNCHANGED lease
  BY <1>4 DEF EarlyReturn, Die, CloseLease, Contract!End
<1>5. ASSUME NEW r \in Run, Start(r) \/ RefuseBusy(r) \/ AttachReadOnly(r)
      PROVE  UNCHANGED lease
  BY <1>5 DEF Start, RefuseBusy, AttachReadOnly
<1>6. ASSUME NEW r \in Run, GenerateStep(r) PROVE UNCHANGED lease
  BY <1>6 DEF GenerateStep, Invalidate, DropForToolchain, DropForRuntime, FinishRemoval,
              IgnoreRemovalError, KeepTree, TruncateLock, WriteLock
<1>7. ASSUME NEW r \in Run, BuildStep(r) \/ OrphanConfigures(r) \/ OrphanCompiles(r)
      PROVE  UNCHANGED lease
  BY <1>7 DEF BuildStep, PrepareTree, CMakeConfigure, StartCompile, FinishCompile, ChildFails,
              WriteCompletion, OrphanConfigures, OrphanCompiles
<1>8. ASSUME NEW r \in Run, ReaderStep(r) PROVE UNCHANGED lease
  BY <1>8 DEF ReaderStep, ReadCompletion, RefuseUnbuilt, RunTests, NoTests, WriteTestCompletion,
              Install
<1>9. CASE UNCHANGED vars
  BY <1>9 DEF vars
<1> QED
  BY <1>1, <1>2, <1>3, <1>4, <1>5, <1>6, <1>7, <1>8, <1>9
  DEF Next, RunStep, LeaseStep, Contract!Next

\* Whatever the policies and the faults, the commands acquire, claim and end
\* their tenure of the target the way LeaseContract allows.
THEOREM CommandsUseLease == Spec => UsesLease
<1>1. Init => Contract!Init
  BY DEF Init, Contract!Init
<1> QED BY <1>1, LeaseUseHolds, NextUsesLease, PTL DEF Spec, UsesLease, Contract!Spec

-----------------------------------------------------------------------------
\* The completion records, when nobody attaches read-only.

\* Without read-only attaches one run at a time is at a step that writes.
LEMMA SoleWriter ==
  ASSUME LeaseUse, NoReadOnly, NEW r \in Run, pc[r] \in {"locked"} \cup Working
  PROVE  /\ holder = r
         /\ job[r] \in Job /\ job[r].intent \in Intent /\ job[r].config \in Config
         /\ \A s \in Run : s # r => pc[s] \notin {"locked"} \cup Working
<1>1. \A s \in Run : pc[s] \in {"locked"} \cup Working => holder = s
  <2> SUFFICES ASSUME NEW s \in Run, pc[s] \in {"locked"} \cup Working PROVE holder = s
    OBVIOUS
  <2>1. job[s] # None
    BY DEF LeaseUse, TypeInv, TypeOK, Working
  <2> QED BY <2>1 DEF LeaseUse, HolderIsTheWriter, NoReadOnly
<1>2. job[r] \in Job /\ job[r].intent \in Intent /\ job[r].config \in Config
  BY RunJob DEF LeaseUse, Working
<1> QED BY <1>1, <1>2

\* What was left of a run stays, and a job is never changed.
LEMMA LeftStays ==
  ASSUME TypeInv, [Next]_vars, NEW i \in Intent, Left(i)
  PROVE  Left(i)'
<1>1. PICK o \in Run : orphan[o] # "none" /\ job[o].intent = i /\ job[o] # None
  BY DEF Left, TypeInv
<1> SUFFICES orphan'[o] # "none" /\ job'[o] = job[o]
  BY <1>1 DEF Left
<1> USE <1>1 DEF TypeInv, TypeOK, local
<1>2. ASSUME NEW r \in Run, Start(r) PROVE UNCHANGED orphan /\ job'[o] = job[o]
  <2>1. r # o /\ \E j \in Job : job' = [job EXCEPT ![r] = j]
    BY <1>2 DEF Start
  <2> QED BY <1>2, <2>1 DEF Start
<1>3. ASSUME NEW r \in Run, LeaseStep(r) \/ GenerateStep(r) \/ ReaderStep(r)
      PROVE  UNCHANGED <<job, orphan>>
  BY <1>3 DEF LeaseStep, LockTarget, ClaimTarget, RefuseBusy, AttachReadOnly, Release, EarlyReturn,
     GenerateStep, Invalidate, DropForToolchain, DropForRuntime, FinishRemoval,
     IgnoreRemovalError, KeepTree, TruncateLock, WriteLock,
     ReaderStep, ReadCompletion, RefuseUnbuilt, RunTests, NoTests, WriteTestCompletion, Install
<1>4. ASSUME NEW r \in Run, MayLeaveChild(r) PROVE orphan'[o] # "none"
  BY <1>4 DEF MayLeaveChild
<1>5. ASSUME NEW r \in Run, BuildStep(r) \/ Die(r) PROVE orphan'[o] # "none" /\ UNCHANGED job
  BY <1>4, <1>5 DEF BuildStep, PrepareTree, CMakeConfigure, StartCompile, FinishCompile, ChildFails,
     WriteCompletion, Die
<1>6. ASSUME NEW r \in Run, OrphanConfigures(r) \/ OrphanCompiles(r) PROVE UNCHANGED <<job, orphan>>
  BY <1>6 DEF OrphanConfigures, OrphanCompiles
<1> QED BY <1>2, <1>3, <1>5, <1>6 DEF Next, RunStep, vars

\* The parts of TargetInv that are about the writer and what it publishes.
Published == /\ NoCompletionWhileBuilding /\ WriterProgress
             /\ RecordsDescribeTrees /\ RecordsBelongToRuns

\* Every step keeps TargetInv: per action, what it does to the published records.
LEMMA NextPublished ==
  ASSUME NoReadOnly, NoReadOnly', TargetInv, [Next]_vars
  PROVE  Published'
<1>0. \A i \in Intent : Left(i) => Left(i)'
  BY LeftStays DEF TargetInv
<1> USE <1>0
<1> USE NobodyAssumption, Markers, SoleWriter
<1> USE DEF LeaseUse, TargetInv, TypeInv, TypeOK, Published,
            NoCompletionWhileBuilding, WriterProgress, RecordsDescribeTrees,
            RecordsBelongToRuns, BuildPhases, GeneratePhases, ChildPhases, Goto, Working, Steps, Ended,
            target, lease, local
<1>1. ASSUME NEW r \in Run, Start(r) PROVE Published'
  <2>1. PICK j \in Job : job' = [job EXCEPT ![r] = j]
    BY <1>1 DEF Start
  <2>2. pc[r] = "idle" /\ pc' \in {[pc EXCEPT ![r] = "reading"], [pc EXCEPT ![r] = "asking"]}
        /\ UNCHANGED <<target, artifact, lease, seen, inv, ran, orphan>>
    BY <1>1 DEF Start
  <2> QED BY <2>1, <2>2
<1>2. ASSUME NEW r \in Run, ReadCompletion(r) PROVE Published'
  BY <1>2 DEF ReadCompletion
<1>3. ASSUME NEW r \in Run, RefuseUnbuilt(r) PROVE Published'
  BY <1>3 DEF RefuseUnbuilt
<1>4. ASSUME NEW r \in Run, LockTarget(r) PROVE Published'
  BY <1>4 DEF LockTarget
<1>5. ASSUME NEW r \in Run, RefuseBusy(r) PROVE Published'
  BY <1>5 DEF RefuseBusy
<1>6. ASSUME NEW r \in Run, ClaimTarget(r) PROVE Published'
  BY <1>6, FirstStepType DEF ClaimTarget
<1>7. ASSUME NEW r \in Run, AttachReadOnly(r) PROVE Published'
  <2>1. job[r] # None
    BY <1>7 DEF AttachReadOnly
  <2> QED BY <1>7, <2>1 DEF AttachReadOnly, NoReadOnly
<1>8. ASSUME NEW r \in Run, Release(r) PROVE Published'
  BY <1>8 DEF Release
<1>9. ASSUME NEW r \in Run, EarlyReturn(r) PROVE Published'
  BY <1>9 DEF EarlyReturn, CloseLease
<1>10. ASSUME NEW r \in Run, Invalidate(r) PROVE Published'
  BY <1>10 DEF Invalidate
<1>11. ASSUME NEW r \in Run, DropForToolchain(r) PROVE Published'
  BY <1>11 DEF DropForToolchain, Gut
<1>12. ASSUME NEW r \in Run, DropForRuntime(r) PROVE Published'
  BY <1>12 DEF DropForRuntime, Gut
<1>13. ASSUME NEW r \in Run, FinishRemoval(r) PROVE Published'
  BY <1>13 DEF FinishRemoval, RemoveTree
<1>14. ASSUME NEW r \in Run, IgnoreRemovalError(r) PROVE Published'
  BY <1>14 DEF IgnoreRemovalError
<1>15. ASSUME NEW r \in Run, KeepTree(r) PROVE Published'
  BY <1>15 DEF KeepTree
<1>16. ASSUME NEW r \in Run, TruncateLock(r) PROVE Published'
  BY <1>16 DEF TruncateLock
<1>17. ASSUME NEW r \in Run, WriteLock(r) PROVE Published'
  BY <1>17 DEF WriteLock
<1>18. ASSUME NEW r \in Run, PrepareTree(r) PROVE Published'
  BY <1>18 DEF PrepareTree, RemoveTree
<1>19. ASSUME NEW r \in Run, CMakeConfigure(r) PROVE Published'
  <2> DEFINE c == Configured(tree[job[r].intent].cache, job[r].config)
  <2>1. /\ pc[r] = "configuring" /\ pc' = [pc EXCEPT ![r] = "building"]
        /\ UNCHANGED <<lock, completion, job, inv, orphan>>
    BY <1>19 DEF CMakeConfigure
  <2>2. c \in Config /\ c.runtime = job[r].config.runtime
    BY <2>1, ConfiguredType DEF Tree
  <2>3. /\ \A i \in Intent : i # job[r].intent => tree'[i] = tree[i]
        /\ tree'[job[r].intent].cache = c
    BY <1>19, <2>1 DEF CMakeConfigure, Tree
  <2>4. completion[job[r].intent] = None
    BY <2>1 DEF StepsBelongToOps
  <2> HIDE DEF c, TypeOK
  <2>5. \A s \in Run : s # r => pc[s] \notin Working /\ pc'[s] = pc[s]
    BY <2>1
  <2>6. WriterProgress'
    BY <2>1, <2>2, <2>3, <2>5
  <2>7. RecordsDescribeTrees'
    BY <2>1, <2>3, <2>4
  <2> QED BY <2>1, <2>5, <2>6, <2>7
<1>20. ASSUME NEW r \in Run, StartCompile(r) PROVE Published'
  <2>1. /\ pc[r] = "building" /\ pc' = [pc EXCEPT ![r] = "compiling"]
        /\ UNCHANGED <<lock, completion, job, inv, orphan>>
    BY <1>20 DEF StartCompile
  <2>2. \A i \in Intent : i # job[r].intent => tree'[i] = tree[i]
    BY <1>20, <2>1 DEF StartCompile
  <2>3. completion[job[r].intent] = None /\ tree'[job[r].intent].cache = tree[job[r].intent].cache
    BY <1>20, <2>1 DEF StepsBelongToOps, StartCompile, Tree
  <2>4. \A s \in Run : s # r => pc[s] \notin Working /\ pc'[s] = pc[s]
    BY <2>1
  <2> HIDE DEF TypeOK
  <2>5. WriterProgress'
    BY <2>1, <2>3, <2>4
  <2>6. RecordsDescribeTrees'
    BY <2>1, <2>2, <2>3
  <2> QED BY <2>1, <2>4, <2>5, <2>6
<1>21. ASSUME NEW r \in Run, FinishCompile(r) PROVE Published'
  <2>1. /\ pc[r] = "compiling" /\ pc' = [pc EXCEPT ![r] = "verifying"]
        /\ UNCHANGED <<lock, completion, job, inv, orphan>>
    BY <1>21 DEF FinishCompile
  <2> DEFINE cache == tree[job[r].intent].cache
  <2> DEFINE built == IF cache = None THEN job[r].config ELSE cache
  <2>2. /\ built \in Config
        /\ ~Left(job[r].intent) => built.runtime = job[r].config.runtime
    BY <2>1 DEF Tree
  <2>3. /\ \A i \in Intent : i # job[r].intent => tree'[i] = tree[i]
        /\ tree'[job[r].intent].bin = Product(r, built)
    BY <1>21, <2>1 DEF FinishCompile, Tree
  <2>4. completion[job[r].intent] = None
    BY <2>1 DEF StepsBelongToOps
  <2> HIDE DEF built
  <2>5. /\ Product(r, built) \in Bin /\ Product(r, built).by = r
        /\ Product(r, built).flavor = job[r].flavor
        /\ ~Left(job[r].intent) => Product(r, built).config.runtime = job[r].config.runtime
    BY <2>1, <2>2, ProductType
  <2>6. \A s \in Run : s # r => pc[s] \notin Working /\ pc'[s] = pc[s]
    BY <2>1
  <2>7. /\ inv'[r] = r /\ lock' = job'[r].config /\ pc'[r] = "verifying"
        /\ ~Left(job[r].intent)' => ~Left(job[r].intent)
    BY <2>1
  <2> HIDE DEF TypeOK
  <2>8. WriterProgress'
    <3>1. \A s \in Run : s # r => pc'[s] \notin Working
      BY <2>6
    <3> QED BY <2>1, <2>3, <2>5, <2>7, <3>1
  <2>9. RecordsDescribeTrees'
    BY <2>1, <2>3, <2>4
  <2> QED BY <2>1, <2>6, <2>7, <2>8, <2>9
<1>22. ASSUME NEW r \in Run, ChildFails(r) PROVE Published'
  BY <1>22 DEF ChildFails
<1>23. ASSUME NEW r \in Run, WriteCompletion(r) PROVE Published'
  <2> DEFINE i == job[r].intent
  <2> DEFINE c == [config |-> lock, flavor |-> job[r].flavor, invocation |-> inv[r]]
  <2>1. /\ pc[r] = "verifying" /\ pc' = [pc EXCEPT ![r] = "releasing"]
        /\ UNCHANGED <<lock, tree, job, inv, orphan>>
    BY <1>23 DEF WriteCompletion
  <2>2. /\ i \in Intent /\ completion'[i] = c
        /\ \A k \in Intent : k # i => completion'[k] = completion[k]
    BY <1>23, <2>1 DEF WriteCompletion
  <2>3. /\ c.invocation = r /\ c.config = job[r].config /\ c.flavor = job[r].flavor
        /\ job[r] # None /\ job[r].op = "build"
    BY <2>1 DEF StepsBelongToOps
  <2>4. ~Left(i) =>
          /\ tree[i].bin \in Bin /\ tree[i].bin.by = r /\ tree[i].bin.flavor = job[r].flavor
          /\ tree[i].bin.config.runtime = job[r].config.runtime
    BY <2>1
  <2> HIDE DEF c, i
  <2>5. RecordsDescribeTrees'
    BY <2>1, <2>2, <2>3, <2>4
  <2>6. RecordsBelongToRuns'
    BY <2>1, <2>2, <2>3 DEF i
  <2>7. NoCompletionWhileBuilding' /\ WriterProgress'
    BY <2>1
  <2> QED BY <2>5, <2>6, <2>7
<1>24. ASSUME NEW r \in Run, RunTests(r) PROVE Published'
  BY <1>24 DEF RunTests
<1>25. ASSUME NEW r \in Run, NoTests(r) PROVE Published'
  BY <1>25 DEF NoTests
<1>26. ASSUME NEW r \in Run, WriteTestCompletion(r) PROVE Published'
  BY <1>26 DEF WriteTestCompletion
<1>27. ASSUME NEW r \in Run, Install(r) PROVE Published'
  BY <1>27 DEF Install
<1>28. ASSUME NEW r \in Run, Die(r) PROVE Published'
  BY <1>28 DEF Die, CloseLease
<1>29. ASSUME NEW r \in Run, OrphanConfigures(r) \/ OrphanCompiles(r) PROVE Published'
  <2>1. /\ orphan[r] # "none"
        /\ UNCHANGED <<lock, completion, pc, job, inv>>
        /\ \A i \in Intent : i # job[r].intent => tree'[i] = tree[i]
    BY <1>29 DEF OrphanConfigures, OrphanCompiles
  <2>2. Left(job[r].intent) /\ Left(job[r].intent)'
    BY <2>1, RunJob DEF Left
  <2> QED BY <2>1, <2>2
<1>31. CASE UNCHANGED vars
  BY <1>31 DEF vars
<1> QED
  BY <1>1, <1>2, <1>3, <1>4, <1>5, <1>6, <1>7, <1>8, <1>9, <1>10, <1>11, <1>12, <1>13, <1>14, <1>15, <1>16, <1>17, <1>18, <1>19, <1>20, <1>21, <1>22, <1>23, <1>24, <1>25, <1>26, <1>27, <1>28, <1>29, <1>31
  DEF Next, RunStep, LeaseStep, GenerateStep, BuildStep, ReaderStep

\* A read-only job stays one.
LEMMA StaysReadOnly ==
  ASSUME TypeInv, [Next]_vars, NoReadOnly'
  PROVE  NoReadOnly
<1> USE DEF TypeInv, TypeOK, NoReadOnly, ReadOnly, local
<1>1. ASSUME NEW r \in Run, Start(r) PROVE NoReadOnly
  <2>1. pc[r] = "idle" /\ job[r] = None /\ \E j \in Job : job' = [job EXCEPT ![r] = j]
    BY <1>1 DEF Start
  <2> QED BY <2>1
<1>2. ASSUME NEW r \in Run, LeaseStep(r) \/ GenerateStep(r) \/ ReaderStep(r) PROVE UNCHANGED job
  BY <1>2 DEF LeaseStep, LockTarget, ClaimTarget, RefuseBusy, AttachReadOnly, Release, EarlyReturn,
     GenerateStep, Invalidate, DropForToolchain, DropForRuntime, FinishRemoval,
     IgnoreRemovalError, KeepTree, TruncateLock, WriteLock,
     ReaderStep, ReadCompletion, RefuseUnbuilt, RunTests, NoTests, WriteTestCompletion, Install
<1>3. ASSUME NEW r \in Run, BuildStep(r) \/ Die(r) \/ OrphanConfigures(r) \/ OrphanCompiles(r)
      PROVE  UNCHANGED job
  BY <1>3 DEF BuildStep, PrepareTree, CMakeConfigure, StartCompile, FinishCompile, ChildFails,
     WriteCompletion, Die, OrphanConfigures, OrphanCompiles
<1> QED BY <1>1, <1>2, <1>3 DEF Next, RunStep, vars

\* TargetInv holds as long as nobody attaches read-only.
LEMMA TargetInvHolds == Spec => [](TypeInv /\ (NoReadOnly => TargetInv))
<1>1. Init => TypeInv /\ TargetInv
  BY InitTypeInv, NobodyAssumption
  DEF Init, TargetInv, HolderIsTheWriter, NoCompletionWhileBuilding, WriterProgress,
      RecordsDescribeTrees, RecordsBelongToRuns, Working, BuildPhases, GeneratePhases
<1>2. TypeInv /\ (NoReadOnly => TargetInv) /\ [Next]_vars => TypeInv' /\ (NoReadOnly' => TargetInv')
  BY NextTypeInv, StaysReadOnly, NextHolder, NextPublished DEF TargetInv, LeaseUse, Published
<1> QED BY <1>1, <1>2, PTL DEF Spec

\* A completion on disk describes the tree beside it, however many runs, of
\* whatever configurations, die, fail to remove or fail to write, in every
\* directory that no child which outlived its run may write.
THEOREM CompletionsDescribeTrees ==
  Spec => []CompletionDescribesTree
<1>1. (NoReadOnly => TargetInv) => CompletionDescribesTree
  BY DEF TargetInv, CompletionDescribesTree
<1> QED BY TargetInvHolds, <1>1, PTL

\* A completion on disk names the run whose build it records.
THEOREM CompletionsBelongToTheirRuns ==
  Spec => []CompletionBelongsToItsRun
<1>1. (NoReadOnly => TargetInv) => CompletionBelongsToItsRun
  BY DEF TargetInv, CompletionBelongsToItsRun
<1> QED BY TargetInvHolds, <1>1, PTL

\* The target's files are written by the holder of its lease, and a build
\* directory besides only by a child that outlived a run over that directory.
THEOREM TargetIsWrittenUnderLease ==
  Spec => WrittenUnderLease
<1> DEFINE BySurvivor == /\ UNCHANGED <<lock, completion, tested, pc>>
                         /\ \A i \in Intent : tree'[i] # tree[i] => Left(i)
<1> DEFINE Owned == NoReadOnly /\ target' # target =>
                      (holder \in Run /\ pc'[holder] # pc[holder]) \/ BySurvivor
<1>1. ASSUME NoReadOnly => TargetInv, [Next]_vars PROVE [Owned]_vars
  <2> SUFFICES ASSUME NoReadOnly, Next, target' # target
               PROVE  (holder \in Run /\ pc'[holder] # pc[holder]) \/ BySurvivor
    BY <1>1 DEF vars
  <2> USE <1>1, SoleWriter DEF TargetInv, LeaseUse, TypeInv, TypeOK, Goto, Working, target, local
  <2>1. ASSUME NEW r \in Run, GenerateStep(r) PROVE holder = r /\ pc'[r] # pc[r]
    BY <2>1 DEF GenerateStep, Invalidate, DropForToolchain, DropForRuntime, FinishRemoval,
                IgnoreRemovalError, KeepTree, TruncateLock, WriteLock
  <2>2. ASSUME NEW r \in Run, BuildStep(r) PROVE holder = r /\ pc'[r] # pc[r]
    BY <2>2 DEF BuildStep, PrepareTree, CMakeConfigure, StartCompile, FinishCompile, ChildFails,
                WriteCompletion, ChildPhases
  <2>3. ASSUME NEW r \in Run, ReaderStep(r) PROVE holder = r /\ pc'[r] # pc[r]
    BY <2>3 DEF ReaderStep, ReadCompletion, RefuseUnbuilt, RunTests, NoTests,
                WriteTestCompletion, Install
  <2>4. ASSUME NEW r \in Run, LeaseStep(r) \/ Start(r) \/ Die(r) PROVE FALSE
    BY <2>4 DEF LeaseStep, LockTarget, ClaimTarget, RefuseBusy, AttachReadOnly, Release,
                EarlyReturn, Start, Die
  <2>5. ASSUME NEW r \in Run, OrphanConfigures(r) \/ OrphanCompiles(r) PROVE BySurvivor
    <3>1. /\ orphan[r] # "none" /\ UNCHANGED <<lock, completion, tested, pc>>
          /\ \A i \in Intent : i # job[r].intent => tree'[i] = tree[i]
      BY <2>5 DEF OrphanConfigures, OrphanCompiles
    <3> QED BY <3>1 DEF Left
  <2> HIDE DEF BySurvivor
  <2> QED BY <2>1, <2>2, <2>3, <2>4, <2>5 DEF Next, RunStep
<1> QED BY <1>1, TargetInvHolds, PTL DEF Spec, WrittenUnderLease

=============================================================================
