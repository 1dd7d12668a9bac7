-------------------------- MODULE Composition_proofs --------------------------
(***************************************************************************)
(* Proofs about runtime compositions: RuntimeComposition, for any number   *)
(* of processes, manifests and destinations and without a bound on         *)
(* commands and faults, and CompositionResolve, for any manifests and      *)
(* artifacts.  The two share no variable: the second resolves what the     *)
(* first locks.                                                            *)
(***************************************************************************)
EXTENDS RuntimeComposition, CompositionResolve, FiniteSetTheorems, TLAPS

------------------------------------------------------------------------------
(* RuntimeComposition.                                                     *)

\* A consumer manifest that is true of its artifact.
TrueManifest(m) == m.identity = m.artifact /\ m.artifact.sdk

\* An artifact the store has and lists, or has lost from its index to a race.
Kept(l) == composed[l] # NONE /\ l \in index \cup dropped

\* What the step of a process says about the files: a staged prefix was verified
\* and is the locked one; whoever loads was verified; no destination of the
\* loader disappears.
StepOK(s) ==
  /\ s.pc \in {"stage", "publish"} /\ s.expected # NONE => s.lock = s.expected
  /\ s.pc = "publish" => Verifies(s.staged) /\ s.staged.lock = s.lock
  /\ s.pc = "embed" => manifest # NONE
  /\ s.pc \in {"import", "imported", "verify"} =>
       package # NONE /\ (faults = 0 => s.manifest = package.manifest)
  /\ s.pc = "imported" => composed[s.artifact] # NONE
  /\ s.pc = "imported" /\ faults = 0 => s.artifact = s.manifest.artifact \/ Kept(s.manifest.artifact)
  /\ s.pc = "verify" /\ faults = 0 => Kept(s.manifest.artifact)
  /\ s.pc \in {"rebuild", "rename", "observe", "active"} => s.manifest \in verified
  /\ s.pc = "rename" => Verifies(s.staged) /\ s.staged.lock = s.manifest.artifact
  /\ s.pc = "observe" => cache[Identity(s.manifest)] # NONE
  /\ s.pc = "active" => /\ Verifies(s.loaded)
                        /\ RuntimeDigest(s.loaded.lock) = Identity(s.manifest)
  /\ s.pc = "failed" => faults > 0 \/ s.manifest.artifact \in dropped

\* What is on disk: prefixes, artifacts and the cache hold what their lock records
\* and only a fault edits them; what was verified stays true and stored; without a
\* fault manifest and package are true.
FilesOK ==
  /\ \A d \in Dests : prefix[d] # NONE => prefix[d].meta = prefix[d].lock.meta
  /\ ExportedIsVerified
  /\ \A i \in Digests : cache[i] # NONE =>
       /\ RuntimeDigest(cache[i].lock) = i /\ cache[i].meta = cache[i].lock.meta
       /\ cache[i].edited => faults > 0
  /\ \A m \in verified : m.identity = m.artifact /\ Kept(m.artifact)
  /\ bindings \subseteq verified
  /\ faults = 0 /\ manifest # NONE =>
       TrueManifest(manifest) /\ (package = NONE => Kept(manifest.artifact))
  /\ faults = 0 /\ package # NONE =>
       /\ TrueManifest(package.manifest) /\ package.whole
       /\ \/ package.artifact = package.manifest.artifact
          \/ Kept(package.manifest.artifact)

CompositionInv == TypeOK /\ FilesOK /\ \A p \in Procs : StepOK(proc[p])

-----------------------------------------------------------------------------
\* The invariant implies the property of the run.
LEMMA InvImpliesVerified == CompositionInv => CompositionIsVerified
  <1> SUFFICES ASSUME CompositionInv PROVE CompositionIsVerified
    OBVIOUS
  <1>1. UntouchedVerifies
    BY DEF CompositionInv, FilesOK, UntouchedVerifies, Verifies
  <1>2. ActiveIsVerified
    BY DEF CompositionInv, StepOK, ActiveIsVerified, At, Me
  <1>3. RaceLosesEntriesOnly
    BY DEF CompositionInv, TypeOK, StepOK, RaceLosesEntriesOnly, At, Me
  <1> QED
    BY <1>1, <1>2, <1>3 DEF CompositionInv, FilesOK, CompositionIsVerified

\* Where the system starts.
LEMMA InitHasInv == Init => CompositionInv
  <1> SUFFICES ASSUME Init PROVE CompositionInv
    OBVIOUS
  <1>1. PICK l \in [request : {request}, meta : Metas, sdk : {TRUE}] :
          \/ package = NONE /\ manifest = NONE /\ composed = [k \in Locks |-> NONE]
          \/ /\ package \in {NONE, Packaged(l)}
             /\ manifest = Packaged(l).manifest
             /\ composed = [k \in Locks |-> IF k = l /\ package = NONE THEN Fresh(l) ELSE NONE]
    BY DEF Init
  <1>2. l \in Locks /\ l.sdk
    BY DEF Init, Locks
  <1>3. Fresh(l) \in Prefixes /\ Fresh(l).lock = l /\ Fresh(l).meta = l.meta /\ ~Fresh(l).edited
    BY <1>2 DEF Fresh, Prefixes, Locks
  <1>4. /\ Packaged(l) \in Packages /\ Packaged(l).manifest \in Manifests
        /\ TrueManifest(Packaged(l).manifest) /\ Packaged(l).whole
        /\ Packaged(l).artifact = l /\ Packaged(l).manifest.artifact = l
    BY <1>2 DEF Packaged, Packages, Manifests, TrueManifest
  <1>5. TypeOK
    <2>1. composed \in [Locks -> Maybe(Prefixes)]
      BY <1>1, <1>2, <1>3 DEF Maybe
    <2>2. manifest \in Maybe(Manifests) /\ package \in Maybe(Packages)
      BY <1>1, <1>4 DEF Maybe
    <2>3. lockFile \in Locks \cup {NONE, Torn}
      BY DEF Init, Locks
    <2>4. proc \in [Procs -> States]
      BY DEF Init, States
    <2>5. prefix \in [Dests -> Maybe(Prefixes)] /\ cache \in [Digests -> Maybe(Prefixes)]
      BY DEF Init, Maybe
    <2>6. request \in Requests /\ source \in Maybe(Metas) /\ bindings \subseteq Manifests
          /\ verified \subseteq Manifests /\ commands \in Nat /\ faults \in Nat
          /\ input \in [held : BOOLEAN, intact : BOOLEAN, meta : Metas]
          /\ index \subseteq Listable /\ dropped \subseteq Listable
      BY DEF Init, Maybe, Listable
    <2> QED
      BY <2>1, <2>2, <2>3, <2>4, <2>5, <2>6 DEF TypeOK
  <1>6. /\ \A k \in Locks : composed[k] # NONE => k = l /\ composed[k] = Fresh(l)
        /\ manifest # NONE /\ package = NONE => Kept(l)
        /\ manifest \in {NONE, Packaged(l).manifest} /\ package \in {NONE, Packaged(l)}
    <2>1. \A k \in Locks : composed[k] # NONE => k \in index
      BY DEF Init
    <2> QED
      BY <1>1, <1>2, <1>3, <2>1, NoneAssumption DEF Kept
  <1>7. FilesOK
    <2>1. ExportedIsVerified
      BY <1>3, <1>6 DEF ExportedIsVerified
    <2>2. manifest # NONE => TrueManifest(manifest) /\ manifest.artifact = l
      BY <1>4, <1>6
    <2> QED
      BY <1>4, <1>6, <2>1, <2>2 DEF Init, FilesOK
  <1>8. \A p \in Procs : StepOK(proc[p])
    BY DEF Init, StepOK, Idle
  <1> QED
    BY <1>5, <1>7, <1>8 DEF CompositionInv

-----------------------------------------------------------------------------
\* What files never lose, whoever steps.
Grows ==
  /\ faults \in Nat /\ faults' \in Nat /\ faults <= faults'
  /\ manifest # NONE => manifest' # NONE
  /\ package # NONE => package' # NONE /\ (faults' = 0 => package' = package)
  /\ verified \subseteq verified'
  /\ \A i \in Digests : cache[i] # NONE => cache'[i] # NONE
  /\ \A l \in Locks : composed[l] # NONE => composed'[l] # NONE
  /\ dropped \subseteq dropped'
  /\ \A l \in Locks : l \in index \cup dropped => l \in index' \cup dropped'

\* An identity of a manifest is one the cache is keyed by.
LEMMA IdentityIsADigest == ASSUME NEW m \in Manifests PROVE Identity(m) \in Digests /\ m.artifact \in Locks
  BY DEF Identity, Digests, Manifests

\* What a process that does not step relies on stays.
LEMMA StepsStay ==
  ASSUME Grows, NEW q \in Procs, proc[q] \in States, proc'[q] = proc[q], StepOK(proc[q])
  PROVE  StepOK(proc[q])'
  <1> DEFINE s == proc[q]
  <1>1. /\ s.pc \in {"imported", "verify", "observe"} => s.manifest \in Manifests
        /\ s.pc = "imported" => s.artifact \in Locks
    BY DEF States, Idle
  <1>2. s.pc = "observe" => Identity(s.manifest) \in Digests
    BY <1>1, IdentityIsADigest
  <1>3. s.pc \in {"imported", "verify"} => s.manifest.artifact \in Locks
    BY <1>1, IdentityIsADigest
  <1>4. (faults' = 0 => faults = 0) /\ (faults > 0 => faults' > 0)
    BY DEF Grows
  <1> QED
    BY <1>1, <1>2, <1>3, <1>4 DEF StepOK, Kept, Grows, Verifies, RuntimeDigest, Identity

\* A step of one process that takes nothing away.
LEMMA ProcessSteps ==
  ASSUME CompositionInv, NEW p \in Procs, \A q \in Procs \ {p} : proc'[q] = proc[q], Grows,
         TypeOK', FilesOK', StepOK(proc[p])'
  PROVE  CompositionInv'
  <1>1. ASSUME NEW q \in Procs, q # p PROVE StepOK(proc[q])'
    <2>1. proc'[q] = proc[q] /\ proc[q] \in States /\ StepOK(proc[q])
      BY <1>1 DEF CompositionInv, TypeOK
    <2> QED
      BY <2>1, StepsStay
  <1> QED
    BY <1>1 DEF CompositionInv

\* A step that changes no file.
LEMMA QuietStep ==
  ASSUME CompositionInv, NEW p \in Procs, UNCHANGED <<files, faults>>, commands' \in Nat,
         proc' \in [Procs -> States], \A q \in Procs \ {p} : proc'[q] = proc[q], StepOK(proc[p])'
  PROVE  CompositionInv'
  <1>1. TypeOK'
    BY DEF CompositionInv, TypeOK, files
  <1>2. FilesOK'
    BY DEF CompositionInv, FilesOK, Kept, ExportedIsVerified, files
  <1>3. Grows
    BY DEF CompositionInv, TypeOK, Grows, files
  <1> QED
    BY <1>1, <1>2, <1>3, ProcessSteps

\* The state of the process at work, and what Set does to it.
LEMMA MeFacts == ASSUME CompositionInv, NEW p \in Procs PROVE Me(p) \in States /\ Me(p) = proc[p] /\ StepOK(Me(p))
  BY DEF CompositionInv, TypeOK, Me

LEMMA FailKeepsInv == ASSUME CompositionInv, NEW p \in Procs, Fail(p) PROVE CompositionInv'
  <1>1. proc' = [proc EXCEPT ![p] = Idle] /\ UNCHANGED <<files, commands, faults>>
    BY DEF Fail, Set
  <1>2. proc' \in [Procs -> States] /\ proc'[p] = Idle /\ \A q \in Procs \ {p} : proc'[q] = proc[q]
    BY <1>1 DEF CompositionInv, TypeOK, States
  <1>3. StepOK(proc[p])'
    BY <1>2 DEF StepOK, Idle
  <1> QED
    BY <1>1, <1>2, <1>3, QuietStep DEF CompositionInv, TypeOK

\* An activation raises over a fault, or over an entry the index has lost.
LEMMA RaiseKeepsInv ==
  ASSUME CompositionInv, NEW p \in Procs, Raise(p), Me(p).manifest \in Manifests,
         faults > 0 \/ Me(p).manifest.artifact \in dropped
  PROVE  CompositionInv'
  <1> DEFINE x == [pc |-> "failed", manifest |-> Me(p).manifest]
  <1>1. proc' = [proc EXCEPT ![p] = x] /\ UNCHANGED <<files, commands, faults>> /\ dropped' = dropped
    BY DEF Raise, Set, files
  <1>2. x \in States
    BY DEF States
  <1>3. proc' \in [Procs -> States] /\ proc'[p] = x /\ \A q \in Procs \ {p} : proc'[q] = proc[q]
    BY <1>1, <1>2 DEF CompositionInv, TypeOK
  <1>4. StepOK(proc[p])'
    BY <1>1, <1>3 DEF StepOK
  <1> QED
    BY <1>1, <1>3, <1>4, QuietStep DEF CompositionInv, TypeOK

-----------------------------------------------------------------------------
\* compose and reconstruct

LEMMA StartBuildKeepsInv ==
  ASSUME CompositionInv, NEW p \in Procs, NEW d \in Dests,
         Compose(p, d) \/ ComposeLocked(p, d) \/ Reconstruct(p, d)
  PROVE  CompositionInv'
  <1>1. /\ UNCHANGED <<files, faults>> /\ commands' = commands + 1
        /\ proc' = [proc EXCEPT ![p] = proc'[p]] /\ proc'[p].pc = "build"
        /\ proc'[p] \in [pc : {"build"}, request : Requests, expected : Maybe(Locks), dest : Dests, save : BOOLEAN]
    <2>1. /\ proc \in [Procs -> States] /\ request \in Requests
          /\ lockFile \in Locks => lockFile.request \in Requests
      BY DEF CompositionInv, TypeOK, Locks
    <2>2. CASE Compose(p, d)
      BY <2>1, <2>2 DEF Compose, Begin, Set, Job, Maybe
    <2>3. CASE ComposeLocked(p, d)
      BY <2>1, <2>3 DEF ComposeLocked, Begin, Set, Job, Maybe
    <2>4. CASE Reconstruct(p, d)
      BY <2>1, <2>4 DEF Reconstruct, Begin, Set, Job, Maybe
    <2> QED
      BY <2>2, <2>3, <2>4
  <1>2. proc' \in [Procs -> States] /\ \A q \in Procs \ {p} : proc'[q] = proc[q]
    BY <1>1 DEF CompositionInv, TypeOK, States
  <1>3. StepOK(proc[p])'
    BY <1>1 DEF StepOK
  <1> QED
    BY <1>1, <1>2, <1>3, QuietStep DEF CompositionInv, TypeOK

\* An import lists its entry: what it overwrites of the index is recorded as lost.
LEMMA UpsertFacts ==
  ASSUME CompositionInv, NEW seen \in SUBSET Listable, NEW entry \in Listable, Upsert(seen, entry)
  PROVE  /\ index' \subseteq Listable /\ dropped' \subseteq Listable /\ dropped \subseteq dropped'
         /\ index \cup dropped \subseteq index' \cup dropped' /\ entry \in index'
  BY DEF Upsert, CompositionInv, TypeOK

\* An import that only lists its entry.
LEMMA ListKeepsInv ==
  ASSUME CompositionInv, NEW p \in Procs, NEW seen \in SUBSET Listable, NEW entry \in Listable,
         Upsert(seen, entry), proc' = [proc EXCEPT ![p] = proc'[p]], proc'[p] \in States,
         UNCHANGED <<request, source, input, lockFile, prefix, composed, manifest, package,
                     cache, bindings, verified, commands, faults>>,
         StepOK(proc[p])'
  PROVE  CompositionInv'
  <1>1. /\ index' \subseteq Listable /\ dropped' \subseteq Listable /\ dropped \subseteq dropped'
        /\ index \cup dropped \subseteq index' \cup dropped'
    BY UpsertFacts
  <1>2. proc' \in [Procs -> States] /\ \A q \in Procs \ {p} : proc'[q] = proc[q]
    BY DEF CompositionInv, TypeOK
  <1>3. TypeOK'
    BY <1>1, <1>2 DEF CompositionInv, TypeOK
  <1>4. FilesOK' /\ Grows
    BY <1>1 DEF CompositionInv, TypeOK, FilesOK, Kept, ExportedIsVerified, Grows
  <1> QED
    BY <1>2, <1>3, <1>4, ProcessSteps

LEMMA PullKeepsInv == ASSUME CompositionInv, NEW p \in Procs, Pull(p) PROVE CompositionInv'
  <1>1. Me(p).pc = "build" /\ Me(p) \in States /\ Me(p) = proc[p]
    BY MeFacts DEF Pull, At, Me
  <1>2. /\ Me(p).request \in Requests /\ Me(p).expected \in Maybe(Locks) /\ Me(p).dest \in Dests
        /\ Me(p).save \in BOOLEAN
    BY <1>1 DEF States, Idle
  <1>3. input' \in [held : BOOLEAN, intact : BOOLEAN, meta : Metas]
    <2>1. input \in [held : BOOLEAN, intact : BOOLEAN, meta : Metas] /\ source \in Metas
      BY DEF Pull, CompositionInv, TypeOK, Maybe
    <2>2. input' \in {input, [input EXCEPT !.meta = source], [held |-> TRUE, intact |-> TRUE, meta |-> source]}
      BY DEF Pull, Pulled
    <2>3. [input EXCEPT !.meta = source] \in [held : BOOLEAN, intact : BOOLEAN, meta : Metas]
      BY <2>1
    <2>4. [held |-> TRUE, intact |-> TRUE, meta |-> source] \in [held : BOOLEAN, intact : BOOLEAN, meta : Metas]
      BY <2>1
    <2> QED
      BY <2>1, <2>2, <2>3, <2>4, Zenon
  <1>4. /\ proc' = [proc EXCEPT ![p] = proc'[p]]
        /\ proc'[p] = [pc |-> "pulled", request |-> Me(p).request, expected |-> Me(p).expected,
                       dest |-> Me(p).dest, save |-> Me(p).save, seen |-> index]
        /\ UNCHANGED <<request, source, lockFile, prefix, composed, manifest, package,
                       cache, bindings, verified, index, dropped, commands, faults>>
    BY DEF Pull, Set, CompositionInv, TypeOK
  <1>5. proc'[p] \in States
    <2>1. index \in SUBSET Listable
      BY DEF CompositionInv, TypeOK
    <2> QED
      BY <1>2, <1>4, <2>1 DEF States
  <1>6. proc' \in [Procs -> States] /\ \A q \in Procs \ {p} : proc'[q] = proc[q]
    BY <1>4, <1>5 DEF CompositionInv, TypeOK
  <1>7. StepOK(proc[p])'
    BY <1>4 DEF StepOK
  <1>8. TypeOK'
    BY <1>3, <1>4, <1>6 DEF CompositionInv, TypeOK
  <1>9. FilesOK' /\ Grows
    BY <1>4 DEF CompositionInv, TypeOK, FilesOK, Kept, ExportedIsVerified, Grows
  <1> QED
    BY <1>6, <1>7, <1>8, <1>9, ProcessSteps

LEMMA ListPulledKeepsInv == ASSUME CompositionInv, NEW p \in Procs, ListPulled(p) PROVE CompositionInv'
  <1> DEFINE x == [Job(Me(p).request, Me(p).expected, Me(p).dest, Me(p).save) EXCEPT !.pc = "lock"]
  <1>1. Me(p).pc = "pulled" /\ Me(p) \in States
    BY MeFacts DEF ListPulled, At, Me
  <1>2. /\ Me(p).request \in Requests /\ Me(p).expected \in Maybe(Locks) /\ Me(p).dest \in Dests
        /\ Me(p).save \in BOOLEAN /\ Me(p).seen \in SUBSET Listable
    BY <1>1 DEF States, Idle
  <1>3. x \in States /\ x.pc = "lock"
    BY <1>2 DEF States, Job
  <1>4. Input \in Listable
    BY DEF Listable
  <1>5. /\ Upsert(Me(p).seen, Input) /\ proc' = [proc EXCEPT ![p] = x]
        /\ UNCHANGED <<request, source, input, lockFile, prefix, composed, manifest, package,
                       cache, bindings, verified, commands, faults>>
    BY DEF ListPulled, Set
  <1> HIDE DEF x
  <1>6. proc'[p] = x /\ proc' = [proc EXCEPT ![p] = proc'[p]]
    BY <1>5 DEF CompositionInv, TypeOK
  <1>7. StepOK(proc[p])'
    BY <1>3, <1>6 DEF StepOK
  <1> QED
    BY <1>2, <1>3, <1>4, <1>5, <1>6, <1>7, ListKeepsInv

LEMMA BuildLockKeepsInv ==
  ASSUME CompositionInv, NEW p \in Procs, BuildLock(p) PROVE CompositionInv'
  <1>1. Me(p).pc \in {"build", "lock"} /\ Me(p) \in States /\ Me(p) = proc[p]
    BY MeFacts DEF BuildLock, At, Me
  <1>2. /\ Me(p).request \in Requests /\ Me(p).expected \in Maybe(Locks) /\ Me(p).dest \in Dests
        /\ Me(p).save \in BOOLEAN
    BY <1>1 DEF States, Idle
  <1>3. BuiltLock(p) \in Locks
    <2>1. input.meta \in Metas
      BY DEF CompositionInv, TypeOK
    <2>2. (Me(p).expected = NONE \/ Me(p).expected.sdk) \in BOOLEAN
      OBVIOUS
    <2> QED
      BY <1>2, <2>1, <2>2 DEF BuiltLock, Locks
  <1>4. /\ UNCHANGED <<files, commands, faults>> /\ proc' = [proc EXCEPT ![p] = proc'[p]]
        /\ proc'[p] = [pc |-> "stage", lock |-> BuiltLock(p), expected |-> Me(p).expected,
                       dest |-> Me(p).dest, save |-> Me(p).save]
    BY DEF BuildLock, Set, CompositionInv, TypeOK
  <1>5. proc'[p] \in States
    BY <1>2, <1>3, <1>4 DEF States
  <1>6. proc' \in [Procs -> States] /\ \A q \in Procs \ {p} : proc'[q] = proc[q]
    BY <1>4, <1>5 DEF CompositionInv, TypeOK
  <1>7. StepOK(proc[p])'
    BY <1>4 DEF BuildLock, CanLock, SameLock, StepOK
  <1> QED
    BY <1>4, <1>6, <1>7, QuietStep DEF CompositionInv, TypeOK

LEMMA StageKeepsInv == ASSUME CompositionInv, NEW p \in Procs, Stage(p) PROVE CompositionInv'
  <1>1. Me(p).pc = "stage" /\ Me(p) \in States /\ Me(p) = proc[p] /\ StepOK(Me(p))
    BY MeFacts DEF Stage, At, Me
  <1>2. /\ Me(p).lock \in Locks /\ Me(p).expected \in Maybe(Locks) /\ Me(p).dest \in Dests
        /\ Me(p).save \in BOOLEAN
    BY <1>1 DEF States, Idle
  <1>3. Staged(p) \in Prefixes /\ Staged(p).lock = Me(p).lock
    BY <1>2 DEF Staged, Prefixes, CompositionInv, TypeOK
  <1>4. /\ UNCHANGED <<files, commands, faults>> /\ proc' = [proc EXCEPT ![p] = proc'[p]]
        /\ proc'[p] = [pc |-> "publish", lock |-> Me(p).lock, expected |-> Me(p).expected,
                       dest |-> Me(p).dest, save |-> Me(p).save, staged |-> Staged(p)]
    BY DEF Stage, Set, Publishing, CompositionInv, TypeOK
  <1>5. proc'[p] \in States
    BY <1>2, <1>3, <1>4 DEF States
  <1>6. proc' \in [Procs -> States] /\ \A q \in Procs \ {p} : proc'[q] = proc[q]
    BY <1>4, <1>5 DEF CompositionInv, TypeOK
  <1>7. StepOK(proc[p])'
    BY <1>1, <1>3, <1>4 DEF Stage, StepOK, Verifies
  <1> QED
    BY <1>4, <1>6, <1>7, QuietStep DEF CompositionInv, TypeOK

LEMMA ReconstructArtifactKeepsInv ==
  ASSUME CompositionInv, NEW p \in Procs, NEW d \in Dests, NEW l \in Locks, ReconstructArtifact(p, d, l)
  PROVE  CompositionInv'
  <1>1. composed[l] \in Prefixes /\ Verifies(composed[l]) /\ composed[l].lock = l
    BY DEF ReconstructArtifact, Stored, Verifies, CompositionInv, TypeOK, Maybe
  <1>2. /\ UNCHANGED <<files, faults>> /\ commands' = commands + 1 /\ proc' = [proc EXCEPT ![p] = proc'[p]]
        /\ proc'[p] = [pc |-> "publish", lock |-> l, expected |-> l, dest |-> d, save |-> FALSE,
                       staged |-> composed[l]]
    BY DEF ReconstructArtifact, Begin, Set, Publishing, CompositionInv, TypeOK
  <1>3. proc'[p] \in States
    BY <1>1, <1>2 DEF States, Maybe
  <1>4. proc' \in [Procs -> States] /\ \A q \in Procs \ {p} : proc'[q] = proc[q]
    BY <1>2, <1>3 DEF CompositionInv, TypeOK
  <1>5. StepOK(proc[p])'
    BY <1>1, <1>2 DEF StepOK, Verifies
  <1>6. commands' \in Nat
    BY <1>2 DEF CompositionInv, TypeOK
  <1> QED
    BY <1>2, <1>4, <1>5, <1>6, QuietStep

LEMMA PublishKeepsInv == ASSUME CompositionInv, NEW p \in Procs, Publish(p) PROVE CompositionInv'
  <1>1. Me(p).pc = "publish" /\ Me(p) \in States /\ Me(p) = proc[p] /\ StepOK(Me(p))
    BY MeFacts DEF Publish, At, Me
  <1>2. /\ Me(p).lock \in Locks /\ Me(p).dest \in Dests /\ Me(p).staged \in Prefixes
        /\ Me(p).staged.meta = Me(p).staged.lock.meta
    BY <1>1 DEF States, Idle, StepOK, Verifies
  <1>3. /\ prefix' = [prefix EXCEPT ![Me(p).dest] = Me(p).staged]
        /\ proc' = [proc EXCEPT ![p] = proc'[p]]
        /\ proc'[p] \in {Idle, [pc |-> "save", lock |-> Me(p).lock]}
        /\ UNCHANGED <<request, source, input, lockFile, composed, manifest, package,
                       cache, bindings, verified, index, dropped, commands, faults>>
    BY DEF Publish, Set, CompositionInv, TypeOK
  <1>4. proc'[p] \in States
    BY <1>2, <1>3 DEF States
  <1>5. proc' \in [Procs -> States] /\ \A q \in Procs \ {p} : proc'[q] = proc[q]
    BY <1>3, <1>4 DEF CompositionInv, TypeOK
  <1>6. StepOK(proc[p])'
    BY <1>3 DEF StepOK, Idle
  <1>7. prefix' \in [Dests -> Maybe(Prefixes)]
    BY <1>2, <1>3 DEF CompositionInv, TypeOK, Maybe
  <1>8. TypeOK'
    BY <1>3, <1>5, <1>7 DEF CompositionInv, TypeOK
  <1>9. \A d \in Dests : prefix'[d] # NONE => prefix'[d].meta = prefix'[d].lock.meta
    BY <1>2, <1>3 DEF CompositionInv, TypeOK, FilesOK
  <1>10. FilesOK' /\ Grows
    BY <1>3, <1>9 DEF CompositionInv, TypeOK, FilesOK, Kept, ExportedIsVerified, Grows
  <1> QED
    BY <1>5, <1>6, <1>8, <1>10, ProcessSteps

LEMMA SaveLockKeepsInv ==
  ASSUME CompositionInv, NEW p \in Procs, SaveLock(p) \/ LockSaved(p) PROVE CompositionInv'
  <1>1. Me(p).pc \in {"save", "saving"} /\ Me(p) \in States /\ Me(p) = proc[p]
    BY MeFacts DEF SaveLock, LockSaved, At, Me
  <1>2. Me(p).lock \in Locks /\ Me(p) \in [pc : {"save", "saving"}, lock : Locks]
    BY <1>1 DEF States, Idle
  <1>3. /\ lockFile' \in Locks \cup {NONE, Torn} /\ proc' = [proc EXCEPT ![p] = proc'[p]]
        /\ proc'[p] \in {Idle, [Me(p) EXCEPT !.pc = "saving"]}
        /\ UNCHANGED <<request, source, input, prefix, composed, manifest, package,
                       cache, bindings, verified, index, dropped, commands, faults>>
    BY <1>2 DEF SaveLock, LockSaved, Set, CompositionInv, TypeOK
  <1>4. proc'[p] \in States /\ proc'[p].pc \in {"idle", "saving"}
    BY <1>2, <1>3 DEF States, Idle
  <1>5. proc' \in [Procs -> States] /\ \A q \in Procs \ {p} : proc'[q] = proc[q]
    BY <1>3, <1>4 DEF CompositionInv, TypeOK
  <1>6. StepOK(proc[p])'
    BY <1>4 DEF StepOK
  <1>7. TypeOK'
    BY <1>3, <1>5 DEF CompositionInv, TypeOK
  <1>8. FilesOK' /\ Grows
    BY <1>3 DEF CompositionInv, TypeOK, FilesOK, Kept, ExportedIsVerified, Grows
  <1> QED
    BY <1>5, <1>6, <1>7, <1>8, ProcessSteps

-----------------------------------------------------------------------------
\* export and the consumer's files

LEMMA ExportKeepsInv ==
  ASSUME CompositionInv, NEW p \in Procs, NEW d \in Dests, Export(p, d) PROVE CompositionInv'
  <1>1. prefix[d] \in Prefixes
    BY DEF Export, Verifies, CompositionInv, TypeOK, Maybe
  <1>2. /\ UNCHANGED <<files, faults>> /\ commands' = commands + 1 /\ proc' = [proc EXCEPT ![p] = proc'[p]]
        /\ proc'[p] = [pc |-> "pack", lock |-> prefix[d].lock, dest |-> d]
    BY DEF Export, Begin, Set, CompositionInv, TypeOK
  <1>3. proc'[p] \in States
    BY <1>1, <1>2 DEF States, Prefixes
  <1>4. proc' \in [Procs -> States] /\ \A q \in Procs \ {p} : proc'[q] = proc[q]
    BY <1>2, <1>3 DEF CompositionInv, TypeOK
  <1>5. StepOK(proc[p])'
    BY <1>2 DEF StepOK
  <1> QED
    BY <1>2, <1>4, <1>5, QuietStep DEF CompositionInv, TypeOK

\* An artifact that comes to the store holds what its lock records.
LEMMA ImportedIsRight ==
  ASSUME CompositionInv, NEW l \in Locks, composed' \in [Locks -> Maybe(Prefixes)],
         composed'[l] \in Prefixes, composed'[l].lock = l, composed'[l].meta = l.meta,
         composed'[l].edited => faults > 0,
         \A k \in Locks \ {l} : composed'[k] = composed[k],
         UNCHANGED <<request, source, input, lockFile, prefix, manifest, package, cache, bindings,
                     verified, index, dropped, commands, faults>>,
         proc' \in [Procs -> States]
  PROVE  TypeOK' /\ FilesOK' /\ Grows
  <1>1. TypeOK'
    BY DEF CompositionInv, TypeOK
  <1>2. \A k \in Locks : composed[k] # NONE => composed'[k] # NONE
    BY NoneAssumption
  <1>3. ExportedIsVerified'
    BY DEF CompositionInv, FilesOK, Kept, ExportedIsVerified
  <1>4. \A m \in verified : m.artifact \in Locks
    BY DEF CompositionInv, TypeOK, Manifests
  <1>5. /\ manifest # NONE => manifest.artifact \in Locks
        /\ package # NONE => package.manifest.artifact \in Locks
    BY DEF CompositionInv, TypeOK, Manifests, Packages, Maybe
  <1>6. FilesOK'
    BY <1>2, <1>3, <1>4, <1>5 DEF CompositionInv, FilesOK, Kept
  <1> QED
    BY <1>1, <1>2, <1>6 DEF CompositionInv, TypeOK, Grows

LEMMA PackKeepsInv == ASSUME CompositionInv, NEW p \in Procs, Pack(p) PROVE CompositionInv'
  <1>1. Me(p).pc = "pack" /\ Me(p) \in States /\ Me(p) = proc[p]
    BY MeFacts DEF Pack, At, Me
  <1>2. Me(p).lock \in Locks /\ Me(p).dest \in Dests
    BY <1>1 DEF States, Idle
  <1> DEFINE l == Me(p).lock
             x == Imported(l, prefix[Me(p).dest])
  <1>3. x \in Prefixes /\ x.lock = l /\ x.meta = l.meta /\ (x.edited => faults > 0)
    BY <1>2 DEF Pack, PackedIsRight, Verifies, Imported, CompositionInv, TypeOK, FilesOK, Kept, ExportedIsVerified, Maybe
  <1> DEFINE y == [pc |-> "packed", lock |-> l, seen |-> index]
  <1>4. /\ composed' = [composed EXCEPT ![l] = x] /\ proc' = [proc EXCEPT ![p] = y]
        /\ UNCHANGED <<request, source, input, lockFile, prefix, manifest, package, cache, bindings,
                       verified, index, dropped, commands, faults>>
    BY DEF Pack, Set
  <1>5. /\ proc' \in [Procs -> States] /\ proc'[p] = y /\ \A q \in Procs \ {p} : proc'[q] = proc[q]
    <2>1. index \in SUBSET Listable
      BY DEF CompositionInv, TypeOK
    <2>2. y \in States
      BY <1>2, <2>1 DEF States
    <2> QED
      BY <1>4, <2>2 DEF CompositionInv, TypeOK
  <1> HIDE DEF x
  <1>6. /\ composed' \in [Locks -> Maybe(Prefixes)] /\ composed'[l] = x
        /\ \A k \in Locks \ {l} : composed'[k] = composed[k]
    BY <1>2, <1>3, <1>4 DEF CompositionInv, TypeOK, Maybe
  <1>7. StepOK(proc[p])'
    BY <1>5 DEF StepOK
  <1> HIDE DEF l
  <1>8. TypeOK' /\ FilesOK' /\ Grows
    BY <1>2, <1>3, <1>4, <1>5, <1>6, ImportedIsRight DEF l
  <1> QED
    BY <1>5, <1>7, <1>8, ProcessSteps

LEMMA ListPackedKeepsInv == ASSUME CompositionInv, NEW p \in Procs, ListPacked(p) PROVE CompositionInv'
  <1>1. Me(p).pc = "packed" /\ Me(p) \in States
    BY MeFacts DEF ListPacked, At, Me
  <1>2. Me(p).lock \in Listable /\ Me(p).seen \in SUBSET Listable
    BY <1>1 DEF States, Idle, Listable
  <1>3. /\ Upsert(Me(p).seen, Me(p).lock) /\ proc'[p] = Idle /\ proc' = [proc EXCEPT ![p] = proc'[p]]
        /\ UNCHANGED <<request, source, input, lockFile, prefix, composed, manifest, package,
                       cache, bindings, verified, commands, faults>>
    BY DEF ListPacked, Set, CompositionInv, TypeOK
  <1>4. proc'[p] \in States
    BY <1>3 DEF States
  <1>5. StepOK(proc[p])'
    BY <1>3 DEF StepOK, Idle
  <1> QED
    BY <1>2, <1>3, <1>4, <1>5, ListKeepsInv

LEMMA ConsumerManifestKeepsInv ==
  ASSUME CompositionInv, NEW p \in Procs, NEW l \in Locks, ConsumerManifest(p, l) PROVE CompositionInv'
  <1>1. /\ manifest' = [artifact |-> l, identity |-> l] /\ commands' = commands + 1
        /\ UNCHANGED <<request, source, input, lockFile, prefix, composed, package,
                       cache, bindings, verified, index, dropped, proc, faults>>
        /\ Kept(l) /\ l.sdk
    BY DEF ConsumerManifest, Stored, Kept, Verifies
  <1>2. manifest' \in Manifests /\ manifest' # NONE /\ TrueManifest(manifest') /\ manifest'.artifact = l
    BY <1>1, NoneAssumption DEF Manifests, TrueManifest
  <1>3. TypeOK'
    BY <1>1, <1>2 DEF CompositionInv, TypeOK, Maybe
  <1>4. Grows
    BY <1>1, <1>2 DEF CompositionInv, TypeOK, Grows
  <1>5. FilesOK'
    BY <1>1, <1>2 DEF CompositionInv, FilesOK, Kept, ExportedIsVerified, TrueManifest
  <1>6. StepOK(proc[p])'
    <2>1. proc[p] \in States /\ StepOK(proc[p]) /\ proc'[p] = proc[p]
      BY <1>1 DEF CompositionInv, TypeOK
    <2> QED
      BY <1>4, <2>1, StepsStay
  <1>7. \A q \in Procs \ {p} : proc'[q] = proc[q]
    BY <1>1
  <1> QED
    BY <1>3, <1>4, <1>5, <1>6, <1>7, ProcessSteps

LEMMA ConsumerPackageKeepsInv ==
  ASSUME CompositionInv, NEW p \in Procs, ConsumerPackage(p) PROVE CompositionInv'
  <1>1. manifest \in Manifests /\ manifest # NONE
    BY NoneAssumption DEF ConsumerPackage, ConsumerVerifies
  <1>2. /\ UNCHANGED <<files, faults>> /\ commands' = commands + 1 /\ proc' = [proc EXCEPT ![p] = proc'[p]]
        /\ proc'[p] = [pc |-> "embed", manifest |-> manifest]
    BY DEF ConsumerPackage, Begin, Set, CompositionInv, TypeOK
  <1>3. proc'[p] \in States
    BY <1>1, <1>2 DEF States
  <1>4. proc' \in [Procs -> States] /\ \A q \in Procs \ {p} : proc'[q] = proc[q]
    BY <1>2, <1>3 DEF CompositionInv, TypeOK
  <1>5. StepOK(proc[p])'
    BY <1>1, <1>2 DEF StepOK, files
  <1> QED
    BY <1>2, <1>4, <1>5, QuietStep DEF CompositionInv, TypeOK

LEMMA EmbedKeepsInv == ASSUME CompositionInv, NEW p \in Procs, Embed(p) PROVE CompositionInv'
  <1>1. Me(p).pc = "embed" /\ Me(p) \in States /\ Me(p) = proc[p] /\ StepOK(Me(p))
    BY MeFacts DEF Embed, At, Me
  <1>2. Me(p).manifest.artifact \in Locks /\ manifest # NONE /\ manifest \in Manifests
    BY <1>1 DEF States, Idle, Manifests, StepOK, CompositionInv, TypeOK, Maybe
  <1> DEFINE k == [manifest |-> manifest, artifact |-> Me(p).manifest.artifact,
                   whole |-> ~composed[Me(p).manifest.artifact].edited]
  <1>3. k \in Packages /\ k.manifest = manifest /\ k.whole = ~composed[Me(p).manifest.artifact].edited
    BY <1>2 DEF Packages
  <1>4. /\ package = NONE /\ composed[Me(p).manifest.artifact] # NONE
        /\ package' = k /\ proc' = [proc EXCEPT ![p] = Idle]
        /\ UNCHANGED <<request, source, input, lockFile, prefix, composed, manifest,
                       cache, bindings, verified, index, dropped, commands, faults>>
    BY DEF Embed, Set
  <1>5. /\ proc' \in [Procs -> States] /\ proc'[p] = Idle /\ \A q \in Procs \ {p} : proc'[q] = proc[q]
    BY <1>4 DEF CompositionInv, TypeOK, States
  <1> HIDE DEF k
  <1>6. StepOK(proc[p])'
    BY <1>5 DEF StepOK, Idle
  <1>7. TypeOK'
    BY <1>3, <1>4, <1>5 DEF CompositionInv, TypeOK, Maybe
  <1>8. faults = 0 => TrueManifest(manifest) /\ Kept(manifest.artifact) /\ k.whole
    <2>1. faults = 0 => ~composed[Me(p).manifest.artifact].edited
      BY <1>2, <1>4 DEF CompositionInv, FilesOK, Kept, ExportedIsVerified
    <2>2. faults = 0 => TrueManifest(manifest) /\ Kept(manifest.artifact)
      BY <1>2, <1>4 DEF CompositionInv, FilesOK
    <2> QED
      BY <1>3, <2>1, <2>2
  <1>9. package' # NONE
    BY <1>3, <1>4, NoneAssumption
  <1>10. FilesOK'
    BY <1>3, <1>4, <1>8, <1>9 DEF CompositionInv, FilesOK, Kept, ExportedIsVerified, TrueManifest
  <1>11. Grows
    BY <1>4 DEF CompositionInv, TypeOK, Grows
  <1> QED
    BY <1>5, <1>6, <1>7, <1>10, <1>11, ProcessSteps

-----------------------------------------------------------------------------
\* The loader

LEMMA ActivateKeepsInv == ASSUME CompositionInv, NEW p \in Procs, Activate(p) PROVE CompositionInv'
  <1> DEFINE m == package.manifest
  <1>1. package # NONE /\ m \in Manifests
    BY DEF Activate, CompositionInv, TypeOK, Maybe, Packages
  <1>2. /\ UNCHANGED <<files, faults>> /\ commands' = commands + 1 /\ proc' = [proc EXCEPT ![p] = proc'[p]]
        /\ proc'[p] = [pc |-> IF MustVerify(m) THEN "import" ELSE "rebuild",
                       manifest |-> m, verify |-> MustVerify(m)]
    BY DEF Activate, Begin, Set, CompositionInv, TypeOK
  <1>3. proc'[p] \in States
    BY <1>1, <1>2 DEF States, MustVerify
  <1>4. proc' \in [Procs -> States] /\ \A q \in Procs \ {p} : proc'[q] = proc[q]
    BY <1>2, <1>3 DEF CompositionInv, TypeOK
  <1>5. ~MustVerify(m) => m \in verified
    BY DEF MustVerify, CompositionInv, FilesOK
  <1>6. StepOK(proc[p])'
    BY <1>1, <1>2, <1>5 DEF StepOK, files
  <1> QED
    BY <1>2, <1>4, <1>6, QuietStep DEF CompositionInv, TypeOK

\* What a loading process holds.
LEMMA LoaderFacts ==
  ASSUME CompositionInv, NEW p \in Procs, Me(p).pc \in {"import", "imported", "verify", "rebuild", "rename", "observe"}
  PROVE  /\ Me(p) \in States /\ Me(p) = proc[p] /\ StepOK(Me(p))
         /\ Me(p).manifest \in Manifests /\ Me(p).verify \in BOOLEAN
         /\ Me(p).manifest.artifact \in Locks /\ Identity(Me(p).manifest) \in Digests
  <1>1. Me(p) \in States /\ Me(p) = proc[p] /\ StepOK(Me(p))
    BY MeFacts
  <1>2. Me(p).manifest \in Manifests /\ Me(p).verify \in BOOLEAN
    BY <1>1 DEF States, Idle
  <1> QED
    BY <1>1, <1>2, IdentityIsADigest

LEMMA LoaderImportKeepsInv == ASSUME CompositionInv, NEW p \in Procs, LoaderImport(p) PROVE CompositionInv'
  <1>1. Me(p).pc = "import"
    BY DEF LoaderImport, At, Me
  <1>2. /\ Me(p) \in States /\ Me(p) = proc[p] /\ StepOK(Me(p)) /\ Me(p).manifest \in Manifests
        /\ Me(p).verify \in BOOLEAN /\ Me(p).manifest.artifact \in Locks
    BY <1>1, LoaderFacts
  <1>3. package # NONE /\ package.artifact \in Locks /\ (faults = 0 => Me(p).manifest = package.manifest)
    BY <1>1, <1>2 DEF StepOK, CompositionInv, TypeOK, Maybe, Packages
  <1> DEFINE l == package.artifact
             x == Imported(l, Fresh(l))
  <1>4. x \in Prefixes /\ x.lock = l /\ x.meta = l.meta /\ (x.edited => faults > 0)
    <2>1. Fresh(l) \in Prefixes /\ Fresh(l).lock = l /\ Fresh(l).meta = l.meta /\ ~Fresh(l).edited
      BY <1>3 DEF Fresh, Prefixes, Locks
    <2> QED
      BY <1>3, <2>1 DEF Imported, CompositionInv, TypeOK, FilesOK, Kept, ExportedIsVerified, Maybe
  <1>5. /\ composed' = [composed EXCEPT ![l] = x]
        /\ proc' = [proc EXCEPT ![p] = proc'[p]]
        /\ proc'[p] = [pc |-> "imported", manifest |-> Me(p).manifest, verify |-> Me(p).verify,
                       artifact |-> l, seen |-> index]
        /\ UNCHANGED <<request, source, input, lockFile, prefix, manifest, package, cache, bindings,
                       verified, index, dropped, commands, faults>>
    BY DEF LoaderImport, Set, CompositionInv, TypeOK
  <1>6. index \in SUBSET Listable
    BY DEF CompositionInv, TypeOK
  <1>7. /\ proc'[p] \in States /\ proc'[p].pc = "imported" /\ proc'[p].manifest = Me(p).manifest
        /\ proc'[p].artifact = l
    BY <1>2, <1>3, <1>5, <1>6 DEF States
  <1>8. /\ proc' \in [Procs -> States] /\ \A q \in Procs \ {p} : proc'[q] = proc[q]
    BY <1>5, <1>7 DEF CompositionInv, TypeOK
  <1> HIDE DEF x
  <1>9. /\ composed' \in [Locks -> Maybe(Prefixes)] /\ composed'[l] = x
        /\ \A k \in Locks \ {l} : composed'[k] = composed[k]
    BY <1>3, <1>4, <1>5 DEF CompositionInv, TypeOK, Maybe
  <1>10. TypeOK' /\ FilesOK' /\ Grows
    BY <1>3, <1>4, <1>5, <1>8, <1>9, ImportedIsRight
  <1>11. composed'[l] # NONE
    BY <1>4, <1>9, NoneAssumption
  <1>12. faults = 0 => \/ l = Me(p).manifest.artifact
                      \/ /\ composed'[Me(p).manifest.artifact] # NONE
                         /\ Me(p).manifest.artifact \in index' \cup dropped'
    BY <1>2, <1>3, <1>5, <1>10 DEF Grows, CompositionInv, FilesOK, Kept
  <1> HIDE DEF l
  <1>13. StepOK(proc[p])'
    BY <1>2, <1>3, <1>5, <1>7, <1>11, <1>12 DEF StepOK, Kept
  <1> QED
    BY <1>8, <1>10, <1>13, ProcessSteps

LEMMA LoaderListKeepsInv == ASSUME CompositionInv, NEW p \in Procs, LoaderList(p) PROVE CompositionInv'
  <1>1. Me(p).pc = "imported"
    BY DEF LoaderList, At, Me
  <1>2. /\ Me(p) \in States /\ Me(p) = proc[p] /\ StepOK(Me(p)) /\ Me(p).manifest \in Manifests
        /\ Me(p).verify \in BOOLEAN /\ Me(p).manifest.artifact \in Locks
    BY <1>1, LoaderFacts
  <1>3. Me(p).artifact \in Listable /\ Me(p).seen \in SUBSET Listable
    BY <1>1, <1>2 DEF States, Idle, Listable
  <1>4. /\ Upsert(Me(p).seen, Me(p).artifact) /\ proc' = [proc EXCEPT ![p] = proc'[p]]
        /\ proc'[p] = [pc |-> "verify", manifest |-> Me(p).manifest, verify |-> Me(p).verify]
        /\ UNCHANGED <<request, source, input, lockFile, prefix, composed, manifest, package,
                       cache, bindings, verified, commands, faults>>
    BY DEF LoaderList, Set, CompositionInv, TypeOK
  <1>5. proc'[p] \in States
    BY <1>2, <1>4 DEF States
  <1>6. index \cup dropped \subseteq index' \cup dropped' /\ Me(p).artifact \in index'
    BY <1>3, <1>4, UpsertFacts
  <1>7. faults = 0 => /\ composed'[Me(p).manifest.artifact] # NONE
                      /\ Me(p).manifest.artifact \in index' \cup dropped'
    BY <1>1, <1>2, <1>4, <1>6 DEF StepOK, Kept
  <1>8. StepOK(proc[p])'
    BY <1>1, <1>2, <1>4, <1>7 DEF StepOK, Kept
  <1> QED
    BY <1>3, <1>4, <1>5, <1>8, ListKeepsInv

LEMMA LoaderVerifyKeepsInv == ASSUME CompositionInv, NEW p \in Procs, LoaderVerify(p) PROVE CompositionInv'
  <1>1. Me(p).pc = "verify"
    BY DEF LoaderVerify, At, Me
  <1>2. /\ Me(p) \in States /\ Me(p) = proc[p] /\ StepOK(Me(p)) /\ Me(p).manifest \in Manifests
    BY <1>1, LoaderFacts
  <1>3. Me(p) \in [pc : {"import", "verify", "rebuild", "observe"}, manifest : Manifests, verify : BOOLEAN]
    BY <1>1, <1>2 DEF States, Idle
  <1>4. /\ verified' = verified \cup {Me(p).manifest}
        /\ proc' = [proc EXCEPT ![p] = proc'[p]] /\ proc'[p] = [Me(p) EXCEPT !.pc = "rebuild"]
        /\ UNCHANGED <<request, source, input, lockFile, prefix, composed, manifest,
                       package, cache, bindings, index, dropped, commands, faults>>
    BY DEF LoaderVerify, Set, CompositionInv, TypeOK
  <1>5. proc'[p] \in States /\ proc'[p].pc = "rebuild" /\ proc'[p].manifest = Me(p).manifest
    BY <1>3, <1>4 DEF States
  <1>6. /\ proc' \in [Procs -> States] /\ \A q \in Procs \ {p} : proc'[q] = proc[q]
    BY <1>4, <1>5 DEF CompositionInv, TypeOK
  <1>7. TypeOK'
    BY <1>2, <1>4, <1>6 DEF CompositionInv, TypeOK
  <1>8. Me(p).manifest.identity = Me(p).manifest.artifact /\ Kept(Me(p).manifest.artifact)
    BY DEF LoaderVerify, ConsumerVerifies, Stored, Kept, Verifies
  <1>9. FilesOK' /\ Grows
    BY <1>4, <1>8 DEF CompositionInv, TypeOK, FilesOK, Kept, ExportedIsVerified, Grows
  <1>10. StepOK(proc[p])'
    BY <1>4, <1>5 DEF StepOK
  <1> QED
    BY <1>6, <1>7, <1>9, <1>10, ProcessSteps

LEMMA LoaderSkipsRebuildKeepsInv ==
  ASSUME CompositionInv, NEW p \in Procs, LoaderSkipsRebuild(p) PROVE CompositionInv'
  <1>1. Me(p).pc = "rebuild"
    BY DEF LoaderSkipsRebuild, At, Me
  <1>2. Me(p) \in States /\ Me(p) = proc[p] /\ StepOK(Me(p))
    BY <1>1, LoaderFacts
  <1>3. Me(p) \in [pc : {"import", "verify", "rebuild", "observe"}, manifest : Manifests, verify : BOOLEAN]
    BY <1>1, <1>2 DEF States, Idle
  <1>4. /\ UNCHANGED <<files, commands, faults>> /\ cache[Identity(Me(p).manifest)] # NONE
        /\ proc' = [proc EXCEPT ![p] = proc'[p]] /\ proc'[p] = [Me(p) EXCEPT !.pc = "observe"]
    BY DEF LoaderSkipsRebuild, Set, CompositionInv, TypeOK
  <1>5. proc'[p] \in States /\ proc'[p].pc = "observe" /\ proc'[p].manifest = Me(p).manifest
    BY <1>3, <1>4 DEF States
  <1>6. /\ proc' \in [Procs -> States] /\ \A q \in Procs \ {p} : proc'[q] = proc[q]
    BY <1>4, <1>5 DEF CompositionInv, TypeOK
  <1>7. StepOK(proc[p])'
    BY <1>1, <1>2, <1>4, <1>5 DEF StepOK, files
  <1> QED
    BY <1>4, <1>6, <1>7, QuietStep DEF CompositionInv, TypeOK

LEMMA LoaderRebuildKeepsInv == ASSUME CompositionInv, NEW p \in Procs, LoaderRebuild(p) PROVE CompositionInv'
  <1>1. Me(p).pc = "rebuild"
    BY DEF LoaderRebuild, At, Me
  <1>2. /\ Me(p) = proc[p] /\ StepOK(Me(p)) /\ Me(p).manifest \in Manifests /\ Me(p).verify \in BOOLEAN
        /\ Me(p).manifest.artifact \in Locks
    BY <1>1, LoaderFacts
  <1> DEFINE x == composed[Me(p).manifest.artifact]
  <1>3. x \in Prefixes /\ Verifies(x) /\ x.lock = Me(p).manifest.artifact
    BY <1>2 DEF LoaderRebuild, Stored, Verifies, CompositionInv, TypeOK, Maybe
  <1>4. /\ UNCHANGED <<files, commands, faults>> /\ proc' = [proc EXCEPT ![p] = proc'[p]]
        /\ proc'[p] = [pc |-> "rename", manifest |-> Me(p).manifest, verify |-> Me(p).verify, staged |-> x]
    BY DEF LoaderRebuild, Set, CompositionInv, TypeOK
  <1> HIDE DEF x
  <1>5. proc'[p] \in States
    BY <1>2, <1>3, <1>4 DEF States
  <1>6. /\ proc' \in [Procs -> States] /\ \A q \in Procs \ {p} : proc'[q] = proc[q]
    BY <1>4, <1>5 DEF CompositionInv, TypeOK
  <1>7. StepOK(proc[p])'
    BY <1>1, <1>2, <1>3, <1>4 DEF StepOK, files, Verifies
  <1> QED
    BY <1>4, <1>6, <1>7, QuietStep DEF CompositionInv, TypeOK

LEMMA LoaderRenameKeepsInv == ASSUME CompositionInv, NEW p \in Procs, LoaderRename(p) PROVE CompositionInv'
  <1>1. Me(p).pc = "rename"
    BY DEF LoaderRename, At, Me
  <1>2. /\ Me(p) \in States /\ Me(p) = proc[p] /\ StepOK(Me(p)) /\ Me(p).manifest \in Manifests
        /\ Me(p).verify \in BOOLEAN /\ Me(p).manifest.artifact \in Locks /\ Identity(Me(p).manifest) \in Digests
    BY <1>1, LoaderFacts
  <1>3. Me(p).staged \in Prefixes
    BY <1>1, <1>2 DEF States, Idle
  <1> DEFINE i == Identity(Me(p).manifest)
             x == IF cache[i] = NONE THEN Me(p).staged ELSE cache[i]
  <1>4. /\ x \in Prefixes /\ RuntimeDigest(x.lock) = i /\ x.meta = x.lock.meta /\ (x.edited => faults > 0)
    <2>1. Me(p).manifest.identity = Me(p).manifest.artifact
      BY <1>1, <1>2 DEF StepOK, CompositionInv, FilesOK
    <2>2. /\ RuntimeDigest(Me(p).staged.lock) = i /\ Me(p).staged.meta = Me(p).staged.lock.meta
          /\ ~Me(p).staged.edited
      BY <1>1, <1>2, <2>1 DEF StepOK, Verifies, Identity
    <2>3. cache[i] # NONE => /\ cache[i] \in Prefixes /\ RuntimeDigest(cache[i].lock) = i
                             /\ cache[i].meta = cache[i].lock.meta /\ (cache[i].edited => faults > 0)
      BY <1>2 DEF CompositionInv, TypeOK, FilesOK, Maybe
    <2> QED
      BY <1>3, <2>2, <2>3
  <1>5. /\ cache' = [cache EXCEPT ![i] = x] /\ proc' = [proc EXCEPT ![p] = proc'[p]]
        /\ proc'[p] = [pc |-> "observe", manifest |-> Me(p).manifest, verify |-> Me(p).verify]
        /\ UNCHANGED <<request, source, input, lockFile, prefix, composed, manifest,
                       package, bindings, verified, index, dropped, commands, faults>>
    BY <1>2 DEF LoaderRename, Observing, Set, CompositionInv, TypeOK
  <1> HIDE DEF x
  <1>6. proc'[p] \in States
    BY <1>2, <1>5 DEF States
  <1>7. /\ proc' \in [Procs -> States] /\ \A q \in Procs \ {p} : proc'[q] = proc[q]
    BY <1>5, <1>6 DEF CompositionInv, TypeOK
  <1>8. /\ cache' \in [Digests -> Maybe(Prefixes)] /\ cache'[i] = x /\ x # NONE
        /\ \A j \in Digests \ {i} : cache'[j] = cache[j]
    BY <1>2, <1>4, <1>5, NoneAssumption DEF CompositionInv, TypeOK, Maybe
  <1>9. TypeOK'
    BY <1>5, <1>7, <1>8 DEF CompositionInv, TypeOK
  <1>10. \A j \in Digests : cache'[j] # NONE =>
           /\ RuntimeDigest(cache'[j].lock) = j /\ cache'[j].meta = cache'[j].lock.meta
           /\ cache'[j].edited => faults > 0
    BY <1>4, <1>8 DEF CompositionInv, FilesOK
  <1>11. FilesOK'
    BY <1>5, <1>10 DEF CompositionInv, FilesOK, Kept, ExportedIsVerified
  <1>12. Grows
    BY <1>5, <1>8 DEF CompositionInv, TypeOK, Grows
  <1>13. StepOK(proc[p])'
    BY <1>1, <1>2, <1>5, <1>8 DEF StepOK, Identity
  <1> QED
    BY <1>7, <1>9, <1>11, <1>12, <1>13, ProcessSteps

LEMMA LoaderObserveKeepsInv == ASSUME CompositionInv, NEW p \in Procs, LoaderObserve(p) PROVE CompositionInv'
  <1>1. Me(p).pc = "observe"
    BY DEF LoaderObserve, At, Me
  <1>2. /\ Me(p) = proc[p] /\ Me(p).manifest \in verified /\ Me(p).manifest \in Manifests
        /\ Identity(Me(p).manifest) \in Digests
    BY <1>1, LoaderFacts DEF StepOK
  <1> DEFINE m == Me(p).manifest
             x == cache[Identity(m)]
  <1>3. x \in Prefixes /\ Verifies(x) /\ RuntimeDigest(x.lock) = Identity(m)
    BY <1>2 DEF LoaderObserve, Observed, Verifies, CompositionInv, TypeOK, Maybe
  <1>4. /\ bindings' \in {bindings, bindings \cup {m}} /\ proc' = [proc EXCEPT ![p] = proc'[p]]
        /\ proc'[p] = [pc |-> "active", manifest |-> m, loaded |-> x]
        /\ UNCHANGED <<request, source, input, lockFile, prefix, composed, manifest,
                       package, cache, verified, index, dropped, commands, faults>>
    BY DEF LoaderObserve, Set, CompositionInv, TypeOK
  <1> HIDE DEF x, m
  <1>5. proc'[p] \in States
    BY <1>2, <1>3, <1>4 DEF States, m
  <1>6. /\ proc' \in [Procs -> States] /\ \A q \in Procs \ {p} : proc'[q] = proc[q]
    BY <1>4, <1>5 DEF CompositionInv, TypeOK
  <1>7. TypeOK'
    BY <1>2, <1>4, <1>6 DEF CompositionInv, TypeOK, m
  <1>8. FilesOK' /\ Grows
    BY <1>2, <1>4 DEF CompositionInv, TypeOK, FilesOK, Kept, ExportedIsVerified, Grows, m
  <1>9. StepOK(proc[p])'
    BY <1>2, <1>3, <1>4 DEF StepOK, Verifies, Identity, RuntimeDigest, m
  <1> QED
    BY <1>6, <1>7, <1>8, <1>9, ProcessSteps

\* An activation raises only over what a fault did, or a race for the index.
LEMMA LoaderFailsKeepInv ==
  ASSUME CompositionInv, NEW p \in Procs,
         \/ LoaderImportFails(p) \/ LoaderVerifyFails(p) \/ LoaderRebuildFails(p) \/ LoaderObserveFails(p)
  PROVE  CompositionInv'
  <1> DEFINE m == Me(p).manifest
             Excused == faults > 0 \/ m.artifact \in dropped
  <1>0. faults \in Nat
    BY DEF CompositionInv, TypeOK
  <1>1. ASSUME LoaderImportFails(p) PROVE Excused
    <2>1. Me(p).pc = "import" /\ ~package.whole
      BY <1>1 DEF LoaderImportFails, At, Me
    <2>2. package # NONE
      BY <2>1, LoaderFacts DEF StepOK
    <2> QED
      BY <1>0, <2>1, <2>2 DEF CompositionInv, FilesOK
  <1>2. ASSUME NEW l \in Locks, faults = 0, Kept(l), l \notin dropped PROVE Stored(l)
    BY <1>2 DEF CompositionInv, FilesOK, ExportedIsVerified, Kept, Stored, Verifies
  <1>3. ASSUME LoaderVerifyFails(p) PROVE Excused
    <2>1. Me(p).pc = "verify" /\ ~ConsumerVerifies(m)
      BY <1>3 DEF LoaderVerifyFails, At, Me
    <2>2. /\ m \in Manifests /\ m.artifact \in Locks /\ package # NONE
          /\ faults = 0 => m = package.manifest /\ Kept(m.artifact)
      BY <2>1, LoaderFacts DEF StepOK
    <2>3. faults = 0 => TrueManifest(m)
      BY <2>2 DEF CompositionInv, FilesOK
    <2> QED
      BY <1>0, <1>2, <2>1, <2>2, <2>3 DEF ConsumerVerifies, TrueManifest
  <1>4. ASSUME LoaderRebuildFails(p) PROVE Excused
    <2>1. Me(p).pc = "rebuild" /\ ~Stored(m.artifact)
      BY <1>4 DEF LoaderRebuildFails, At, Me
    <2>2. m.artifact \in Locks /\ m \in verified
      BY <2>1, LoaderFacts DEF StepOK
    <2>3. Kept(m.artifact)
      BY <2>2 DEF CompositionInv, FilesOK
    <2> QED
      BY <1>0, <1>2, <2>1, <2>2, <2>3
  <1>5. ASSUME LoaderObserveFails(p) PROVE Excused
    <2>1. Me(p).pc = "observe" /\ ~Observed(m)
      BY <1>5 DEF LoaderObserveFails, At, Me
    <2>2. Identity(m) \in Digests /\ cache[Identity(m)] # NONE
      BY <2>1, LoaderFacts DEF StepOK
    <2> QED
      BY <1>0, <2>1, <2>2 DEF CompositionInv, FilesOK, Verifies, Observed
  <1>6. Raise(p) /\ m \in Manifests
    <2>1. Raise(p) /\ Me(p).pc \in {"import", "verify", "rebuild", "observe"}
      BY DEF LoaderImportFails, LoaderVerifyFails, LoaderRebuildFails, LoaderObserveFails, At, Me
    <2> QED
      BY <2>1, LoaderFacts
  <1> QED
    BY <1>1, <1>3, <1>4, <1>5, <1>6, RaiseKeepsInv

-----------------------------------------------------------------------------
\* What happens outside

LEMMA CrashKeepsInv == ASSUME CompositionInv, NEW p \in Procs, Crash(p) PROVE CompositionInv'
  <1>1. /\ faults' = faults + 1 /\ proc' = [proc EXCEPT ![p] = Idle] /\ UNCHANGED <<files, commands>>
    BY DEF Crash, Set
  <1>2. /\ proc' \in [Procs -> States] /\ proc'[p] = Idle /\ \A q \in Procs \ {p} : proc'[q] = proc[q]
    BY <1>1 DEF CompositionInv, TypeOK, States
  <1>3. TypeOK'
    BY <1>1, <1>2 DEF CompositionInv, TypeOK, files
  <1>4. Grows /\ faults' > 0
    BY <1>1 DEF CompositionInv, TypeOK, Grows, files
  <1>5. FilesOK'
    BY <1>1, <1>4 DEF CompositionInv, FilesOK, Kept, ExportedIsVerified, files
  <1>6. StepOK(proc[p])'
    BY <1>2 DEF StepOK, Idle
  <1> QED
    BY <1>2, <1>3, <1>4, <1>5, <1>6, ProcessSteps

\* A fault takes nothing away that a process relies on, and after it the parts
\* of the invariant that speak of calm behaviours say nothing.
LEMMA FaultKeepsInv ==
  ASSUME CompositionInv, UNCHANGED <<proc, commands, verified, bindings, dropped>>, faults' = faults + 1, TypeOK',
         index' \in {index, index \ {Input}},
         manifest # NONE => manifest' # NONE, package # NONE => package' # NONE,
         \A d \in Dests : prefix'[d] # NONE => prefix'[d].meta = prefix'[d].lock.meta,
         \A l \in Locks : /\ composed[l] # NONE <=> composed'[l] # NONE
                          /\ composed[l] # NONE => /\ composed'[l].lock = composed[l].lock
                                                   /\ composed'[l].meta = composed[l].meta,
         \A i \in Digests : /\ cache[i] # NONE <=> cache'[i] # NONE
                            /\ cache[i] # NONE => /\ cache'[i].lock = cache[i].lock
                                                  /\ cache'[i].meta = cache[i].meta
  PROVE  CompositionInv'
  <1>1. Grows /\ faults' > 0 /\ faults' # 0
    BY InputAssumption DEF CompositionInv, TypeOK, Grows
  <1>2. ExportedIsVerified'
    BY <1>1 DEF CompositionInv, FilesOK, Kept, ExportedIsVerified
  <1>3. \A m \in verified : m.artifact \in Locks
    BY DEF CompositionInv, TypeOK, Manifests
  <1>4. FilesOK'
    BY <1>1, <1>2, <1>3 DEF CompositionInv, FilesOK, Kept, Grows
  <1>5. ASSUME NEW q \in Procs PROVE StepOK(proc[q])'
    <2>1. proc[q] \in States /\ proc'[q] = proc[q] /\ StepOK(proc[q])
      BY DEF CompositionInv, TypeOK
    <2> QED
      BY <1>1, <2>1, StepsStay
  <1> QED
    BY <1>4, <1>5 DEF CompositionInv

LEMMA DisturbingKeepsInv == ASSUME CompositionInv, Disturbing PROVE CompositionInv'
  <1>1. UNCHANGED <<proc, commands, verified, bindings, dropped>> /\ faults' = faults + 1
        /\ index' \in {index, index \ {Input}}
    BY DEF Disturbing, Outside, EditRequest, ReplaceMeta, DamageInput, EditPrefix, RemovePrefix, EditCache,
       DamageComposed, EditManifest, InstallPackage
  <1>2. /\ prefix \in [Dests -> Maybe(Prefixes)] /\ composed \in [Locks -> Maybe(Prefixes)]
        /\ cache \in [Digests -> Maybe(Prefixes)]
        /\ \A d \in Dests : prefix[d] # NONE => prefix[d].meta = prefix[d].lock.meta
    BY DEF CompositionInv, TypeOK, FilesOK
  <1>3. ASSUME EditRequest \/ ReplaceMeta \/ DamageInput PROVE CompositionInv'
    <2>1. UNCHANGED <<prefix, composed, manifest, package, cache, lockFile, source>>
      BY <1>3 DEF EditRequest, ReplaceMeta, DamageInput
    <2>2. request' \in Requests /\ input' \in [held : BOOLEAN, intact : BOOLEAN, meta : Metas]
      BY <1>3 DEF EditRequest, ReplaceMeta, DamageInput, CompositionInv, TypeOK
    <2>3. TypeOK'
      BY <1>1, <2>1, <2>2 DEF CompositionInv, TypeOK
    <2> QED
      BY <1>1, <1>2, <2>1, <2>3, FaultKeepsInv
  <1>4. ASSUME EditPrefix \/ RemovePrefix PROVE CompositionInv'
    <2>1. /\ UNCHANGED <<request, source, input, lockFile, composed, manifest, package, cache>>
          /\ \E d \in Dests : prefix[d] # NONE /\ \/ prefix' = [prefix EXCEPT ![d].edited = TRUE]
                                                  \/ prefix' = [prefix EXCEPT ![d] = NONE]
      BY <1>4 DEF EditPrefix, RemovePrefix
    <2>2. PICK d \in Dests : prefix[d] # NONE /\ \/ prefix' = [prefix EXCEPT ![d].edited = TRUE]
                                                  \/ prefix' = [prefix EXCEPT ![d] = NONE]
      BY <2>1
    <2>3. prefix[d] \in Prefixes
      BY <1>2, <2>2 DEF Maybe
    <2>4. /\ [prefix[d] EXCEPT !.edited = TRUE] \in Prefixes
          /\ [prefix[d] EXCEPT !.edited = TRUE].meta = prefix[d].meta
          /\ [prefix[d] EXCEPT !.edited = TRUE].lock = prefix[d].lock
      BY <2>3 DEF Prefixes
    <2>5. /\ prefix' \in [Dests -> Maybe(Prefixes)]
          /\ \A e \in Dests : prefix'[e] # NONE => prefix'[e].meta = prefix'[e].lock.meta
      BY <1>2, <2>2, <2>4 DEF Maybe
    <2>6. TypeOK'
      BY <1>1, <2>1, <2>5 DEF CompositionInv, TypeOK
    <2> QED
      BY <1>1, <2>1, <2>5, <2>6, FaultKeepsInv
  <1>5. ASSUME EditCache PROVE CompositionInv'
    <2>1. PICK i \in Digests : cache[i] # NONE /\ cache' = [cache EXCEPT ![i].edited = TRUE]
      BY <1>5 DEF EditCache
    <2>2. UNCHANGED <<request, source, input, lockFile, prefix, composed, manifest, package>>
      BY <1>5 DEF EditCache
    <2>3. /\ [cache[i] EXCEPT !.edited = TRUE] \in Prefixes
          /\ [cache[i] EXCEPT !.edited = TRUE].meta = cache[i].meta
          /\ [cache[i] EXCEPT !.edited = TRUE].lock = cache[i].lock
      BY <1>2, <2>1 DEF Prefixes, Maybe
    <2>4. /\ cache' \in [Digests -> Maybe(Prefixes)]
          /\ \A j \in Digests : /\ cache[j] # NONE <=> cache'[j] # NONE
                                /\ cache[j] # NONE => /\ cache'[j].lock = cache[j].lock
                                                      /\ cache'[j].meta = cache[j].meta
      BY <1>2, <2>1, <2>3, NoneAssumption DEF Maybe
    <2>5. TypeOK'
      BY <1>1, <2>2, <2>4 DEF CompositionInv, TypeOK
    <2> QED
      BY <1>1, <1>2, <2>2, <2>4, <2>5, FaultKeepsInv
  <1>6. ASSUME DamageComposed PROVE CompositionInv'
    <2>1. PICK l \in Locks : composed[l] # NONE /\ composed' = [composed EXCEPT ![l].edited = TRUE]
      BY <1>6 DEF DamageComposed
    <2>2. UNCHANGED <<request, source, input, lockFile, prefix, manifest, package, cache>>
      BY <1>6 DEF DamageComposed
    <2>3. /\ [composed[l] EXCEPT !.edited = TRUE] \in Prefixes
          /\ [composed[l] EXCEPT !.edited = TRUE].meta = composed[l].meta
          /\ [composed[l] EXCEPT !.edited = TRUE].lock = composed[l].lock
      BY <1>2, <2>1 DEF Prefixes, Maybe
    <2>4. /\ composed' \in [Locks -> Maybe(Prefixes)]
          /\ \A k \in Locks : /\ composed[k] # NONE <=> composed'[k] # NONE
                              /\ composed[k] # NONE => /\ composed'[k].lock = composed[k].lock
                                                       /\ composed'[k].meta = composed[k].meta
      BY <1>2, <2>1, <2>3, NoneAssumption DEF Maybe
    <2>5. TypeOK'
      BY <1>1, <2>2, <2>4 DEF CompositionInv, TypeOK
    <2> QED
      BY <1>1, <1>2, <2>2, <2>4, <2>5, FaultKeepsInv
  <1>7. ASSUME EditManifest \/ InstallPackage PROVE CompositionInv'
    <2>1. UNCHANGED <<request, source, input, lockFile, prefix, composed, cache>>
      BY <1>7 DEF EditManifest, InstallPackage
    <2>2. /\ manifest' \in Maybe(Manifests) /\ package' \in Maybe(Packages)
          /\ manifest # NONE => manifest' # NONE
          /\ package # NONE => package' # NONE
      <3>1. CASE EditManifest
        <4>1. PICK l \in Locks : manifest' = [manifest EXCEPT !.identity = l]
          BY <3>1 DEF EditManifest
        <4>2. manifest \in Manifests /\ package' = package
          BY <3>1 DEF EditManifest, CompositionInv, TypeOK, Maybe
        <4>3. manifest' \in Manifests
          BY <4>1, <4>2 DEF Manifests
        <4> QED
          BY <4>2, <4>3, NoneAssumption DEF Maybe, CompositionInv, TypeOK
      <3>2. CASE InstallPackage
        <4>1. PICK l \in Locks : package' = Packaged(l) /\ manifest' = manifest
          BY <3>2 DEF InstallPackage
        <4>2. package' \in Packages
          BY <4>1 DEF Packaged, Packages, Manifests
        <4> QED
          BY <4>1, <4>2, NoneAssumption DEF Maybe, CompositionInv, TypeOK
      <3> QED
        BY <1>7, <3>1, <3>2
    <2>3. TypeOK'
      BY <1>1, <2>1, <2>2 DEF CompositionInv, TypeOK
    <2> QED
      BY <1>1, <1>2, <2>1, <2>2, <2>3, FaultKeepsInv
  <1> QED
    BY <1>3, <1>4, <1>5, <1>6, <1>7 DEF Disturbing

-----------------------------------------------------------------------------
\* Every step keeps the invariant.
LEMMA StepKeepsInv == ASSUME CompositionInv, [Next]_vars PROVE CompositionInv'
  <1>1. ASSUME NEW p \in Procs, Composing(p) PROVE CompositionInv'
    <2>1. ASSUME BuildLockFails(p) \/ StageFails(p) \/ PublishFails(p) PROVE CompositionInv'
      BY <2>1, FailKeepsInv DEF BuildLockFails, StageFails, PublishFails
    <2> QED
      BY <1>1, <2>1, StartBuildKeepsInv, PullKeepsInv, ListPulledKeepsInv, BuildLockKeepsInv, StageKeepsInv, ReconstructArtifactKeepsInv,
         PublishKeepsInv, SaveLockKeepsInv DEF Composing
  <1>2. ASSUME NEW p \in Procs, Exporting(p) PROVE CompositionInv'
    BY <1>2, ExportKeepsInv, PackKeepsInv, ListPackedKeepsInv, FailKeepsInv DEF Exporting, PackFails
  <1>3. ASSUME NEW p \in Procs, Consuming(p) PROVE CompositionInv'
    BY <1>3, ConsumerManifestKeepsInv, ConsumerPackageKeepsInv, EmbedKeepsInv, FailKeepsInv
       DEF Consuming, EmbedFails
  <1>4. ASSUME NEW p \in Procs, Loading(p) PROVE CompositionInv'
    BY <1>4, ActivateKeepsInv, LoaderImportKeepsInv, LoaderListKeepsInv, LoaderVerifyKeepsInv,
       LoaderSkipsRebuildKeepsInv, LoaderRebuildKeepsInv, LoaderRenameKeepsInv, LoaderObserveKeepsInv, LoaderFailsKeepInv DEF Loading
  <1>5. CASE UNCHANGED vars
    <2>1. UNCHANGED <<files, proc, commands, faults>>
      BY <1>5 DEF vars, files
    <2>2. TypeOK' /\ FilesOK' /\ Grows
      BY <2>1 DEF CompositionInv, TypeOK, FilesOK, Kept, ExportedIsVerified, Grows, files
    <2>3. ASSUME NEW q \in Procs PROVE StepOK(proc[q])'
      <3>1. proc[q] \in States /\ proc'[q] = proc[q] /\ StepOK(proc[q])
        BY <2>1 DEF CompositionInv, TypeOK
      <3> QED
        BY <2>2, <3>1, StepsStay
    <2> QED
      BY <2>2, <2>3 DEF CompositionInv
  <1> QED
    BY <1>1, <1>2, <1>3, <1>4, <1>5, CrashKeepsInv, DisturbingKeepsInv DEF Next

\* Composed runtimes keep their invariant however commands interleave and die and
\* whatever is changed from outside.
THEOREM CompositionInvHolds == Spec => []CompositionInv
  BY InitHasInv, StepKeepsInv, PTL DEF Spec

\* runtime_composition.rs, materialize, export, activate: a prefix nobody touched
\* verifies, an artifact holds what its lock records, an active program runs a
\* runtime that was verified for its manifest, and commands that run at once make
\* an activation fail in one way only, by an index entry that an import overwrote.
THEOREM CompositionsAreVerified == Spec => []CompositionIsVerified
  BY CompositionInvHolds, InvImpliesVerified, PTL

-----------------------------------------------------------------------------
\* A step changes a published prefix only by an edit or a removal from outside,
\* and a new one is the staged one of the process that publishes.
LEMMA PrefixSteps ==
  ASSUME CompositionInv, [Next]_vars
  PROVE  \/ prefix' = prefix
         \/ \E d \in Dests : prefix[d] # NONE /\ \/ prefix' = [prefix EXCEPT ![d].edited = TRUE]
                                                 \/ prefix' = [prefix EXCEPT ![d] = NONE]
         \/ \E p \in Procs : Publish(p)
  <1>1. ASSUME NEW p \in Procs, Composing(p), ~Publish(p) PROVE prefix' = prefix
    BY <1>1 DEF Composing, Compose, ComposeLocked, Reconstruct, Pull, ListPulled, BuildLock, BuildLockFails, Stage, StageFails,
       ReconstructArtifact, PublishFails, SaveLock, LockSaved, Fail, files
  <1>2. ASSUME NEW p \in Procs, Exporting(p) \/ Consuming(p) PROVE prefix' = prefix
    BY <1>2 DEF Exporting, Consuming, Export, Pack, ListPacked, PackFails, ConsumerManifest, ConsumerPackage, Embed,
       EmbedFails, Fail, files
  <1>3. ASSUME NEW p \in Procs, Loading(p) \/ Crash(p) PROVE prefix' = prefix
    BY <1>3 DEF Loading, Activate, LoaderImport, LoaderList, LoaderImportFails, LoaderVerify, LoaderVerifyFails,
       LoaderSkipsRebuild, LoaderRebuild, LoaderRebuildFails, LoaderRename, LoaderObserve,
       LoaderObserveFails, Raise, Crash, files
  <1>4. ASSUME Disturbing, ~EditPrefix, ~RemovePrefix PROVE prefix' = prefix
    BY <1>4 DEF Disturbing, EditRequest, ReplaceMeta, DamageInput, EditCache, DamageComposed, EditManifest,
       InstallPackage
  <1> QED
    BY <1>1, <1>2, <1>3, <1>4 DEF Next, EditPrefix, RemovePrefix, vars

\* runtime_composition.rs, publish and require_same_lock: what is rebuilt from a
\* lock is what was locked, and no command replaces a published prefix.
THEOREM CompositionsStay == Spec => CompositionStays
  <1>1. ASSUME CompositionInv, [Next]_vars
        PROVE  [\A d \in Dests : prefix'[d] # NONE /\ prefix[d] = NONE =>
                 \A p \in Procs : (At(p, "publish") /\ proc'[p] # proc[p] /\ Me(p).expected # NONE) =>
                   /\ prefix'[d].lock = Me(p).expected
                   /\ prefix'[d].meta = Me(p).expected.meta]_vars
    <2> SUFFICES ASSUME NEW d \in Dests, prefix'[d] # NONE, prefix[d] = NONE,
                        NEW p \in Procs, At(p, "publish"), proc'[p] # proc[p], Me(p).expected # NONE
                 PROVE  /\ prefix'[d].lock = Me(p).expected
                        /\ prefix'[d].meta = Me(p).expected.meta
      OBVIOUS
    <2>1. prefix \in [Dests -> Maybe(Prefixes)]
      BY <1>1 DEF CompositionInv, TypeOK
    <2>2. PICK q \in Procs : Publish(q)
      BY <1>1, <2>1, PrefixSteps
    <2>3. p = q
      BY <2>2, <1>1 DEF Publish, Set, CompositionInv, TypeOK
    <2>4. Me(p).pc = "publish" /\ Me(p) \in States /\ StepOK(Me(p))
      BY <1>1, MeFacts DEF At, Me
    <2>5. prefix'[d] = Me(p).staged
      BY <2>1, <2>2, <2>3 DEF Publish
    <2> QED
      BY <2>4, <2>5 DEF StepOK, Verifies
  <1>2. ASSUME CompositionInv, [Next]_vars
        PROVE  [\A d \in Dests : prefix[d] # NONE =>
                  prefix'[d] \in {prefix[d], [prefix[d] EXCEPT !.edited = TRUE], NONE}]_vars
    <2>1. prefix \in [Dests -> Maybe(Prefixes)]
      BY <1>2 DEF CompositionInv, TypeOK
    <2> QED
      BY <1>2, <2>1, PrefixSteps DEF Publish
  <1> QED
    BY <1>1, <1>2, CompositionInvHolds, PTL
       DEF Spec, CompositionStays, LockedIsReproduced, PublishedIsNotReplaced

------------------------------------------------------------------------------
(* CompositionResolve.                                                     *)

\* What is asked for, on whose behalf: NoId is the manifest.
Asks(k, q) ==
  IF k = NoId THEN q \in composition.requirements ELSE k \in selected /\ q \in ContractOf(k).requires

Entry(k, q) == [consumer |-> k, requirement |-> q]
EntrySet == [consumer : Ids \cup {NoId}, requirement : Requirements]

Waiting(k, q) == Entry(k, q) \in Range(queue)

\* Granted, and the edge is recorded that puts the consumer after its provider.
Served(k, q) ==
  /\ Granted(q)
  /\ k # NoId => <<provider[q.capability].id, k>> \in edges

\* What the loop knows of a provider it selected.
Fits(c) ==
  LET p == provider[c] IN
  /\ p.id \in selected
  /\ Provides(RecordOf(p.id), c)
  /\ TargetMatches(RecordOf(p.id), composition.target)
  /\ p.version = Provision(RecordOf(p.id), c).version
  /\ composition.providers[c] \in {NoId, p.id}

Needed(i) == \E c \in Capabilities :
  /\ provider[c].id = i
  /\ \/ \E q \in composition.requirements : q.capability = c
     \/ \E j \in selected \ {i} : \E q \in ContractOf(j).requires : q.capability = c

\* The variables of the loop in every state.
LoopOK ==
  /\ queue \in Seq(EntrySet)
  /\ provider \in [Capabilities -> [id : Ids \cup {NoId}, version : Nat]]
  /\ selected \subseteq Ids /\ IsFiniteSet(selected)
  /\ order \in Seq(Ids)
  /\ outcome = "loading" => /\ queue = <<>> /\ selected = {} /\ edges = {} /\ order = <<>>
                            /\ \A c \in Capabilities : ~Chosen(c)

\* Between the screening and a refusal: what is asked for waits or was served, and
\* what is selected is needed and fits.
WorkOK ==
  /\ Screened(composition, records)
  /\ \A e \in Range(queue) : Asks(e.consumer, e.requirement)
  /\ \A k \in selected \cup {NoId} : \A q \in Requirements :
       Asks(k, q) => Waiting(k, q) \/ Served(k, q)
  /\ \A c \in Capabilities : Chosen(c) => Fits(c)
  /\ \A i \in selected : Needed(i)

\* The emitted components: each once, after its providers.
OrderOK ==
  /\ \A i, j \in DOMAIN order : order[i] = order[j] => i = j
  /\ \A j \in DOMAIN order : \A e \in edges :
       e[2] = order[j] /\ e[1] # e[2] => \E i \in 1..(j - 1) : order[i] = e[1]

ResolveInv ==
  /\ ResolveTypeOK /\ LoopOK
  /\ outcome \in {"resolving", "ordering", "resolved"} => WorkOK
  /\ outcome = "resolving" => order = <<>>
  /\ outcome \in {"ordering", "resolved"} => queue = <<>> /\ Consistent /\ OrderOK
  /\ outcome = "resolved" => Emitted = selected

-----------------------------------------------------------------------------
\* A nonempty set of numbers has a smallest.
LEMMA NatMin == ASSUME NEW S \in SUBSET Nat, S # {} PROVE \E n \in S : \A m \in S : n <= m
  <1>1. PICK n \in S : \A m \in S : ~(<<m, n>> \in OpToRel(<, Nat))
    BY NatLessThanWellFounded, WFMin
  <1>2. \A m \in S : ~(m < n)
    BY <1>1 DEF OpToRel
  <1> QED
    BY <1>2

\* KeyLess is the lexicographic order.
LEMMA KeyLessIs == ASSUME NEW a, NEW b PROVE
  KeyLess(a, b) <=>
    \/ a.capability < b.capability
    \/ a.capability = b.capability /\ a.version.lo < b.version.lo
    \/ a.capability = b.capability /\ a.version.lo = b.version.lo /\ a.version.hi < b.version.hi
    \/ a.capability = b.capability /\ a.version.lo = b.version.lo /\ a.version.hi = b.version.hi
       /\ a.provider < b.provider
  <1>1. /\ KeyOf(a)[1] = a.capability /\ KeyOf(a)[2] = a.version.lo
        /\ KeyOf(a)[3] = a.version.hi /\ KeyOf(a)[4] = a.provider
        /\ KeyOf(b)[1] = b.capability /\ KeyOf(b)[2] = b.version.lo
        /\ KeyOf(b)[3] = b.version.hi /\ KeyOf(b)[4] = b.provider
    BY DEF KeyOf
  <1>2. 1..4 = {1, 2, 3, 4} /\ 1..(1-1) = {} /\ 1..(2-1) = {1} /\ 1..(3-1) = {1,2} /\ 1..(4-1) = {1,2,3}
    OBVIOUS
  <1> QED
    BY <1>1, <1>2 DEF KeyLess

LEMMA ReqTypes == ASSUME NEW q \in Requirements
  PROVE /\ q.capability \in Nat /\ q.version.lo \in Nat /\ q.version.hi \in Nat /\ q.provider \in Nat
        /\ q = [capability |-> q.capability, version |-> [lo |-> q.version.lo, hi |-> q.version.hi], provider |-> q.provider]
  <1>1. q.capability \in Nat /\ q.version \in Ranges /\ q.provider \in Nat
    <2>1. \A x \in Ids \cup {NoId} : x \in Nat
      BY NumbersAssumption DEF NoId
    <2>2. q.capability \in Capabilities /\ q.version \in Ranges /\ q.provider \in Ids \cup {NoId}
      BY DEF Requirements
    <2> QED
      BY <2>1, <2>2, NumbersAssumption
  <1>2. q = [capability |-> q.capability, version |-> q.version, provider |-> q.provider]
    BY DEF Requirements
  <1>3. q.version.lo \in Nat /\ q.version.hi \in Nat /\ q.version = [lo |-> q.version.lo, hi |-> q.version.hi]
    BY <1>1 DEF Ranges
  <1> QED
    BY <1>1, <1>2, <1>3

\* A nonempty set of requirements has a first.
LEMMA KeyMin == ASSUME NEW S \in SUBSET Requirements, S # {}
  PROVE \E q \in S : \A r \in S \ {q} : KeyLess(q, r)
  <1> DEFINE A == S
  <1>1. PICK x \in S : \A r \in S : x.capability <= r.capability
    <2> DEFINE N == {r.capability : r \in S}
    <2>1. N \in SUBSET Nat /\ N # {}
      BY ReqTypes
    <2>2. PICK n \in N : \A m \in N : n <= m
      <3> HIDE DEF N
      <3> QED
        BY <2>1, NatMin
    <2> QED
      BY <2>2
  <1> DEFINE S1 == {r \in S : r.capability = x.capability}
  <1>2. PICK y \in S1 : \A r \in S1 : y.version.lo <= r.version.lo
    <2> DEFINE N == {r.version.lo : r \in S1}
    <2>1. N \in SUBSET Nat /\ N # {}
      BY ReqTypes
    <2>2. PICK n \in N : \A m \in N : n <= m
      <3> HIDE DEF N
      <3> QED
        BY <2>1, NatMin
    <2> QED
      BY <2>2
  <1> DEFINE S2 == {r \in S1 : r.version.lo = y.version.lo}
  <1>3. PICK z \in S2 : \A r \in S2 : z.version.hi <= r.version.hi
    <2> DEFINE N == {r.version.hi : r \in S2}
    <2>1. N \in SUBSET Nat /\ N # {}
      BY ReqTypes
    <2>2. PICK n \in N : \A m \in N : n <= m
      <3> HIDE DEF N
      <3> QED
        BY <2>1, NatMin
    <2> QED
      BY <2>2
  <1> DEFINE S3 == {r \in S2 : r.version.hi = z.version.hi}
  <1>4. PICK w \in S3 : \A r \in S3 : w.provider <= r.provider
    <2> DEFINE N == {r.provider : r \in S3}
    <2>1. N \in SUBSET Nat /\ N # {}
      BY ReqTypes
    <2>2. PICK n \in N : \A m \in N : n <= m
      <3> HIDE DEF N
      <3> QED
        BY <2>1, NatMin
    <2> QED
      BY <2>2
  <1>5. ASSUME NEW r \in S \ {w} PROVE KeyLess(w, r)
    <2>1. /\ w \in S /\ w.capability = x.capability /\ w.version.lo = y.version.lo
          /\ w.version.hi = z.version.hi
      BY <1>4
    <2>2. \/ w.capability # r.capability \/ w.version.lo # r.version.lo
          \/ w.version.hi # r.version.hi \/ w.provider # r.provider
      BY <2>1, ReqTypes
    <2>3. /\ w.capability \in Nat /\ w.version.lo \in Nat /\ w.version.hi \in Nat /\ w.provider \in Nat
          /\ r.capability \in Nat /\ r.version.lo \in Nat /\ r.version.hi \in Nat /\ r.provider \in Nat
      BY <2>1, ReqTypes
    <2>4. w.capability <= r.capability
      BY <1>1, <2>1
    <2>5. w.capability = r.capability => w.version.lo <= r.version.lo
      BY <1>2, <2>1
    <2>6. w.capability = r.capability /\ w.version.lo = r.version.lo => w.version.hi <= r.version.hi
      BY <1>3, <2>1
    <2>7. w.capability = r.capability /\ w.version.lo = r.version.lo /\ w.version.hi = r.version.hi => w.provider <= r.provider
      BY <1>4, <2>1
    <2> QED
      BY <2>2, <2>3, <2>4, <2>5, <2>6, <2>7, KeyLessIs
  <1> QED
    BY <1>4, <1>5

IsSorting(s, S) ==
  /\ s \in [1..Cardinality(S) -> S]
  /\ \A q \in S : \E i \in DOMAIN s : s[i] = q
  /\ \A i, j \in DOMAIN s : i < j => KeyLess(s[i], s[j])

\* Every list of requirements can be sorted: a smallest set that cannot be has a
\* first requirement, and the rest is smaller.
LEMMA SortingExists == ASSUME NEW S \in SUBSET Requirements, IsFiniteSet(S) PROVE \E s : IsSorting(s, S)
  <1> DEFINE Bad == {n \in Nat : \E T \in SUBSET Requirements :
                       IsFiniteSet(T) /\ Cardinality(T) = n /\ ~\E s : IsSorting(s, T)}
  <1> SUFFICES ASSUME Bad # {} PROVE FALSE
    <2>1. Cardinality(S) \in Nat
      BY FS_CardinalityType
    <2> QED
      BY <2>1
  <1>1. PICK n \in Bad : \A m \in Bad : n <= m
    <2>1. Bad \in SUBSET Nat
      OBVIOUS
    <2> HIDE DEF Bad
    <2> QED
      BY <2>1, NatMin
  <1>2. PICK T \in SUBSET Requirements :
          IsFiniteSet(T) /\ Cardinality(T) = n /\ ~\E s : IsSorting(s, T)
    BY <1>1
  <1>3. T # {}
    <2> SUFFICES ASSUME T = {} PROVE FALSE
      OBVIOUS
    <2>1. n = 0
      BY <1>2, FS_EmptySet
    <2>2. IsSorting([i \in 1..0 |-> 0], T)
      BY <1>2, <2>1 DEF IsSorting
    <2> QED
      BY <1>2, <2>2
  <1>4. PICK q \in T : \A r \in T \ {q} : KeyLess(q, r)
    BY <1>3, KeyMin
  <1> DEFINE U == T \ {q}
  <1>5. IsFiniteSet(U) /\ Cardinality(U) = n - 1 /\ n - 1 \in Nat /\ n \in Nat
    <2>1. IsFiniteSet(U) /\ Cardinality(U) = Cardinality(T) - 1
      BY <1>2, <1>4, FS_RemoveElement
    <2>2. Cardinality(U) \in Nat
      BY <2>1, FS_CardinalityType
    <2> QED
      BY <1>2, <2>1, <2>2
  <1>6. PICK u : IsSorting(u, U)
    <2>1. n - 1 \notin Bad
      BY <1>1, <1>5
    <2> QED
      BY <1>5, <2>1
  <1> DEFINE s == [i \in 1..n |-> IF i = 1 THEN q ELSE u[i - 1]]
  <1>7. \A i \in 2..n : i - 1 \in 1..(n - 1) /\ u[i - 1] \in U
    <2>1. u \in [1..(n - 1) -> U]
      BY <1>5, <1>6 DEF IsSorting
    <2>2. \A i \in 2..n : i - 1 \in 1..(n - 1)
      BY <1>5
    <2> QED
      BY <2>1, <2>2
  <1>8. s \in [1..n -> T]
    BY <1>5, <1>7
  <1>9. \A r \in T : \E i \in 1..n : s[i] = r
    <2> SUFFICES ASSUME NEW r \in T PROVE \E i \in 1..n : s[i] = r
      OBVIOUS
    <2>1. CASE r = q
      BY <1>5, <2>1
    <2>2. CASE r # q
      <3>1. PICK j \in 1..(n - 1) : u[j] = r
        BY <1>5, <1>6, <2>2 DEF IsSorting
      <3>2. j + 1 \in 1..n /\ j + 1 # 1 /\ (j + 1) - 1 = j
        BY <1>5, <3>1
      <3>3. s[j + 1] = r
        BY <3>1, <3>2
      <3> QED
        BY <3>2, <3>3
    <2> QED
      BY <2>1, <2>2
  <1>10. \A i, j \in 1..n : i < j => KeyLess(s[i], s[j])
    <2> SUFFICES ASSUME NEW i \in 1..n, NEW j \in 1..n, i < j PROVE KeyLess(s[i], s[j])
      OBVIOUS
    <2>1. j \in 2..n /\ s[j] = u[j - 1]
      BY <1>5
    <2>2. CASE i = 1
      BY <1>4, <1>7, <2>1, <2>2
    <2>3. CASE i # 1
      <3>1. i \in 2..n /\ s[i] = u[i - 1] /\ i - 1 < j - 1
        BY <1>5, <2>3
      <3> QED
        BY <1>5, <1>6, <1>7, <2>1, <3>1 DEF IsSorting
    <2> QED
      BY <2>2, <2>3
  <1>11. IsSorting(s, T)
    BY <1>2, <1>8, <1>9, <1>10 DEF IsSorting
  <1> QED
    BY <1>2, <1>11

\* Sequences by their elements.
LEMMA SeqElements ==
  ASSUME NEW S, NEW s \in Seq(S)
  PROVE  /\ DOMAIN s = 1..Len(s) /\ Len(s) \in Nat /\ \A i \in DOMAIN s : s[i] \in S
         /\ \A T : (\A i \in DOMAIN s : s[i] \in T) => s \in Seq(T)
  OBVIOUS

LEMMA FunctionIsSeq == ASSUME NEW S, NEW n \in Nat, NEW f \in [1..n -> S] PROVE f \in Seq(S)
  OBVIOUS

\* The entries of a list of requirements are these requirements, all of them.
LEMMA EntriesOfList ==
  ASSUME NEW S \in SUBSET Requirements, IsFiniteSet(S), NEW k \in Ids \cup {NoId}
  PROVE  Entries(k, S) \in Seq(EntrySet) /\ Range(Entries(k, S)) = {Entry(k, q) : q \in S}
  <1>1. IsSorting(Sorted(S), S)
    <2>1. \E s \in [1..Cardinality(S) -> S] :
            /\ \A q \in S : \E i \in DOMAIN s : s[i] = q
            /\ \A i, j \in DOMAIN s : i < j => KeyLess(s[i], s[j])
      BY SortingExists DEF IsSorting
    <2> QED
      BY <2>1 DEF Sorted, IsSorting
  <1> DEFINE n == Cardinality(S)
             e == Entries(k, S)
  <1>2. n \in Nat
    BY FS_CardinalityType
  <1>3. \A i \in 1..n : Sorted(S)[i] \in S
    BY <1>1 DEF IsSorting
  <1>4. \A q \in S : \E i \in 1..n : Sorted(S)[i] = q
    BY <1>1 DEF IsSorting
  <1>5. e = [i \in 1..n |-> Entry(k, Sorted(S)[i])]
    BY DEF Entries, Entry
  <1>6. \A q \in S : Entry(k, q) \in EntrySet
    BY DEF Entry, EntrySet
  <1>7. e \in [1..n -> EntrySet]
    BY <1>3, <1>5, <1>6
  <1>8. e \in Seq(EntrySet)
    BY <1>2, <1>7, FunctionIsSeq
  <1>9. Range(e) = {Entry(k, q) : q \in S}
    BY <1>3, <1>4, <1>5 DEF Range
  <1> QED
    BY <1>8, <1>9

\* What is in a worklist after its head was popped and a list was appended.
LEMMA TailConcat ==
  ASSUME NEW S, NEW s \in Seq(S), s # <<>>, NEW t \in Seq(S)
  PROVE  /\ Tail(s) \o t \in Seq(S) /\ Head(s) \in Range(s) /\ Range(s) \subseteq S
         /\ Range(Tail(s) \o t) \subseteq Range(s) \cup Range(t)
         /\ Range(s) \subseteq Range(Tail(s) \o t) \cup {Head(s)}
         /\ Range(t) \subseteq Range(Tail(s) \o t)
  <1> DEFINE n == Len(s) - 1
             u == Tail(s)
             w == u \o t
  <1>1. /\ u \in Seq(S) /\ Len(u) = n /\ n \in Nat /\ Head(s) = s[1] /\ 1 \in DOMAIN s
        /\ DOMAIN s = 1..(n + 1) /\ DOMAIN t = 1..Len(t) /\ Len(t) \in Nat
    OBVIOUS
  <1>2. \A i \in 1..n : u[i] = s[i + 1] /\ i + 1 \in DOMAIN s
    OBVIOUS
  <1>3. w \in Seq(S) /\ Len(w) = n + Len(t) /\ DOMAIN w = 1..(n + Len(t))
    BY <1>1
  <1>4. \A i \in 1..n : w[i] = s[i + 1] /\ i \in DOMAIN w
    BY <1>1, <1>2
  <1>5. \A i \in 1..Len(t) : w[n + i] = t[i] /\ n + i \in DOMAIN w
    BY <1>1, <1>3
  <1>6. \A i \in DOMAIN w : i \in 1..n \/ (i - n \in 1..Len(t) /\ i = n + (i - n))
    BY <1>1, <1>3
  <1> HIDE DEF w
  <1>7. Range(w) \subseteq Range(s) \cup Range(t)
    <2> SUFFICES ASSUME NEW i \in DOMAIN w PROVE w[i] \in Range(s) \cup Range(t)
      BY DEF Range
    <2>1. CASE i \in 1..n
      BY <2>1, <1>2, <1>4 DEF Range
    <2>2. CASE i - n \in 1..Len(t) /\ i = n + (i - n)
      BY <2>2, <1>1, <1>5 DEF Range
    <2> QED
      BY <1>6, <2>1, <2>2
  <1>8. Range(s) \subseteq Range(w) \cup {Head(s)}
    <2> SUFFICES ASSUME NEW j \in DOMAIN s, j # 1 PROVE s[j] \in Range(w)
      BY <1>1 DEF Range
    <2>1. j - 1 \in 1..n /\ (j - 1) + 1 = j
      BY <1>1
    <2> QED
      BY <1>4, <2>1 DEF Range
  <1>9. Range(t) \subseteq Range(w)
    BY <1>1, <1>5 DEF Range
  <1>10. Head(s) \in Range(s) /\ Range(s) \subseteq S
    BY <1>1 DEF Range
  <1> QED
    BY <1>3, <1>7, <1>8, <1>9, <1>10 DEF w

\* The record of a candidate, and its contract.
LEMMA CandidateFacts == ASSUME records \in Inputs, NEW i \in Candidates
  PROVE  /\ RecordOf(i) \in records /\ RecordOf(i).component.id = i /\ i \in Ids /\ i # NoId
         /\ ContractOf(i) = RecordOf(i).component
         /\ ContractOf(i).requires \subseteq Requirements /\ IsFiniteSet(ContractOf(i).requires)
         /\ ContractOf(i).provides \subseteq Provisions
  <1>1. \E r \in records : r.component.id = i
    BY DEF Candidates
  <1>2. RecordOf(i) \in records /\ RecordOf(i).component.id = i
    BY <1>1 DEF RecordOf
  <1> QED
    BY <1>2, InputsAssumption, NumbersAssumption DEF ContractOf

\* Once screened, an id names one record.
LEMMA ScreenedIds == ASSUME Screened(composition, records), NEW r \in records
  PROVE  RecordOf(r.component.id) = r /\ r.component.id \in Candidates
  <1>1. /\ RecordOf(r.component.id) \in records
        /\ RecordOf(r.component.id).component.id = r.component.id
    BY DEF RecordOf
  <1> QED
    BY <1>1 DEF Screened, Candidates

\* The operators on records and manifest do not change with the loop.
LEMMA RecordsStay == ASSUME UNCHANGED <<composition, records>>
  PROVE  /\ \A i : RecordOf(i)' = RecordOf(i) /\ ContractOf(i)' = ContractOf(i)
         /\ Candidates' = Candidates /\ Screened(composition, records)' = Screened(composition, records)
  BY DEF RecordOf, ContractOf, Candidates, Screened, ValidManifest, ValidContract

LEMMA ManifestFacts == ASSUME composition \in Compositions
  PROVE  /\ composition.requirements \subseteq Requirements /\ IsFiniteSet(composition.requirements)
         /\ composition.providers \in [Capabilities -> Ids \cup {NoId}]
  BY ManifestsAssumption

-----------------------------------------------------------------------------
LEMMA ResolveInitHasInv == ResolveInit => ResolveInv
  <1> SUFFICES ASSUME ResolveInit PROVE ResolveInv
    OBVIOUS
  <1>1. LoopOK
    BY FS_EmptySet DEF ResolveInit, LoopOK, Unprovided, Chosen
  <1>2. ResolveTypeOK
    BY DEF ResolveInit, ResolveTypeOK, Unprovided, Chosen, Emitted
  <1> QED
    BY <1>1, <1>2 DEF ResolveInit, ResolveInv

LEMMA RefuseKeepsInv == ASSUME ResolveInv, Refuse PROVE ResolveInv'
  <1>1. ResolveTypeOK'
    BY RecordsStay DEF ResolveInv, ResolveTypeOK, Refuse, Chosen, Emitted
  <1>2. LoopOK'
    BY DEF ResolveInv, LoopOK, Refuse
  <1> QED
    BY <1>1, <1>2 DEF ResolveInv, Refuse

LEMMA LoadKeepsInv == ASSUME ResolveInv, Load PROVE ResolveInv'
  <1> DEFINE R == composition.requirements
  <1>1. UNCHANGED <<composition, records, selected, provider, edges, order>>
        /\ outcome' = "resolving" /\ queue' = Entries(NoId, R)
        /\ selected = {} /\ edges = {} /\ order = <<>> /\ \A c \in Capabilities : ~Chosen(c)
    BY DEF ResolveInv, LoopOK, Load
  <1>2. R \subseteq Requirements /\ IsFiniteSet(R)
    BY ManifestFacts DEF ResolveInv, ResolveTypeOK
  <1>3. queue' \in Seq(EntrySet) /\ Range(queue') = {Entry(NoId, q) : q \in R}
    BY <1>1, <1>2, EntriesOfList
  <1>4. \A e \in Range(queue') : e.consumer = NoId /\ e.requirement \in R
    BY <1>3 DEF Entry
  <1>5. ResolveTypeOK'
    <2>1. \A i \in DOMAIN queue' : queue'[i].consumer = NoId
      BY <1>4 DEF Range
    <2> QED
      BY <1>1, <2>1, RecordsStay DEF ResolveInv, ResolveTypeOK, Chosen, Emitted
  <1>6. LoopOK'
    BY <1>1, <1>3 DEF ResolveInv, LoopOK
  <1>7. WorkOK'
    <2>1. Screened(composition, records)'
      BY <1>1, RecordsStay DEF Load
    <2>2. (\A e \in Range(queue) : Asks(e.consumer, e.requirement))'
      BY <1>1, <1>4 DEF Asks
    <2>3. (\A k \in selected \cup {NoId} : \A q \in Requirements :
             Asks(k, q) => Waiting(k, q) \/ Served(k, q))'
      BY <1>1, <1>3 DEF Asks, Waiting
    <2> QED
      BY <1>1, <2>1, <2>2, <2>3 DEF WorkOK, Chosen
  <1> QED
    BY <1>1, <1>5, <1>6, <1>7 DEF ResolveInv

\* The entry that is popped.
LEMMA PoppedFacts == ASSUME ResolveInv, Popping
  PROVE  /\ outcome = "resolving" /\ WorkOK /\ ResolveTypeOK /\ LoopOK /\ order = <<>>
         /\ Popped \in Requirements /\ Popped.capability \in Capabilities
         /\ Head(queue).consumer \in selected \cup {NoId}
         /\ Head(queue) = Entry(Head(queue).consumer, Popped)
         /\ Asks(Head(queue).consumer, Popped)
         /\ selected \subseteq Ids /\ NoId \notin Ids
  <1>1. queue \in Seq(EntrySet) /\ queue # <<>>
    BY DEF ResolveInv, LoopOK, Popping
  <1>2. Head(queue) \in Range(queue) /\ Head(queue) \in EntrySet
    BY <1>1, TailConcat
  <1>3. /\ Popped \in Requirements
        /\ Head(queue) = [consumer |-> Head(queue).consumer, requirement |-> Popped]
    BY <1>2 DEF Popped, EntrySet
  <1>4. Popped.capability \in Capabilities
    BY <1>3 DEF Requirements
  <1>5. outcome = "resolving" /\ WorkOK /\ ResolveTypeOK /\ LoopOK /\ order = <<>>
    BY DEF ResolveInv, Popping
  <1>6. Head(queue).consumer \in selected \cup {NoId} /\ Asks(Head(queue).consumer, Popped)
    <2>1. \A e \in Range(queue) : e.consumer \in selected \cup {NoId}
      BY <1>5 DEF ResolveTypeOK, Range
    <2> QED
      BY <1>2, <1>5, <2>1 DEF WorkOK, Popped
  <1> QED
    BY <1>3, <1>4, <1>5, <1>6, NumbersAssumption DEF LoopOK, Entry

\* The entries of a contract.
LEMMA EntriesOfContract == ASSUME records \in Inputs, NEW id \in Candidates
  PROVE  /\ Entries(id, ContractOf(id).requires) \in Seq(EntrySet)
         /\ Range(Entries(id, ContractOf(id).requires)) = {Entry(id, q) : q \in ContractOf(id).requires}
  BY CandidateFacts, EntriesOfList

\* A requirement that is popped and granted: by the provider its capability has,
\* or by one that is selected for it.
LEMMA PopKeepsInv ==
  ASSUME ResolveInv, Popping, UNCHANGED <<composition, records, outcome, order>>,
         NEW id \in Candidates,
         NEW new \in Seq(EntrySet),
         NEW q0 \in Requirements, q0 = Popped,
         NEW c \in Capabilities, c = q0.capability,
         queue' = Tail(queue) \o new,
         selected' = selected \cup {id},
         edges' = edges \cup EdgeTo(id),
         provider' \in [Capabilities -> [id : Ids \cup {NoId}, version : Nat]],
         provider'[c].id = id, Fits(c)',
         \A d \in Capabilities : Chosen(d) \/ d # c => provider'[d] = provider[d],
         VersionSatisfies(provider'[c].version, q0.version),
         q0.provider \in {NoId, id},
         IF id \in selected THEN new = <<>> ELSE new = Entries(id, ContractOf(id).requires)
  PROVE  ResolveInv'
  <1> DEFINE k0 == Head(queue).consumer
  <1>1. /\ outcome = "resolving" /\ WorkOK /\ ResolveTypeOK /\ LoopOK /\ order = <<>>
        /\ k0 \in selected \cup {NoId}
        /\ Head(queue) = Entry(k0, q0)
        /\ Asks(k0, q0)
        /\ selected \subseteq Ids /\ NoId \notin Ids
    BY PoppedFacts
  <1>2. /\ id \in Ids /\ id # NoId
        /\ ContractOf(id).requires \subseteq Requirements /\ IsFiniteSet(ContractOf(id).requires)
    BY <1>1, CandidateFacts DEF ResolveTypeOK
  <1>3. /\ \A i : RecordOf(i)' = RecordOf(i) /\ ContractOf(i)' = ContractOf(i)
        /\ Candidates' = Candidates /\ Screened(composition, records)' = Screened(composition, records)
    BY RecordsStay
  <1>4. /\ queue' \in Seq(EntrySet) /\ Range(queue) \subseteq EntrySet
        /\ Range(queue') \subseteq Range(queue) \cup Range(new)
        /\ Range(queue) \subseteq Range(queue') \cup {Head(queue)}
        /\ Range(new) \subseteq Range(queue')
    <2>1. queue \in Seq(EntrySet) /\ queue # <<>>
      BY <1>1 DEF LoopOK, Popping
    <2> QED
      BY <2>1, TailConcat
  <1>5. Range(new) = IF id \in selected THEN {} ELSE {Entry(id, q) : q \in ContractOf(id).requires}
    <2>1. CASE id \in selected
      BY <2>1 DEF Range
    <2>2. CASE id \notin selected
      BY <1>1, <2>2, EntriesOfContract DEF ResolveTypeOK
    <2> QED
      BY <2>1, <2>2
  <1>6. \A q \in Requirements : Granted(q) => Granted(q)' /\ provider'[q.capability] = provider[q.capability]
    <2> SUFFICES ASSUME NEW q \in Requirements, Granted(q)
                 PROVE  Granted(q)' /\ provider'[q.capability] = provider[q.capability]
      OBVIOUS
    <2>1. q.capability \in Capabilities /\ Chosen(q.capability)
      BY <1>1 DEF Granted, Chosen, Requirements
    <2>2. provider'[q.capability] = provider[q.capability]
      BY <2>1
    <2> QED
      BY <1>3, <2>2 DEF Granted, Provides, TargetMatches, Provision
  <1>7. Granted(q0)'
    BY DEF Fits, Granted
  <1>8. \A k \in selected' \cup {NoId} : \A q :
          Asks(k, q)' <=> Asks(k, q) \/ (k = id /\ id \notin selected /\ q \in ContractOf(id).requires)
    BY <1>1, <1>2, <1>3 DEF Asks
  <1>9. ResolveTypeOK'
    <2>1. \A i \in DOMAIN queue' : queue'[i].consumer \in selected' \cup {NoId}
      <3>1. \A e \in Range(queue) : e.consumer \in selected \cup {NoId}
        BY <1>1 DEF ResolveTypeOK, Range
      <3>2. \A e \in Range(new) : e.consumer = id
        BY <1>5 DEF Entry
      <3>3. \A e \in Range(queue') : e.consumer \in selected' \cup {NoId}
        BY <1>4, <3>1, <3>2
      <3> QED
        BY <3>3 DEF Range
    <2>2. edges' \subseteq selected' \X selected'
      <3>1. EdgeTo(id) \subseteq selected' \X selected'
        BY <1>1 DEF EdgeTo
      <3>2. edges \subseteq selected' \X selected'
        BY <1>1 DEF ResolveTypeOK
      <3> QED
        BY <3>1, <3>2
    <2>3. \A d \in Capabilities : Chosen(d)' => provider'[d].id \in selected'
      BY <1>1 DEF ResolveTypeOK, Chosen
    <2>4. Emitted' \subseteq selected'
      BY <1>1 DEF Emitted
    <2> QED
      BY <1>1, <1>3, <2>1, <2>2, <2>3, <2>4 DEF ResolveTypeOK
  <1>10. LoopOK'
    <2>1. selected' \subseteq Ids /\ IsFiniteSet(selected')
      BY <1>1, <1>2, FS_AddElement DEF LoopOK
    <2> QED
      BY <1>1, <1>4, <2>1 DEF LoopOK
  <1>11. WorkOK'
    <2>1. (\A e \in Range(queue) : Asks(e.consumer, e.requirement))'
      <3>1. \A e \in Range(queue) : Asks(e.consumer, e.requirement)
        BY <1>1 DEF WorkOK
      <3>2. \A k, q : Asks(k, q) => Asks(k, q)'
        BY <1>3 DEF Asks
      <3>3. \A e \in Range(new) : id \notin selected /\ e.consumer = id /\ e.requirement \in ContractOf(id).requires
        BY <1>5 DEF Entry
      <3>4. \A e \in Range(new) : Asks(e.consumer, e.requirement)'
        BY <1>2, <1>3, <3>3 DEF Asks
      <3> QED
        BY <1>4, <3>1, <3>2, <3>4
    <2>2. (\A k \in selected \cup {NoId} : \A q \in Requirements :
             Asks(k, q) => Waiting(k, q) \/ Served(k, q))'
      <3> SUFFICES ASSUME NEW k \in selected' \cup {NoId}, NEW q \in Requirements, Asks(k, q)'
                   PROVE  Waiting(k, q)' \/ Served(k, q)'
        OBVIOUS
      <3>1. CASE Asks(k, q)
        <4>1. k \in selected \cup {NoId}
          BY <3>1 DEF Asks
        <4>2. CASE Waiting(k, q)
          <5>1. Entry(k, q) \in Range(queue)
            BY <4>2 DEF Waiting
          <5>2. CASE Entry(k, q) = Head(queue)
            <6>1. k = k0 /\ q = q0
              BY <1>1, <5>2 DEF Entry
            <6>2. k # NoId => <<id, k>> \in edges'
              BY <6>1 DEF EdgeTo
            <6> QED
              BY <1>7, <6>1, <6>2 DEF Served
          <5>3. CASE Entry(k, q) \in Range(queue')
            BY <5>3 DEF Waiting
          <5> QED
            BY <1>4, <5>1, <5>2, <5>3
        <4>3. CASE Served(k, q)
          BY <1>6, <4>3 DEF Served
        <4> QED
          BY <1>1, <3>1, <4>1, <4>2, <4>3 DEF WorkOK
      <3>2. CASE k = id /\ id \notin selected /\ q \in ContractOf(id).requires
        BY <1>4, <1>5, <3>2 DEF Waiting
      <3> QED
        BY <1>8, <3>1, <3>2
    <2>3. (\A d \in Capabilities : Chosen(d) => Fits(d))'
      <3> SUFFICES ASSUME NEW d \in Capabilities, Chosen(d)' PROVE Fits(d)'
        OBVIOUS
      <3>1. CASE d # c
        <4>1. provider'[d] = provider[d] /\ Fits(d)
          BY <1>1, <3>1 DEF WorkOK, Chosen
        <4> QED
          BY <1>3, <4>1 DEF Fits, Provides, TargetMatches, Provision
      <3> QED
        BY <3>1
    <2>4. (\A i \in selected : Needed(i))'
      <3> SUFFICES ASSUME NEW i \in selected' PROVE Needed(i)'
        OBVIOUS
      <3>1. CASE i \in selected
        <4>1. PICK d \in Capabilities :
                /\ provider[d].id = i
                /\ \/ \E q \in composition.requirements : q.capability = d
                   \/ \E j \in selected \ {i} : \E q \in ContractOf(j).requires : q.capability = d
          BY <1>1, <3>1 DEF WorkOK, Needed
        <4>2. provider'[d].id = i
          BY <1>1, <3>1, <4>1 DEF Chosen
        <4> QED
          BY <1>3, <4>1, <4>2 DEF Needed
      <3>2. CASE i = id /\ id \notin selected
        <4>1. CASE k0 = NoId
          BY <1>1, <3>2, <4>1 DEF Asks, Needed
        <4>2. CASE k0 # NoId
          <5>1. k0 \in selected' \ {i} /\ q0 \in ContractOf(k0).requires
            BY <1>1, <3>2, <4>2 DEF Asks
          <5> QED
            BY <1>3, <3>2, <5>1 DEF Needed
        <4> QED
          BY <4>1, <4>2
      <3> QED
        BY <3>1, <3>2
    <2> QED
      BY <1>1, <1>3, <2>1, <2>2, <2>3, <2>4 DEF WorkOK
  <1> QED
    BY <1>1, <1>9, <1>10, <1>11 DEF ResolveInv

\* What the phases after the loop leave alone.
LEMMA LoopStays ==
  ASSUME UNCHANGED <<composition, records, queue, selected, provider, edges>>
  PROVE  /\ WorkOK => WorkOK'
         /\ Consistent => Consistent'
         /\ order' = order /\ outcome' \in {"ordering", "resolved"} /\ ResolveTypeOK => ResolveTypeOK'
         /\ order' = order /\ outcome' \in {"ordering", "resolved"} /\ LoopOK => LoopOK'
  <1>1. /\ \A i : RecordOf(i)' = RecordOf(i) /\ ContractOf(i)' = ContractOf(i)
        /\ Candidates' = Candidates /\ Screened(composition, records)' = Screened(composition, records)
    BY RecordsStay
  <1>2. WorkOK => WorkOK'
    <2>1. \A k, q : Asks(k, q)' <=> Asks(k, q)
      BY <1>1 DEF Asks
    <2>2. \A k, q : Waiting(k, q)' <=> Waiting(k, q)
      BY DEF Waiting
    <2>3. \A k, q : Served(k, q)' <=> Served(k, q)
      BY <1>1 DEF Served, Granted, Provides, TargetMatches, Provision
    <2>4. \A c \in Capabilities : (Chosen(c)' <=> Chosen(c)) /\ (Fits(c)' <=> Fits(c))
      BY <1>1 DEF Chosen, Fits, Provides, TargetMatches, Provision
    <2>5. \A i \in selected : Needed(i)' <=> Needed(i)
      BY <1>1 DEF Needed
    <2> QED
      BY <1>1, <2>1, <2>2, <2>3, <2>4, <2>5 DEF WorkOK
  <1>3. Consistent => Consistent'
    <2>1. UnusedPin' <=> UnusedPin
      BY DEF UnusedPin, Chosen
    <2>2. SingletonsCollide' <=> SingletonsCollide
      BY <1>1 DEF SingletonsCollide
    <2>3. AbisConflict' <=> AbisConflict
      <3>1. {ContractOf(i).abi : i \in selected}' = {ContractOf(i).abi : i \in selected}
        BY <1>1
      <3> QED
        BY <3>1 DEF AbisConflict
    <2>4. OpenUsdConflicts' <=> OpenUsdConflicts
      BY <1>1 DEF OpenUsdConflicts, Chosen
    <2> QED
      BY <2>1, <2>2, <2>3, <2>4 DEF Consistent
  <1>4. order' = order /\ outcome' \in {"ordering", "resolved"} /\ ResolveTypeOK => ResolveTypeOK'
    BY <1>1 DEF ResolveTypeOK, Chosen, Emitted
  <1>5. order' = order /\ outcome' \in {"ordering", "resolved"} /\ LoopOK => LoopOK'
    BY DEF LoopOK
  <1> QED
    BY <1>2, <1>3, <1>4, <1>5

\* The smallest id among the compatible records.
LEMMA BestFacts == ASSUME ResolveInv, Popping, Compatible(Popped) # {}
  PROVE  Best(Popped) \in Compatible(Popped)
  <1> DEFINE C == Compatible(Popped)
             N == {r.component.id : r \in C}
  <1>1. records \in Inputs /\ C \subseteq records
    BY PoppedFacts DEF ResolveTypeOK, Compatible, TargetCompatible
  <1>2. N \in SUBSET Nat /\ N # {}
    BY <1>1, InputsAssumption, NumbersAssumption
  <1>3. \E n \in N : \A m \in N : n <= m
    <2> HIDE DEF N
    <2> QED
      BY <1>2, NatMin
  <1>4. \E r \in C : \A s \in C : r.component.id <= s.component.id
    BY <1>3
  <1> QED
    BY <1>4 DEF Best

LEMMA ReuseKeepsInv == ASSUME ResolveInv, Reuse PROVE ResolveInv'
  <1>1. /\ Popping /\ Chosen(Popped.capability) /\ Agrees(Popped)
        /\ UNCHANGED <<composition, records, outcome, selected, provider, order>>
        /\ edges' = edges \cup EdgeTo(provider[Popped.capability].id)
        /\ queue' = Tail(queue)
    BY DEF Reuse
  <1>2. PICK q0 \in Requirements : q0 = Popped
    BY <1>1, PoppedFacts
  <1>3. PICK c \in Capabilities : c = q0.capability
    BY <1>1, <1>2, PoppedFacts
  <1>4. WorkOK /\ ResolveTypeOK /\ LoopOK
    BY <1>1, PoppedFacts
  <1>5. PICK id \in Candidates : id = provider[c].id /\ id \in selected
    BY <1>1, <1>2, <1>3, <1>4 DEF ResolveTypeOK
  <1>6. selected' = selected \cup {id} /\ edges' = edges \cup EdgeTo(id)
    BY <1>1, <1>2, <1>3, <1>5
  <1>7. queue' = Tail(queue) \o <<>> /\ <<>> \in Seq(EntrySet)
    <2>1. queue \in Seq(EntrySet) /\ queue # <<>>
      BY <1>1, <1>4 DEF LoopOK, Popping
    <2>2. Tail(queue) \in Seq(EntrySet)
      BY <2>1
    <2> QED
      BY <1>1, <2>2
  <1>8. Fits(c) /\ Fits(c)'
    <2>1. Fits(c)
      BY <1>1, <1>2, <1>3, <1>4 DEF WorkOK
    <2>2. \A i : RecordOf(i)' = RecordOf(i)
      BY <1>1, RecordsStay
    <2> QED
      BY <1>1, <2>1, <2>2 DEF Fits, Provides, TargetMatches, Provision
  <1>9. VersionSatisfies(provider'[c].version, q0.version) /\ q0.provider \in {NoId, id}
    BY <1>1, <1>2, <1>3, <1>5 DEF Agrees, Pin
  <1>10. provider' \in [Capabilities -> [id : Ids \cup {NoId}, version : Nat]]
         /\ provider'[c].id = id /\ \A d \in Capabilities : provider'[d] = provider[d]
    BY <1>1, <1>4, <1>5 DEF LoopOK
  <1> QED
    BY <1>1, <1>2, <1>3, <1>5, <1>6, <1>7, <1>8, <1>9, <1>10, PopKeepsInv

LEMMA SelectKeepsInv == ASSUME ResolveInv, Select PROVE ResolveInv'
  <1>1. /\ Popping /\ ~PinsConflict(Popped) /\ ~Chosen(Popped.capability)
        /\ Compatible(Popped) # {}
        /\ UNCHANGED <<composition, records, outcome, order>>
    BY DEF Select
  <1>2. PICK q0 \in Requirements : q0 = Popped
    BY <1>1, PoppedFacts
  <1>3. PICK c \in Capabilities : c = q0.capability
    BY <1>1, <1>2, PoppedFacts
  <1>4. WorkOK /\ ResolveTypeOK /\ LoopOK /\ Screened(composition, records) /\ records \in Inputs /\ composition \in Compositions
    BY <1>1, PoppedFacts DEF WorkOK, ResolveTypeOK
  <1>5. PICK best \in records : best = Best(Popped) /\ best \in Compatible(q0)
    BY <1>1, <1>2, BestFacts DEF Compatible, TargetCompatible
  <1>6. PICK id \in Candidates : id = best.component.id /\ RecordOf(id) = best /\ ContractOf(id) = best.component
    BY <1>4, ScreenedIds DEF ContractOf
  <1>7. id \in Ids /\ id # NoId
    BY <1>4, CandidateFacts
  <1> DEFINE v == Provision(best, c).version
  <1>8. /\ Provides(best, c) /\ TargetMatches(best, composition.target)
        /\ Pin(q0) \in {NoId, id} /\ VersionSatisfies(v, q0.version)
    BY <1>3, <1>5, <1>6 DEF Compatible, TargetCompatible
  <1>9. v \in Nat
    <2>1. Provision(best, c) \in best.component.provides
      BY <1>8 DEF Provides, Provision
    <2>2. best.component.provides \subseteq Provisions
      BY <1>4, InputsAssumption
    <2> QED
      BY <2>1, <2>2 DEF Provisions
  <1> DEFINE new == IF id \in selected THEN <<>> ELSE Entries(id, best.component.requires)
  <1>10. /\ provider' = [provider EXCEPT ![c] = [id |-> id, version |-> v]]
         /\ edges' = edges \cup EdgeTo(id)
         /\ selected' = selected \cup {id}
         /\ queue' = Tail(queue) \o new
    BY <1>2, <1>3, <1>5, <1>6 DEF Select
  <1>11. new \in Seq(EntrySet)
         /\ IF id \in selected THEN new = <<>> ELSE new = Entries(id, ContractOf(id).requires)
    <2>1. CASE id \in selected
      BY <2>1
    <2>2. CASE id \notin selected
      BY <1>4, <1>6, <2>2, EntriesOfContract
    <2> QED
      BY <2>1, <2>2
  <1>12. /\ provider' \in [Capabilities -> [id : Ids \cup {NoId}, version : Nat]]
         /\ provider'[c] = [id |-> id, version |-> v]
         /\ \A d \in Capabilities : Chosen(d) \/ d # c => provider'[d] = provider[d]
    BY <1>1, <1>2, <1>3, <1>4, <1>7, <1>9, <1>10 DEF LoopOK
  <1>13. q0.provider \in {NoId, id} /\ composition.providers[c] \in {NoId, id}
    BY <1>1, <1>2, <1>3, <1>8 DEF Pin, PinsConflict
  <1>14. Fits(c)'
    <2>1. \A i : RecordOf(i)' = RecordOf(i)
      BY <1>1, RecordsStay
    <2>2. provider'[c].id = id /\ provider'[c].version = v
      BY <1>12
    <2>3. (RecordOf(provider[c].id))' = best
      BY <1>6, <2>1, <2>2
    <2>4. (Provides(RecordOf(provider[c].id), c))' /\ (TargetMatches(RecordOf(provider[c].id), composition.target))'
      BY <1>1, <1>8, <2>3 DEF Provides, TargetMatches
    <2>5. (Provision(RecordOf(provider[c].id), c).version)' = v
      BY <2>3 DEF Provision
    <2> QED
      BY <1>1, <1>10, <1>13, <2>2, <2>4, <2>5 DEF Fits
  <1>15. provider'[c].id = id /\ VersionSatisfies(provider'[c].version, q0.version)
    BY <1>8, <1>12
  <1> HIDE DEF v, new
  <1> QED
    BY <1>1, <1>2, <1>3, <1>10, <1>11, <1>12, <1>13, <1>14, <1>15, PopKeepsInv

LEMMA JudgeKeepsInv == ASSUME ResolveInv, Judge PROVE ResolveInv'
  <1>1. /\ outcome = "resolving" /\ outcome' = "ordering" /\ queue = <<>> /\ Consistent /\ order = <<>>
        /\ WorkOK /\ ResolveTypeOK /\ LoopOK
        /\ UNCHANGED <<composition, records, queue, selected, provider, edges, order>>
    BY DEF ResolveInv, Judge
  <1>2. ResolveTypeOK' /\ LoopOK' /\ WorkOK' /\ Consistent'
    BY <1>1, LoopStays
  <1>3. OrderOK'
    BY <1>1 DEF OrderOK
  <1> QED
    BY <1>1, <1>2, <1>3 DEF ResolveInv

LEMMA EmitKeepsInv == ASSUME ResolveInv, Emit PROVE ResolveInv'
  <1>1. /\ outcome = "ordering" /\ outcome' = outcome /\ queue = <<>> /\ Consistent /\ OrderOK
        /\ WorkOK /\ ResolveTypeOK /\ LoopOK /\ Ready # {}
        /\ UNCHANGED <<composition, records, queue, selected, provider, edges>>
    BY DEF ResolveInv, Emit
  <1>2. PICK i \in Ready : order' = Append(order, i)
    <2> DEFINE m == CHOOSE i \in Ready : \A j \in Ready : i <= j
    <2>1. Ready \in SUBSET Nat
      BY <1>1, NumbersAssumption DEF Ready, LoopOK
    <2>2. \E i \in Ready : \A j \in Ready : i <= j
      BY <1>1, <2>1, NatMin
    <2>3. m \in Ready
      BY <2>2
    <2> QED
      BY <2>3 DEF Emit
  <1>3. /\ i \in selected /\ i \notin Emitted /\ i \in Ids
        /\ \A e \in edges : e[2] = i /\ e[1] # i => e[1] \in Emitted
    BY <1>1, <1>2 DEF Ready, LoopOK
  <1>4. order \in Seq(Ids) /\ Len(order) \in Nat /\ DOMAIN order = 1..Len(order)
    BY <1>1 DEF LoopOK
  <1> DEFINE n == Len(order)
  <1>5. /\ order' \in Seq(Ids) /\ DOMAIN order' = 1..(n + 1) /\ order'[n + 1] = i
        /\ \A j \in 1..n : order'[j] = order[j]
    BY <1>2, <1>3, <1>4
  <1>6. \A j \in 1..n : order[j] # i
    BY <1>3, <1>4 DEF Emitted
  <1>7. OrderOK'
    <2>1. \A a, b \in DOMAIN order' : order'[a] = order'[b] => a = b
      <3>1. \A a, b \in 1..n : order[a] = order[b] => a = b
        BY <1>1, <1>4 DEF OrderOK
      <3>2. \A a \in 1..(n + 1) : a \in 1..n \/ a = n + 1
        BY <1>4
      <3> QED
        BY <1>5, <1>6, <3>1, <3>2
    <2>2. ASSUME NEW j \in DOMAIN order', NEW e \in edges', e[2] = order'[j], e[1] # e[2]
          PROVE  \E a \in 1..(j - 1) : order'[a] = e[1]
      <3>1. CASE j \in 1..n
        <4>1. PICK a \in 1..(j - 1) : order[a] = e[1]
          BY <1>1, <1>4, <1>5, <2>2, <3>1 DEF OrderOK
        <4>2. a \in 1..n
          BY <1>4, <3>1, <4>1
        <4> QED
          BY <1>5, <4>1, <4>2
      <3>2. CASE j = n + 1
        <4>1. e[1] \in Emitted
          BY <1>1, <1>3, <1>5, <2>2, <3>2
        <4>2. PICK a \in 1..n : order[a] = e[1]
          BY <1>4, <4>1 DEF Emitted
        <4>3. a \in 1..(j - 1)
          BY <1>4, <3>2, <4>2
        <4> QED
          BY <1>5, <4>2, <4>3
      <3> QED
        BY <1>4, <1>5, <3>1, <3>2
    <2> QED
      BY <2>1, <2>2 DEF OrderOK
  <1>8. Emitted' \subseteq selected'
    <2>1. \A j \in DOMAIN order' : j \in 1..n \/ j = n + 1
      BY <1>4, <1>5
    <2>2. \A j \in 1..n : order[j] \in selected
      BY <1>1, <1>4 DEF ResolveTypeOK, Emitted
    <2> QED
      BY <1>1, <1>3, <1>5, <2>1, <2>2 DEF Emitted
  <1>9. ResolveTypeOK'
    BY <1>1, <1>8, RecordsStay DEF ResolveTypeOK, Chosen
  <1>10. LoopOK'
    BY <1>1, <1>5 DEF LoopOK
  <1>11. WorkOK' /\ Consistent'
    BY <1>1, LoopStays
  <1> QED
    BY <1>1, <1>7, <1>9, <1>10, <1>11 DEF ResolveInv

LEMMA FinishKeepsInv == ASSUME ResolveInv, Finish PROVE ResolveInv'
  <1>1. /\ outcome = "ordering" /\ outcome' = "resolved" /\ queue = <<>> /\ Consistent /\ OrderOK
        /\ WorkOK /\ ResolveTypeOK /\ LoopOK /\ Emitted = selected
        /\ UNCHANGED <<composition, records, queue, selected, provider, edges, order>>
    BY DEF ResolveInv, Finish
  <1>2. ResolveTypeOK' /\ LoopOK' /\ WorkOK' /\ Consistent'
    BY <1>1, LoopStays
  <1> QED
    BY <1>1, <1>2 DEF ResolveInv, OrderOK, Emitted

LEMMA ResolveStepKeepsInv == ASSUME ResolveInv, [ResolveNext]_resolveVars PROVE ResolveInv'
  <1>1. CASE LoadRefuses \/ ReuseRefuses \/ SelectRefuses \/ JudgeRefuses \/ FinishRefuses
    BY <1>1, RefuseKeepsInv DEF LoadRefuses, ReuseRefuses, SelectRefuses, JudgeRefuses, FinishRefuses
  <1>2. CASE UNCHANGED resolveVars
    <2>1. ResolveTypeOK'
      BY <1>2, RecordsStay DEF resolveVars, ResolveInv, ResolveTypeOK, Chosen, Emitted
    <2>2. LoopOK'
      BY <1>2 DEF resolveVars, ResolveInv, LoopOK, Chosen
    <2>3. (WorkOK => WorkOK') /\ (Consistent => Consistent')
      BY <1>2, LoopStays DEF resolveVars
    <2> QED
      BY <1>2, <2>1, <2>2, <2>3 DEF resolveVars, ResolveInv, OrderOK, Emitted
  <1> QED
    BY <1>1, <1>2, LoadKeepsInv, ReuseKeepsInv, SelectKeepsInv, JudgeKeepsInv, EmitKeepsInv,
       FinishKeepsInv DEF ResolveNext

\* A set that does not have more than one element.
LEMMA AtMostOne == ASSUME NEW S, IsFiniteSet(S), ~(Cardinality(S) > 1), NEW x \in S, NEW y \in S PROVE x = y
  <1> SUFFICES ASSUME x # y PROVE FALSE
    OBVIOUS
  <1>1. IsFiniteSet({x}) /\ Cardinality({x}) = 1
    BY FS_Singleton
  <1>2. Cardinality({x} \cup {y}) = 2
    BY <1>1, FS_AddElement
  <1>3. Cardinality({x} \cup {y}) <= Cardinality(S)
    BY FS_Subset
  <1>4. Cardinality(S) \in Nat
    BY FS_CardinalityType
  <1> QED
    BY <1>2, <1>3, <1>4

\* The invariant implies the property of the run.
LEMMA InvImpliesSound == ResolveInv => ResolutionIsSound
  <1> SUFFICES ASSUME ResolveInv PROVE ResolutionIsSound
    OBVIOUS
  <1> SUFFICES ASSUME outcome = "resolved"
               PROVE  ResolvedIsClosed /\ ResolvedIsNeeded /\ OrderFollowsNeeds /\ ResolvedIsConsistent
    BY DEF ResolveInv, ResolutionIsSound, ResolvedIsClosed, ResolvedIsNeeded, OrderFollowsNeeds, ResolvedIsConsistent
  <1>1. /\ ResolveTypeOK /\ LoopOK /\ WorkOK /\ queue = <<>> /\ Consistent /\ OrderOK /\ Emitted = selected
        /\ selected \subseteq Candidates /\ selected \subseteq Ids /\ NoId \notin Ids /\ records \in Inputs
    BY NumbersAssumption DEF ResolveInv, ResolveTypeOK, LoopOK
  <1>2. \A k \in selected \cup {NoId} : \A q \in Requirements : Asks(k, q) => Served(k, q)
    BY <1>1 DEF WorkOK, Waiting, Range
  <1>3. \A i \in selected : \A q \in ContractOf(i).requires : Served(i, q)
    <2>1. \A i \in selected : ContractOf(i).requires \subseteq Requirements
      BY <1>1, CandidateFacts
    <2> QED
      BY <1>1, <1>2, <2>1 DEF Asks
  <1>4. ResolvedIsClosed
    <2>1. composition.requirements \subseteq Requirements
      BY <1>1, ManifestFacts DEF ResolveTypeOK
    <2> QED
      BY <1>2, <1>3, <2>1 DEF ResolvedIsClosed, Asks, Served
  <1>5. ResolvedIsNeeded
    BY <1>1 DEF ResolvedIsNeeded, WorkOK, Needed
  <1>6. OrderFollowsNeeds
    <2>1. order \in Seq(Ids) /\ Len(order) \in Nat /\ DOMAIN order = 1..Len(order)
      BY <1>1 DEF LoopOK
    <2>2. Len(order) = Cardinality(selected)
      <3>1. order \in Bijection(1..Len(order), selected)
        BY <1>1, <2>1 DEF Bijection, Injection, Surjection, IsInjective, OrderOK, Emitted
      <3> QED
        BY <2>1, <3>1, FS_CountingElements DEF ExistsBijection
    <2>3. ASSUME NEW i \in DOMAIN order, NEW j \in DOMAIN order, i # j,
                 NEW q \in ContractOf(order[j]).requires, provider[q.capability].id = order[i]
          PROVE  i < j
      <3>1. order[j] \in selected /\ order[j] # NoId
        BY <1>1 DEF Emitted
      <3>2. <<order[i], order[j]>> \in edges
        BY <1>3, <2>3, <3>1 DEF Served
      <3>3. order[i] # order[j]
        BY <1>1, <2>3 DEF OrderOK
      <3>4. PICK k \in 1..(j - 1) : order[k] = order[i]
        BY <1>1, <3>2, <3>3 DEF OrderOK
      <3>5. k = i
        BY <1>1, <2>1, <3>4 DEF OrderOK
      <3> QED
        BY <2>1, <3>4, <3>5
    <2> QED
      BY <1>1, <2>2, <2>3 DEF OrderFollowsNeeds
  <1>7. ResolvedIsConsistent
    <2>1. \A i, j \in selected : \A p \in ContractOf(i).provides :
            (p.singleton /\ i # j) => ~Provides(RecordOf(j), p.capability)
      BY <1>1 DEF Consistent, SingletonsCollide, Provides, ContractOf
    <2>2. \A i, j \in selected :
            NoAbi \in {ContractOf(i).abi, ContractOf(j).abi} \/ ContractOf(i).abi = ContractOf(j).abi
      <3> DEFINE f == [i \in selected |-> ContractOf(i).abi]
                 A == {ContractOf(i).abi : i \in selected}
      <3>1. f \in Surjection(selected, A)
        BY DEF Surjection
      <3>2. IsFiniteSet(A)
        BY <1>1, <3>1, FS_Surjection DEF LoopOK
      <3>3. IsFiniteSet(A \ {NoAbi})
        BY <3>2, FS_Subset
      <3>4. \A x, y \in A \ {NoAbi} : x = y
        BY <1>1, <3>3, AtMostOne DEF Consistent, AbisConflict
      <3> QED
        BY <3>4
    <2>3. \A i \in selected : Chosen(Usd) => VersionSatisfies(provider[Usd].version, ContractOf(i).openusd)
      BY <1>1 DEF Consistent, OpenUsdConflicts
    <2> QED
      BY <2>1, <2>2, <2>3 DEF ResolvedIsConsistent
  <1> QED
    BY <1>4, <1>5, <1>6, <1>7

-----------------------------------------------------------------------------
\* The loop keeps its invariant: what is asked for waits or was served by a provider
\* that fits, and components are emitted once and after their providers.
THEOREM ResolveInvHolds == ResolveSpec => []ResolveInv
  BY ResolveInitHasInv, ResolveStepKeepsInv, PTL DEF ResolveSpec

\* Whatever the manifest asks and the artifacts offer, a resolved composition is
\* closed, needed, ordered and consistent, although a provider is chosen for the
\* first requirement that asks and never reconsidered (composition.rs).
THEOREM ResolutionsAreSound == ResolveSpec => []ResolutionIsSound
  BY ResolveInvHolds, InvImpliesSound, PTL
==============================================================================
