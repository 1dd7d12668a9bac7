---------------------------- MODULE Runtime_proofs ----------------------------
(***************************************************************************)
(* Proofs about Runtime, for any number of processes, commands and faults, *)
(* any dependencies, command lines and OpenUSD versions.                   *)
(***************************************************************************)
EXTENDS Runtime, FiniteSetTheorems, TLAPS

(***************************************************************************)
(* The types.                                                              *)
(***************************************************************************)
Kinds == {"build", "local", "mock", "artifact"}
Detected == Versions \cup {NONE}
Labels == Detected \cup {Catalog}
Names == SUBSET (Deps \cup {"torn"})
Statuses == {NONE, "passed", "failed"}
GraphicsClaims == [loader : Statuses, device : Statuses, render : Statuses]
Digests == (Labels \X BOOLEAN \X Detected \X GraphicsClaims \X Detected \X Names) \cup {<<>>}
Manifests ==
  [source : Kinds, ver : Labels, host : BOOLEAN, compat : Detected, gfx : GraphicsClaims,
   src : Detected, deps : Names, linked : BOOLEAN,
   validation : {"pending", "passed", "failed"}, artifact : BOOLEAN, digest : Digests]
Trees ==
  [usd : Detected, deps : SUBSET Deps, sound : BOOLEAN,
   keys : {K \in SUBSET Keys : IsFiniteSet(K)}, finished : Nat]
Artifacts == [tree : Trees, m : Manifests]
BuildPlans == [planned : BOOLEAN, script : BOOLEAN]
BuildLocals ==
  [cmd : {"pull"}, plan : BuildPlans, ver : Versions, key : Keys, git : BOOLEAN, host : BOOLEAN]
BuiltLocals == [cmd : {"pull"}, plan : BuildPlans, ver : Versions, host : BOOLEAN, m : Manifests]

(***************************************************************************)
(* What holds whatever overlaps.                                           *)
(***************************************************************************)
Sealed(m) == m.digest = Identity(m)

(* A fetched manifest repeats the claims of an artifact that is published. *)
Held(R, m) ==
  m.artifact =>
    /\ m.source = "artifact"
    /\ \E a \in R : m.gfx = a.m.gfx /\ m.digest = a.m.digest

Good(R, m) == m \in Manifests /\ Sealed(m) /\ Held(R, m)
Package(a) == a \in Artifacts /\ Sealed(a.m) /\ a.tree.usd \in Versions

FilesOK ==
  /\ manifest \in {NONE, Torn} \/ Good(registry, manifest)
  /\ prefix \in Trees
  /\ ledger \in [Keys -> Names]
  /\ external \in Trees /\ external.usd \in Versions
  /\ staging \in {NONE, Empty} \/ Package(staging)
  /\ \A a \in registry : Package(a)
  /\ faults \in 0..MaxFaults /\ rendered \in BOOLEAN

StepNames ==
  {"idle", "reset", "building", "finalize", "fetch", "extract", "write", "torn", "check",
   "recheck", "stage", "pack", "publish"}

ProcsOK ==
  /\ pc \in [Procs -> StepNames] /\ DOMAIN local = Procs
  /\ commands \in 0..MaxCommands /\ calm \in BOOLEAN

Building == {"reset", "building"}
Fetching == {"fetch", "extract"}
Writing == {"write", "torn"}
Exporting == {"recheck", "stage", "pack", "publish"}

(* Where a process is says what it carries.                                *)
Carries(R, s, x) ==
  \/ s = "idle" /\ x = Idle
  \/ s \in Building /\ x \in BuildLocals
  \/ s = "finalize" /\ x \in BuiltLocals /\ Good(R, x.m) /\ x.m.source = "build"
  \/ s \in Fetching /\ x \in [cmd : {"pull"}, a : Artifacts] /\ x.a \in R
  \/ /\ s \in Writing /\ Good(R, x.m)
     /\ x \in [cmd : {"pull", "validate", "repair"}, m : Manifests]
  \/ s = "check" /\ x \in [cmd : {"validate"}, m : Manifests] /\ Good(R, x.m)
  \/ s \in Exporting /\ x \in [cmd : {"export"}, m : Manifests] /\ Good(R, x.m)

StepsOK == \A p \in Procs : Carries(registry, pc[p], local[p])

(***************************************************************************)
(* What holds while commands do not overlap.                               *)
(***************************************************************************)
(* A tree that no script completed has no dependencies, as a fetched or    *)
(* adopted one, unless a failed build left them.                           *)
Bare(t) == t.finished = 0 => t.deps = {}
Exportable(a) ==
  a.tree.sound /\ a.m.validation = "passed" /\ ~Drift(a.m, a.tree) /\ Bare(a.tree)

Claims(m) == m.source # "artifact" /\ m.gfx.render = "passed"
Closed(m, t) ==
  m.source = "build" /\ ~m.linked /\ Cardinality(t.keys) = 1 /\ t.finished = 1
    => m.deps = Deps
Of(m, t) == Closed(m, t) /\ (m.source \in {"build", "artifact"} => Bare(t))
Covered(t, L) == t.finished = 0 => \A d \in t.deps : \E k \in t.keys : d \in L[k]

(* The manifest's claims, and the ledgers that cover what failed builds    *)
(* installed.                                                              *)
CalmFiles ==
  /\ Readable => (Claims(manifest) => rendered) /\ Of(manifest, prefix)
  /\ Covered(prefix, ledger)
  /\ Bare(external)
  /\ \A a \in registry : Exportable(a)

Calm(s, x) ==
  /\ s \in {"building", "finalize", "extract"} => manifest = NONE
  /\ s = "finalize" => Of(x.m, prefix) /\ x.m.gfx = NoGraphics
  /\ s \in Writing =>
       Of(x.m, prefix) /\ (Claims(x.m) => x.cmd = "validate" /\ rendered)
  /\ s \in {"check"} \cup Exporting => x.m = manifest /\ Readable
  /\ s \in Exporting => Real(x.m) /\ x.m.validation = "passed"
  /\ s \in {"stage", "pack"} =>
       RealChecks(EffectiveTree(x.m)) /\ ~Drift(x.m, EffectiveTree(x.m))
  /\ s = "publish" /\ staging \notin {NONE, Empty} => Exportable(staging)
CalmSteps == \A p \in Procs : Calm(pc[p], local[p])

Sole == \A p, q \in Procs : pc[p] # "idle" /\ pc[q] # "idle" => p = q

RuntimeInv ==
  /\ FilesOK /\ ProcsOK /\ StepsOK
  /\ calm => CalmFiles /\ Sole /\ CalmSteps

-----------------------------------------------------------------------------

-----------------------------------------------------------------------------
(* The operators.                                                          *)

LEMMA NewManifestFields ==
  ASSUME NEW s \in Kinds, NEW v \in Labels
  PROVE LET m == NewManifest(s, v) IN
        /\ m \in Manifests /\ Sealed(m)
        /\ m.source = s /\ m.gfx = NoGraphics /\ ~m.artifact /\ m.deps = {} /\ ~m.linked
<1> DEFINE bare == [source |-> s, ver |-> v, host |-> FALSE, compat |-> NONE,
                    gfx |-> NoGraphics, src |-> NONE, deps |-> {}, linked |-> FALSE,
                    validation |-> "pending", artifact |-> FALSE, digest |-> <<>>]
<1>1. NoGraphics \in GraphicsClaims
  BY DEF NoGraphics, GraphicsClaims, Statuses
<1>2. bare \in Manifests
  BY <1>1 DEF Manifests, Digests, Detected, Names
<1>3. Identity(bare) \in Digests
  BY <1>1 DEF Identity, Digests, Detected, Names
<1>4. QED
  BY <1>2, <1>3 DEF NewManifest, WithDigest, Sealed, Identity, Manifests

LEMMA Redigested ==
  ASSUME NEW m \in Manifests
  PROVE WithDigest(m) \in Manifests /\ Sealed(WithDigest(m))
<1>1. Identity(m) \in Digests
  BY DEF Identity, Manifests, Digests
<1>2. QED
  BY <1>1 DEF WithDigest, Sealed, Identity, Manifests

LEMMA HostSet ==
  ASSUME NEW m \in Manifests, NEW h \in BOOLEAN
  PROVE LET n == SetHostRequirements(m, h) IN
        /\ n \in Manifests /\ Sealed(n)
        /\ n.source = m.source /\ n.gfx = m.gfx /\ n.artifact = m.artifact
        /\ n.deps = m.deps /\ n.linked = m.linked
<1> DEFINE x == [m EXCEPT !.host = h]
<1>1. x \in Manifests
  BY DEF Manifests
<1>2. QED
  BY <1>1, Redigested DEF SetHostRequirements, WithDigest, Manifests

LEMMA CompatibilitySet ==
  ASSUME NEW m \in Manifests, NEW c \in Detected
  PROVE LET n == SetCompatibility(m, c) IN
        /\ n \in Manifests /\ Sealed(n)
        /\ n.source = m.source /\ n.gfx = m.gfx /\ n.artifact = m.artifact
        /\ n.deps = m.deps /\ n.linked = m.linked
<1> DEFINE x == [m EXCEPT !.compat = c]
<1>1. x \in Manifests
  BY DEF Manifests
<1>2. QED
  BY <1>1, Redigested DEF SetCompatibility, WithDigest, Manifests

LEMMA IdentitiesSet ==
  ASSUME NEW m \in Manifests, NEW s \in Detected, NEW D \in Names
  PROVE LET n == SetBuildIdentities(m, s, D) IN
        /\ n \in Manifests /\ Sealed(n)
        /\ n.source = m.source /\ n.gfx = m.gfx /\ n.artifact = m.artifact
        /\ n.deps = D /\ n.linked = m.linked
<1> DEFINE x == [m EXCEPT !.src = s, !.deps = D]
<1>1. x \in Manifests
  BY DEF Manifests
<1>2. QED
  BY <1>1, Redigested DEF SetBuildIdentities, WithDigest, Manifests

LEMMA VerificationSet ==
  ASSUME NEW m \in Manifests, NEW g \in GraphicsClaims
  PROVE LET n == SetVerification(m, g) IN
        /\ n \in Manifests /\ Sealed(n)
        /\ n.source = m.source /\ n.gfx = g /\ n.artifact = m.artifact
        /\ n.deps = m.deps /\ n.linked = m.linked
<1> DEFINE x == [m EXCEPT !.gfx = g]
<1>1. x \in Manifests
  BY DEF Manifests
<1>2. QED
  BY <1>1, Redigested DEF SetVerification, WithDigest, Manifests

(* The stamp is no part of the identity.                                   *)
LEMMA Restamped ==
  ASSUME NEW m \in Manifests, Sealed(m), NEW v \in {"pending", "passed", "failed"}
  PROVE LET n == [m EXCEPT !.validation = v] IN
        /\ n \in Manifests /\ Sealed(n) /\ n.validation = v /\ n.ver = m.ver
        /\ n.source = m.source /\ n.deps = m.deps /\ n.linked = m.linked
        /\ n.gfx = m.gfx /\ n.artifact = m.artifact /\ n.digest = m.digest
BY DEF Manifests, Sealed, Identity

LEMMA StampType ==
  ASSUME NEW t, t.usd \in Detected
  PROVE Stamp(t) \in Labels
BY DEF Stamp, Labels

LEMMA ObservationTypes ==
  ASSUME NEW m, NEW tree, NEW o \in Observations(m, tree)
  PROVE o.loader \in Statuses /\ o.device \in Statuses /\ o.render \in Statuses
<1>1. CASE m.compat = NONE
  BY <1>1 DEF Observations, Unobserved, Statuses
<1>2. CASE m.compat # NONE
  <2>1. PICK h \in GraphicsHosts : o = Observe(Variant, h)
    BY <1>2 DEF Observations, CellObservations
  <2>2. \A P : LoaderStatus(P) \in Statuses /\ DeviceStatus(P) \in Statuses
    BY DEF LoaderStatus, DeviceStatus, Statuses
  <2>3. RenderOutcome(h).status \in Statuses
    BY DEF RenderOutcome, Statuses
  <2>4. QED
    BY <2>1, <2>2, <2>3 DEF Observe, Statuses
<1>3. QED
  BY <1>1, <1>2

(* What a validation writes back.                                          *)
LEMMA Persisted ==
  ASSUME NEW R, NEW m, Good(R, m), NEW tree, NEW o \in Observations(m, tree),
         NEW v \in {"passed", "failed"}, NEW w, w = PersistObservations(m, o)
  PROVE LET n == [w EXCEPT !.validation = v] IN
        /\ Good(R, n)
        /\ n.source = m.source /\ n.deps = m.deps /\ n.linked = m.linked
        /\ n.gfx.render = "passed" => m.gfx.render = "passed" \/ o.render = "passed"
<1> DEFINE keep(new, old) == IF new = NONE THEN old ELSE new
           g == [loader |-> keep(o.loader, m.gfx.loader), device |-> keep(o.device, m.gfx.device),
                 render |-> keep(o.render, m.gfx.render)]
           n == [w EXCEPT !.validation = v]
<1>1. m \in Manifests /\ m.gfx \in GraphicsClaims
  BY DEF Good, Manifests
<1>2. g \in GraphicsClaims
  BY <1>1, ObservationTypes DEF GraphicsClaims
<1>3. /\ w \in Manifests /\ Sealed(w)
      /\ w.source = m.source /\ w.deps = m.deps /\ w.linked = m.linked /\ w.artifact = m.artifact
      /\ m.source = "artifact" => w = m
      /\ w.gfx.render = "passed" => m.gfx.render = "passed" \/ o.render = "passed"
  <2>1. CASE m.source = "artifact"
    BY <2>1 DEF PersistObservations, Good
  <2>2. CASE m.source # "artifact"
    <3>1. w = SetVerification(m, g)
      BY <2>2 DEF PersistObservations
    <3>2. QED
      BY <1>1, <1>2, <2>2, <3>1, VerificationSet
  <2>3. QED
    BY <2>1, <2>2
<1>4. /\ n \in Manifests /\ n.source = w.source /\ n.deps = w.deps /\ n.linked = w.linked
      /\ n.gfx = w.gfx /\ n.artifact = w.artifact /\ n.digest = w.digest
  BY <1>3 DEF Manifests
<1>5. Sealed(n)
  BY <1>3 DEF Sealed, Identity, Manifests
<1>6. Held(R, n)
  BY <1>3, <1>4 DEF Good, Held
<1>7. QED
  BY <1>3, <1>4, <1>5, <1>6 DEF Good

(* An artifact another host published.                                     *)
LEMMA DownloadedIsSound ==
  /\ Package(Downloaded) /\ Exportable(Downloaded)
  /\ NoTree \in Trees
<1> DEFINE v == CHOOSE v \in Versions : SameRelease(v, Catalog)
           g == [loader |-> "passed", device |-> "passed", render |-> "passed"]
           b == NewManifest("build", Catalog)
           x == [b EXCEPT !.host = TRUE, !.compat = v, !.gfx = g]
<1>1. v \in Versions /\ SameRelease(v, Catalog)
  BY RuntimeAssumption
<1>2. NoTree \in Trees
  BY FS_EmptySet DEF NoTree, Trees, Detected
<1>3. b \in Manifests /\ b.ver = Catalog
  BY NewManifestFields DEF Kinds, Labels, NewManifest, WithDigest
<1>4. x \in Manifests /\ x.ver = Catalog
  BY <1>1, <1>3 DEF Manifests, GraphicsClaims, Statuses, Detected
<1> DEFINE y == WithDigest(x)
<1>5. y \in Manifests /\ Sealed(y) /\ y.ver = Catalog
  BY <1>4, Redigested DEF WithDigest, Manifests
<1> DEFINE z == [y EXCEPT !.validation = "passed"]
           t == [NoTree EXCEPT !.usd = v, !.sound = TRUE]
<1>6. z \in Manifests /\ Sealed(z) /\ z.ver = Catalog /\ z.validation = "passed"
  <2> HIDE DEF y
  <2>1. QED
    BY <1>5, Restamped
<1>7. t \in Trees /\ t.usd = v /\ t.sound /\ t.deps = {}
  BY <1>1, <1>2 DEF NoTree, Trees, Detected
<1>8. Downloaded = [tree |-> t, m |-> z]
  BY DEF Downloaded
<1>9. QED
  BY <1>1, <1>2, <1>6, <1>7, <1>8 DEF Package, Artifacts, Exportable, Drift, Bare

-----------------------------------------------------------------------------
(* The step of one process.                                                *)
Handed(p) ==
  /\ ProcsOK'
  /\ \A q \in Procs : q # p => pc'[q] = pc[q] /\ local'[q] = local[q]
  /\ calm' => calm /\ \A q \in Procs : q # p => pc[q] = "idle"

LEMMA BeginHands ==
  ASSUME RuntimeInv, NEW p \in Procs, NEW step \in StepNames, NEW carried, Begin(p, step, carried)
  PROVE Handed(p) /\ pc[p] = "idle" /\ pc'[p] = step /\ local'[p] = carried
<1>1. ProcsOK
  BY DEF RuntimeInv
<1>2. /\ pc' = [pc EXCEPT ![p] = step] /\ local' = [local EXCEPT ![p] = carried]
      /\ pc[p] = "idle" /\ commands < MaxCommands /\ commands' = commands + 1
  BY DEF Begin
<1>3. calm' \in BOOLEAN /\ (calm' => calm /\ \A q \in Procs : pc[q] = "idle")
  BY Zenon DEF Begin
<1>4. commands' \in 0..MaxCommands
  BY <1>1, <1>2, RuntimeAssumption DEF ProcsOK
<1>5. QED
  BY <1>1, <1>2, <1>3, <1>4 DEF Handed, ProcsOK

LEMMA GotoHands ==
  ASSUME RuntimeInv, NEW p \in Procs, NEW step \in StepNames, NEW carried,
         Goto(p, step), pc[p] # "idle", local' = [local EXCEPT ![p] = carried]
  PROVE Handed(p) /\ pc'[p] = step /\ local'[p] = carried
<1>1. ProcsOK /\ (calm => Sole)
  BY DEF RuntimeInv
<1>2. pc' = [pc EXCEPT ![p] = step] /\ UNCHANGED <<commands, calm>>
  BY DEF Goto
<1>3. calm => \A q \in Procs : q # p => pc[q] = "idle"
  BY <1>1 DEF Sole
<1>4. QED
  BY <1>1, <1>2, <1>3 DEF Handed, ProcsOK

LEMMA StayHands ==
  ASSUME RuntimeInv, NEW p \in Procs, NEW step \in StepNames,
         Goto(p, step), pc[p] # "idle", UNCHANGED local
  PROVE Handed(p) /\ pc'[p] = step /\ local'[p] = local[p]
<1>1. ProcsOK /\ (calm => Sole)
  BY DEF RuntimeInv
<1>2. pc' = [pc EXCEPT ![p] = step] /\ UNCHANGED <<commands, calm>>
  BY DEF Goto
<1>3. calm => \A q \in Procs : q # p => pc[q] = "idle"
  BY <1>1 DEF Sole
<1>4. QED
  BY <1>1, <1>2, <1>3 DEF Handed, ProcsOK

LEMMA ReturnHands ==
  ASSUME RuntimeInv, NEW p \in Procs, Return(p), pc[p] # "idle"
  PROVE Handed(p) /\ pc'[p] = "idle" /\ local'[p] = Idle
<1>1. Goto(p, "idle") /\ local' = [local EXCEPT ![p] = Idle]
  BY DEF Return
<1>s. "idle" \in StepNames
  BY DEF StepNames
<1> HIDE DEF Idle
<1>2. QED
  BY <1>1, <1>s, GotoHands, Zenon

LEMMA WriteHands ==
  ASSUME RuntimeInv, NEW p \in Procs, NEW m, ToWrite(p, m), pc[p] # "idle"
  PROVE Handed(p) /\ pc'[p] = "write" /\ local'[p] = [cmd |-> local[p].cmd, m |-> m]
<1> DEFINE x == [cmd |-> local[p].cmd, m |-> m]
<1>1. local' = [local EXCEPT ![p] = x] /\ Goto(p, "write")
  BY DEF ToWrite
<1>s. "write" \in StepNames
  BY DEF StepNames
<1> HIDE DEF x
<1>2. Handed(p) /\ pc'[p] = "write" /\ local'[p] = x
  BY <1>1, <1>s, GotoHands, Zenon
<1>3. QED
  BY <1>2 DEF x

LEMMA GoodStays ==
  ASSUME NEW R, NEW S, R \subseteq S, NEW m, Good(R, m)
  PROVE Good(S, m)
BY DEF Good, Held

LEMMA CarriesStays ==
  ASSUME NEW R, NEW S, R \subseteq S, NEW s, NEW x, Carries(R, s, x)
  PROVE Carries(S, s, x)
BY GoodStays DEF Carries

LEMMA IdleIsCalm ==
  ASSUME NEW x
  PROVE Calm("idle", x)
BY DEF Calm, Writing, Exporting

LEMMA IdleCarries ==
  ASSUME NEW R
  PROVE Carries(R, "idle", Idle)
BY DEF Carries

(* A step of p keeps the invariant when the files and p's own part do.     *)
LEMMA Combine ==
  ASSUME RuntimeInv, NEW p \in Procs, Handed(p), registry \subseteq registry',
         FilesOK', Carries(registry', pc'[p], local'[p]),
         calm' => CalmFiles' /\ Calm(pc[p], local[p])'
  PROVE RuntimeInv'
<1>1. StepsOK'
  <2> SUFFICES ASSUME NEW q \in Procs PROVE Carries(registry', pc'[q], local'[q])
    BY DEF StepsOK
  <2>1. CASE q = p
    BY <2>1
  <2>2. CASE q # p
    <3>1. Carries(registry, pc[q], local[q])
      BY DEF RuntimeInv, StepsOK
    <3>2. pc'[q] = pc[q] /\ local'[q] = local[q]
      BY <2>2 DEF Handed
    <3>3. QED
      BY <3>1, <3>2, CarriesStays
  <2>3. QED
    BY <2>1, <2>2
<1>2. ASSUME calm' PROVE Sole' /\ CalmSteps'
  <2>1. \A q \in Procs : q # p => pc'[q] = "idle"
    BY <1>2 DEF Handed
  <2>2. Sole'
    BY <2>1 DEF Sole
  <2>3. ASSUME NEW q \in Procs PROVE Calm(pc[q], local[q])'
    <3>1. CASE q = p
      BY <3>1, <1>2
    <3>2. CASE q # p
      BY <2>1, <3>2 DEF Calm, Writing, Exporting
    <3>3. QED
      BY <3>1, <3>2
  <2>4. QED
    BY <2>2, <2>3 DEF CalmSteps
<1>3. ProcsOK'
  BY DEF Handed
<1>4. QED
  BY <1>1, <1>2, <1>3 DEF RuntimeInv

(* What the step may rely on.                                              *)
LEMMA Before ==
  ASSUME RuntimeInv, NEW p \in Procs, Handed(p)
  PROVE /\ FilesOK /\ Carries(registry, pc[p], local[p])
        /\ calm' => CalmFiles /\ Calm(pc[p], local[p])
BY DEF RuntimeInv, StepsOK, CalmSteps, Handed

-----------------------------------------------------------------------------
(* pull --build                                                            *)

LEMMA PlanTypes ==
  ASSUME NEW plan \in Plans
  PROVE plan \in BuildPlans
<1>1. PICK s \in Prepared : plan = [planned |-> s.status = "planned", script |-> s.builder = "script"]
  BY DEF Plans
<1>2. (s.status = "planned") \in BOOLEAN /\ (s.builder = "script") \in BOOLEAN
  OBVIOUS
<1>3. \A a, b \in BOOLEAN : [planned |-> a, script |-> b] \in BuildPlans
  BY DEF BuildPlans
<1>4. QED
  BY <1>1, <1>2, <1>3, Zenon

LEMMA KeepsPullBuild ==
  ASSUME RuntimeInv, NEW p \in Procs, PullBuild(p)
  PROVE RuntimeInv'
<1>1. PICK force \in BOOLEAN, plan \in Plans, req \in Requests :
        /\ MayPull(force)
        /\ Begin(p, IF force THEN "reset" ELSE "building",
                 [cmd |-> "pull", plan |-> plan, ver |-> req.ver, key |-> req.key, git |-> req.git,
                  host |-> req.host])
  BY DEF PullBuild
<1>2. UNCHANGED <<manifest, prefix, ledger, external, staging, registry, faults, rendered>>
  BY DEF PullBuild, Beyond
<1> DEFINE step == IF force THEN "reset" ELSE "building"
           x == [cmd |-> "pull", plan |-> plan, ver |-> req.ver, key |-> req.key, git |-> req.git,
                 host |-> req.host]
<1>3. step \in StepNames
  BY DEF StepNames
<1>4. Handed(p) /\ pc[p] = "idle" /\ pc'[p] = step /\ local'[p] = x
  <2> HIDE DEF step, x
  <2>1. Begin(p, step, x)
    BY <1>1 DEF step, x
  <2>2. QED
    BY <1>3, <2>1, BeginHands, Zenon
<1>5. FilesOK /\ (calm' => CalmFiles)
  BY <1>4, Before
<1>6. FilesOK'
  BY <1>2, <1>5 DEF FilesOK
<1>7. Carries(registry', pc'[p], local'[p])
  <2>1. x \in BuildLocals
    BY PlanTypes, RuntimeAssumption DEF BuildLocals
  <2> HIDE DEF x
  <2>2. QED
    BY <1>4, <2>1 DEF Carries, Building
<1>8. ASSUME calm' PROVE CalmFiles' /\ Calm(pc[p], local[p])'
  <2>1. CalmFiles'
    BY <1>2, <1>5, <1>8 DEF CalmFiles, Readable
  <2>2. step = "building" => manifest' = NONE
    BY <1>1, <1>2 DEF MayPull
  <2>3. Calm(pc[p], local[p])'
    <3> HIDE DEF x
    <3>1. QED
      BY <1>4, <2>2 DEF Calm, Writing, Exporting
  <2>4. QED
    BY <2>1, <2>3
<1>9. QED
  BY <1>2, <1>4, <1>6, <1>7, <1>8, Combine

(* The prefix is emptied, with what was in it.                             *)
LEMMA EmptyPrefix ==
  ASSUME FilesOK, manifest' = NONE, prefix' = NoTree, ledger' = [k \in Keys |-> {}],
         UNCHANGED <<external, staging, registry, faults, rendered>>
  PROVE FilesOK' /\ (CalmFiles => CalmFiles')
<1>1. NoTree \in Trees /\ NoTree.deps = {}
  BY DownloadedIsSound DEF NoTree
<1>2. ledger' \in [Keys -> Names]
  BY DEF Names
<1>3. FilesOK'
  BY <1>1, <1>2 DEF FilesOK
<1>4. ~Readable' /\ Covered(prefix', ledger')
  BY <1>1 DEF Readable, Covered
<1>5. QED
  BY <1>3, <1>4 DEF CalmFiles

LEMMA KeepsResetManaged ==
  ASSUME RuntimeInv, NEW p \in Procs, ResetManaged(p)
  PROVE RuntimeInv'
<1>1. /\ pc[p] = "reset" /\ Goto(p, "building") /\ UNCHANGED local
      /\ manifest' = NONE /\ prefix' = NoTree /\ ledger' = [k \in Keys |-> {}]
      /\ UNCHANGED <<external, staging, registry, faults, rendered>>
  BY DEF ResetManaged, Beyond
<1>2. Handed(p) /\ pc'[p] = "building" /\ local'[p] = local[p]
  BY <1>1, StayHands DEF StepNames
<1>3. FilesOK /\ Carries(registry, pc[p], local[p]) /\ (calm' => CalmFiles)
  BY <1>2, Before
<1>4. FilesOK' /\ (calm' => CalmFiles')
  BY <1>1, <1>3, EmptyPrefix
<1>5. Carries(registry', pc'[p], local'[p])
  BY <1>1, <1>2, <1>3 DEF Carries, Building, Fetching, Writing, Exporting
<1>6. calm' => Calm(pc[p], local[p])'
  BY <1>1, <1>2 DEF Calm, Writing, Exporting
<1>7. QED
  BY <1>1, <1>2, <1>4, <1>5, <1>6, Combine

LEMMA KeepsFetchRemoves ==
  ASSUME RuntimeInv, NEW p \in Procs, FetchRemoves(p)
  PROVE RuntimeInv'
<1>1. /\ pc[p] = "fetch" /\ Goto(p, "extract") /\ UNCHANGED local
      /\ manifest' = NONE /\ prefix' = NoTree /\ ledger' = [k \in Keys |-> {}]
      /\ UNCHANGED <<external, staging, registry, faults, rendered>>
  BY DEF FetchRemoves, Beyond
<1>2. Handed(p) /\ pc'[p] = "extract" /\ local'[p] = local[p]
  BY <1>1, StayHands DEF StepNames
<1>3. FilesOK /\ Carries(registry, pc[p], local[p]) /\ (calm' => CalmFiles)
  BY <1>2, Before
<1>4. FilesOK' /\ (calm' => CalmFiles')
  BY <1>1, <1>3, EmptyPrefix
<1>5. Carries(registry', pc'[p], local'[p])
  BY <1>1, <1>2, <1>3 DEF Carries, Building, Fetching, Writing, Exporting
<1>6. calm' => Calm(pc[p], local[p])'
  BY <1>1, <1>2 DEF Calm, Writing, Exporting
<1>7. QED
  BY <1>1, <1>2, <1>4, <1>5, <1>6, Combine

(* A command that ends leaves the rest to the files.                       *)
LEMMA EndKeeps ==
  ASSUME RuntimeInv, NEW p \in Procs, pc[p] # "idle", Return(p), registry \subseteq registry',
         FilesOK', calm => CalmFiles'
  PROVE RuntimeInv'
<1>1. Handed(p) /\ pc'[p] = "idle" /\ local'[p] = Idle
  BY ReturnHands
<1>2. Carries(registry', pc'[p], local'[p])
  BY <1>1, IdleCarries
<1>3. Calm(pc[p], local[p])'
  BY <1>1 DEF Calm, Writing, Exporting
<1>4. calm' => calm
  BY <1>1 DEF Handed
<1>5. QED
  BY <1>1, <1>2, <1>3, <1>4, Combine

(* What a busy process may rely on.                                        *)
LEMMA Busy ==
  ASSUME RuntimeInv, NEW p \in Procs
  PROVE /\ FilesOK /\ Carries(registry, pc[p], local[p])
        /\ calm => CalmFiles /\ Calm(pc[p], local[p])
BY DEF RuntimeInv, StepsOK, CalmSteps

LEMMA KeepsResetFails ==
  ASSUME RuntimeInv, NEW p \in Procs, ResetFails(p)
  PROVE RuntimeInv'
<1>1. /\ pc[p] = "reset" /\ Return(p)
      /\ manifest' \in {NONE, manifest} /\ prefix' = [prefix EXCEPT !.usd = NONE, !.sound = FALSE]
      /\ UNCHANGED <<ledger, external, staging, registry, faults, rendered>>
  BY DEF ResetFails, Beyond
<1>2. FilesOK /\ (calm => CalmFiles)
  BY Busy
<1>3. /\ prefix' \in Trees /\ prefix'.deps = prefix.deps /\ prefix'.keys = prefix.keys
      /\ prefix'.finished = prefix.finished
  BY <1>1, <1>2 DEF FilesOK, Trees, Detected
<1>4. FilesOK'
  BY <1>1, <1>2, <1>3 DEF FilesOK
<1>5. ASSUME calm PROVE CalmFiles'
  <2>1. Covered(prefix', ledger') /\ \A m : Of(m, prefix) => Of(m, prefix')
    BY <1>1, <1>2, <1>3, <1>5 DEF CalmFiles, Covered, Of, Closed, Bare
  <2>2. QED
    BY <1>1, <1>2, <1>5, <2>1 DEF CalmFiles, Readable
<1>6. QED
  BY <1>1, <1>4, <1>5, EndKeeps

LEMMA SameFiles ==
  ASSUME FilesOK,
         UNCHANGED <<manifest, prefix, ledger, external, staging, registry, faults, rendered>>
  PROVE FilesOK' /\ (CalmFiles => CalmFiles')
BY DEF FilesOK, CalmFiles, Readable

(* The ledgers of a tree only grow with it.                                *)
LEMMA CoveredStays ==
  ASSUME NEW t, NEW u, NEW L, NEW M, Covered(t, L), u.finished = t.finished,
         t.keys \subseteq u.keys,
         \A k \in t.keys : L[k] \subseteq M[k],
         \A d \in u.deps : d \in t.deps \/ \E k \in u.keys : d \in M[k]
  PROVE Covered(u, M)
<1> SUFFICES ASSUME u.finished = 0, NEW d \in u.deps PROVE \E k \in u.keys : d \in M[k]
  BY DEF Covered
<1>1. CASE d \in t.deps
  <2>1. PICK k \in t.keys : d \in L[k]
    BY <1>1 DEF Covered
  <2>2. QED
    BY <2>1
<1>2. QED
  BY <1>1

(* A build that runs has no manifest to fall back on.                      *)
LEMMA BuildingFacts ==
  ASSUME RuntimeInv, NEW p \in Procs, pc[p] = "building"
  PROVE /\ FilesOK /\ local[p] \in BuildLocals
        /\ prefix \in Trees /\ ledger \in [Keys -> Names] /\ local[p].key \in Keys
        /\ local[p].ver \in Versions /\ local[p].plan.script \in BOOLEAN
        /\ calm => CalmFiles /\ manifest = NONE /\ Covered(prefix, ledger)
<1>1. FilesOK /\ Carries(registry, pc[p], local[p]) /\ (calm => CalmFiles /\ Calm(pc[p], local[p]))
  BY Busy
<1>2. local[p] \in BuildLocals
  BY <1>1 DEF Carries, Building, Fetching, Writing, Exporting
<1>3. calm => manifest = NONE /\ Covered(prefix, ledger)
  BY <1>1 DEF Calm, CalmFiles
<1>4. QED
  BY <1>1, <1>2, <1>3 DEF FilesOK, BuildLocals, BuildPlans

(* A step of a build that keeps its dependencies covered.                  *)
LEMMA BuildFiles ==
  ASSUME RuntimeInv, NEW p \in Procs, pc[p] = "building",
         UNCHANGED <<manifest, external, staging, registry, faults, rendered>>,
         prefix' \in Trees, ledger' \in [Keys -> Names],
         calm => Covered(prefix', ledger')
  PROVE FilesOK' /\ (calm => CalmFiles')
<1>1. FilesOK /\ (calm => CalmFiles /\ manifest = NONE)
  BY BuildingFacts
<1>2. FilesOK'
  BY <1>1 DEF FilesOK
<1>3. calm => CalmFiles'
  BY <1>1 DEF CalmFiles, Readable
<1>4. QED
  BY <1>2, <1>3

LEMMA FiniteKeys ==
  ASSUME NEW t \in Trees, NEW k \in Keys
  PROVE IsFiniteSet(t.keys \cup {k}) /\ t.keys \cup {k} \in SUBSET Keys
BY FS_AddElement DEF Trees

LEMMA Retreed ==
  ASSUME NEW t \in Trees, NEW v \in Detected, NEW s \in BOOLEAN
  PROVE LET u == [t EXCEPT !.usd = v, !.sound = s] IN
        /\ u \in Trees /\ u.usd = v /\ u.sound = s
        /\ u.deps = t.deps /\ u.keys = t.keys /\ u.finished = t.finished
BY DEF Trees

LEMMA BuiltTree ==
  ASSUME NEW p, prefix \in Trees, local[p].ver \in Versions, local[p].key \in Keys
  PROVE /\ Built(p) \in Trees /\ Built(p).deps = prefix.deps /\ Built(p).usd = local[p].ver
        /\ Built(p).keys = prefix.keys \cup {local[p].key} /\ Built(p).finished = prefix.finished + 1
<1> DEFINE k == local[p].key
           v == local[p].ver
<1>1. IsFiniteSet(prefix.keys \cup {k}) /\ prefix.keys \cup {k} \in SUBSET Keys
  BY FiniteKeys
<1>2. Built(p) = [prefix EXCEPT !.usd = v, !.keys = @ \cup {k}, !.finished = @ + 1] /\ v \in Detected
  BY DEF Built, Detected
<1> HIDE DEF k, v
<1>3. /\ Built(p) \in Trees /\ Built(p).deps = prefix.deps /\ Built(p).usd = v
      /\ Built(p).keys = prefix.keys \cup {k} /\ Built(p).finished = prefix.finished + 1
  <2>1. Built(p) = [usd |-> v, deps |-> prefix.deps, sound |-> prefix.sound,
                    keys |-> prefix.keys \cup {k}, finished |-> prefix.finished + 1]
    BY <1>2 DEF Trees
  <2>2. /\ prefix.deps \in SUBSET Deps /\ prefix.sound \in BOOLEAN /\ prefix.finished + 1 \in Nat
        /\ prefix.keys \cup {k} \in {K \in SUBSET Keys : IsFiniteSet(K)}
    BY <1>1 DEF Trees
  <2>3. QED
    BY <1>2, <2>1, <2>2 DEF Trees
<1>4. QED
  BY <1>3 DEF k, v

LEMMA KeepsBuildDependency ==
  ASSUME RuntimeInv, NEW p \in Procs, BuildDependency(p)
  PROVE RuntimeInv'
<1> DEFINE k == local[p].key
<1>1. PICK d \in Deps \ prefix.deps :
        /\ ledger' = [ledger EXCEPT ![k] = @ \cup {d}]
        /\ prefix' = [prefix EXCEPT !.deps = @ \cup {d}, !.keys = @ \cup {k}]
  BY DEF BuildDependency
<1>2. /\ pc[p] = "building"
      /\ UNCHANGED <<manifest, pc, local, commands, calm, external, staging, registry, faults, rendered>>
  BY DEF BuildDependency, Beyond
<1>3. /\ FilesOK /\ local[p] \in BuildLocals
      /\ prefix \in Trees /\ ledger \in [Keys -> Names] /\ k \in Keys
      /\ calm => Covered(prefix, ledger) /\ manifest = NONE
  BY <1>2, BuildingFacts
<1> HIDE DEF k
<1>4. /\ prefix' \in Trees /\ prefix'.deps = prefix.deps \cup {d}
      /\ prefix'.keys = prefix.keys \cup {k} /\ prefix'.finished = prefix.finished
  BY <1>1, <1>3, FiniteKeys DEF Trees
<1>5. /\ ledger' \in [Keys -> Names] /\ d \in ledger'[k]
      /\ \A j \in Keys : ledger[j] \subseteq ledger'[j]
  BY <1>1, <1>3 DEF Names
<1>6. prefix.keys \subseteq Keys
  BY <1>3 DEF Trees
<1>7. calm => Covered(prefix', ledger')
  BY <1>3, <1>4, <1>5, <1>6, CoveredStays
<1>8. FilesOK' /\ (calm => CalmFiles')
  BY <1>2, <1>4, <1>5, <1>7, BuildFiles
<1>9. Handed(p) /\ pc'[p] = pc[p] /\ local'[p] = local[p]
  BY <1>2 DEF RuntimeInv, ProcsOK, Handed, Sole
<1>10. Carries(registry', pc'[p], local'[p])
  BY <1>2, <1>3, <1>9 DEF Carries, Building
<1>11. calm => Calm(pc[p], local[p])'
  BY <1>2, <1>3 DEF Calm, Writing, Exporting
<1>12. QED
  BY <1>2, <1>8, <1>9, <1>10, <1>11, Combine

LEMMA KeepsBuildFails ==
  ASSUME RuntimeInv, NEW p \in Procs, BuildFails(p)
  PROVE RuntimeInv'
<1> DEFINE k == local[p].key
<1>1. PICK new \in SUBSET (Deps \ prefix.deps) :
        /\ ledger' = [ledger EXCEPT ![k] = @ \cup new]
        /\ \/ prefix' = IF new = {} THEN prefix ELSE [prefix EXCEPT !.keys = @ \cup {k}]
           \/ prefix' = [prefix EXCEPT !.usd = local[p].ver, !.sound = FALSE]
  BY DEF BuildFails
<1>2. /\ pc[p] = "building" /\ Return(p)
      /\ UNCHANGED <<manifest, external, staging, registry, faults, rendered>>
  BY DEF BuildFails, Beyond
<1>3. /\ FilesOK /\ local[p].ver \in Versions
      /\ prefix \in Trees /\ ledger \in [Keys -> Names] /\ k \in Keys
      /\ calm => Covered(prefix, ledger)
  BY <1>2, BuildingFacts
<1> HIDE DEF k
<1>4. /\ prefix' \in Trees /\ prefix'.deps = prefix.deps
      /\ prefix.keys \subseteq prefix'.keys /\ prefix'.finished = prefix.finished
  <2>1. CASE prefix' = [prefix EXCEPT !.usd = local[p].ver, !.sound = FALSE]
    BY <1>3, <2>1, Retreed DEF Detected
  <2>2. CASE prefix' = [prefix EXCEPT !.keys = @ \cup {k}]
    BY <1>3, <2>2, FiniteKeys DEF Trees
  <2>3. QED
    BY <1>1, <1>3, <2>1, <2>2
<1>5. ledger' \in [Keys -> Names] /\ \A j \in Keys : ledger[j] \subseteq ledger'[j]
  BY <1>1, <1>3 DEF Names
<1>6. prefix.keys \subseteq Keys
  BY <1>3 DEF Trees
<1>7. calm => Covered(prefix', ledger')
  BY <1>3, <1>4, <1>5, <1>6, CoveredStays
<1>8. FilesOK' /\ (calm => CalmFiles')
  BY <1>2, <1>4, <1>5, <1>7, BuildFiles
<1>9. QED
  BY <1>2, <1>8, EndKeeps

LEMMA KeepsCaptureUnreadable ==
  ASSUME RuntimeInv, NEW p \in Procs, CaptureUnreadable(p)
  PROVE RuntimeInv'
<1> DEFINE k == local[p].key
<1>1. /\ pc[p] = "building" /\ Return(p)
      /\ UNCHANGED <<manifest, ledger, external, staging, registry, faults, rendered>>
      /\ prefix' = [Built(p) EXCEPT !.sound = TRUE, !.finished = prefix.finished]
  BY DEF CaptureUnreadable, Beyond
<1>2. /\ local[p].ver \in Versions
      /\ prefix \in Trees /\ ledger \in [Keys -> Names] /\ k \in Keys
      /\ calm => Covered(prefix, ledger)
  BY <1>1, BuildingFacts
<1> HIDE DEF k
<1>3. /\ Built(p) \in Trees /\ Built(p).deps = prefix.deps
      /\ Built(p).keys = prefix.keys \cup {k} /\ prefix.finished \in Nat
  BY <1>2, BuiltTree DEF k, Trees
<1>4. /\ prefix' \in Trees /\ prefix'.deps = prefix.deps
      /\ prefix.keys \subseteq prefix'.keys /\ prefix'.finished = prefix.finished
  BY <1>1, <1>3 DEF Trees
<1>5. calm => Covered(prefix', ledger')
  BY <1>1, <1>2, <1>4, CoveredStays
<1>6. FilesOK' /\ (calm => CalmFiles')
  BY <1>1, <1>2, <1>4, <1>5, BuildFiles
<1>7. QED
  BY <1>1, <1>6, EndKeeps

(* The closure a finished script leaves in its ledger is whole, however    *)
(* often it failed before, when no other command line built into the tree. *)
LEMMA WholeClosure ==
  ASSUME prefix \in Trees, ledger \in [Keys -> Names], Covered(prefix, ledger),
         NEW k \in Keys, Deps \subseteq prefix.deps, "torn" \notin ledger[k],
         Cardinality(prefix.keys \cup {k}) = 1, prefix.finished + 1 = 1
  PROVE ledger[k] = Deps
<1> DEFINE K == prefix.keys \cup {k}
<1>1. IsFiniteSet(K)
  BY FiniteKeys
<1>2. PICK x : K = {x}
  BY <1>1, FS_Singleton
<1>3. prefix.keys \subseteq {k} /\ prefix.finished = 0
  BY <1>2 DEF Trees
<1>4. Deps \subseteq ledger[k]
  BY <1>3 DEF Covered
<1>5. ledger[k] \subseteq Deps
  BY DEF Names
<1>6. QED
  BY <1>4, <1>5

LEMMA KeepsBuildFinishes ==
  ASSUME RuntimeInv, NEW p \in Procs, BuildFinishes(p)
  PROVE RuntimeInv'
<1> DEFINE k == local[p].key
           script == local[p].plan.script
           deps == IF script THEN ledger[k] ELSE {}
           n == NewManifest("build", Stamp(Built(p)))
           l == [n EXCEPT !.linked = ~script]
           src == IF local[p].git THEN local[p].ver ELSE NONE
           m == SetBuildIdentities(l, src, deps)
           x == [cmd |-> local[p].cmd, plan |-> local[p].plan, ver |-> local[p].ver,
                 host |-> local[p].host, m |-> m]
<1>1. /\ pc[p] = "building" /\ Goto(p, "finalize")
      /\ UNCHANGED <<manifest, external, staging, registry, faults, rendered>>
      /\ script => Deps \subseteq prefix.deps /\ "torn" \notin ledger[k]
      /\ ledger' = IF script THEN [ledger EXCEPT ![k] = {}] ELSE ledger
      /\ local' = [local EXCEPT ![p] = x]
  BY DEF BuildFinishes, Beyond
<1>2. PICK sound \in BOOLEAN : prefix' = [Built(p) EXCEPT !.sound = sound]
  BY DEF BuildFinishes
<1>3. /\ FilesOK /\ local[p] \in BuildLocals
      /\ prefix \in Trees /\ ledger \in [Keys -> Names] /\ k \in Keys
      /\ local[p].ver \in Versions /\ script \in BOOLEAN
      /\ calm => CalmFiles /\ manifest = NONE /\ Covered(prefix, ledger)
  BY <1>1, BuildingFacts
<1>4. /\ Built(p) \in Trees /\ Built(p).usd = local[p].ver
      /\ Built(p).keys = prefix.keys \cup {k} /\ Built(p).finished = prefix.finished + 1
  BY <1>3, BuiltTree
<1>5. /\ prefix' \in Trees /\ prefix'.keys = prefix.keys \cup {k}
      /\ prefix'.finished = prefix.finished + 1 /\ prefix.finished \in Nat
  BY <1>2, <1>3, <1>4 DEF Trees
<1>6. ledger' \in [Keys -> Names] /\ deps \in Names /\ src \in Detected
  BY <1>1, <1>3 DEF Names, Detected
<1>7. n \in Manifests /\ n.source = "build" /\ n.gfx = NoGraphics /\ ~n.artifact
  <2>1. Stamp(Built(p)) \in Labels
    BY <1>3, <1>4, StampType DEF Detected
  <2>2. QED
    BY <2>1, NewManifestFields DEF Kinds
<1>8. /\ l \in Manifests /\ l.source = "build" /\ l.gfx = NoGraphics /\ ~l.artifact
      /\ l.linked = ~script
  <2> HIDE DEF n
  <2>1. QED
    BY <1>3, <1>7 DEF Manifests
<1>9. /\ m \in Manifests /\ Sealed(m) /\ m.source = "build" /\ m.gfx = NoGraphics /\ ~m.artifact
      /\ m.deps = deps /\ m.linked = ~script
  <2> HIDE DEF l, src, deps
  <2>1. QED
    BY <1>6, <1>8, IdentitiesSet
<1> HIDE DEF m
<1>10. Handed(p) /\ pc'[p] = "finalize" /\ local'[p] = x
  <2> HIDE DEF x
  <2>1. "finalize" \in StepNames
    BY DEF StepNames
  <2>2. QED
    BY <1>1, <2>1, GotoHands, Zenon
<1>11. FilesOK' /\ (calm => CalmFiles')
  <2>1. calm => Covered(prefix', ledger')
    BY <1>5 DEF Covered
  <2>2. QED
    BY <1>1, <1>5, <1>6, <2>1, BuildFiles
<1>12. Carries(registry', pc'[p], local'[p])
  <2>1. x \in BuiltLocals /\ x.m = m
    BY <1>3, <1>9 DEF BuildLocals, BuiltLocals
  <2>2. Good(registry', m)
    BY <1>9 DEF Good, Held
  <2> HIDE DEF x
  <2>3. QED
    BY <1>9, <1>10, <2>1, <2>2 DEF Carries
<1>13. ASSUME calm' PROVE Calm(pc[p], local[p])'
  <2>1. calm /\ manifest' = NONE /\ CalmFiles /\ Covered(prefix, ledger)
    BY <1>1, <1>3, <1>10, <1>13 DEF Handed
  <2>2. Closed(m, prefix')
    <3> SUFFICES ASSUME script, Cardinality(prefix'.keys) = 1, prefix'.finished = 1
                 PROVE m.deps = Deps
      BY <1>9 DEF Closed
    <3>1. ledger[k] = Deps
      BY <1>1, <1>3, <1>5, <2>1, WholeClosure
    <3>2. QED
      BY <1>9, <3>1
  <2>3. Bare(prefix')
    BY <1>5 DEF Bare
  <2>4. x.m = m
    OBVIOUS
  <2> HIDE DEF x
  <2>5. QED
    BY <1>9, <1>10, <2>1, <2>2, <2>3, <2>4 DEF Calm, Of, Writing, Exporting
<1>14. calm' => calm
  BY <1>10 DEF Handed
<1>15. QED
  BY <1>1, <1>10, <1>11, <1>12, <1>13, <1>14, Combine

(* The manifest a process goes on to write.                                *)
LEMMA WriteKeeps ==
  ASSUME RuntimeInv, NEW p \in Procs, NEW m, Good(registry, m), Handed(p),
         pc'[p] = "write", local'[p].m = m,
         local'[p] \in [cmd : {"pull", "validate", "repair"}, m : Manifests],
         registry' = registry, FilesOK',
         calm' => CalmFiles' /\ Of(m, prefix')
                    /\ (Claims(m) => local'[p].cmd = "validate" /\ rendered')
  PROVE RuntimeInv'
<1>1. Carries(registry', pc'[p], local'[p])
  BY DEF Carries, Writing
<1>2. calm' => Calm(pc[p], local[p])'
  BY DEF Calm, Writing, Exporting
<1>3. QED
  BY <1>1, <1>2, Combine

LEMMA KeepsFinalizePasses ==
  ASSUME RuntimeInv, NEW p \in Procs, FinalizePasses(p)
  PROVE RuntimeInv'
<1> DEFINE h == SetHostRequirements(local[p].m, local[p].host)
           m == IF local[p].plan.planned THEN SetCompatibility(h, local[p].ver) ELSE h
<1>1. /\ pc[p] = "finalize" /\ ToWrite(p, m)
      /\ UNCHANGED <<manifest, prefix, ledger, external, staging, registry, faults, rendered>>
  BY DEF FinalizePasses, Beyond
<1>2. FilesOK /\ Carries(registry, pc[p], local[p]) /\ (calm => CalmFiles /\ Calm(pc[p], local[p]))
  BY Busy
<1>3. local[p] \in BuiltLocals /\ Good(registry, local[p].m) /\ local[p].m.source = "build"
  BY <1>1, <1>2 DEF Carries, Building, Fetching, Writing, Exporting
<1>4. /\ local[p].cmd = "pull" /\ local[p].m \in Manifests /\ local[p].host \in BOOLEAN
      /\ local[p].ver \in Detected /\ local[p].m.artifact \in BOOLEAN /\ ~local[p].m.artifact
  BY <1>3 DEF BuiltLocals, Good, Held, Detected, Manifests
<1>5. /\ h \in Manifests /\ Sealed(h) /\ h.source = "build" /\ h.gfx = local[p].m.gfx
      /\ h.artifact = FALSE /\ h.deps = local[p].m.deps /\ h.linked = local[p].m.linked
  BY <1>3, <1>4, HostSet
<1>6. /\ m \in Manifests /\ Sealed(m) /\ m.source = "build" /\ m.gfx = local[p].m.gfx
      /\ m.artifact = FALSE /\ m.deps = local[p].m.deps /\ m.linked = local[p].m.linked
  <2> HIDE DEF h
  <2>1. QED
    BY <1>4, <1>5, CompatibilitySet
<1> HIDE DEF m
<1>7. Handed(p) /\ pc'[p] = "write" /\ local'[p] = [cmd |-> local[p].cmd, m |-> m]
  BY <1>1, WriteHands
<1>8. FilesOK' /\ (calm' => CalmFiles')
  BY <1>1, <1>2, <1>7, SameFiles DEF Handed
<1>9. Good(registry, m)
  BY <1>6 DEF Good, Held
<1>10. ASSUME calm' PROVE Of(m, prefix') /\ ~Claims(m)
  <2>1. Of(local[p].m, prefix) /\ local[p].m.gfx = NoGraphics
    BY <1>1, <1>2, <1>7, <1>10 DEF Handed, Calm
  <2>2. QED
    BY <1>1, <1>3, <1>6, <2>1, RuntimeAssumption DEF Of, Closed, Claims, NoGraphics
<1>11. QED
  BY <1>1, <1>4, <1>6, <1>7, <1>8, <1>9, <1>10, WriteKeeps

LEMMA KeepsFinalizeRefuses ==
  ASSUME RuntimeInv, NEW p \in Procs, FinalizeRefuses(p)
  PROVE RuntimeInv'
<1>1. /\ pc[p] = "finalize" /\ Return(p)
      /\ UNCHANGED <<manifest, prefix, ledger, external, staging, registry, faults, rendered>>
  BY DEF FinalizeRefuses, Beyond
<1>2. FilesOK' /\ (calm => CalmFiles')
  BY <1>1, Busy, SameFiles
<1>3. QED
  BY <1>1, <1>2, EndKeeps

-----------------------------------------------------------------------------
(* The other sources of pull, validate and repair.                         *)

(* A manifest made for a tree that is used as it is.                       *)
LEMMA FreshManifest ==
  ASSUME NEW R, NEW s \in Kinds, NEW v \in Labels, NEW h \in BOOLEAN
  PROVE LET m == SetHostRequirements(NewManifest(s, v), h) IN
        Good(R, m) /\ m \in Manifests /\ m.source = s /\ m.gfx = NoGraphics
<1> DEFINE n == NewManifest(s, v)
           m == SetHostRequirements(n, h)
<1>1. n \in Manifests /\ n.source = s /\ n.gfx = NoGraphics /\ ~n.artifact
  BY NewManifestFields
<1> HIDE DEF n
<1>2. m \in Manifests /\ Sealed(m) /\ m.source = s /\ m.gfx = NoGraphics /\ ~m.artifact
  BY <1>1, HostSet
<1> HIDE DEF m
<1>3. Good(R, m)
  BY <1>2 DEF Good, Held
<1>4. QED
  BY <1>2, <1>3 DEF m, n

LEMMA UsedInPlace ==
  ASSUME NEW m, m.source \in {"local", "mock"}, m.gfx = NoGraphics, NEW t
  PROVE Of(m, t) /\ ~Claims(m)
BY RuntimeAssumption DEF Of, Closed, Claims, NoGraphics

(* A command that goes straight to the write.                              *)
LEMMA BeginWrite ==
  ASSUME RuntimeInv, NEW p \in Procs, NEW c \in {"pull", "repair"}, NEW m, Good(registry, m),
         Begin(p, "write", [cmd |-> c, m |-> m]), registry' = registry, FilesOK',
         calm => CalmFiles' /\ Of(m, prefix'), ~Claims(m)
  PROVE RuntimeInv'
<1> DEFINE x == [cmd |-> c, m |-> m]
<1>1. x.m = m /\ x \in [cmd : {"pull", "validate", "repair"}, m : Manifests]
  BY DEF Good
<1> HIDE DEF x
<1>2. Handed(p) /\ pc'[p] = "write" /\ local'[p] = x
  <2>1. "write" \in StepNames /\ Begin(p, "write", x)
    BY DEF StepNames, x
  <2>2. QED
    BY <2>1, BeginHands, Zenon
<1>3. calm' => calm
  BY <1>2 DEF Handed
<1>4. QED
  BY <1>1, <1>2, <1>3, WriteKeeps

LEMMA AdoptKeeps ==
  ASSUME RuntimeInv, NEW p \in Procs, NEW c \in {"pull", "repair"}, NEW h \in BOOLEAN,
         Begin(p, "write", [cmd |-> c,
               m |-> SetHostRequirements(NewManifest("local", Stamp(external)), h)]),
         Adopt
  PROVE RuntimeInv'
<1> DEFINE m == SetHostRequirements(NewManifest("local", Stamp(external)), h)
<1>1. FilesOK /\ (calm => CalmFiles)
  BY Busy
<1>2. Good(registry, m) /\ m.source = "local" /\ m.gfx = NoGraphics
  <2>1. Stamp(external) \in Labels
    BY <1>1, StampType DEF FilesOK, Detected
  <2>2. QED
    BY <2>1, FreshManifest DEF Kinds
<1> HIDE DEF m
<1>3. PICK sound \in BOOLEAN : external' = [external EXCEPT !.sound = sound]
  BY <1>1 DEF Adopt, FilesOK, Trees
<1>4. UNCHANGED <<manifest, prefix, ledger, staging, registry, faults, rendered>>
  BY DEF Adopt
<1>5. /\ external' \in Trees /\ external'.usd = external.usd
      /\ external'.deps = external.deps /\ external'.finished = external.finished
  BY <1>1, <1>3 DEF FilesOK, Trees
<1>6. FilesOK'
  BY <1>1, <1>4, <1>5 DEF FilesOK
<1>7. calm => CalmFiles'
  BY <1>1, <1>4, <1>5 DEF CalmFiles, Readable, Bare
<1>8. Of(m, prefix') /\ ~Claims(m)
  BY <1>2, UsedInPlace
<1>9. QED
  BY <1>2, <1>4, <1>6, <1>7, <1>8, BeginWrite DEF m

LEMMA KeepsPullAdopt ==
  ASSUME RuntimeInv, NEW p \in Procs, PullAdopt(p)
  PROVE RuntimeInv'
<1>1. PICK h \in {r.host : r \in Requests} :
        Begin(p, "write", [cmd |-> "pull",
              m |-> SetHostRequirements(NewManifest("local", Stamp(external)), h)])
  BY DEF PullAdopt
<1>2. h \in BOOLEAN /\ Adopt
  BY RuntimeAssumption DEF PullAdopt
<1>3. QED
  BY <1>1, <1>2, AdoptKeeps

LEMMA KeepsRepairLocal ==
  ASSUME RuntimeInv, NEW p \in Procs, RepairLocal(p)
  PROVE RuntimeInv'
<1>1. Readable /\ Adopt
      /\ Begin(p, "write", [cmd |-> "repair",
               m |-> SetHostRequirements(NewManifest("local", Stamp(external)), manifest.host)])
  BY DEF RepairLocal
<1>2. manifest.host \in BOOLEAN
  BY <1>1, Busy DEF FilesOK, Readable, Good, Manifests
<1>3. QED
  BY <1>1, <1>2, AdoptKeeps

LEMMA KeepsPullMock ==
  ASSUME RuntimeInv, NEW p \in Procs, PullMock(p)
  PROVE RuntimeInv'
<1>1. PICK h \in {r.host : r \in Requests} :
        Begin(p, "write", [cmd |-> "pull", m |-> SetHostRequirements(NewManifest("mock", Catalog), h)])
  BY DEF PullMock
<1>2. /\ h \in BOOLEAN
      /\ UNCHANGED <<manifest, prefix, ledger, external, staging, registry, faults, rendered>>
  BY RuntimeAssumption DEF PullMock, Disk, Beyond
<1> DEFINE m == SetHostRequirements(NewManifest("mock", Catalog), h)
<1>3. Good(registry, m) /\ m.source = "mock" /\ m.gfx = NoGraphics
  BY <1>2, FreshManifest DEF Kinds, Labels
<1> HIDE DEF m
<1>4. Of(m, prefix') /\ ~Claims(m)
  BY <1>3, UsedInPlace
<1>5. FilesOK' /\ (calm => CalmFiles')
  BY <1>2, Busy, SameFiles
<1>6. QED
  BY <1>1, <1>2, <1>3, <1>4, <1>5, BeginWrite DEF m

LEMMA KeepsPullArtifact ==
  ASSUME RuntimeInv, NEW p \in Procs, PullArtifact(p)
  PROVE RuntimeInv'
<1>1. PICK a \in registry : Begin(p, "fetch", [cmd |-> "pull", a |-> a])
  BY DEF PullArtifact
<1>2. UNCHANGED <<manifest, prefix, ledger, external, staging, registry, faults, rendered>>
  BY DEF PullArtifact, Disk, Beyond
<1> DEFINE x == [cmd |-> "pull", a |-> a]
<1>3. a \in Artifacts
  BY Busy DEF FilesOK, Package
<1>4. x \in [cmd : {"pull"}, a : Artifacts] /\ x.a \in registry
  BY <1>3
<1> HIDE DEF x
<1>5. Handed(p) /\ pc'[p] = "fetch" /\ local'[p] = x
  <2>1. "fetch" \in StepNames /\ Begin(p, "fetch", x)
    BY <1>1 DEF StepNames, x
  <2>2. QED
    BY <2>1, BeginHands, Zenon
<1>6. FilesOK' /\ (calm' => CalmFiles')
  BY <1>2, <1>5, Before, SameFiles
<1>7. Carries(registry', pc'[p], local'[p])
  BY <1>2, <1>4, <1>5 DEF Carries, Fetching
<1>8. Calm(pc[p], local[p])'
  BY <1>5 DEF Calm, Writing, Exporting
<1>9. QED
  BY <1>2, <1>5, <1>6, <1>7, <1>8, Combine

LEMMA FetchedIsGood ==
  ASSUME NEW R, NEW a \in R, Package(a)
  PROVE LET m == Fetched(a) IN
        Good(R, m) /\ m \in Manifests /\ m.source = "artifact"
<1> DEFINE m == Fetched(a)
           n == a.m
<1>1. n \in Manifests /\ Sealed(n)
  BY DEF Package, Artifacts
<1>2. m = [n EXCEPT !.source = "artifact", !.artifact = TRUE]
  BY DEF Fetched
<1> HIDE DEF n, m
<1>3. /\ m \in Manifests /\ m.source = "artifact" /\ m.gfx = n.gfx /\ m.digest = n.digest
  BY <1>1, <1>2 DEF Manifests, Kinds
<1>4. Sealed(m)
  BY <1>1, <1>2 DEF Manifests, Sealed, Identity
<1>5. Held(R, m)
  BY <1>3 DEF Held, n
<1>6. QED
  BY <1>3, <1>4, <1>5 DEF Good, m

LEMMA KeepsFetchExtracts ==
  ASSUME RuntimeInv, NEW p \in Procs, FetchExtracts(p)
  PROVE RuntimeInv'
<1> DEFINE a == local[p].a
           m == Fetched(a)
<1>1. /\ pc[p] = "extract" /\ ToWrite(p, m) /\ prefix' = a.tree
      /\ UNCHANGED <<manifest, ledger, external, staging, registry, faults, rendered>>
  BY DEF FetchExtracts, Beyond
<1>2. FilesOK /\ Carries(registry, pc[p], local[p]) /\ (calm => CalmFiles /\ Calm(pc[p], local[p]))
  BY Busy
<1>3. local[p].cmd = "pull" /\ a \in registry
  BY <1>1, <1>2 DEF Carries, Building, Fetching, Writing, Exporting
<1> HIDE DEF a
<1>4. Package(a) /\ a.tree \in Trees
  BY <1>2, <1>3 DEF FilesOK, Package, Artifacts
<1>5. Good(registry, m) /\ m \in Manifests /\ m.source = "artifact"
  BY <1>3, <1>4, FetchedIsGood
<1> HIDE DEF m
<1>6. Handed(p) /\ pc'[p] = "write" /\ local'[p] = [cmd |-> local[p].cmd, m |-> m]
  BY <1>1, WriteHands
<1>7. FilesOK'
  BY <1>1, <1>2, <1>4 DEF FilesOK
<1>8. ASSUME calm' PROVE CalmFiles' /\ Of(m, prefix') /\ ~Claims(m)
  <2>1. calm /\ CalmFiles /\ manifest = NONE
    BY <1>1, <1>2, <1>6, <1>8 DEF Handed, Calm
  <2>2. Bare(prefix')
    BY <1>1, <1>3, <2>1 DEF CalmFiles, Exportable
  <2>3. Covered(prefix', ledger') /\ Of(m, prefix') /\ ~Claims(m)
    BY <1>5, <2>2 DEF Covered, Bare, Of, Closed, Claims
  <2>4. CalmFiles'
    BY <1>1, <2>1, <2>3 DEF CalmFiles, Readable
  <2>5. QED
    BY <2>3, <2>4
<1>9. QED
  BY <1>1, <1>3, <1>5, <1>6, <1>7, <1>8, WriteKeeps

LEMMA WritingFacts ==
  ASSUME RuntimeInv, NEW p \in Procs, pc[p] \in Writing
  PROVE /\ FilesOK /\ Good(registry, local[p].m)
        /\ local[p] \in [cmd : {"pull", "validate", "repair"}, m : Manifests]
        /\ calm => /\ CalmFiles /\ Of(local[p].m, prefix)
                   /\ Claims(local[p].m) => local[p].cmd = "validate" /\ rendered
<1>1. FilesOK /\ Carries(registry, pc[p], local[p]) /\ (calm => CalmFiles /\ Calm(pc[p], local[p]))
  BY Busy
<1>2. /\ Good(registry, local[p].m)
      /\ local[p] \in [cmd : {"pull", "validate", "repair"}, m : Manifests]
  BY <1>1 DEF Carries, Building, Fetching, Writing, Exporting
<1>3. QED
  BY <1>1, <1>2 DEF Calm

LEMMA KeepsTruncateManifest ==
  ASSUME RuntimeInv, NEW p \in Procs, TruncateManifest(p)
  PROVE RuntimeInv'
<1>1. /\ pc[p] = "write" /\ manifest' = Torn /\ Goto(p, "torn") /\ UNCHANGED local
      /\ UNCHANGED <<prefix, ledger, external, staging, registry, faults, rendered>>
  BY DEF TruncateManifest, Beyond
<1>2. Handed(p) /\ pc'[p] = "torn" /\ local'[p] = local[p]
  BY <1>1, StayHands DEF StepNames
<1>3. /\ FilesOK /\ Good(registry, local[p].m)
      /\ local[p] \in [cmd : {"pull", "validate", "repair"}, m : Manifests]
      /\ calm => /\ CalmFiles /\ Of(local[p].m, prefix)
                 /\ Claims(local[p].m) => local[p].cmd = "validate" /\ rendered
  BY <1>1, WritingFacts DEF Writing
<1>4. FilesOK' /\ (calm => CalmFiles')
  BY <1>1, <1>3 DEF FilesOK, CalmFiles, Readable
<1>5. Carries(registry', pc'[p], local'[p])
  BY <1>1, <1>2, <1>3 DEF Carries, Writing
<1>6. calm => Calm(pc[p], local[p])'
  BY <1>1, <1>2, <1>3 DEF Calm, Writing, Exporting
<1>7. QED
  BY <1>1, <1>2, <1>4, <1>5, <1>6, Combine DEF Handed

LEMMA KeepsWriteManifest ==
  ASSUME RuntimeInv, NEW p \in Procs, WriteManifest(p)
  PROVE RuntimeInv'
<1>1. /\ pc[p] = "torn" /\ manifest' = local[p].m /\ Return(p)
      /\ rendered' = (rendered /\ local[p].cmd = "validate")
      /\ UNCHANGED <<prefix, ledger, external, staging, registry, faults>>
  BY DEF WriteManifest
<1>2. /\ FilesOK /\ Good(registry, local[p].m)
      /\ calm => /\ CalmFiles /\ Of(local[p].m, prefix)
                 /\ Claims(local[p].m) => local[p].cmd = "validate" /\ rendered
  BY <1>1, WritingFacts DEF Writing
<1>3. rendered' \in BOOLEAN
  BY <1>1
<1>4. FilesOK'
  BY <1>1, <1>2, <1>3 DEF FilesOK
<1>5. calm => CalmFiles'
  BY <1>1, <1>2 DEF CalmFiles
<1>6. QED
  BY <1>1, <1>4, <1>5, EndKeeps

(* A command that reads the manifest and goes on to check it.              *)
LEMMA KeepsValidateReads ==
  ASSUME RuntimeInv, NEW p \in Procs, ValidateReads(p)
  PROVE RuntimeInv'
<1> DEFINE x == [cmd |-> "validate", m |-> manifest]
<1>1. /\ Readable /\ Begin(p, "check", x)
      /\ UNCHANGED <<manifest, prefix, ledger, external, staging, registry, faults, rendered>>
  BY DEF ValidateReads, Disk, Beyond
<1>2. Good(registry, manifest) /\ manifest \in Manifests
  BY <1>1, Busy DEF FilesOK, Readable, Good
<1>3. x \in [cmd : {"validate"}, m : Manifests] /\ x.m = manifest
  BY <1>2
<1> HIDE DEF x
<1>4. Handed(p) /\ pc'[p] = "check" /\ local'[p] = x
  <2>1. "check" \in StepNames
    BY DEF StepNames
  <2>2. QED
    BY <1>1, <2>1, BeginHands, Zenon
<1>5. FilesOK' /\ (calm' => CalmFiles')
  BY <1>1, <1>4, Before, SameFiles
<1>6. Carries(registry', pc'[p], local'[p])
  BY <1>1, <1>2, <1>3, <1>4 DEF Carries
<1>7. Calm(pc[p], local[p])'
  BY <1>1, <1>3, <1>4 DEF Calm, Writing, Exporting, Readable
<1>8. QED
  BY <1>1, <1>4, <1>5, <1>6, <1>7, Combine

LEMMA KeepsExportReads ==
  ASSUME RuntimeInv, NEW p \in Procs, ExportReads(p)
  PROVE RuntimeInv'
<1> DEFINE x == [cmd |-> "export", m |-> manifest]
<1>1. /\ Readable /\ Begin(p, "recheck", x) /\ CheckExportable(manifest)
      /\ UNCHANGED <<manifest, prefix, ledger, external, staging, registry, faults, rendered>>
  BY DEF ExportReads, Disk, Beyond
<1>2. /\ Good(registry, manifest) /\ manifest \in Manifests
      /\ Real(manifest) /\ manifest.validation = "passed"
  BY <1>1, Busy DEF FilesOK, Readable, Good, CheckExportable
<1>3. x \in [cmd : {"export"}, m : Manifests] /\ x.m = manifest
  BY <1>2
<1> HIDE DEF x
<1>4. Handed(p) /\ pc'[p] = "recheck" /\ local'[p] = x
  <2>1. "recheck" \in StepNames
    BY DEF StepNames
  <2>2. QED
    BY <1>1, <2>1, BeginHands, Zenon
<1>5. FilesOK' /\ (calm' => CalmFiles')
  BY <1>1, <1>4, Before, SameFiles
<1>6. Carries(registry', pc'[p], local'[p])
  BY <1>1, <1>2, <1>3, <1>4 DEF Carries, Exporting
<1>7. Calm(pc[p], local[p])'
  BY <1>1, <1>2, <1>3, <1>4 DEF Calm, Writing, Exporting, Readable
<1>8. QED
  BY <1>1, <1>4, <1>5, <1>6, <1>7, Combine

LEMMA KeepsValidateChecks ==
  ASSUME RuntimeInv, NEW p \in Procs, ValidateChecks(p)
  PROVE RuntimeInv'
<1> DEFINE m == local[p].m
           tree == EffectiveTree(m)
<1>1. PICK obs \in Observations(m, tree), v \in {"passed", "failed"} :
        /\ ToWrite(p, [PersistObservations(m, obs) EXCEPT !.validation = v])
        /\ rendered' = (rendered \/ obs.render = "passed")
  BY DEF ValidateChecks
<1>2. /\ pc[p] = "check" /\ UNCHANGED <<manifest, prefix, ledger, external, staging, registry, faults>>
  BY DEF ValidateChecks
<1>3. FilesOK /\ Carries(registry, pc[p], local[p]) /\ (calm => CalmFiles /\ Calm(pc[p], local[p]))
  BY Busy
<1>4. local[p].cmd = "validate" /\ Good(registry, m)
  BY <1>2, <1>3 DEF Carries, Building, Fetching, Writing, Exporting
<1> DEFINE w == PersistObservations(m, obs)
           n == [w EXCEPT !.validation = v]
<1>5. /\ Good(registry, n)
      /\ n.source = m.source /\ n.deps = m.deps /\ n.linked = m.linked
      /\ n.gfx.render = "passed" => m.gfx.render = "passed" \/ obs.render = "passed"
  <2>1. w = PersistObservations(m, obs)
    OBVIOUS
  <2> HIDE DEF m, tree, w
  <2>2. QED
    BY <1>4, <2>1, Persisted
<1> HIDE DEF n
<1>6. Handed(p) /\ pc'[p] = "write" /\ local'[p] = [cmd |-> "validate", m |-> n]
  <2>1. ToWrite(p, n)
    BY <1>1 DEF n
  <2>2. QED
    BY <1>2, <1>4, <2>1, WriteHands
<1>7. rendered' \in BOOLEAN /\ (rendered => rendered') /\ (obs.render = "passed" => rendered')
  BY <1>1
<1>8. FilesOK'
  BY <1>2, <1>3, <1>7 DEF FilesOK
<1>9. ASSUME calm' PROVE CalmFiles' /\ Of(n, prefix') /\ (Claims(n) => rendered')
  <2>1. calm /\ CalmFiles /\ m = manifest /\ Readable
    BY <1>2, <1>3, <1>6, <1>9 DEF Handed, Calm
  <2>2. CalmFiles'
    BY <1>2, <1>7, <2>1 DEF CalmFiles, Readable
  <2>3. Of(m, prefix) /\ (Claims(m) => rendered)
    BY <2>1 DEF CalmFiles
  <2>4. Of(n, prefix') /\ (Claims(n) => rendered')
    BY <1>2, <1>5, <1>7, <2>3 DEF Of, Closed, Claims
  <2>5. QED
    BY <2>2, <2>4
<1>10. n \in Manifests
  BY <1>5 DEF Good
<1>11. QED
  BY <1>2, <1>5, <1>6, <1>8, <1>9, <1>10, WriteKeeps

LEMMA Redetected ==
  ASSUME FilesOK, NEW R, NEW m \in Manifests, NEW h \in BOOLEAN
  PROVE LET n == SetHostRequirements(RedetectBuild(m), h) IN
        /\ Good(R, n) /\ n.source = "build" /\ n.gfx = NoGraphics
        /\ n.deps = m.deps /\ n.linked = m.linked
<1> DEFINE b == NewManifest("build", Stamp(prefix))
           f == [b EXCEPT !.linked = m.linked]
           c == SetCompatibility(f, m.compat)
           d == SetBuildIdentities(c, m.src, m.deps)
           n == SetHostRequirements(d, h)
<1>1. /\ m.linked \in BOOLEAN /\ m.compat \in Detected /\ m.src \in Detected /\ m.deps \in Names
  BY DEF Manifests
<1>2. RedetectBuild(m) = d
  BY DEF RedetectBuild
<1>3. b \in Manifests /\ b.source = "build" /\ b.gfx = NoGraphics /\ ~b.artifact
  <2>1. Stamp(prefix) \in Labels
    BY StampType DEF FilesOK, Trees
  <2>2. QED
    BY <2>1, NewManifestFields DEF Kinds
<1> HIDE DEF b
<1>4. /\ f \in Manifests /\ f.source = "build" /\ f.gfx = NoGraphics /\ ~f.artifact
      /\ f.linked = m.linked
  BY <1>1, <1>3 DEF Manifests
<1> HIDE DEF f
<1>5. /\ c \in Manifests /\ c.source = "build" /\ c.gfx = NoGraphics /\ ~c.artifact
      /\ c.linked = m.linked
  BY <1>1, <1>4, CompatibilitySet
<1> HIDE DEF c
<1>6. /\ d \in Manifests /\ d.source = "build" /\ d.gfx = NoGraphics /\ ~d.artifact
      /\ d.linked = m.linked /\ d.deps = m.deps
  BY <1>1, <1>5, IdentitiesSet
<1> HIDE DEF d
<1>7. /\ n \in Manifests /\ Sealed(n) /\ n.source = "build" /\ n.gfx = NoGraphics /\ ~n.artifact
      /\ n.linked = m.linked /\ n.deps = m.deps
  BY <1>6, HostSet
<1> HIDE DEF n
<1>8. Good(R, n)
  BY <1>7 DEF Good, Held
<1>9. QED
  BY <1>2, <1>7, <1>8 DEF n

LEMMA KeepsRepairBuild ==
  ASSUME RuntimeInv, NEW p \in Procs, RepairBuild(p)
  PROVE RuntimeInv'
<1> DEFINE n == SetHostRequirements(RedetectBuild(manifest), manifest.host)
<1>1. /\ Readable /\ manifest.source = "build" /\ Begin(p, "write", [cmd |-> "repair", m |-> n])
      /\ UNCHANGED <<manifest, prefix, ledger, external, staging, registry, faults, rendered>>
  BY DEF RepairBuild, Disk, Beyond
<1>2. FilesOK /\ (calm => CalmFiles)
  BY Busy
<1>3. manifest \in Manifests /\ manifest.host \in BOOLEAN
  BY <1>1, <1>2 DEF FilesOK, Readable, Good, Manifests
<1>4. /\ Good(registry, n) /\ n.source = "build" /\ n.gfx = NoGraphics
      /\ n.deps = manifest.deps /\ n.linked = manifest.linked
  BY <1>2, <1>3, Redetected
<1> HIDE DEF n
<1>5. FilesOK' /\ (calm => CalmFiles')
  BY <1>1, <1>2, SameFiles
<1>6. ~Claims(n) /\ (calm => Of(n, prefix'))
  BY <1>1, <1>2, <1>4, RuntimeAssumption DEF Claims, NoGraphics, CalmFiles, Of, Closed
<1>7. QED
  BY <1>1, <1>4, <1>5, <1>6, BeginWrite

-----------------------------------------------------------------------------
(* export                                                                  *)

LEMMA ExportingFacts ==
  ASSUME RuntimeInv, NEW p \in Procs, pc[p] \in Exporting
  PROVE /\ FilesOK /\ Good(registry, local[p].m) /\ local[p].m \in Manifests
        /\ local[p] \in [cmd : {"export"}, m : Manifests]
        /\ EffectiveTree(local[p].m) \in Trees
        /\ calm => CalmFiles /\ Calm(pc[p], local[p])
<1>1. FilesOK /\ Carries(registry, pc[p], local[p]) /\ (calm => CalmFiles /\ Calm(pc[p], local[p]))
  BY Busy
<1>2. Good(registry, local[p].m) /\ local[p] \in [cmd : {"export"}, m : Manifests]
  BY <1>1 DEF Carries, Building, Fetching, Writing, Exporting
<1>3. EffectiveTree(local[p].m) \in Trees
  BY <1>1 DEF EffectiveTree, FilesOK
<1>4. QED
  BY <1>1, <1>2, <1>3

LEMMA ExportStepKeeps ==
  ASSUME RuntimeInv, NEW p \in Procs, pc[p] \in Exporting, NEW step \in Exporting,
         Goto(p, step), UNCHANGED local, registry' = registry, FilesOK',
         calm => CalmFiles' /\ Calm(step, local[p])'
  PROVE RuntimeInv'
<1>1. step \in StepNames /\ pc[p] # "idle"
  BY DEF Exporting, StepNames
<1>2. Handed(p) /\ pc'[p] = step /\ local'[p] = local[p]
  BY <1>1, StayHands
<1>3. Carries(registry', pc'[p], local'[p])
  BY <1>2, ExportingFacts DEF Carries
<1>4. calm' => CalmFiles' /\ Calm(pc[p], local[p])'
  <2> SUFFICES ASSUME calm' PROVE CalmFiles' /\ Calm(pc[p], local[p])'
    OBVIOUS
  <2>1. CalmFiles' /\ Calm(step, local[p])'
    BY <1>2 DEF Handed
  <2>2. QED
    BY <1>2, <2>1 DEF Calm
<1>5. QED
  BY <1>2, <1>3, <1>4, Combine

LEMMA KeepsExportRevalidates ==
  ASSUME RuntimeInv, NEW p \in Procs, ExportRevalidates(p)
  PROVE RuntimeInv'
<1> DEFINE m == local[p].m
           tree == EffectiveTree(m)
<1>1. /\ pc[p] = "recheck"
      /\ UNCHANGED <<manifest, prefix, ledger, external, staging, registry, faults, rendered>>
  BY DEF ExportRevalidates, Disk, Beyond
<1>2. \/ Return(p)
      \/ /\ \E obs, consumer : ReportPasses(m, tree, obs, consumer)
         /\ Goto(p, "stage") /\ UNCHANGED local
  BY DEF ExportRevalidates
<1>3. FilesOK' /\ (calm => CalmFiles')
  BY <1>1, Busy, SameFiles
<1>4. CASE Return(p)
  BY <1>1, <1>3, <1>4, EndKeeps
<1>5. CASE /\ \E obs, consumer : ReportPasses(m, tree, obs, consumer)
           /\ Goto(p, "stage") /\ UNCHANGED local
  <2>1. (Real(m) => RealChecks(tree)) /\ ~Drift(m, tree)
    BY <1>5 DEF ReportPasses, ManifestChecks
  <2>2. ASSUME calm PROVE Calm("stage", local[p])'
    <3>1. Calm(pc[p], local[p])
      BY <1>1, <2>2, Busy
    <3>2. m = manifest /\ Readable /\ Real(m) /\ m.validation = "passed"
      BY <1>1, <3>1 DEF Calm, Exporting
    <3>3. local'[p] = local[p] /\ EffectiveTree(m)' = tree /\ Readable'
      BY <1>1, <1>5, <3>2 DEF EffectiveTree, Readable
    <3>4. RealChecks(EffectiveTree(m)') /\ ~Drift(m', EffectiveTree(m)')
      BY <1>5, <2>1, <3>2, <3>3
    <3>5. QED
      BY <1>1, <1>5, <3>2, <3>3, <3>4 DEF Calm, Writing, Exporting
  <2>3. pc[p] \in Exporting /\ "stage" \in Exporting
    BY <1>1 DEF Exporting
  <2>4. QED
    BY <1>1, <1>3, <1>5, <2>2, <2>3, ExportStepKeeps
<1>6. QED
  BY <1>2, <1>4, <1>5

LEMMA KeepsExportStages ==
  ASSUME RuntimeInv, NEW p \in Procs, ExportStages(p)
  PROVE RuntimeInv'
<1>1. /\ pc[p] = "stage" /\ staging' = Empty /\ Goto(p, "pack")
      /\ UNCHANGED <<manifest, prefix, ledger, local, external, registry, faults, rendered>>
  BY DEF ExportStages, Disk
<1>2. FilesOK /\ (calm => CalmFiles /\ Calm(pc[p], local[p]))
  BY Busy
<1>3. FilesOK' /\ (calm => CalmFiles')
  BY <1>1, <1>2 DEF FilesOK, CalmFiles, Readable
<1>4. ASSUME calm PROVE Calm("pack", local[p])'
  <2>1. Calm("stage", local[p])
    BY <1>1, <1>2, <1>4
  <2>2. QED
    BY <1>1, <2>1 DEF Calm, Writing, Exporting, EffectiveTree, Readable
<1>5. pc[p] \in Exporting /\ "pack" \in Exporting
  BY <1>1 DEF Exporting
<1>6. QED
  BY <1>1, <1>3, <1>4, <1>5, ExportStepKeeps

LEMMA KeepsExportPacks ==
  ASSUME RuntimeInv, NEW p \in Procs, ExportPacks(p)
  PROVE RuntimeInv'
<1> DEFINE m == local[p].m
           tree == EffectiveTree(m)
           a == [tree |-> tree, m |-> m]
<1>1. /\ pc[p] = "pack"
      /\ UNCHANGED <<manifest, prefix, ledger, external, registry, faults, rendered>>
  BY DEF ExportPacks, Disk
<1>2. \/ Return(p) /\ UNCHANGED staging
      \/ LooksLikeUsd(tree) /\ staging' = a /\ Goto(p, "publish") /\ UNCHANGED local
  BY DEF ExportPacks
<1>3. pc[p] \in Exporting /\ "publish" \in Exporting
  BY <1>1 DEF Exporting
<1>4. /\ FilesOK /\ Good(registry, m) /\ m \in Manifests /\ tree \in Trees
      /\ calm => CalmFiles /\ Calm("pack", local[p])
  BY <1>1, <1>3, ExportingFacts
<1>5. CASE Return(p) /\ UNCHANGED staging
  <2>1. FilesOK' /\ (calm => CalmFiles')
    BY <1>1, <1>4, <1>5, SameFiles
  <2>2. QED
    BY <1>1, <1>5, <2>1, EndKeeps
<1>6. CASE LooksLikeUsd(tree) /\ staging' = a /\ Goto(p, "publish") /\ UNCHANGED local
  <2>1. Package(a)
    BY <1>4, <1>6 DEF Package, Artifacts, Good, LooksLikeUsd, Trees, Detected
  <2>2. FilesOK'
    BY <1>1, <1>4, <1>6, <2>1 DEF FilesOK
  <2>3. calm => CalmFiles'
    BY <1>1, <1>4 DEF CalmFiles, Readable
  <2>4. ASSUME calm PROVE Exportable(a) /\ m = manifest /\ Readable /\ Real(m) /\ m.validation = "passed"
    <3>1. /\ m = manifest /\ Readable /\ Real(m) /\ m.validation = "passed"
          /\ RealChecks(tree) /\ ~Drift(m, tree) /\ CalmFiles
      BY <1>4, <2>4 DEF Calm, Exporting
    <3>2. Bare(tree)
      <4>1. m.source \in Kinds
        BY <1>4 DEF Manifests
      <4>2. QED
        BY <3>1, <4>1 DEF CalmFiles, Of, EffectiveTree, Real, Kinds
    <3>3. a.tree = tree /\ a.m = m
      OBVIOUS
    <3> HIDE DEF a, m, tree
    <3>4. QED
      BY <3>1, <3>2, <3>3 DEF Exportable, RealChecks
  <2>5. calm => Calm("publish", local[p])'
    <3>1. staging' = a /\ UNCHANGED <<local, manifest>>
      BY <1>1, <1>6
    <3> HIDE DEF a
    <3>2. QED
      BY <2>4, <3>1 DEF Calm, Writing, Exporting, Readable
  <2>6. QED
    BY <1>1, <1>3, <1>6, <2>2, <2>3, <2>5, ExportStepKeeps
<1>7. QED
  BY <1>2, <1>5, <1>6

LEMMA KeepsExportPublishes ==
  ASSUME RuntimeInv, NEW p \in Procs, ExportPublishes(p)
  PROVE RuntimeInv'
<1>1. /\ pc[p] = "publish" /\ Return(p)
      /\ UNCHANGED <<manifest, prefix, ledger, external, faults, rendered>>
  BY DEF ExportPublishes, Disk
<1>2. \/ UNCHANGED <<staging, registry>>
      \/ /\ staging \notin {NONE, Empty}
         /\ registry' = registry \cup {staging} /\ staging' = NONE
  BY DEF ExportPublishes
<1>3. FilesOK /\ (calm => CalmFiles /\ Calm("publish", local[p]))
  BY <1>1, Busy
<1>4. CASE UNCHANGED <<staging, registry>>
  <2>1. FilesOK' /\ (calm => CalmFiles')
    BY <1>1, <1>3, <1>4, SameFiles
  <2>2. QED
    BY <1>1, <1>4, <2>1, EndKeeps
<1>5. CASE /\ staging \notin {NONE, Empty}
           /\ registry' = registry \cup {staging} /\ staging' = NONE
  <2>1. registry \subseteq registry' /\ Package(staging) /\ \A a \in registry' : Package(a)
    BY <1>3, <1>5 DEF FilesOK
  <2>2. manifest \in {NONE, Torn} \/ Good(registry', manifest)
    BY <1>3, <2>1, GoodStays DEF FilesOK
  <2>3. FilesOK'
    BY <1>1, <1>3, <1>5, <2>1, <2>2 DEF FilesOK
  <2>4. ASSUME calm PROVE CalmFiles'
    <3>1. Exportable(staging) /\ \A a \in registry : Exportable(a)
      BY <1>3, <1>5, <2>4 DEF Calm, CalmFiles
    <3>2. \A a \in registry' : Exportable(a)
      BY <1>5, <3>1
    <3>3. QED
      BY <1>1, <1>3, <2>4, <3>2 DEF CalmFiles, Readable
  <2>5. QED
    BY <1>1, <2>1, <2>3, <2>4, EndKeeps
<1>6. QED
  BY <1>2, <1>4, <1>5

-----------------------------------------------------------------------------
(* The world.                                                              *)

LEMMA KeepsCrash ==
  ASSUME RuntimeInv, NEW p \in Procs, Crash(p)
  PROVE RuntimeInv'
<1> DEFINE k == local[p].key
<1>1. /\ pc[p] # "idle" /\ Return(p) /\ faults < MaxFaults /\ faults' = faults + 1
      /\ UNCHANGED <<manifest, prefix, external, staging, registry, rendered>>
      /\ \/ ledger' = ledger
         \/ pc[p] = "building" /\ ledger' = [ledger EXCEPT ![k] = @ \cup {"torn"}]
  BY DEF Crash
<1>2. FilesOK /\ (calm => CalmFiles)
  BY Busy
<1>3. faults' \in 0..MaxFaults /\ ledger \in [Keys -> Names] /\ prefix \in Trees
  BY <1>1, <1>2, RuntimeAssumption DEF FilesOK
<1>4. ledger' \in [Keys -> Names] /\ \A j \in Keys : ledger[j] \subseteq ledger'[j]
  <2>1. CASE ledger' = ledger
    BY <1>3, <2>1
  <2>2. CASE pc[p] = "building" /\ ledger' = [ledger EXCEPT ![k] = @ \cup {"torn"}]
    <3>1. k \in Keys
      BY <2>2, BuildingFacts
    <3> HIDE DEF k
    <3>2. QED
      BY <1>3, <2>2, <3>1 DEF Names
  <2>3. QED
    BY <1>1, <2>1, <2>2
<1>5. FilesOK'
  BY <1>1, <1>2, <1>3, <1>4 DEF FilesOK
<1>6. prefix.keys \subseteq Keys
  BY <1>3 DEF Trees
<1>7. calm => Covered(prefix', ledger')
  BY <1>1, <1>2, <1>4, <1>6, CoveredStays DEF CalmFiles
<1>8. calm => CalmFiles'
  BY <1>1, <1>2, <1>7 DEF CalmFiles, Readable
<1>9. QED
  BY <1>1, <1>5, <1>8, EndKeeps

LEMMA KeepsTouch ==
  ASSUME RuntimeInv, Touch
  PROVE RuntimeInv'
<1>1. /\ AllIdle /\ faults < MaxFaults /\ faults' = faults + 1
      /\ UNCHANGED <<manifest, ledger, staging, registry, pc, local, commands, calm, rendered>>
  BY DEF Touch
<1>2. PICK v \in Versions, sound \in BOOLEAN :
        \/ prefix' = [prefix EXCEPT !.usd = v, !.sound = sound] /\ UNCHANGED external
        \/ external' = [external EXCEPT !.usd = v, !.sound = sound] /\ UNCHANGED prefix
  BY DEF Touch
<1>3. FilesOK /\ ProcsOK /\ StepsOK /\ (calm => CalmFiles /\ Sole /\ CalmSteps)
  BY DEF RuntimeInv
<1>4. prefix \in Trees /\ external \in Trees /\ v \in Detected /\ external.usd \in Versions
  BY <1>3 DEF FilesOK, Detected
<1>5. /\ prefix' \in Trees /\ prefix'.deps = prefix.deps /\ prefix'.keys = prefix.keys
      /\ prefix'.finished = prefix.finished
      /\ external' \in Trees /\ external'.usd \in Versions /\ external'.deps = external.deps
      /\ external'.finished = external.finished
  <2>1. CASE prefix' = [prefix EXCEPT !.usd = v, !.sound = sound] /\ UNCHANGED external
    <3>1. /\ prefix' \in Trees /\ prefix'.deps = prefix.deps /\ prefix'.keys = prefix.keys
          /\ prefix'.finished = prefix.finished
      BY <1>4, <2>1 DEF Trees
    <3>2. QED
      BY <1>4, <2>1, <3>1
  <2>2. CASE external' = [external EXCEPT !.usd = v, !.sound = sound] /\ UNCHANGED prefix
    <3>1. /\ external' \in Trees /\ external'.usd = v /\ external'.deps = external.deps
          /\ external'.finished = external.finished
      BY <1>4, <2>2 DEF Trees
    <3>2. QED
      BY <1>4, <2>2, <3>1
  <2>3. QED
    BY <1>2, <2>1, <2>2
<1>6. faults' \in 0..MaxFaults
  BY <1>1, <1>3, RuntimeAssumption DEF FilesOK
<1>7. FilesOK'
  BY <1>1, <1>3, <1>5, <1>6 DEF FilesOK
<1>8. ProcsOK' /\ StepsOK'
  BY <1>1, <1>3 DEF ProcsOK, StepsOK
<1>9. ASSUME calm' PROVE CalmFiles' /\ Sole' /\ CalmSteps'
  <2>1. Covered(prefix', ledger') /\ Bare(external') /\ \A m : Of(m, prefix) => Of(m, prefix')
    BY <1>1, <1>3, <1>5, <1>9 DEF CalmFiles, Covered, Bare, Of, Closed
  <2>2. CalmFiles'
    BY <1>1, <1>3, <1>9, <2>1 DEF CalmFiles, Readable
  <2>3. \A q \in Procs : pc'[q] = "idle"
    BY <1>1 DEF AllIdle
  <2>4. Sole' /\ CalmSteps'
    BY <2>3 DEF Sole, CalmSteps, Calm, Writing, Exporting
  <2>5. QED
    BY <2>2, <2>4
<1>10. QED
  BY <1>7, <1>8, <1>9 DEF RuntimeInv

-----------------------------------------------------------------------------
(* The specification.                                                      *)

LEMMA InitHasInv ==
  ASSUME Init
  PROVE RuntimeInv
<1>1. /\ Package(Downloaded) /\ Exportable(Downloaded) /\ NoTree \in Trees
      /\ Downloaded.tree \in Trees /\ Downloaded.tree.usd \in Versions /\ Bare(Downloaded.tree)
  BY DownloadedIsSound DEF Package, Artifacts, Exportable
<1>2. /\ manifest = NONE /\ prefix = NoTree /\ ledger = [k \in Keys |-> {}]
      /\ external = Downloaded.tree /\ staging = NONE /\ registry \in {{}, {Downloaded}}
      /\ pc = [p \in Procs |-> "idle"] /\ local = [p \in Procs |-> Idle]
      /\ commands = 0 /\ faults = 0 /\ calm = TRUE /\ rendered = FALSE
  BY DEF Init
<1>3. (\A a \in registry : Package(a) /\ Exportable(a)) /\ 0 \in 0..MaxFaults /\ 0 \in 0..MaxCommands
  BY <1>1, <1>2, RuntimeAssumption
<1>4. ledger \in [Keys -> Names]
  BY <1>2 DEF Names
<1>5. FilesOK
  BY <1>1, <1>2, <1>3, <1>4 DEF FilesOK
<1>6. ProcsOK
  BY <1>2, <1>3 DEF ProcsOK, StepNames
<1>7. StepsOK
  BY <1>2, IdleCarries DEF StepsOK
<1>8. CalmFiles
  BY <1>1, <1>2, <1>3 DEF CalmFiles, Readable, Covered, NoTree
<1>9. Sole /\ CalmSteps
  BY <1>2 DEF Sole, CalmSteps, Calm, Writing, Exporting
<1>10. QED
  BY <1>5, <1>6, <1>7, <1>8, <1>9 DEF RuntimeInv

LEMMA StepKeepsInv ==
  ASSUME RuntimeInv, [Next]_vars
  PROVE RuntimeInv'
<1>1. ASSUME NEW p \in Procs, Pull(p) PROVE RuntimeInv'
  BY <1>1, KeepsPullBuild, KeepsResetManaged, KeepsResetFails, KeepsBuildDependency,
     KeepsBuildFails, KeepsBuildFinishes, KeepsCaptureUnreadable, KeepsFinalizePasses,
     KeepsFinalizeRefuses, KeepsPullAdopt, KeepsPullMock, KeepsPullArtifact, KeepsFetchRemoves,
     KeepsFetchExtracts, KeepsTruncateManifest, KeepsWriteManifest DEF Pull
<1>2. ASSUME NEW p \in Procs,
             \/ ValidateReads(p) \/ ValidateChecks(p) \/ RepairBuild(p) \/ RepairLocal(p)
             \/ ExportReads(p) \/ ExportRevalidates(p) \/ ExportStages(p) \/ ExportPacks(p)
             \/ ExportPublishes(p) \/ Crash(p)
      PROVE RuntimeInv'
  BY <1>2, KeepsValidateReads, KeepsValidateChecks, KeepsRepairBuild, KeepsRepairLocal,
     KeepsExportReads, KeepsExportRevalidates, KeepsExportStages, KeepsExportPacks,
     KeepsExportPublishes, KeepsCrash
<1>3. CASE UNCHANGED vars
  <2>1. UNCHANGED <<manifest, prefix, ledger, external, staging, registry, pc, local,
                    commands, faults, calm, rendered>>
    BY <1>3 DEF vars
  <2>2. FilesOK' /\ ProcsOK' /\ StepsOK'
    BY <2>1 DEF RuntimeInv, FilesOK, ProcsOK, StepsOK
  <2>3. ASSUME calm' PROVE CalmFiles' /\ Sole' /\ CalmSteps'
    <3>1. CalmFiles /\ Sole /\ CalmSteps
      BY <2>1, <2>3 DEF RuntimeInv
    <3>2. CalmFiles' /\ Sole'
      BY <2>1, <3>1 DEF CalmFiles, Sole, Readable
    <3>3. CalmSteps'
      BY <2>1, <3>1 DEF CalmSteps, Calm, Readable, EffectiveTree
    <3>4. QED
      BY <3>2, <3>3
  <2>4. QED
    BY <2>2, <2>3 DEF RuntimeInv
<1>4. QED
  BY <1>1, <1>2, <1>3, KeepsTouch DEF Next

(* The inductive invariant: whatever overlaps, every manifest, on disk, in *)
(* a process's hands or in the registry, carries the digest of its fields  *)
(* and, when fetched, its producer's claims; while nothing overlaps, the   *)
(* ledgers cover what failed builds installed, and what a process carries  *)
(* still describes the tree it will write about.                           *)
THEOREM RuntimeInvHolds == Spec => []RuntimeInv
<1>1. Init => RuntimeInv
  BY InitHasInv
<1>2. RuntimeInv /\ [Next]_vars => RuntimeInv'
  BY StepKeepsInv
<1>3. QED
  BY <1>1, <1>2, PTL DEF Spec

-----------------------------------------------------------------------------
(* The decisions of a build.                                               *)

LEMMA ProviderVerifiersAgree ==
  ASSUME NEW q, NEW label
  PROVE ProviderIsVerified(q) <=> ProviderFailure(label, q) = {}
BY DEF ProviderIsVerified, ProviderFailure, Satisfies

LEMMA AllProvidersAgree ==
  ASSUME NEW c
  PROVE ProvidersAreVerified(c) <=> ProvidersFailure(c) = {}
BY ProviderVerifiersAgree DEF ProvidersAreVerified, ProvidersFailure, FirstOf

(* is_verified and verification_failure, two functions written apart,      *)
(* agree on every compatibility identity and toolchain, whatever its       *)
(* fields hold: a manifest the build accepts is never one validate rejects.*)
THEOREM VerifiersNeverDisagree ==
  ASSUME NEW c
  PROVE IsVerified(c) <=> VerificationFailure(c) = {}
BY ProviderVerifiersAgree, AllProvidersAgree DEF IsVerified, VerificationFailure, FirstOf

LEMMA SampleAgrees == VerifiersAgree
BY VerifiersNeverDisagree, Zenon DEF VerifiersAgree, VerifiersDisagree

LEMMA ExplicitIsClaimed == UnclaimedBuilds = {}
<1> SUFFICES ASSUME NEW f, f.explicit PROVE ResolveBuild(f).status # "legacy"
  BY DEF UnclaimedBuilds
<1>1. QED
  BY DEF ResolveBuild, Refused

LEMMA ViewersSee == BlindViewers = {}
<1> SUFFICES ASSUME NEW s \in ViewedSelections, s.usdview, ~s.imaging PROVE FALSE
  BY DEF BlindViewers
<1>1. PICK t \in Selections, viewer \in BOOLEAN, disabled \in BOOLEAN :
        s = RequireProfileViewer(t, viewer, disabled)
  BY DEF ViewedSelections
<1>2. s # Refused
  BY DEF ViewedSelections
<1>3. QED
  BY <1>1, <1>2 DEF RequireProfileViewer

-----------------------------------------------------------------------------
(* What export publishes was sound when it was packed and is the version   *)
(* its manifest records as long as commands do not overlap, and every      *)
(* manifest and published artifact carries the digest of its own fields    *)
(* whatever overlaps, fails or is killed (check_current_export_validation, *)
(* RuntimeManifest::compute_digest).                                       *)
THEOREM ExportsStaySound == Spec => []ExportsAreSound
<1>1. ASSUME RuntimeInv PROVE TypeOK
  <2>1. FilesOK /\ ProcsOK /\ StepsOK
    BY <1>1 DEF RuntimeInv
  <2>2. ASSUME NEW p \in Procs PROVE pc[p] = "idle" <=> local[p] = Idle
    <3>1. Carries(registry, pc[p], local[p])
      BY <2>1 DEF StepsOK
    <3>2. CASE pc[p] = "idle"
      BY <3>1, <3>2 DEF Carries, Building, Fetching, Writing, Exporting
    <3>3. CASE pc[p] # "idle"
      <4>1. local[p] # Idle
        BY <3>1, <3>3 DEF Carries, BuildLocals, BuiltLocals, Idle
      <4>2. QED
        BY <3>3, <4>1
    <3>4. QED
      BY <3>2, <3>3
  <2>3. manifest \in {NONE, Torn} \/ manifest.source \in {"build", "local", "mock", "artifact"}
    BY <2>1 DEF FilesOK, Good, Manifests, Kinds
  <2>4. /\ prefix.usd \in Versions \cup {NONE} /\ prefix.deps \subseteq Deps
        /\ external.usd \in Versions /\ external.sound \in BOOLEAN
    BY <2>1 DEF FilesOK, Trees, Detected
  <2>5. \A k \in Keys : ledger[k] \subseteq Deps \cup {"torn"}
    BY <2>1 DEF FilesOK, Names
  <2>6. staging \in {NONE, Empty} \/ staging.tree.usd \in Versions
    BY <2>1 DEF FilesOK, Package
  <2>7. commands \in 0..MaxCommands /\ faults \in 0..MaxFaults /\ calm \in BOOLEAN
    BY <2>1 DEF FilesOK, ProcsOK
  <2>8. QED
    BY <2>2, <2>3, <2>4, <2>5, <2>6, <2>7 DEF TypeOK
<1>2. ASSUME RuntimeInv PROVE DigestIntegrity
  BY <1>2 DEF RuntimeInv, FilesOK, DigestIntegrity, Readable, Good, Package, Sealed
<1>3. ASSUME RuntimeInv PROVE ExportIsSound
  BY <1>3 DEF RuntimeInv, CalmFiles, Exportable, ExportIsSound
<1>4. RuntimeInv => ExportsAreSound
  BY <1>1, <1>2, <1>3, SampleAgrees DEF ExportsAreSound
<1>5. QED
  BY <1>4, RuntimeInvHolds, PTL

(* What a manifest claims is earned while commands do not overlap: a       *)
(* rendered frame since the last pull or repair, the whole dependency      *)
(* closure although builds failed, were killed or tore their ledger before *)
(* (build_with_script, redetect_build).                                    *)
THEOREM ClaimsStayTrue == Spec => []ClaimsAreTrue
<1>1. ASSUME RuntimeInv PROVE GraphicsClaimIsEarned
  BY <1>1 DEF RuntimeInv, CalmFiles, Claims, GraphicsClaimIsEarned
<1>2. ASSUME RuntimeInv PROVE ClosureSurvivesFailure
  BY <1>2 DEF RuntimeInv, CalmFiles, Of, Closed, ClosureSurvivesFailure
<1>3. RuntimeInv => ClaimsAreTrue
  BY <1>1, <1>2, ExplicitIsClaimed, ViewersSee DEF ClaimsAreTrue, ClaimsAreKept
<1>4. QED
  BY <1>3, RuntimeInvHolds, PTL

(* The manifest changes by being removed, truncated or replaced by what a  *)
(* writing process carries.                                                *)
LEMMA ManifestSteps ==
  ASSUME Next
  PROVE \/ manifest' \in {NONE, Torn, manifest}
        \/ \E p \in Procs : pc[p] = "torn" /\ manifest' = local[p].m
<1>1. ASSUME NEW p \in Procs, Pull(p)
      PROVE \/ manifest' \in {NONE, Torn, manifest}
            \/ pc[p] = "torn" /\ manifest' = local[p].m
  <2>1. CASE \/ ResetManaged(p) \/ ResetFails(p) \/ FetchRemoves(p) \/ TruncateManifest(p)
             \/ WriteManifest(p)
    BY <2>1 DEF ResetManaged, ResetFails, FetchRemoves, TruncateManifest, WriteManifest
  <2>2. CASE \/ PullBuild(p) \/ BuildDependency(p) \/ BuildFails(p) \/ BuildFinishes(p)
             \/ CaptureUnreadable(p) \/ FinalizePasses(p) \/ FinalizeRefuses(p)
             \/ PullAdopt(p) \/ PullMock(p) \/ PullArtifact(p) \/ FetchExtracts(p)
    BY <2>2 DEF PullBuild, BuildDependency, BuildFails, BuildFinishes, CaptureUnreadable,
       FinalizePasses, FinalizeRefuses, PullAdopt, Adopt, PullMock, PullArtifact, FetchExtracts, Disk
  <2>3. QED
    BY <1>1, <2>1, <2>2 DEF Pull
<1>2. ASSUME NEW p \in Procs,
             \/ ValidateReads(p) \/ ValidateChecks(p) \/ RepairBuild(p) \/ RepairLocal(p)
             \/ ExportReads(p) \/ ExportRevalidates(p) \/ ExportStages(p) \/ ExportPacks(p)
             \/ ExportPublishes(p) \/ Crash(p)
      PROVE manifest' = manifest
  BY <1>2 DEF ValidateReads, ValidateChecks, RepairBuild, RepairLocal, Adopt, ExportReads,
     ExportRevalidates, ExportStages, ExportPacks, ExportPublishes, Crash, Disk
<1>3. Touch => manifest' = manifest
  BY DEF Touch
<1>4. QED
  BY <1>1, <1>2, <1>3 DEF Next

(* Whatever is written over a fetched runtime's manifest, by a fetch or by *)
(* a validation that read it before, repeats the graphics claims and the   *)
(* digest of a published artifact (persist_observations).                  *)
THEOREM ProducerClaims == Spec => ProducerClaimsStay
<1> DEFINE Kept == manifest' \notin {NONE, Torn} /\ manifest'.artifact
                     => \E a \in registry : manifest'.gfx = a.m.gfx /\ manifest'.digest = a.m.digest
<1>1. ASSUME RuntimeInv, Next PROVE Kept
  <2>1. ASSUME NEW m, Good(registry, m), m.artifact
        PROVE \E a \in registry : m.gfx = a.m.gfx /\ m.digest = a.m.digest
    BY <2>1 DEF Good, Held
  <2>2. manifest \notin {NONE, Torn} => Good(registry, manifest)
    BY <1>1 DEF RuntimeInv, FilesOK
  <2>3. ASSUME NEW p \in Procs, pc[p] = "torn" PROVE Good(registry, local[p].m)
    BY <1>1, <2>3, WritingFacts DEF Writing
  <2>4. QED
    BY <1>1, <2>1, <2>2, <2>3, ManifestSteps
<1>2. RuntimeInv /\ [Next]_vars => [Kept]_vars
  BY <1>1
<1>3. QED
  BY <1>2, RuntimeInvHolds, PTL DEF Spec, ProducerClaimsStay
=============================================================================
