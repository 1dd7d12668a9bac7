------------------------ MODULE PluginProduct_proofs ------------------------
(***************************************************************************)
(* Proofs about PluginProduct, for any workspace, any number of processes, *)
(* commands, edits and faults.                                             *)
(***************************************************************************)
EXTENDS PluginProduct, FiniteSetTheorems, SequenceTheorems,
        WellFoundedInduction, TLAPS

(***************************************************************************)
(* The types.                                                              *)
(***************************************************************************)
Sources == [version : Versions, build : Versions]
Loaded == [Members -> Versions]
Digests == Archives \cup {NONE, Torn}
PackagesOf(m) ==
  [id : {m}, version : Versions, build : Versions,
   deps : [DepsOf(m) -> Versions], ext : [EmbedsOf(m) -> Versions]]
At(m, v) == {NONE} \cup {e \in Packages : e.id = m /\ e.version = v}
Staging == {"archive", "meta", "contract", "bundle", "manifest"}
PackingSteps == {"pack", "describe", "resolve"} \cup Staging
StepNames == PackingSteps \cup {"idle", "extract", "install"}
Jobs == [pc : StepNames, i : 0..Len(Order), loaded : Loaded \cup {NONE}, out : Seq(Packages),
         members : Seq(Packages), install : BOOLEAN, digest : Digests, tree : Digests,
         quiet : BOOLEAN]

(***************************************************************************)
(* What holds however the runs overlap.                                    *)
(***************************************************************************)
(* Lists of packages in the order of the workspace.                        *)
Listed(out) == \A n \in DOMAIN out : n \in DOMAIN Order /\ out[n].id = Order[n]
Ordered(members) ==
  \A i, k \in DOMAIN members : \A a, b \in DOMAIN Order :
    i < k /\ members[i].id = Order[a] /\ members[k].id = Order[b] => a < b
Selected(members, out) ==
  /\ members # <<>> /\ Ordered(members) /\ Len(members) <= Len(Order)
  /\ \A k \in DOMAIN members : \E n \in DOMAIN out : members[k] = out[n]

GoodContract(c) ==
  /\ c \in Contracts /\ c.members # <<>>
  /\ Ordered(c.members) /\ EmbeddedAgree(c.members)

(* A contract that is on disk is one that a run completed.                 *)
Known(c, M) == c = NONE \/ c \in M
KnownArchive(a, M) == a \in {NONE, Torn} \/ (a \in Archives /\ Known(a.contract, M))

JobOK(j, M) ==
  /\ j \in Jobs
  /\ j.quiet => j.pc \in PackingSteps
  /\ j.pc \in PackingSteps =>
       j.loaded \in Loaded /\ j.i >= 1 /\ Listed(j.out)
  /\ j.pc = "pack" => Len(j.out) = j.i - 1
  /\ j.pc = "describe" => Len(j.out) = j.i
  /\ j.pc \in Staging => Selected(j.members, j.out)
  /\ j.pc \in {"archive", "meta"} => j.i <= Len(j.members)
  /\ j.pc = "manifest" => KnownArchive(j.digest, M)
  /\ j.pc = "install" => Verifies(j.tree) /\ KnownArchive(j.tree, M)

WorldOK ==
  /\ src \in [Members -> Sources]
  /\ ext \in [Externals -> Versions]
  /\ data \in 1..2

DistOK ==
  /\ dist \in [Members -> [Versions -> Files]]
  /\ \A m \in Members, v \in Versions : \A f \in DOMAIN NoFiles : dist[m][v][f] \in At(m, v)

StageOK ==
  /\ stage \in [files : [Members -> Files], tree : [Members -> Packages \cup {NONE}],
                contract : Contracts \cup {NONE}, data : {1, 2, NONE}]
  /\ Known(stage.contract, made)

ProductOK ==
  /\ product \in [archive : Digests, manifest : Digests, quiet : BOOLEAN]
  /\ KnownArchive(product.archive, made)

JobsOK == job \in [Procs -> Jobs] /\ \A p \in Procs : JobOK(job[p], made)
MadeOK == \A c \in made : GoodContract(c)

PrefixOK ==
  /\ prefix # NONE => \A m \in DOMAIN prefix.tree : prefix.tree[m] \in Packages
  /\ InstalledIsOneRun /\ InstalledFitsTogether /\ ActivatesOneCopy

(***************************************************************************)
(* What holds of a run that is alone with the workspace.                   *)
(***************************************************************************)
Full(e) == [archive |-> e, evidence |-> e, manifest |-> e, sums |-> e]

(* Its packages are of the sources as they are.                            *)
Current(j, S) ==
  /\ \A m \in Members : j.loaded[m] = S[m].version
  /\ \A n \in DOMAIN j.out :
       /\ j.out[n].version = S[Order[n]].version
       /\ \A d \in DepsOf(Order[n]) : j.out[n].deps[d] = S[d].version

(* The dist directories hold what it packed and described.                 *)
Stored(j, D) ==
  /\ \A n \in DOMAIN j.out :
       (j.pc = "describe" /\ n = j.i) \/ D[j.out[n].id][j.out[n].version] = Full(j.out[n])
  /\ j.pc = "describe" =>
       D[j.out[j.i].id][j.out[j.i].version].archive = j.out[j.i]

(* The stage holds what it staged.                                         *)
Staged(j, G) ==
  /\ j.pc \in {"archive", "meta", "contract", "bundle"} =>
       \A k \in DOMAIN j.members :
         (j.pc \in {"archive", "meta"} /\ k >= j.i) \/ G.files[j.members[k].id] = Full(j.members[k])
  /\ j.pc = "meta" => G.files[j.members[j.i].id].archive = j.members[j.i]
  /\ j.pc = "bundle" =>
       G.contract # NONE /\ G.contract = [members |-> j.members, data |-> G.data]

Bundled(j, P) == j.pc = "manifest" => P.archive = j.digest /\ Verifies(j.digest)

Quiet(j, S, D, G, P) == Current(j, S) /\ Stored(j, D) /\ Staged(j, G) /\ Bundled(j, P)
Alone(p) == \A q \in Procs : q # p => job[q].pc \notin PackingSteps
QuietOK ==
  \A p \in Procs : job[p].quiet => Alone(p) /\ Quiet(job[p], src, dist, stage, product)

ProductInv ==
  /\ WorldOK /\ DistOK /\ StageOK /\ ProductOK /\ JobsOK /\ MadeOK
  /\ PrefixOK
  /\ QuietOK /\ QuietProductVerifies

-----------------------------------------------------------------------------
(* The workspace.                                                          *)

LEMMA OrderFacts ==
  /\ Order \in Seq(Members) /\ Len(Order) \in Nat /\ Len(Order) >= 1
  /\ DOMAIN Order = 1..Len(Order)
  /\ \A a, b \in DOMAIN Order : Order[a] = Order[b] => a = b
  /\ \A m \in Members : \E n \in DOMAIN Order : Order[n] = m
<1>1. Bundles \in Seq(Range(Bundles) \cup Range(Tools)) /\ Tools \in Seq(Range(Bundles) \cup Range(Tools))
  <2>1. ASSUME NEW S, NEW T, NEW s \in Seq(S) PROVE s \in Seq(S \cup T)
    BY <2>1
  <2> QED
    BY <2>1, GraphAssumption
<1>2. Order \in Seq(Range(Bundles) \cup Range(Tools))
  BY <1>1 DEF Order
<1>3. Len(Order) \in Nat /\ DOMAIN Order = 1..Len(Order)
  BY <1>2
<1>4. Order \in Seq(Members)
  <2>1. \A n \in 1..Len(Order) : Order[n] \in Members
    BY <1>3 DEF Members, Range
  <2> QED
    BY <1>2, <1>3, <2>1, SeqDef
<1>5. Len(Order) >= 1
  BY <1>2, <1>3, GraphAssumption, EmptySeq
<1> QED
  BY <1>3, <1>4, <1>5, GraphAssumption DEF IsInjective, Members, Range

LEMMA DepsBefore ==
  ASSUME NEW n \in DOMAIN Order, NEW d \in DepsOf(Order[n])
  PROVE  \E k \in DOMAIN Order : k < n /\ Order[k] = d
<1>1. ~IsTool(Order[n]) /\ d \in Deps[Order[n]]
  BY DEF DepsOf
<1>2. n \in Nat /\ n >= 1
  BY OrderFacts
<1>3. Len(Bundles) \in Nat /\ DOMAIN Bundles = 1..Len(Bundles)
  BY GraphAssumption
<1>4. Len(Tools) \in Nat /\ DOMAIN Tools = 1..Len(Tools)
  BY GraphAssumption
<1>5. /\ Len(Order) = Len(Bundles) + Len(Tools)
      /\ \A k \in 1..Len(Order) :
           Order[k] = IF k <= Len(Bundles) THEN Bundles[k] ELSE Tools[k - Len(Bundles)]
  BY <1>3, <1>4, GraphAssumption DEF Order
<1>6. n <= Len(Bundles)
  <2>1. SUFFICES ASSUME n > Len(Bundles) PROVE FALSE
    BY <1>2, <1>3
  <2>2. n - Len(Bundles) \in DOMAIN Tools /\ Order[n] = Tools[n - Len(Bundles)]
    BY <2>1, <1>2, <1>3, <1>4, <1>5, OrderFacts
  <2> QED
    BY <2>2, <1>1 DEF IsTool, Range
<1>7. Order[n] = Bundles[n]
  BY <1>2, <1>5, <1>6, OrderFacts
<1>8. PICK j \in 1..(n - 1) : d = Bundles[j]
  BY <1>1, <1>2, <1>3, <1>6, <1>7, GraphAssumption
<1> QED
  BY <1>2, <1>3, <1>4, <1>5, <1>6, <1>8, OrderFacts, SMTT(30)

LEMMA DepsAreMembers == ASSUME NEW m \in Members PROVE DepsOf(m) \subseteq Members
<1>1. PICK n \in DOMAIN Order : Order[n] = m
  BY OrderFacts
<1> QED
  BY <1>1, DepsBefore, OrderFacts

LEMMA EmbedsAreExternal == ASSUME NEW m \in Members PROVE EmbedsOf(m) \subseteq Externals
<1>1. IsTool(m) \/ m \in Range(Bundles)
  <2>1. PICK n \in DOMAIN Order : Order[n] = m
    BY OrderFacts
  <2>2. /\ Len(Order) = Len(Bundles) + Len(Tools)
        /\ Len(Bundles) \in Nat /\ DOMAIN Bundles = 1..Len(Bundles)
        /\ Len(Tools) \in Nat /\ DOMAIN Tools = 1..Len(Tools)
        /\ \A k \in 1..Len(Order) :
             Order[k] = IF k <= Len(Bundles) THEN Bundles[k] ELSE Tools[k - Len(Bundles)]
    BY GraphAssumption DEF Order
  <2>3. CASE n <= Len(Bundles)
    <3>1. n \in DOMAIN Bundles /\ m = Bundles[n]
      BY <2>1, <2>2, <2>3, OrderFacts
    <3> QED
      BY <3>1 DEF Range
  <2>4. CASE n > Len(Bundles)
    <3>1. n - Len(Bundles) \in DOMAIN Tools /\ m = Tools[n - Len(Bundles)]
      BY <2>1, <2>2, <2>4, OrderFacts
    <3> QED
      BY <3>1 DEF IsTool, Range
  <2> QED
    BY <2>1, <2>2, <2>3, <2>4, OrderFacts
<1> QED
  BY <1>1 DEF EmbedsOf, Externals

-----------------------------------------------------------------------------
(* Packages.                                                               *)

LEMMA PackageFields ==
  ASSUME NEW e \in Packages
  PROVE  /\ e.id \in Members /\ e.version \in Versions
         /\ e.deps \in [DepsOf(e.id) -> Versions] /\ e.ext \in [EmbedsOf(e.id) -> Versions]
<1>1. PICK m \in Members : e \in PackagesOf(m)
  BY DEF Packages, PackagesOf
<1> QED
  BY <1>1 DEF PackagesOf

LEMMA PackedFields ==
  ASSUME WorldOK, NEW j, j.loaded \in Loaded, NEW m \in Members
  PROVE  /\ Packed(j, m) \in Packages
         /\ Packed(j, m).id = m /\ Packed(j, m).version = j.loaded[m]
         /\ \A d \in DepsOf(m) : Packed(j, m).deps[d] = src[d].version
<1>1. DepsOf(m) \subseteq Members /\ EmbedsOf(m) \subseteq Externals
  BY DepsAreMembers, EmbedsAreExternal
<1>2. j.loaded[m] \in Versions /\ src[m].build \in Versions
  BY DEF Loaded, WorldOK, Sources
<1>3. [d \in DepsOf(m) |-> src[d].version] \in [DepsOf(m) -> Versions]
  BY <1>1 DEF WorldOK, Sources
<1>4. [x \in EmbedsOf(m) |-> ext[x]] \in [EmbedsOf(m) -> Versions]
  BY <1>1 DEF WorldOK
<1>5. Packed(j, m) \in PackagesOf(m)
  BY <1>2, <1>3, <1>4 DEF Packed, PackagesOf
<1> QED
  BY <1>5 DEF Packed, Packages, PackagesOf

-----------------------------------------------------------------------------
(* The released members.                                                   *)

\* A nonempty set of numbers has a smallest.
LEMMA LeastNat == ASSUME NEW S \in SUBSET Nat, S # {} PROVE \E n \in S : \A m \in S : n <= m
<1>1. PICK n \in S : \A m \in S : ~(<<m, n>> \in OpToRel(<, Nat))
  BY NatLessThanWellFounded, WFMin
<1>2. \A m \in S : ~(m < n)
  BY <1>1 DEF OpToRel
<1> QED
  BY <1>2

LEMMA Finite ==
  ASSUME NEW N \in Nat, NEW K \in SUBSET (1..N)
  PROVE  IsFiniteSet(K) /\ Cardinality(K) \in Nat /\ Cardinality(K) <= N
<1>1. IsFiniteSet(1..N) /\ Cardinality(1..N) = N
  <2>1. 1 \in Int /\ N \in Int
    OBVIOUS
  <2>2. Cardinality(1..N) = IF 1 > N THEN 0 ELSE N - 1 + 1
    BY <2>1, FS_Interval
  <2> QED
    BY <2>1, <2>2, FS_Interval
<1>2. IsFiniteSet(K) /\ Cardinality(K) <= Cardinality(1..N)
  BY <1>1, FS_Subset
<1>3. Cardinality(K) \in Nat
  BY <1>2, FS_CardinalityType
<1> QED
  BY <1>1, <1>2, <1>3

LEMMA UpToIs ==
  ASSUME NEW N \in Nat, NEW K \in SUBSET (1..N)
  PROVE  /\ UpTo(K, N) = K /\ UpTo(K, 0) = {}
         /\ \A n \in Nat : UpTo(K, n) \in SUBSET (1..N)
<1>1. K \subseteq Nat /\ \A k \in K : 1 <= k /\ k <= N
  OBVIOUS
<1>2. \A n \in Nat : \A k \in Nat : k \in UpTo(K, n) <=> k \in K /\ k <= n
  BY <1>1 DEF UpTo
<1>3. \A n \in Nat : UpTo(K, n) \subseteq K
  BY DEF UpTo
<1>4. UpTo(K, N) = K
  <2>1. \A k \in Nat : k \in UpTo(K, N) <=> k \in K
    BY <1>1, <1>2
  <2> QED
    BY <2>1, <1>1, <1>3
<1>5. UpTo(K, 0) = {}
  <2>1. \A k \in Nat : k \notin UpTo(K, 0)
    BY <1>1, <1>2
  <2>2. UpTo(K, 0) \subseteq Nat
    BY <1>1, <1>3
  <2> QED
    BY <2>1, <2>2
<1> QED
  BY <1>3, <1>4, <1>5

LEMMA UpToSteps ==
  ASSUME NEW N \in Nat, NEW K \in SUBSET (1..N), NEW n \in 1..N
  PROVE  /\ UpTo(K, n) = IF n \in K THEN UpTo(K, n - 1) \cup {n} ELSE UpTo(K, n - 1)
         /\ n \notin UpTo(K, n - 1)
<1>1. K \subseteq Nat /\ n \in Nat /\ n - 1 \in Nat
  OBVIOUS
<1>2. \A i \in Nat : \A k \in Nat : k \in UpTo(K, i) <=> k \in K /\ k <= i
  BY <1>1 DEF UpTo
<1>3. UpTo(K, n) \subseteq Nat /\ UpTo(K, n - 1) \subseteq Nat
  BY <1>1 DEF UpTo
<1>4. \A k \in Nat : k \in UpTo(K, n) <=> k \in UpTo(K, n - 1) \/ (k \in K /\ k = n)
  BY <1>1, <1>2
<1>5. n \notin UpTo(K, n - 1)
  BY <1>1, <1>2
<1> QED
  BY <1>1, <1>3, <1>4, <1>5

LEMMA UpToGrows ==
  ASSUME NEW N \in Nat, NEW K \in SUBSET (1..N), NEW n \in Nat, NEW k \in Nat, k <= n
  PROVE  UpTo(K, k) \subseteq UpTo(K, n)
<1>1. K \subseteq Nat
  OBVIOUS
<1>2. \A i \in Nat : \A j \in Nat : j \in UpTo(K, i) <=> j \in K /\ j <= i
  BY <1>1 DEF UpTo
<1>3. UpTo(K, k) \subseteq Nat
  BY <1>1 DEF UpTo
<1>4. \A j \in Nat : j \in UpTo(K, k) => j \in UpTo(K, n)
  BY <1>2
<1> QED
  BY <1>3, <1>4

LEMMA NthIs ==
  ASSUME NEW N \in Nat, NEW K \in SUBSET (1..N), NEW i \in 1..Cardinality(K)
  PROVE  Nth(K, i) \in K /\ Cardinality(UpTo(K, Nth(K, i))) = i
<1> DEFINE S == {n \in 0..N : Cardinality(UpTo(K, n)) >= i}
<1>1. IsFiniteSet(K) /\ Cardinality(K) \in Nat
  BY Finite
<1>2. \A n \in Nat : IsFiniteSet(UpTo(K, n)) /\ Cardinality(UpTo(K, n)) \in Nat
  <2>1. ASSUME NEW n \in Nat PROVE UpTo(K, n) \in SUBSET (1..N)
    BY UpToIs
  <2> QED
    BY <2>1, Finite
<1>3. N \in S
  BY <1>1, UpToIs
<1>4. PICK n \in S : \A k \in S : n <= k
  <2>1. S \in SUBSET Nat /\ S # {}
    BY <1>3
  <2> HIDE DEF S
  <2> QED
    BY <2>1, LeastNat
<1>5. n \in 0..N /\ Cardinality(UpTo(K, n)) >= i
  BY <1>4
<1>6. n >= 1
  <2>1. Cardinality(UpTo(K, 0)) = 0
    BY UpToIs, FS_EmptySet
  <2> QED
    BY <1>1, <1>5, <2>1
<1>7. Cardinality(UpTo(K, n - 1)) < i
  BY <1>1, <1>2, <1>4, <1>5, <1>6
<1>8. n \in K
  <2>1. n \in 1..N
    BY <1>5, <1>6
  <2>2. n \notin K => UpTo(K, n) = UpTo(K, n - 1)
    BY <2>1, UpToSteps
  <2>3. i \in Nat /\ Cardinality(UpTo(K, n)) \in Nat
    BY <1>1, <1>2, <2>1
  <2> QED
    BY <1>5, <1>7, <2>2, <2>3
<1>9. Cardinality(UpTo(K, n)) = i
  <2>1. UpTo(K, n) = UpTo(K, n - 1) \cup {n} /\ n \notin UpTo(K, n - 1)
    BY <1>5, <1>6, <1>8, UpToSteps
  <2>2. Cardinality(UpTo(K, n)) = Cardinality(UpTo(K, n - 1)) + 1
    <3>1. IsFiniteSet(UpTo(K, n - 1))
      BY <1>2, <1>5, <1>6
    <3> QED
      BY <2>1, <3>1, FS_AddElement
  <2> QED
    BY <2>2, <1>5, <1>7, <1>1, <1>2, <1>6
<1> QED
  BY <1>8, <1>9 DEF Nth

LEMMA NthGrows ==
  ASSUME NEW N \in Nat, NEW K \in SUBSET (1..N),
         NEW i \in 1..Cardinality(K), NEW k \in 1..Cardinality(K), i < k
  PROVE  Nth(K, i) < Nth(K, k)
<1>1. Cardinality(K) \in Nat
  BY Finite
<1>2. Nth(K, i) \in 1..N /\ Nth(K, k) \in 1..N
  <2>1. Nth(K, i) \in K /\ Nth(K, k) \in K
    BY NthIs
  <2> QED
    BY <2>1
<1>3. SUFFICES ASSUME Nth(K, k) <= Nth(K, i) PROVE FALSE
  BY <1>2
<1>4. UpTo(K, Nth(K, k)) \subseteq UpTo(K, Nth(K, i))
  <2>1. Nth(K, i) \in Nat /\ Nth(K, k) \in Nat
    BY <1>2
  <2> QED
    BY <2>1, <1>3, UpToGrows
<1>5. IsFiniteSet(UpTo(K, Nth(K, i)))
  <2>1. UpTo(K, Nth(K, i)) \in SUBSET (1..N)
    <3>1. Nth(K, i) \in Nat
      BY <1>2
    <3> QED
      BY <3>1, UpToIs
  <2> QED
    BY <2>1, Finite
<1>6. Cardinality(UpTo(K, Nth(K, k))) <= Cardinality(UpTo(K, Nth(K, i)))
  BY <1>4, <1>5, FS_Subset
<1>7. Cardinality(UpTo(K, Nth(K, i))) = i /\ Cardinality(UpTo(K, Nth(K, k))) = k
  BY NthIs
<1> QED
  BY <1>1, <1>6, <1>7

LEMMA ReleasedSelects ==
  ASSUME NEW r, NEW out \in Seq(Packages), Listed(out), Len(out) <= Len(Order), Released(r, out) # <<>>
  PROVE  Released(r, out) \in Seq(Packages) /\ Selected(Released(r, out), out)
<1> DEFINE K == {n \in DOMAIN out : out[n].id \in r.declared}
           R == Released(r, out)
<1>1. Len(out) \in Nat /\ DOMAIN out = 1..Len(out) /\ K \in SUBSET (1..Len(out))
  OBVIOUS
<1>2. \A n \in DOMAIN out : n \in DOMAIN Order /\ out[n].id = Order[n]
  BY DEF Listed
<1>3. CASE r.declared = NONE
  <2>1. R = out
    BY <1>3 DEF Released
  <2>2. Ordered(out)
    <3>1. SUFFICES ASSUME NEW i \in DOMAIN out, NEW k \in DOMAIN out,
                          NEW a \in DOMAIN Order, NEW b \in DOMAIN Order,
                          i < k, out[i].id = Order[a], out[k].id = Order[b]
                   PROVE  a < b
      BY DEF Ordered
    <3>2. a = i /\ b = k
      BY <3>1, <1>2, OrderFacts
    <3> QED
      BY <3>1, <3>2
  <2> QED
    BY <2>1, <2>2 DEF Selected
<1>4. CASE r.declared # NONE
  <2>1. R = [i \in 1..Cardinality(K) |-> out[Nth(K, i)]]
    BY <1>4 DEF Released
  <2>2. IsFiniteSet(K) /\ Cardinality(K) \in Nat /\ Cardinality(K) <= Len(out)
    BY <1>1, Finite
  <2> HIDE DEF K, R
  <2>3. \A i \in 1..Cardinality(K) : Nth(K, i) \in DOMAIN out
    BY <1>1, NthIs
  <2>4. \A i \in 1..Cardinality(K) : out[Nth(K, i)] \in Packages
    BY <2>3
  <2>5. R \in Seq(Packages) /\ Len(R) = Cardinality(K) /\ DOMAIN R = 1..Cardinality(K)
    BY <2>1, <2>2, <2>4, SeqDef
  <2>6. Ordered(R)
    <3>1. SUFFICES ASSUME NEW i \in DOMAIN R, NEW k \in DOMAIN R,
                          NEW a \in DOMAIN Order, NEW b \in DOMAIN Order,
                          i < k, R[i].id = Order[a], R[k].id = Order[b]
                   PROVE  a < b
      BY DEF Ordered
    <3>2. R[i] = out[Nth(K, i)] /\ R[k] = out[Nth(K, k)]
      BY <2>1, <2>5
    <3>3. a = Nth(K, i) /\ b = Nth(K, k)
      BY <3>1, <3>2, <2>3, <2>5, <1>2, OrderFacts
    <3> QED
      BY <3>1, <3>3, <2>5, <1>1, NthGrows
  <2>7. \A k \in DOMAIN R : \E n \in DOMAIN out : R[k] = out[n]
    BY <2>1, <2>3, <2>5
  <2>8. Len(R) <= Len(Order)
    BY <2>2, <2>5, <1>1, OrderFacts
  <2>9. R # <<>>
    BY DEF R
  <2> QED
    BY <2>5, <2>6, <2>7, <2>8, <2>9 DEF Selected, R
<1> QED
  BY <1>3, <1>4

-----------------------------------------------------------------------------
(* What is installed.                                                      *)

LEMMA OrderedFits ==
  ASSUME NEW members \in Seq(Packages), Ordered(members),
         NEW i \in DOMAIN members, NEW k \in DOMAIN members,
         members[k].id \in DepsOf(members[i].id)
  PROVE  k < i
<1>1. members[i].id \in Members /\ members[k].id \in Members /\ i \in Nat /\ k \in Nat
  BY PackageFields
<1>2. PICK a \in DOMAIN Order : Order[a] = members[i].id
  BY <1>1, OrderFacts
<1>3. PICK b \in DOMAIN Order : b < a /\ Order[b] = members[k].id
  BY <1>2, DepsBefore
<1>4. a \in Nat /\ b \in Nat
  BY OrderFacts
<1>5. CASE i < k
  <2>1. a < b
    BY <1>2, <1>3, <1>5 DEF Ordered
  <2> QED
    BY <2>1, <1>3, <1>4
<1>6. CASE i = k
  BY <1>2, <1>3, <1>4, <1>6, OrderFacts
<1> QED
  BY <1>1, <1>5, <1>6

LEMMA InstalledFields ==
  ASSUME NEW p, NEW a
  PROVE  LET x == Installed(p, a) IN
         /\ x.contract = a.contract /\ x.data = a.data
         /\ DOMAIN x.tree = Ids(a.contract)
         /\ \A m \in Ids(a.contract) : x.tree[m] = a.files[m].archive
         /\ x.paths = UNION {Paths(a, m) : m \in Ids(a.contract)}
BY DEF Installed

LEMMA VerifiedMembers ==
  ASSUME NEW a, Verifies(a), NEW p, NEW i \in DOMAIN a.contract.members
  PROVE  /\ a.contract.members[i].id \in Ids(a.contract)
         /\ Installed(p, a).tree[a.contract.members[i].id] = a.contract.members[i]
<1>1. a.contract.members[i].id \in Ids(a.contract)
  BY DEF Ids
<1>2. a.files[a.contract.members[i].id].archive = a.contract.members[i]
  BY DEF Verifies, MemberVerifies
<1> QED
  BY <1>1, <1>2, InstalledFields

LEMMA PathsAre ==
  ASSUME NEW a, NEW x \in UNION {Paths(a, m) : m \in Ids(a.contract)}
  PROVE  /\ x = [in |-> x.in, of |-> x.of] /\ x.in \in Ids(a.contract)
         /\ \/ x.of = x.in
            \/ x.of \in DepsOf(x.in) /\ x.of \notin Ids(a.contract)
            \/ x.of \in EmbedsOf(x.in)
<1>1. PICK m \in Ids(a.contract) : x \in Paths(a, m)
  OBVIOUS
<1>2. \/ x = [in |-> m, of |-> m]
      \/ \E d \in (DepsOf(m) \ Internal(a.contract.members, m)) \cup EmbedsOf(m) :
           x = [in |-> m, of |-> d]
  BY <1>1 DEF Paths
<1>3. \A d \in DepsOf(m) : d \in Internal(a.contract.members, m) <=> d \in Ids(a.contract)
  BY DEF Internal, Ids
<1> QED
  BY <1>1, <1>2, <1>3

LEMMA IdsAre ==
  ASSUME NEW c, NEW m \in Ids(c)
  PROVE  \E i \in DOMAIN c.members : c.members[i].id = m
BY DEF Ids

LEMMA InstalledIsSound ==
  ASSUME NEW p, NEW a, Verifies(a), GoodContract(a.contract),
         prefix' = Installed(p, a), a.contract \in made'
  PROVE  PrefixOK'
<1> DEFINE members == a.contract.members
           tree == prefix'.tree
<1>1. members \in Seq(Packages) /\ Ordered(members) /\ EmbeddedAgree(members)
  BY DEF GoodContract, Contracts
<1>2. /\ prefix'.contract = a.contract /\ prefix'.data = a.data
      /\ DOMAIN tree = Ids(a.contract)
      /\ prefix'.paths = UNION {Paths(a, m) : m \in Ids(a.contract)}
  BY InstalledFields
<1>3. \A i \in DOMAIN members : tree[members[i].id] = members[i] /\ members[i].id \in Ids(a.contract)
  BY VerifiedMembers
<1>4. \A i \in DOMAIN members : members[i] \in Packages
  BY <1>1
<1>5. \A m \in Ids(a.contract) : m \in Members /\ tree[m] \in Packages
  BY <1>3, <1>4, IdsAre, PackageFields
<1>6. InstalledIsOneRun'
  <2>1. a.data = a.contract.data
    BY DEF Verifies
  <2> QED
    BY <1>2, <1>3, <2>1 DEF InstalledIsOneRun
<1>7. InstalledFitsTogether'
  <2>1. SUFFICES ASSUME NEW i \in DOMAIN members, NEW k \in DOMAIN members,
                        members[k].id \in DepsOf(members[i].id)
                 PROVE  k < i /\ members[i].deps[members[k].id] = tree[members[k].id].version
    BY <1>2 DEF InstalledFitsTogether
  <2>2. k < i
    BY <1>1, <2>1, OrderedFits
  <2>3. InternalAgree(members, TreeOf(a))
    BY DEF Verifies
  <2>4. members[k].version = members[i].deps[members[k].id]
    BY <2>1, <2>3 DEF InternalAgree
  <2>5. tree[members[k].id] = members[k]
    BY <1>3, <2>1
  <2> QED
    BY <2>2, <2>4, <2>5
<1>8. ActivatesOneCopy'
  <2>1. SUFFICES ASSUME NEW x \in prefix'.paths, NEW y \in prefix'.paths, x.of = y.of, x # y
                 PROVE  /\ x.of \notin DOMAIN tree
                        /\ x.of \in Externals => tree[x.in].ext[x.of] = tree[y.in].ext[x.of]
    BY DEF ActivatesOneCopy
  <2>2. /\ x = [in |-> x.in, of |-> x.of] /\ x.in \in Ids(a.contract)
        /\ \/ x.of = x.in
           \/ x.of \in DepsOf(x.in) /\ x.of \notin Ids(a.contract)
           \/ x.of \in EmbedsOf(x.in)
    BY <1>2, PathsAre
  <2>3. /\ y = [in |-> y.in, of |-> y.of] /\ y.in \in Ids(a.contract)
        /\ \/ y.of = y.in
           \/ y.of \in DepsOf(y.in) /\ y.of \notin Ids(a.contract)
           \/ y.of \in EmbedsOf(y.in)
    BY <1>2, PathsAre
  <2>4. \A m \in Ids(a.contract) :
          DepsOf(m) \cap Externals = {} /\ EmbedsOf(m) \cap Members = {} /\ m \notin Externals
    BY <1>5, DepsAreMembers, EmbedsAreExternal, GraphAssumption
  <2>5. x.of \notin Ids(a.contract)
    BY <1>5, <2>1, <2>2, <2>3, <2>4
  <2>6. ASSUME x.of \in Externals PROVE tree[x.in].ext[x.of] = tree[y.in].ext[x.of]
    <3>1. x.of \in EmbedsOf(x.in) /\ x.of \in EmbedsOf(y.in)
      BY <2>1, <2>2, <2>3, <2>4, <2>6
    <3>2. PICK i \in DOMAIN members : members[i].id = x.in
      BY <2>2, IdsAre
    <3>3. PICK k \in DOMAIN members : members[k].id = y.in
      BY <2>3, IdsAre
    <3>4. members[i].ext[x.of] = members[k].ext[x.of]
      BY <1>1, <3>1, <3>2, <3>3 DEF EmbeddedAgree
    <3> QED
      BY <1>3, <3>2, <3>3, <3>4
  <2> QED
    BY <1>2, <2>5, <2>6
<1>9. \A m \in DOMAIN prefix'.tree : prefix'.tree[m] \in Packages
  BY <1>2, <1>5
<1> QED
  BY <1>6, <1>7, <1>8, <1>9 DEF PrefixOK

-----------------------------------------------------------------------------
(* Steps of one process.                                                   *)

LEMMA JobStays ==
  ASSUME NEW j, NEW M, NEW M2, M \subseteq M2, JobOK(j, M)
  PROVE  JobOK(j, M2)
<1>1. \A a : KnownArchive(a, M) => KnownArchive(a, M2)
  BY DEF KnownArchive, Known
<1> QED
  BY <1>1 DEF JobOK

LEMMA JobsKeep ==
  ASSUME JobsOK, NEW p \in Procs, NEW j, Set(p, j), JobOK(j, made'), made \subseteq made'
  PROVE  JobsOK' /\ job'[p] = j /\ \A q \in Procs : q # p => job'[q] = job[q]
<1>1. DOMAIN job = Procs /\ job' = [job EXCEPT ![p] = j] /\ j \in Jobs
  BY DEF JobsOK, Set, JobOK
<1>2. job'[p] = j /\ \A q \in Procs : q # p => job'[q] = job[q]
  BY <1>1
<1>3. \A q \in Procs : JobOK(job'[q], made')
  BY <1>2, JobStays DEF JobsOK
<1>4. job' \in [Procs -> Jobs]
  BY <1>1 DEF JobsOK
<1> QED
  BY <1>2, <1>3, <1>4 DEF JobsOK

\* What a step leaves alone stays as it was.
LEMMA Frame ==
  ASSUME ProductInv, made \subseteq made'
  PROVE  /\ UNCHANGED world => WorldOK'
         /\ dist' = dist => DistOK'
         /\ stage' = stage => StageOK'
         /\ product' = product => ProductOK' /\ QuietProductVerifies'
         /\ prefix' = prefix => PrefixOK'
         /\ made' = made => MadeOK'
<1> USE DEF ProductInv
<1>1. UNCHANGED world => WorldOK'
  BY DEF WorldOK, world
<1>2. dist' = dist => DistOK'
  BY DEF DistOK
<1>3. stage' = stage => StageOK'
  BY DEF StageOK, Known
<1>4. product' = product => ProductOK' /\ QuietProductVerifies'
  BY DEF ProductOK, QuietProductVerifies, KnownArchive, Known
<1>5. prefix' = prefix => PrefixOK'
  BY DEF PrefixOK, InstalledIsOneRun, InstalledFitsTogether, ActivatesOneCopy
<1>6. made' = made => MadeOK'
  BY DEF MadeOK
<1> QED
  BY <1>1, <1>2, <1>3, <1>4, <1>5, <1>6

\* A packaging run that is alone is the only one whose state matters.
LEMMA QuietOfPacking ==
  ASSUME ProductInv, NEW p \in Procs, job[p].pc \in PackingSteps,
         NEW j, Set(p, j), JobOK(j, made'), made \subseteq made',
         j.quiet => job[p].quiet /\ Quiet(j, src', dist', stage', product')
  PROVE  QuietOK'
<1>1. job'[p] = j /\ \A q \in Procs : q # p => job'[q] = job[q]
  BY JobsKeep DEF ProductInv
<1>2. SUFFICES ASSUME NEW r \in Procs, job'[r].quiet
               PROVE  Alone(r)' /\ Quiet(job'[r], src', dist', stage', product')
  BY DEF QuietOK
<1>3. r = p
  BY <1>1, <1>2 DEF ProductInv, QuietOK, Alone
<1>4. Alone(p)
  BY <1>1, <1>2, <1>3 DEF ProductInv, QuietOK
<1> QED
  BY <1>1, <1>2, <1>3, <1>4 DEF Alone

\* A step outside of packaging leaves the run that is alone as it was.
LEMMA QuietOfOthers ==
  ASSUME ProductInv, NEW p \in Procs,
         NEW j, Set(p, j), JobOK(j, made'), made \subseteq made', j.pc \notin PackingSteps,
         src' = src, dist' = dist, stage' = stage, product' = product
  PROVE  QuietOK'
<1>1. job'[p] = j /\ \A q \in Procs : q # p => job'[q] = job[q]
  BY JobsKeep DEF ProductInv
<1>2. SUFFICES ASSUME NEW r \in Procs, job'[r].quiet
               PROVE  Alone(r)' /\ Quiet(job'[r], src', dist', stage', product')
  BY DEF QuietOK
<1>3. r # p
  BY <1>1, <1>2 DEF JobOK
<1>4. job[r].quiet /\ job'[r] = job[r]
  BY <1>1, <1>2, <1>3
<1>5. Alone(r) /\ Quiet(job[r], src, dist, stage, product)
  BY <1>4 DEF ProductInv, QuietOK
<1>6. Alone(r)'
  BY <1>1, <1>3, <1>5 DEF Alone
<1> QED
  BY <1>4, <1>5, <1>6

\* A packaging step that writes one kind of file.
LEMMA PackagingKeeps ==
  ASSUME ProductInv, NEW p \in Procs, job[p].pc \in PackingSteps,
         NEW j, Set(p, j), JobOK(j, made'), made \subseteq made', made' = made \/ MadeOK',
         j.quiet => job[p].quiet /\ Quiet(j, src', dist', stage', product'),
         UNCHANGED <<world, prefix>>,
         dist' = dist \/ DistOK', stage' = stage \/ StageOK',
         product' = product \/ (ProductOK' /\ QuietProductVerifies')
  PROVE  ProductInv'
<1>1. JobsOK' /\ QuietOK'
  BY JobsKeep, QuietOfPacking DEF ProductInv
<1> QED
  BY <1>1, Frame DEF ProductInv

LEMMA IdleOK == ASSUME NEW M PROVE JobOK(Idle, M) /\ Idle.pc = "idle" /\ ~Idle.quiet
<1>1. Idle \in Jobs
  <2>1. <<>> \in Seq(Packages) /\ 0 \in 0..Len(Order) /\ NONE \in Digests
    BY OrderFacts, EmptySeq DEF Digests
  <2>2. /\ Idle.pc \in StepNames /\ Idle.i \in 0..Len(Order) /\ Idle.loaded \in Loaded \cup {NONE}
        /\ Idle.out \in Seq(Packages) /\ Idle.members \in Seq(Packages)
        /\ Idle.digest \in Digests /\ Idle.tree \in Digests
    BY <2>1 DEF Idle, StepNames
  <2>4. Idle.install \in BOOLEAN /\ Idle.quiet \in BOOLEAN
    BY DEF Idle
  <2>3. Idle = [pc |-> Idle.pc, i |-> Idle.i, loaded |-> Idle.loaded, out |-> Idle.out,
                members |-> Idle.members, install |-> Idle.install, digest |-> Idle.digest,
                tree |-> Idle.tree, quiet |-> Idle.quiet]
    BY DEF Idle
  <2> QED
    BY <2>2, <2>3, <2>4 DEF Jobs
<1>2. Idle.pc = "idle" /\ ~Idle.quiet
  BY DEF Idle
<1> QED
  BY <1>1, <1>2 DEF JobOK, PackingSteps, Staging

\* A process that gives up, or dies.
LEMMA EndKeeps ==
  ASSUME ProductInv, NEW p \in Procs, Set(p, Idle),
         UNCHANGED <<world, dist, stage, product, prefix, made>>
  PROVE  ProductInv'
<1>1. JobOK(Idle, made') /\ Idle.pc \notin PackingSteps
  BY IdleOK DEF PackingSteps, Staging
<1>2. src' = src /\ dist' = dist /\ stage' = stage /\ product' = product
      /\ prefix' = prefix /\ made' = made /\ UNCHANGED world
  BY DEF world
<1>3. JobsOK' /\ QuietOK'
  BY <1>1, <1>2, JobsKeep, QuietOfOthers DEF ProductInv
<1> QED
  BY <1>2, <1>3, Frame DEF ProductInv

-----------------------------------------------------------------------------
(* Packing the members.                                                    *)

\* What is known of a process, by where it is.
LEMMA JobFields ==
  ASSUME ProductInv, NEW p \in Procs
  PROVE  /\ JobOK(job[p], made) /\ job[p] \in Jobs
         /\ job[p].i \in 0..Len(Order) /\ job[p].i \in Nat
         /\ job[p].out \in Seq(Packages) /\ job[p].members \in Seq(Packages)
         /\ job[p].quiet => Quiet(job[p], src, dist, stage, product)
<1>1. JobOK(job[p], made) /\ job[p] \in Jobs
  BY DEF ProductInv, JobsOK, JobOK
<1> QED
  BY <1>1, OrderFacts DEF Jobs, ProductInv, QuietOK

LEMMA DistSet ==
  ASSUME DistOK, NEW m \in Members, NEW v \in Versions, NEW f \in Files,
         f.archive \in At(m, v), f.evidence \in At(m, v), f.manifest \in At(m, v), f.sums \in At(m, v),
         dist' = [dist EXCEPT ![m][v] = f]
  PROVE  /\ DistOK' /\ dist'[m][v] = f
         /\ \A n \in Members, u \in Versions : <<n, u>> # <<m, v>> => dist'[n][u] = dist[n][u]
<1>1. dist'[m][v] = f
  BY DEF DistOK
<1>2. \A n \in Members, u \in Versions : <<n, u>> # <<m, v>> => dist'[n][u] = dist[n][u]
  BY DEF DistOK
<1>3. dist' \in [Members -> [Versions -> Files]]
  BY DEF DistOK
<1>4. \A n \in Members, u \in Versions : \A x \in DOMAIN NoFiles : dist'[n][u][x] \in At(n, u)
  <2>1. DOMAIN NoFiles = {"archive", "evidence", "manifest", "sums"}
    BY DEF NoFiles
  <2>2. \A x \in DOMAIN NoFiles : f[x] \in At(m, v)
    BY <2>1
  <2> QED
    BY <1>1, <1>2, <2>2 DEF DistOK
<1> QED
  BY <1>1, <1>2, <1>3, <1>4 DEF DistOK

LEMMA DistFiles ==
  ASSUME DistOK, NEW m \in Members, NEW v \in Versions
  PROVE  /\ dist[m][v] \in Files
         /\ dist[m][v].archive \in At(m, v) /\ dist[m][v].evidence \in At(m, v)
         /\ dist[m][v].manifest \in At(m, v) /\ dist[m][v].sums \in At(m, v)
<1>1. DOMAIN NoFiles = {"archive", "evidence", "manifest", "sums"}
  BY DEF NoFiles
<1>2. \A x \in DOMAIN NoFiles : dist[m][v][x] \in At(m, v)
  BY DEF DistOK
<1> QED
  BY <1>1, <1>2 DEF DistOK

LEMMA FullFiles ==
  ASSUME NEW e \in Packages
  PROVE  /\ Full(e) \in Files /\ e \in At(e.id, e.version)
         /\ Full(e).archive = e /\ Full(e).evidence = e /\ Full(e).manifest = e /\ Full(e).sums = e
BY DEF Full, Files, At

LEMMA KeepsPack ==
  ASSUME ProductInv, NEW p \in Procs, Pack(p)
  PROVE  ProductInv'
<1> DEFINE j == job[p]
           m == Order[j.i]
           pkg == Packed(j, m)
           out == Append(j.out, pkg)
           k == [j EXCEPT !.pc = "describe", !.out = Append(@, pkg)]
<1>1. /\ j.pc = "pack" /\ Set(p, k)
      /\ dist' = [dist EXCEPT ![pkg.id][pkg.version].archive = pkg]
      /\ UNCHANGED <<world, stage, product, prefix, made>>
  BY DEF Pack, bounds
<1>2. /\ j \in Jobs /\ j.loaded \in Loaded /\ j.i \in 1..Len(Order) /\ j.i \in Nat
      /\ j.out \in Seq(Packages) /\ Listed(j.out) /\ Len(j.out) = j.i - 1
  <2>1. JobOK(j, made) /\ j \in Jobs /\ j.i \in 0..Len(Order) /\ j.i \in Nat /\ j.out \in Seq(Packages)
    BY JobFields, SMTT(30)
  <2>2. j.pc = "pack" /\ j.pc \in PackingSteps
    BY <1>1 DEF PackingSteps
  <2> HIDE DEF j
  <2>3. j.loaded \in Loaded /\ j.i >= 1 /\ Listed(j.out) /\ Len(j.out) = j.i - 1
    BY <2>1, <2>2 DEF JobOK
  <2> QED
    BY <2>1, <2>3, OrderFacts
<1>3. m \in Members /\ j.i \in DOMAIN Order
  BY <1>2, OrderFacts
<1>4. /\ pkg \in Packages /\ pkg.id = m /\ pkg.version = j.loaded[m] /\ pkg.version \in Versions
      /\ \A d \in DepsOf(m) : pkg.deps[d] = src[d].version
  BY <1>2, <1>3, PackedFields, PackageFields DEF ProductInv
<1> HIDE DEF pkg, m
<1>5. /\ out \in Seq(Packages) /\ Len(out) = j.i /\ DOMAIN out = 1..j.i
      /\ out[j.i] = pkg /\ \A n \in DOMAIN j.out : out[n] = j.out[n]
      /\ \A n \in DOMAIN out : n = j.i \/ n \in DOMAIN j.out
      /\ \A n \in DOMAIN j.out : n \in 1..(j.i - 1)
  BY <1>2, <1>4
<1>6. /\ k \in Jobs /\ k.pc = "describe" /\ k.out = out /\ k.i = j.i
      /\ k.loaded = j.loaded /\ k.quiet = j.quiet
  <2> HIDE DEF j, out
  <2>1. k = [j EXCEPT !.pc = "describe", !.out = out]
    BY DEF out
  <2> HIDE DEF k
  <2> QED
    BY <1>2, <1>5, <2>1 DEF Jobs, StepNames, PackingSteps
<1> HIDE DEF j, k, out
<1>7. Listed(out)
  BY <1>2, <1>3, <1>4, <1>5 DEF Listed, m
<1>8. JobOK(k, made')
  BY <1>2, <1>5, <1>6, <1>7 DEF JobOK, PackingSteps, Staging
<1>9. /\ DistOK' /\ dist'[m][pkg.version].archive = pkg
      /\ \A n \in Members, u \in Versions : n # m => dist'[n][u] = dist[n][u]
  <2> DEFINE f == [dist[m][pkg.version] EXCEPT !.archive = pkg]
  <2>1. dist' = [dist EXCEPT ![m][pkg.version] = f]
    BY <1>1, <1>4
  <2>2. dist[m][pkg.version] \in Files
    BY <1>3, <1>4, DistFiles DEF ProductInv
  <2>3. /\ f \in Files /\ f.archive = pkg /\ f.evidence = dist[m][pkg.version].evidence
        /\ f.manifest = dist[m][pkg.version].manifest /\ f.sums = dist[m][pkg.version].sums
    BY <2>2, <1>4 DEF Files
  <2>4. pkg \in At(m, pkg.version)
    BY <1>4 DEF At
  <2> HIDE DEF f
  <2>5. /\ f.archive \in At(m, pkg.version) /\ f.evidence \in At(m, pkg.version)
        /\ f.manifest \in At(m, pkg.version) /\ f.sums \in At(m, pkg.version)
    BY <2>3, <2>4, <1>3, <1>4, DistFiles DEF ProductInv
  <2>6. DistOK
    BY DEF ProductInv
  <2>7. /\ DistOK' /\ dist'[m][pkg.version] = f
        /\ \A n \in Members, u \in Versions : <<n, u>> # <<m, pkg.version>> => dist'[n][u] = dist[n][u]
    BY <2>1, <2>3, <2>5, <2>6, <1>3, <1>4, DistSet, ZenonT(60)
  <2> QED
    BY <2>3, <2>7
<1>10. ASSUME k.quiet PROVE job[p].quiet /\ Quiet(k, src', dist', stage', product')
  <2>1. j.quiet /\ Quiet(j, src, dist, stage, product)
    BY <1>6, <1>10, JobFields DEF j
  <2>2. src' = src
    BY <1>1 DEF world
  <2>3. Current(k, src)
    <3>1. pkg.version = src[m].version
      BY <1>3, <1>4, <2>1 DEF Quiet, Current
    <3> QED
      BY <1>2, <1>4, <1>5, <1>6, <2>1, <3>1 DEF Quiet, Current, m, j
  <2>4. Stored(k, dist')
    <3>1. ASSUME NEW n \in DOMAIN j.out
          PROVE  dist'[j.out[n].id][j.out[n].version] = Full(j.out[n])
      <4>1. j.out[n].id = Order[n] /\ n # j.i /\ n \in DOMAIN Order
        BY <1>2, <1>5 DEF Listed
      <4>2. j.out[n].id # m /\ j.out[n].id \in Members /\ j.out[n].version \in Versions
        BY <4>1, <1>2, <1>3, OrderFacts, PackageFields DEF m, j
      <4>3. dist[j.out[n].id][j.out[n].version] = Full(j.out[n])
        BY <1>1, <2>1 DEF Quiet, Stored, j
      <4> QED
        BY <4>2, <4>3, <1>9
    <3> QED
      BY <3>1, <1>4, <1>5, <1>6, <1>9 DEF Stored
  <2>5. Staged(k, stage') /\ Bundled(k, product')
    BY <1>6 DEF Staged, Bundled
  <2> QED
    BY <2>1, <2>2, <2>3, <2>4, <2>5 DEF Quiet, j
<1> QED
  BY <1>1, <1>8, <1>9, <1>10, PackagingKeeps DEF PackingSteps, j

LEMMA KeepsDescribe ==
  ASSUME ProductInv, NEW p \in Procs, Describe(p)
  PROVE  ProductInv'
<1> DEFINE j == job[p]
           pkg == j.out[j.i]
           k == IF j.i < Len(Order) THEN [j EXCEPT !.pc = "pack", !.i = @ + 1]
                ELSE [j EXCEPT !.pc = "resolve"]
<1>1. /\ j.pc = "describe" /\ Set(p, k)
      /\ dist' = [dist EXCEPT ![pkg.id][pkg.version] =
                    [archive |-> @.archive, evidence |-> pkg, manifest |-> pkg, sums |-> pkg]]
      /\ UNCHANGED <<world, stage, product, prefix, made>>
  BY DEF Describe, bounds
<1>2. /\ j \in Jobs /\ j.loaded \in Loaded /\ j.i \in 1..Len(Order) /\ j.i \in Nat
      /\ j.out \in Seq(Packages) /\ Listed(j.out) /\ Len(j.out) = j.i /\ DOMAIN j.out = 1..j.i
  <2>1. JobOK(j, made) /\ j \in Jobs /\ j.i \in 0..Len(Order) /\ j.i \in Nat /\ j.out \in Seq(Packages)
    BY JobFields, SMTT(30)
  <2>2. j.pc = "describe" /\ j.pc \in PackingSteps
    BY <1>1 DEF PackingSteps
  <2> HIDE DEF j
  <2>3. j.loaded \in Loaded /\ j.i >= 1 /\ Listed(j.out) /\ Len(j.out) = j.i
    BY <2>1, <2>2 DEF JobOK
  <2> QED
    BY <2>1, <2>3, OrderFacts
<1>3. pkg \in Packages /\ pkg.id = Order[j.i] /\ pkg.id \in Members /\ pkg.version \in Versions
  BY <1>2, PackageFields DEF Listed
<1> HIDE DEF j, pkg
<1>4. /\ k \in Jobs /\ k.pc \in {"pack", "resolve"} /\ k.out = j.out
      /\ k.loaded = j.loaded /\ k.quiet = j.quiet /\ k.i \in Nat /\ k.i >= 1
      /\ k.pc = "pack" => k.i = j.i + 1
  <2>1. CASE j.i < Len(Order)
    <3> DEFINE n == j.i + 1
    <3>1. k = [j EXCEPT !.pc = "pack", !.i = n]
      BY <2>1
    <3>2. n \in 0..Len(Order) /\ n \in Nat /\ n >= 1
      <4>1. Len(Order) \in Nat /\ j.i \in Nat
        BY <1>2, OrderFacts
      <4> QED
        BY <2>1, <4>1
    <3> HIDE DEF k, n
    <3>3. /\ k \in Jobs /\ k.pc = "pack" /\ k.out = j.out
          /\ k.loaded = j.loaded /\ k.quiet = j.quiet /\ k.i = n
      BY <1>2, <3>1, <3>2 DEF Jobs, StepNames, PackingSteps
    <3> QED
      BY <3>2, <3>3 DEF n
  <2>2. CASE ~(j.i < Len(Order))
    <3>1. k = [j EXCEPT !.pc = "resolve"]
      BY <2>2
    <3> HIDE DEF k
    <3> QED
      BY <1>2, <3>1 DEF Jobs, StepNames, PackingSteps
  <2> QED
    BY <2>1, <2>2
<1> HIDE DEF k
<1>5. JobOK(k, made')
  BY <1>2, <1>4 DEF JobOK, PackingSteps, Staging
<1> DEFINE f == [archive |-> dist[pkg.id][pkg.version].archive, evidence |-> pkg,
                 manifest |-> pkg, sums |-> pkg]
<1>6. /\ DistOK' /\ dist'[pkg.id][pkg.version] = f
      /\ \A n \in Members, u \in Versions : <<n, u>> # <<pkg.id, pkg.version>> => dist'[n][u] = dist[n][u]
  <2>1. dist' = [dist EXCEPT ![pkg.id][pkg.version] = f]
    BY <1>1
  <2>2. DistOK /\ dist[pkg.id][pkg.version] \in Files
        /\ dist[pkg.id][pkg.version].archive \in At(pkg.id, pkg.version)
    BY <1>3, DistFiles DEF ProductInv
  <2>3. pkg \in At(pkg.id, pkg.version)
    BY <1>3 DEF At
  <2>4. /\ f \in Files /\ f.archive \in At(pkg.id, pkg.version)
        /\ f.evidence \in At(pkg.id, pkg.version) /\ f.manifest \in At(pkg.id, pkg.version)
        /\ f.sums \in At(pkg.id, pkg.version)
    BY <1>3, <2>2, <2>3 DEF Files
  <2> HIDE DEF f
  <2> QED
    BY <2>1, <2>2, <2>4, <1>3, DistSet, ZenonT(60)
<1>7. ASSUME k.quiet PROVE job[p].quiet /\ Quiet(k, src', dist', stage', product')
  <2>1. j.quiet /\ Quiet(j, src, dist, stage, product)
    BY <1>4, <1>7, JobFields DEF j
  <2>2. src' = src
    BY <1>1 DEF world
  <2>3. Current(k, src)
    BY <1>4, <2>1 DEF Quiet, Current
  <2>4. Stored(k, dist')
    <3>1. dist[pkg.id][pkg.version].archive = pkg
      BY <1>1, <2>1 DEF Quiet, Stored, pkg
    <3>2. dist'[pkg.id][pkg.version] = Full(pkg)
      BY <1>6, <3>1 DEF Full
    <3>3. ASSUME NEW n \in DOMAIN j.out, n # j.i
          PROVE  dist'[j.out[n].id][j.out[n].version] = Full(j.out[n])
      <4>1. j.out[n].id = Order[n] /\ n \in DOMAIN Order /\ j.i \in DOMAIN Order
        BY <1>2, OrderFacts DEF Listed
      <4>2. j.out[n].id # pkg.id /\ j.out[n].id \in Members /\ j.out[n].version \in Versions
        BY <4>1, <1>2, <1>3, <3>3, OrderFacts, PackageFields
      <4>3. dist[j.out[n].id][j.out[n].version] = Full(j.out[n])
        BY <2>1, <3>3 DEF Quiet, Stored
      <4> QED
        BY <4>2, <4>3, <1>6
    <3> QED
      BY <3>2, <3>3, <1>2, <1>4 DEF Stored, pkg
  <2>5. Staged(k, stage') /\ Bundled(k, product')
    BY <1>4 DEF Staged, Bundled
  <2> QED
    BY <2>1, <2>2, <2>3, <2>4, <2>5 DEF Quiet, j
<1> QED
  BY <1>1, <1>5, <1>6, <1>7, PackagingKeeps DEF PackingSteps, j

-----------------------------------------------------------------------------
(* Staging the product.                                                    *)

LEMMA EmptyStageOK ==
  ASSUME stage' = EmptyStage PROVE StageOK'
<1>1. NoFiles \in Files
  BY DEF NoFiles, Files
<1>2. /\ stage'.files \in [Members -> Files] /\ stage'.tree \in [Members -> Packages \cup {NONE}]
      /\ stage'.contract = NONE /\ stage'.data = NONE
  BY <1>1 DEF EmptyStage
<1> QED
  BY <1>2 DEF StageOK, EmptyStage, Known

LEMMA KeepsPrepare ==
  ASSUME ProductInv, NEW p \in Procs, Prepare(p)
  PROVE  ProductInv'
<1> DEFINE j == job[p]
           members == Released(release, j.out)
           k == [j EXCEPT !.pc = "archive", !.i = 1, !.members = members]
<1>1. /\ j.pc = "resolve" /\ Set(p, k) /\ members # <<>> /\ stage' = EmptyStage
      /\ UNCHANGED <<world, dist, product, prefix, made>>
  BY DEF Prepare, bounds
<1>2. /\ j \in Jobs /\ j.loaded \in Loaded
      /\ j.out \in Seq(Packages) /\ Listed(j.out) /\ Len(j.out) <= Len(Order)
  <2>1. JobOK(j, made) /\ j \in Jobs /\ j.out \in Seq(Packages)
    BY JobFields
  <2>2. j.pc \in PackingSteps
    BY <1>1 DEF PackingSteps
  <2> HIDE DEF j
  <2>3. j.loaded \in Loaded /\ Listed(j.out)
    BY <2>1, <2>2 DEF JobOK
  <2>4. Len(j.out) <= Len(Order)
    <3>1. Len(j.out) \in Nat /\ DOMAIN j.out = 1..Len(j.out)
      BY <2>1
    <3>2. Len(j.out) >= 1 => Len(j.out) \in DOMAIN Order
      BY <3>1, <2>3 DEF Listed
    <3> QED
      BY <3>1, <3>2, OrderFacts
  <2> QED
    BY <2>1, <2>3, <2>4
<1>3. members \in Seq(Packages) /\ Selected(members, j.out)
  BY <1>1, <1>2, ReleasedSelects
<1> HIDE DEF j, members
<1>4. /\ k \in Jobs /\ k.pc = "archive" /\ k.out = j.out /\ k.i = 1 /\ k.members = members
      /\ k.loaded = j.loaded /\ k.quiet = j.quiet
  <2>1. k = [j EXCEPT !.pc = "archive", !.i = 1, !.members = members] /\ 1 \in 0..Len(Order)
    BY OrderFacts
  <2> HIDE DEF k
  <2> QED
    BY <1>2, <1>3, <2>1 DEF Jobs, StepNames, PackingSteps, Staging
<1> HIDE DEF k
<1>5. Len(members) >= 1 /\ DOMAIN members = 1..Len(members) /\ Len(members) \in Nat
  BY <1>1, <1>3, EmptySeq
<1>6. JobOK(k, made')
  BY <1>2, <1>3, <1>4, <1>5 DEF JobOK, PackingSteps, Staging
<1>7. StageOK'
  BY <1>1, EmptyStageOK
<1>8. ASSUME k.quiet PROVE job[p].quiet /\ Quiet(k, src', dist', stage', product')
  <2>1. j.quiet /\ Quiet(j, src, dist, stage, product)
    BY <1>4, <1>8, JobFields DEF j
  <2>2. src' = src /\ dist' = dist
    BY <1>1 DEF world
  <2>3. Current(k, src)
    BY <1>4, <2>1 DEF Quiet, Current
  <2>4. Stored(k, dist)
    BY <1>1, <1>4, <2>1 DEF Quiet, Stored
  <2>5. Staged(k, stage') /\ Bundled(k, product')
    BY <1>4, <1>5 DEF Staged, Bundled
  <2> QED
    BY <2>1, <2>2, <2>3, <2>4, <2>5 DEF Quiet, j
<1> QED
  BY <1>1, <1>6, <1>7, <1>8, PackagingKeeps DEF PackingSteps, j

LEMMA KeepsPrepareFails ==
  ASSUME ProductInv, NEW p \in Procs, PrepareFails(p)
  PROVE  ProductInv'
BY EndKeeps DEF PrepareFails, Fail

\* What the run that stages a member knows of it.
LEMMA StagedMember ==
  ASSUME ProductInv, NEW p \in Procs, job[p].pc \in {"archive", "meta"}
  PROVE  LET j == job[p]
             e == j.members[j.i] IN
         /\ j \in Jobs /\ j.loaded \in Loaded /\ Listed(j.out) /\ j.i \in 0..Len(Order)
         /\ j.members \in Seq(Packages) /\ Selected(j.members, j.out)
         /\ j.i \in Nat /\ j.i >= 1 /\ j.i <= Len(j.members)
         /\ DOMAIN j.members = 1..Len(j.members) /\ Len(j.members) \in Nat
         /\ e \in Packages /\ e.id \in Members /\ e.version \in Versions
         /\ \A k \in DOMAIN j.members : j.members[k].id \in Members
         /\ \A k \in DOMAIN j.members : k < j.i => j.members[k].id # e.id
<1> DEFINE j == job[p]
           e == j.members[j.i]
<1>1. /\ JobOK(j, made) /\ j \in Jobs /\ j.i \in 0..Len(Order) /\ j.i \in Nat
      /\ j.members \in Seq(Packages)
  BY JobFields
<1>2. j.pc \in {"archive", "meta"} /\ j.pc \in Staging /\ j.pc \in PackingSteps
  BY DEF PackingSteps, Staging
<1> HIDE DEF j
<1>3. /\ j.loaded \in Loaded /\ Listed(j.out) /\ Selected(j.members, j.out)
      /\ j.i >= 1 /\ j.i <= Len(j.members)
  BY <1>1, <1>2 DEF JobOK
<1>4. DOMAIN j.members = 1..Len(j.members) /\ Len(j.members) \in Nat
  BY <1>1
<1>5. e \in Packages
  BY <1>1, <1>3, <1>4
<1>6. \A k \in DOMAIN j.members : j.members[k] \in Packages /\ j.members[k].id \in Members
  BY <1>1, <1>4, PackageFields
<1>7. ASSUME NEW k \in DOMAIN j.members, k < j.i PROVE j.members[k].id # e.id
  <2>1. PICK a \in DOMAIN Order : Order[a] = e.id
    BY <1>5, PackageFields, OrderFacts
  <2>2. j.members[k].id = e.id => a < a
    BY <1>1, <1>3, <1>4, <1>7, <2>1 DEF Selected, Ordered
  <2>3. a \in Nat
    BY OrderFacts
  <2> QED
    BY <2>2, <2>3
<1> QED
  BY <1>1, <1>3, <1>4, <1>5, <1>6, <1>7, PackageFields DEF j

LEMMA KeepsStageArchive ==
  ASSUME ProductInv, NEW p \in Procs, StageArchive(p)
  PROVE  ProductInv'
<1> DEFINE j == job[p]
           e == j.members[j.i]
           k == [j EXCEPT !.pc = "meta"]
<1>1. /\ j.pc = "archive" /\ Set(p, k)
      /\ stage' = [stage EXCEPT !.files[e.id].archive = e, !.tree[e.id] = e]
      /\ UNCHANGED <<world, dist, product, prefix, made>>
  BY DEF StageArchive, bounds
<1>2. /\ j \in Jobs /\ j.loaded \in Loaded /\ Listed(j.out) /\ j.i \in 0..Len(Order)
      /\ j.members \in Seq(Packages) /\ Selected(j.members, j.out)
      /\ j.i \in Nat /\ j.i >= 1 /\ j.i <= Len(j.members)
      /\ DOMAIN j.members = 1..Len(j.members) /\ Len(j.members) \in Nat
      /\ e \in Packages /\ e.id \in Members /\ e.version \in Versions
      /\ \A i \in DOMAIN j.members : j.members[i].id \in Members
      /\ \A i \in DOMAIN j.members : i < j.i => j.members[i].id # e.id
  BY <1>1, StagedMember
<1> HIDE DEF j, e
<1>3. /\ k \in Jobs /\ k.pc = "meta" /\ k.out = j.out /\ k.i = j.i /\ k.members = j.members
      /\ k.loaded = j.loaded /\ k.quiet = j.quiet
  <2>1. k = [j EXCEPT !.pc = "meta"]
    OBVIOUS
  <2> HIDE DEF k
  <2> QED
    BY <1>2, <2>1 DEF Jobs, StepNames, PackingSteps, Staging
<1> HIDE DEF k
<1>4. JobOK(k, made')
  BY <1>2, <1>3 DEF JobOK, PackingSteps, Staging
<1>5. /\ StageOK' /\ stage'.files[e.id].archive = e
      /\ \A m \in Members : m # e.id => stage'.files[m] = stage.files[m]
  <2>1. StageOK
    BY DEF ProductInv
  <2>2. stage.files \in [Members -> Files] /\ stage.tree \in [Members -> Packages \cup {NONE}]
    BY <2>1 DEF StageOK
  <2> DEFINE files == [stage.files EXCEPT ![e.id].archive = e]
             tree == [stage.tree EXCEPT ![e.id] = e]
  <2>3. stage' = [stage EXCEPT !.files = files, !.tree = tree]
    BY <1>1
  <2>4. files \in [Members -> Files] /\ files[e.id].archive = e
    BY <2>2, <1>2 DEF Files
  <2>5. \A m \in Members : m # e.id => files[m] = stage.files[m]
    BY <2>2, <1>2
  <2>6. tree \in [Members -> Packages \cup {NONE}]
    BY <2>2, <1>2
  <2> HIDE DEF files, tree
  <2>7. /\ stage'.files = files /\ stage'.tree = tree /\ stage'.contract = stage.contract
        /\ stage' \in [files : [Members -> Files], tree : [Members -> Packages \cup {NONE}],
                       contract : Contracts \cup {NONE}, data : {1, 2, NONE}]
    BY <2>1, <2>3, <2>4, <2>6 DEF StageOK
  <2>8. Known(stage'.contract, made')
    BY <2>1, <2>7, <1>1 DEF StageOK
  <2> QED
    BY <2>4, <2>5, <2>7, <2>8 DEF StageOK
<1>6. ASSUME k.quiet PROVE job[p].quiet /\ Quiet(k, src', dist', stage', product')
  <2>1. j.quiet /\ Quiet(j, src, dist, stage, product)
    BY <1>3, <1>6, JobFields DEF j
  <2>2. src' = src /\ dist' = dist
    BY <1>1 DEF world
  <2>3. Current(k, src) /\ Stored(k, dist)
    BY <1>1, <1>3, <2>1 DEF Quiet, Current, Stored
  <2>4. Staged(k, stage')
    <3>1. ASSUME NEW i \in DOMAIN j.members, i < j.i
          PROVE  stage'.files[j.members[i].id] = Full(j.members[i])
      <4>1. stage.files[j.members[i].id] = Full(j.members[i])
        BY <1>1, <1>2, <2>1, <3>1 DEF Quiet, Staged
      <4> QED
        BY <4>1, <3>1, <1>2, <1>5
    <3> QED
      BY <3>1, <1>2, <1>3, <1>5 DEF Staged, e
  <2>5. Bundled(k, product')
    BY <1>3 DEF Bundled
  <2> QED
    BY <2>1, <2>2, <2>3, <2>4, <2>5 DEF Quiet, j
<1> QED
  BY <1>1, <1>4, <1>5, <1>6, PackagingKeeps DEF PackingSteps, Staging, j

LEMMA KeepsStageArchiveFails ==
  ASSUME ProductInv, NEW p \in Procs, StageArchiveFails(p)
  PROVE  ProductInv'
<1> DEFINE e == job[p].members[job[p].i]
           x == dist[e.id][e.version].archive
<1>1. /\ job[p].pc = "archive" /\ Set(p, Idle)
      /\ stage' = [stage EXCEPT !.files[e.id].archive = x]
      /\ UNCHANGED <<world, dist, product, prefix, made>>
  BY ZenonT(60) DEF StageArchiveFails, bounds
<1>2. e \in Packages /\ e.id \in Members /\ e.version \in Versions
  BY <1>1, StagedMember, ZenonT(60)
<1>3. x \in Packages \cup {NONE}
  BY <1>2, DistFiles DEF ProductInv, At
<1> HIDE DEF e, x
<1>4. StageOK'
  <2>1. StageOK /\ stage.files \in [Members -> Files]
    BY DEF ProductInv, StageOK
  <2> DEFINE files == [stage.files EXCEPT ![e.id].archive = x]
  <2>2. stage' = [stage EXCEPT !.files = files]
    BY <1>1
  <2>3. files \in [Members -> Files]
    BY <2>1, <1>2, <1>3 DEF Files
  <2> HIDE DEF files
  <2> QED
    BY <2>1, <2>2, <2>3, <1>1 DEF StageOK
<1>5. JobOK(Idle, made') /\ ~Idle.quiet
  BY IdleOK
<1> QED
  BY <1>1, <1>4, <1>5, PackagingKeeps DEF PackingSteps, Staging

LEMMA KeepsStageMeta ==
  ASSUME ProductInv, NEW p \in Procs, StageMeta(p)
  PROVE  ProductInv'
<1> DEFINE j == job[p]
           e == j.members[j.i]
           f == dist[e.id][e.version]
           k == IF j.i < Len(j.members) THEN [j EXCEPT !.pc = "archive", !.i = @ + 1]
                ELSE [j EXCEPT !.pc = "contract"]
<1>1. /\ j.pc = "meta" /\ Set(p, k)
      /\ stage' = [stage EXCEPT !.files[e.id] = [f EXCEPT !.archive = stage.files[e.id].archive]]
      /\ UNCHANGED <<world, dist, product, prefix, made>>
  BY ZenonT(60) DEF StageMeta, bounds
<1>2. /\ j \in Jobs /\ j.loaded \in Loaded /\ Listed(j.out) /\ j.i \in 0..Len(Order)
      /\ j.members \in Seq(Packages) /\ Selected(j.members, j.out)
      /\ j.i \in Nat /\ j.i >= 1 /\ j.i <= Len(j.members)
      /\ DOMAIN j.members = 1..Len(j.members) /\ Len(j.members) \in Nat
      /\ e \in Packages /\ e.id \in Members /\ e.version \in Versions
      /\ \A i \in DOMAIN j.members : j.members[i].id \in Members
      /\ \A i \in DOMAIN j.members : i < j.i => j.members[i].id # e.id
  BY <1>1, StagedMember
<1>3. f \in Files
  BY <1>2, DistFiles DEF ProductInv
<1> HIDE DEF j, e, f
<1>4. /\ k \in Jobs /\ k.pc \in {"archive", "contract"} /\ k.out = j.out /\ k.members = j.members
      /\ k.loaded = j.loaded /\ k.quiet = j.quiet /\ k.i \in Nat /\ k.i >= 1
      /\ k.pc = "archive" => k.i = j.i + 1 /\ j.i < Len(j.members)
      /\ k.pc = "contract" => j.i = Len(j.members)
  <2>1. CASE j.i < Len(j.members)
    <3> DEFINE n == j.i + 1
    <3>1. k = [j EXCEPT !.pc = "archive", !.i = n]
      BY <2>1
    <3>2. n \in 0..Len(Order) /\ n \in Nat /\ n >= 1
      <4>1. Len(Order) \in Nat /\ j.i \in Nat /\ Len(j.members) \in Nat /\ Len(j.members) <= Len(Order)
        BY <1>2, OrderFacts DEF Selected
      <4> QED
        BY <2>1, <4>1
    <3> HIDE DEF k, n
    <3>3. /\ k \in Jobs /\ k.pc = "archive" /\ k.out = j.out /\ k.members = j.members
          /\ k.loaded = j.loaded /\ k.quiet = j.quiet /\ k.i = n
      BY <1>2, <3>1, <3>2 DEF Jobs, StepNames, PackingSteps, Staging
    <3> QED
      BY <2>1, <3>2, <3>3 DEF n
  <2>2. CASE ~(j.i < Len(j.members))
    <3>1. k = [j EXCEPT !.pc = "contract"]
      BY <2>2
    <3>2. j.i = Len(j.members)
      BY <2>2, <1>2
    <3> HIDE DEF k
    <3> QED
      BY <1>2, <3>1, <3>2 DEF Jobs, StepNames, PackingSteps, Staging
  <2> QED
    BY <2>1, <2>2
<1> HIDE DEF k
<1>5. JobOK(k, made')
  BY <1>2, <1>4 DEF JobOK, PackingSteps, Staging
<1>6. /\ StageOK'
      /\ stage'.files[e.id].archive = stage.files[e.id].archive
      /\ stage'.files[e.id] = [archive |-> stage.files[e.id].archive, evidence |-> f.evidence,
                               manifest |-> f.manifest, sums |-> f.sums]
      /\ \A m \in Members : m # e.id => stage'.files[m] = stage.files[m]
  <2>1. StageOK /\ stage.files \in [Members -> Files]
    BY DEF ProductInv, StageOK
  <2> DEFINE g == [f EXCEPT !.archive = stage.files[e.id].archive]
             files == [stage.files EXCEPT ![e.id] = g]
  <2>2. g \in Files /\ g = [archive |-> stage.files[e.id].archive, evidence |-> f.evidence,
                            manifest |-> f.manifest, sums |-> f.sums]
    BY <2>1, <1>2, <1>3 DEF Files
  <2>3. stage' = [stage EXCEPT !.files = files]
    BY <1>1, <2>1, <1>2
  <2> HIDE DEF g
  <2>4. /\ files \in [Members -> Files] /\ files[e.id] = g
        /\ \A m \in Members : m # e.id => files[m] = stage.files[m]
    BY <2>1, <2>2, <1>2
  <2> HIDE DEF files
  <2>5. StageOK' /\ stage'.files = files
    BY <2>1, <2>3, <2>4, <1>1 DEF StageOK
  <2> QED
    BY <2>2, <2>4, <2>5
<1>7. ASSUME k.quiet PROVE job[p].quiet /\ Quiet(k, src', dist', stage', product')
  <2>1. j.quiet /\ Quiet(j, src, dist, stage, product)
    BY <1>4, <1>7, JobFields DEF j
  <2>2. src' = src /\ dist' = dist
    BY <1>1 DEF world
  <2>3. Current(k, src) /\ Stored(k, dist)
    BY <1>1, <1>4, <2>1 DEF Quiet, Current, Stored
  <2>4. Staged(k, stage')
    <3>1. ASSUME NEW i \in DOMAIN j.members, i < j.i
          PROVE  stage'.files[j.members[i].id] = Full(j.members[i])
      <4>1. stage.files[j.members[i].id] = Full(j.members[i])
        BY <1>1, <1>2, <2>1, <3>1, SMTT(30) DEF Quiet, Staged
      <4> QED
        BY <4>1, <3>1, <1>2, <1>6
    <3>2. stage'.files[e.id] = Full(e)
      <4>1. f = Full(e)
        <5>1. PICK n \in DOMAIN j.out : e = j.out[n]
          BY <1>2 DEF Selected, e
        <5> QED
          BY <1>1, <2>1, <5>1 DEF Quiet, Stored, f
      <4>2. stage.files[e.id].archive = e
        BY <1>1, <2>1 DEF Quiet, Staged, e
      <4> QED
        BY <1>6, <4>1, <4>2 DEF Full
    <3>3. \A i \in DOMAIN j.members : i <= j.i => stage'.files[j.members[i].id] = Full(j.members[i])
      <4>1. ASSUME NEW i \in DOMAIN j.members, i <= j.i
            PROVE  stage'.files[j.members[i].id] = Full(j.members[i])
        <5>1. i < j.i \/ i = j.i
          BY <4>1, <1>2
        <5> QED
          BY <3>1, <3>2, <5>1 DEF e
      <4> QED
        BY <4>1
    <3>4. k.members = j.members /\ k.pc \in {"archive", "contract"}
      BY <1>4
    <3>5. ASSUME NEW i \in DOMAIN k.members, ~(k.pc \in {"archive", "meta"} /\ i >= k.i)
          PROVE  stage'.files[k.members[i].id] = Full(k.members[i])
      <4>1. i \in DOMAIN j.members /\ i \in Nat
        BY <3>4, <3>5, <1>2
      <4>2. i <= j.i
        BY <3>4, <3>5, <4>1, <1>2, <1>4
      <4> QED
        BY <3>3, <3>4, <4>1, <4>2
    <3>6. k.pc # "meta" /\ k.pc # "bundle"
      BY <3>4
    <3> QED
      BY <3>5, <3>6 DEF Staged
  <2>5. Bundled(k, product')
    BY <1>4 DEF Bundled
  <2> QED
    BY <2>1, <2>2, <2>3, <2>4, <2>5 DEF Quiet, j
<1> QED
  BY <1>1, <1>5, <1>6, <1>7, PackagingKeeps DEF PackingSteps, Staging, j

-----------------------------------------------------------------------------
(* The contract and the product.                                           *)

LEMMA StagedProduct ==
  ASSUME ProductInv, NEW p \in Procs, job[p].pc \in {"contract", "bundle", "manifest"}
  PROVE  LET j == job[p] IN
         /\ j \in Jobs /\ j.loaded \in Loaded /\ Listed(j.out) /\ j.i \in Nat /\ j.i >= 1
         /\ j.out \in Seq(Packages) /\ j.members \in Seq(Packages) /\ Selected(j.members, j.out)
         /\ DOMAIN j.members = 1..Len(j.members) /\ Len(j.members) \in Nat
<1> DEFINE j == job[p]
<1>1. /\ JobOK(j, made) /\ j \in Jobs /\ j.i \in Nat /\ j.out \in Seq(Packages)
      /\ j.members \in Seq(Packages)
  BY JobFields
<1>2. j.pc \in Staging /\ j.pc \in PackingSteps
  BY DEF PackingSteps, Staging
<1> HIDE DEF j
<1>3. j.loaded \in Loaded /\ Listed(j.out) /\ Selected(j.members, j.out) /\ j.i >= 1
  BY <1>1, <1>2 DEF JobOK
<1> QED
  BY <1>1, <1>3 DEF j

LEMMA KeepsWriteContract ==
  ASSUME ProductInv, NEW p \in Procs, WriteContract(p)
  PROVE  ProductInv'
<1> DEFINE j == job[p]
           c == [members |-> j.members, data |-> data]
           k == [j EXCEPT !.pc = "bundle"]
<1>1. /\ j.pc = "contract" /\ Set(p, k) /\ Acceptable(j.members)
      /\ stage' = [stage EXCEPT !.contract = c, !.data = data]
      /\ made' = made \cup {c}
      /\ UNCHANGED <<world, dist, product, prefix>>
  BY DEF WriteContract, bounds
<1>2. /\ j \in Jobs /\ j.loaded \in Loaded /\ Listed(j.out) /\ j.i \in Nat /\ j.i >= 1
      /\ j.members \in Seq(Packages) /\ Selected(j.members, j.out)
  BY <1>1, StagedProduct
<1>3. GoodContract(c)
  <2>1. data \in 1..2
    BY DEF ProductInv, WorldOK
  <2>2. EmbeddedAgree(j.members)
    BY <1>1 DEF Acceptable
  <2> HIDE DEF j
  <2>3. c \in Contracts /\ c.members = j.members
    BY <1>2, <2>1 DEF Contracts
  <2>4. j.members # <<>> /\ Ordered(j.members)
    BY <1>2 DEF Selected
  <2> HIDE DEF c
  <2> QED
    BY <2>2, <2>3, <2>4 DEF GoodContract
<1> HIDE DEF j
<1>4. /\ k \in Jobs /\ k.pc = "bundle" /\ k.out = j.out /\ k.i = j.i /\ k.members = j.members
      /\ k.loaded = j.loaded /\ k.quiet = j.quiet
  <2>1. k = [j EXCEPT !.pc = "bundle"]
    OBVIOUS
  <2> HIDE DEF k
  <2> QED
    BY <1>2, <2>1 DEF Jobs, StepNames, PackingSteps, Staging
<1> HIDE DEF k
<1>5. JobOK(k, made')
  BY <1>2, <1>4 DEF JobOK, PackingSteps, Staging
<1>6. c \in made' /\ c \in Contracts /\ data \in {1, 2, NONE} /\ c # NONE
  BY <1>1, <1>3, NoneAssumption DEF GoodContract, ProductInv, WorldOK
<1>7. /\ StageOK' /\ stage'.contract = c /\ stage'.data = data /\ stage'.files = stage.files
  <2>1. StageOK
    BY DEF ProductInv
  <2> HIDE DEF c
  <2>2. /\ stage'.contract = c /\ stage'.data = data /\ stage'.files = stage.files
        /\ stage' \in [files : [Members -> Files], tree : [Members -> Packages \cup {NONE}],
                       contract : Contracts \cup {NONE}, data : {1, 2, NONE}]
    BY <2>1, <1>1, <1>6 DEF StageOK
  <2> QED
    BY <2>2, <1>6 DEF StageOK, Known
<1>8. MadeOK'
  BY <1>1, <1>3 DEF ProductInv, MadeOK
<1>9. ASSUME k.quiet PROVE job[p].quiet /\ Quiet(k, src', dist', stage', product')
  <2>1. j.quiet /\ Quiet(j, src, dist, stage, product)
    BY <1>4, <1>9, JobFields DEF j
  <2>2. src' = src /\ dist' = dist
    BY <1>1 DEF world
  <2>3. Current(k, src) /\ Stored(k, dist)
    BY <1>1, <1>4, <2>1 DEF Quiet, Current, Stored
  <2>4. Staged(k, stage')
    BY <1>1, <1>4, <1>6, <1>7, <2>1 DEF Quiet, Staged
  <2>5. Bundled(k, product')
    BY <1>4 DEF Bundled
  <2> QED
    BY <2>1, <2>2, <2>3, <2>4, <2>5 DEF Quiet, j
<1>10. made \subseteq made'
  BY <1>1
<1> QED
  BY <1>1, <1>5, <1>7, <1>8, <1>9, <1>10, PackagingKeeps DEF PackingSteps, Staging, j

LEMMA KeepsWriteContractFails ==
  ASSUME ProductInv, NEW p \in Procs, WriteContractFails(p)
  PROVE  ProductInv'
<1>1. /\ job[p].pc = "contract" /\ Set(p, Idle)
      /\ stage' = stage \/ stage' = [stage EXCEPT !.data = data]
      /\ UNCHANGED <<world, dist, product, prefix, made>>
  BY DEF WriteContractFails, bounds
<1>2. data \in {1, 2, NONE} /\ StageOK
  BY DEF ProductInv, WorldOK
<1>3. stage' = stage \/ StageOK'
  BY <1>1, <1>2 DEF StageOK
<1>4. JobOK(Idle, made') /\ ~Idle.quiet
  BY IdleOK
<1> QED
  BY <1>1, <1>3, <1>4, PackagingKeeps DEF PackingSteps, Staging

LEMMA SnapshotFields ==
  ASSUME StageOK
  PROVE  LET a == Snapshot(stage) IN
         /\ a \in Archives /\ a # NONE /\ a # Torn
         /\ a.files = stage.files /\ a.contract = stage.contract /\ a.data = stage.data
<1>1. /\ stage.files \in [Members -> Files] /\ stage.contract \in Contracts \cup {NONE}
      /\ stage.data \in {1, 2, NONE}
  BY DEF StageOK
<1>2. Snapshot(stage) \in Archives
  BY <1>1 DEF Snapshot, Archives
<1> QED
  BY <1>2, NoneAssumption DEF Snapshot

\* What a run that was alone has staged is a product that verifies.
LEMMA QuietStageVerifies ==
  ASSUME ProductInv, NEW p \in Procs, job[p].pc = "bundle", job[p].quiet
  PROVE  Verifies(Snapshot(stage))
<1> DEFINE j == job[p]
           a == Snapshot(stage)
           members == j.members
<1>1. /\ Listed(j.out) /\ members \in Seq(Packages) /\ Selected(members, j.out)
      /\ DOMAIN members = 1..Len(members)
  BY StagedProduct
<1>2. Current(j, src) /\ Staged(j, stage)
  BY JobFields DEF Quiet
<1>3. /\ a # NONE /\ a # Torn
      /\ a.files = stage.files /\ a.contract = stage.contract /\ a.data = stage.data
  BY SnapshotFields DEF ProductInv
<1>4. stage.contract # NONE /\ stage.contract.members = members /\ stage.contract.data = stage.data
  BY <1>2 DEF Staged
<1>5. \A i \in DOMAIN members : stage.files[members[i].id] = Full(members[i])
  BY <1>2 DEF Staged
<1> HIDE DEF j, a, members
<1>6. \A i \in DOMAIN members : members[i] \in Packages /\ members[i].id \in Members /\ i \in Nat
  BY <1>1, PackageFields
<1>7. ContractSound(a.contract)
  <2>1. ASSUME NEW i \in DOMAIN members, NEW k \in DOMAIN members, members[i].id = members[k].id
        PROVE  i = k
    <3>1. PICK n \in DOMAIN Order : Order[n] = members[i].id
      BY <1>6, OrderFacts
    <3>2. ~(i < k) /\ ~(k < i)
      <4>1. i < k \/ k < i => n < n
        BY <1>1, <2>1, <3>1 DEF Selected, Ordered
      <4>2. n \in Nat
        BY OrderFacts
      <4> QED
        BY <4>1, <4>2
    <3> QED
      BY <1>6, <3>2
  <2> QED
    BY <1>1, <1>3, <1>4, <2>1 DEF ContractSound, Selected
<1>8. \A i \in DOMAIN members : MemberVerifies(a, members[i])
  BY <1>3, <1>5, <1>6, FullFiles DEF MemberVerifies
<1>9. InternalAgree(members, TreeOf(a))
  <2>1. SUFFICES ASSUME NEW i \in DOMAIN members, NEW k \in DOMAIN members,
                        members[k].id \in DepsOf(members[i].id)
                 PROVE  /\ TreeOf(a)[members[k].id] # NONE
                        /\ TreeOf(a)[members[k].id].version = members[i].deps[members[k].id]
                        /\ TreeOf(a)[members[k].id].version = members[k].version
    BY DEF InternalAgree
  <2>2. TreeOf(a)[members[k].id] = members[k]
    <3>1. TreeOf(a)[members[k].id] = a.files[members[k].id].archive
      BY <1>6 DEF TreeOf
    <3> QED
      BY <3>1, <1>3, <1>5, <1>6, FullFiles
  <2>3. members[k] # NONE
    BY <1>6, NoneAssumption
  <2>4. PICK n \in DOMAIN j.out : members[i] = j.out[n]
    BY <1>1 DEF Selected
  <2>5. PICK u \in DOMAIN j.out : members[k] = j.out[u]
    BY <1>1 DEF Selected
  <2>6. members[i].id = Order[n] /\ members[k].id = Order[u]
    BY <1>1, <2>4, <2>5 DEF Listed
  <2>7. members[i].deps[members[k].id] = src[members[k].id].version
    BY <1>2, <2>1, <2>4, <2>6 DEF Current
  <2>8. members[k].version = src[members[k].id].version
    BY <1>2, <2>5, <2>6 DEF Current
  <2> QED
    BY <2>2, <2>3, <2>7, <2>8
<1> QED
  BY <1>3, <1>4, <1>7, <1>8, <1>9 DEF Verifies, a

LEMMA KeepsBundle ==
  ASSUME ProductInv, NEW p \in Procs, Bundle(p)
  PROVE  ProductInv'
<1> DEFINE j == job[p]
           a == Snapshot(stage)
           k == [j EXCEPT !.pc = "manifest", !.digest = a]
<1>1. /\ j.pc = "bundle" /\ Set(p, k)
      /\ product' = [product EXCEPT !.archive = a, !.quiet = FALSE]
      /\ UNCHANGED <<world, dist, stage, prefix, made>>
  BY DEF Bundle, bounds
<1>2. /\ j \in Jobs /\ j.loaded \in Loaded /\ Listed(j.out) /\ j.i \in Nat /\ j.i >= 1
      /\ j.members \in Seq(Packages) /\ Selected(j.members, j.out)
  BY <1>1, StagedProduct
<1>3. a \in Digests /\ KnownArchive(a, made)
  BY SnapshotFields DEF ProductInv, StageOK, Digests, KnownArchive
<1>4. j.quiet => Verifies(a)
  BY <1>1, QuietStageVerifies
<1> HIDE DEF j, a
<1>5. /\ k \in Jobs /\ k.pc = "manifest" /\ k.out = j.out /\ k.i = j.i /\ k.members = j.members
      /\ k.loaded = j.loaded /\ k.quiet = j.quiet /\ k.digest = a
  <2>1. k = [j EXCEPT !.pc = "manifest", !.digest = a]
    OBVIOUS
  <2> HIDE DEF k
  <2> QED
    BY <1>2, <1>3, <2>1 DEF Jobs, StepNames, PackingSteps, Staging
<1> HIDE DEF k
<1>6. JobOK(k, made')
  BY <1>1, <1>2, <1>3, <1>5 DEF JobOK, PackingSteps, Staging
<1>7. ProductOK' /\ QuietProductVerifies' /\ product'.archive = a
  <2>1. ProductOK
    BY DEF ProductInv
  <2>2. product'.archive = a /\ ~product'.quiet
        /\ product' \in [archive : Digests, manifest : Digests, quiet : BOOLEAN]
    BY <2>1, <1>1, <1>3 DEF ProductOK
  <2> QED
    BY <2>2, <1>1, <1>3 DEF ProductOK, QuietProductVerifies
<1>8. ASSUME k.quiet PROVE job[p].quiet /\ Quiet(k, src', dist', stage', product')
  <2>1. j.quiet /\ Quiet(j, src, dist, stage, product)
    BY <1>5, <1>8, JobFields DEF j
  <2>2. src' = src /\ dist' = dist
    BY <1>1 DEF world
  <2>3. Current(k, src) /\ Stored(k, dist)
    BY <1>1, <1>5, <2>1 DEF Quiet, Current, Stored
  <2>4. Staged(k, stage')
    BY <1>5 DEF Staged
  <2>5. Bundled(k, product')
    BY <1>4, <1>5, <1>7, <2>1 DEF Bundled
  <2> QED
    BY <2>1, <2>2, <2>3, <2>4, <2>5 DEF Quiet, j
<1> QED
  BY <1>1, <1>6, <1>7, <1>8, PackagingKeeps DEF PackingSteps, Staging, j

LEMMA KeepsWriteProduct ==
  ASSUME ProductInv, NEW p \in Procs, WriteProduct(p)
  PROVE  ProductInv'
<1> DEFINE j == job[p]
<1>1. /\ j.pc = "manifest" /\ Set(p, Idle)
      /\ product' = [product EXCEPT !.manifest = j.digest, !.quiet = j.quiet]
      /\ UNCHANGED <<world, dist, stage, prefix, made>>
  BY DEF WriteProduct, bounds
<1>2. j.digest \in Digests /\ j.quiet \in BOOLEAN
  BY JobFields DEF Jobs
<1>3. j.quiet => product.archive = j.digest /\ Verifies(j.digest)
  BY <1>1, JobFields DEF Quiet, Bundled
<1> HIDE DEF j
<1>4. /\ product'.archive = product.archive /\ product'.manifest = j.digest
      /\ product'.quiet = j.quiet
      /\ product' \in [archive : Digests, manifest : Digests, quiet : BOOLEAN]
  BY <1>1, <1>2 DEF ProductInv, ProductOK
<1>5. ProductOK' /\ QuietProductVerifies'
  BY <1>1, <1>3, <1>4 DEF ProductInv, ProductOK, QuietProductVerifies
<1>6. JobOK(Idle, made') /\ ~Idle.quiet
  BY IdleOK
<1> QED
  BY <1>1, <1>5, <1>6, PackagingKeeps DEF PackingSteps, Staging, j

-----------------------------------------------------------------------------
(* The commands that do not package, and what happens around them.         *)

LEMMA Unquieted ==
  ASSUME NEW M, NEW j, JobOK(j, M)
  PROVE  LET k == [j EXCEPT !.quiet = FALSE] IN JobOK(k, M) /\ k.pc = j.pc /\ k.quiet = FALSE
<1> DEFINE k == [j EXCEPT !.quiet = FALSE]
<1>1. j \in Jobs
  BY DEF JobOK
<1>2. k.quiet = FALSE
  BY <1>1 DEF Jobs
<1>3. /\ k \in Jobs /\ k.pc = j.pc /\ k.i = j.i /\ k.loaded = j.loaded /\ k.out = j.out
      /\ k.members = j.members /\ k.digest = j.digest /\ k.tree = j.tree
  BY <1>1 DEF Jobs
<1> HIDE DEF k
<1>4. JobOK(k, M)
  BY <1>2, <1>3 DEF JobOK
<1> QED
  BY <1>2, <1>3, <1>4 DEF k

LEMMA PackingIs == ASSUME NEW j PROVE Packing(j) <=> j.pc \in PackingSteps
BY DEF Packing, PackingSteps, Staging

LEMMA KeepsStartPackage ==
  ASSUME ProductInv, NEW p \in Procs, StartPackage(p)
  PROVE  ProductInv'
<1> DEFINE alone == \A r \in Procs : ~Packing(job[r])
           loaded == [m \in Members |-> src[m].version]
           k == [Idle EXCEPT !.pc = "pack", !.i = 1, !.loaded = loaded, !.quiet = alone]
<1>1. /\ job' = [q \in Procs |-> IF q = p THEN k ELSE [job[q] EXCEPT !.quiet = FALSE]]
      /\ UNCHANGED <<world, dist, stage, product, prefix, made>>
  BY DEF StartPackage, world
<1>2. loaded \in Loaded /\ \A m \in Members : loaded[m] = src[m].version
  BY DEF ProductInv, WorldOK, Sources, Loaded
<1>3. alone \in BOOLEAN
  OBVIOUS
<1> HIDE DEF loaded, alone
<1>4. k = [Idle EXCEPT !.pc = "pack", !.i = 1, !.loaded = loaded, !.quiet = alone]
  OBVIOUS
<1>5. Idle \in Jobs /\ Idle.out = <<>>
  <2>1. Idle \in Jobs
    BY IdleOK DEF JobOK
  <2>2. Idle.out = <<>>
    BY DEF Idle
  <2> QED
    BY <2>1, <2>2
<1> HIDE DEF k
<1>6. /\ k \in Jobs /\ k.pc = "pack" /\ k.i = 1 /\ k.loaded = loaded /\ k.out = <<>>
      /\ k.quiet = alone
  <2>1. 1 \in 0..Len(Order) /\ "pack" \in StepNames
    BY OrderFacts DEF StepNames, PackingSteps
  <2> QED
    BY <1>2, <1>3, <1>4, <1>5, <2>1 DEF Jobs
<1>7. JobOK(k, made)
  <2>1. Listed(<<>>) /\ Len(<<>>) = 0
    BY DEF Listed
  <2> QED
    BY <1>2, <1>6, <2>1 DEF JobOK, PackingSteps, Staging
<1>8. job'[p] = k /\ \A q \in Procs : q # p => job'[q] = [job[q] EXCEPT !.quiet = FALSE]
  BY <1>1
<1>9. made' = made
  BY <1>1
<1>10. \A q \in Procs : q # p => JobOK(job'[q], made) /\ job'[q].pc = job[q].pc /\ job'[q].quiet = FALSE
  <2>1. ASSUME NEW q \in Procs, q # p
        PROVE  JobOK(job'[q], made) /\ job'[q].pc = job[q].pc /\ job'[q].quiet = FALSE
    <3>1. JobOK(job[q], made)
      BY JobFields
    <3>2. job'[q] = [job[q] EXCEPT !.quiet = FALSE]
      BY <1>8, <2>1
    <3> QED
      BY <3>1, <3>2, Unquieted
  <2> QED
    BY <2>1
<1>11. JobsOK'
  <2>1. \A q \in Procs : JobOK(job'[q], made)
    BY <1>7, <1>8, <1>10
  <2>2. \A q \in Procs : job'[q] \in Jobs
    BY <2>1 DEF JobOK
  <2>3. DOMAIN job' = Procs /\ job' = [q \in Procs |-> job'[q]]
    BY <1>1
  <2> QED
    BY <2>1, <2>2, <2>3, <1>9 DEF JobsOK
<1>12. QuietOK'
  <2>1. SUFFICES ASSUME k.quiet PROVE Alone(p)' /\ Quiet(k, src', dist', stage', product')
    BY <1>8, <1>10 DEF QuietOK
  <2>2. Alone(p)'
    BY <1>6, <1>8, <1>10, <2>1, PackingIs DEF Alone, alone
  <2>3. src' = src
    BY <1>1 DEF world
  <2>4. Current(k, src') /\ Stored(k, dist')
    BY <1>2, <1>6, <2>3 DEF Current, Stored
  <2>5. Staged(k, stage') /\ Bundled(k, product')
    BY <1>6 DEF Staged, Bundled
  <2> QED
    BY <2>2, <2>4, <2>5 DEF Quiet
<1> QED
  BY <1>1, <1>9, <1>11, <1>12, Frame DEF ProductInv

\* A step outside of packaging that writes no product.
LEMMA OtherKeeps ==
  ASSUME ProductInv, NEW p \in Procs, NEW j, Set(p, j), JobOK(j, made), j.pc \notin PackingSteps,
         UNCHANGED <<world, dist, stage, product, made>>, prefix' = prefix \/ PrefixOK'
  PROVE  ProductInv'
<1>1. src' = src /\ dist' = dist /\ stage' = stage /\ product' = product
      /\ made' = made /\ UNCHANGED world
  BY DEF world
<1>2. JobsOK' /\ QuietOK'
  BY <1>1, JobsKeep, QuietOfOthers DEF ProductInv
<1> QED
  BY <1>1, <1>2, Frame DEF ProductInv

LEMMA KeepsStartVerify ==
  ASSUME ProductInv, NEW p \in Procs, NEW install \in BOOLEAN, NEW explicit \in BOOLEAN,
         StartVerify(p, install, explicit)
  PROVE  ProductInv'
<1> DEFINE d == Resolved(explicit)
           k == [Idle EXCEPT !.pc = "extract", !.install = install, !.digest = d]
<1>1. Set(p, k) /\ UNCHANGED <<world, dist, stage, product, prefix, made>>
  BY DEF StartVerify
<1>2. d \in Digests
  BY DEF Resolved, ProductInv, ProductOK, Digests
<1> HIDE DEF d
<1>3. k = [Idle EXCEPT !.pc = "extract", !.install = install, !.digest = d]
  OBVIOUS
<1>4. Idle \in Jobs /\ ~Idle.quiet
  BY IdleOK DEF JobOK
<1> HIDE DEF k
<1>5. k \in Jobs /\ k.pc = "extract" /\ k.quiet = Idle.quiet
  <2>1. "extract" \in StepNames
    BY DEF StepNames
  <2> QED
    BY <1>2, <1>3, <1>4, <2>1 DEF Jobs
<1>6. JobOK(k, made) /\ k.pc \notin PackingSteps
  BY <1>4, <1>5 DEF JobOK, PackingSteps, Staging
<1> QED
  BY <1>1, <1>6, OtherKeeps

LEMMA KeepsVerify ==
  ASSUME ProductInv, NEW p \in Procs, Verify(p)
  PROVE  ProductInv'
<1> DEFINE j == job[p]
           k == [j EXCEPT !.pc = "install", !.tree = product.archive]
<1>1. /\ j.pc = "extract" /\ Verifies(product.archive) /\ (Set(p, k) \/ Set(p, Idle))
      /\ UNCHANGED <<world, dist, stage, product, prefix, made>>
  BY DEF Verify, Extracts, bounds
<1>2. JobOK(j, made) /\ j \in Jobs
  BY JobFields
<1>3. product.archive \in Digests /\ KnownArchive(product.archive, made)
  BY DEF ProductInv, ProductOK
<1>4. ~j.quiet
  BY <1>1, <1>2 DEF JobOK, PackingSteps, Staging
<1> HIDE DEF j
<1>5. k \in Jobs /\ k.pc = "install" /\ k.tree = product.archive /\ k.quiet = j.quiet
  <2>1. k = [j EXCEPT !.pc = "install", !.tree = product.archive]
    OBVIOUS
  <2> HIDE DEF k
  <2> QED
    BY <1>2, <1>3, <2>1 DEF Jobs, StepNames
<1> HIDE DEF k
<1>6. JobOK(k, made) /\ k.pc \notin PackingSteps
  BY <1>1, <1>3, <1>4, <1>5 DEF JobOK, PackingSteps, Staging
<1> QED
  BY <1>1, <1>6, OtherKeeps, EndKeeps

LEMMA KeepsVerifyFails ==
  ASSUME ProductInv, NEW p \in Procs, VerifyFails(p)
  PROVE  ProductInv'
BY EndKeeps DEF VerifyFails, Fail

LEMMA KeepsPublish ==
  ASSUME ProductInv, NEW p \in Procs, Publish(p)
  PROVE  ProductInv'
<1> DEFINE a == job[p].tree
<1>1. /\ job[p].pc = "install" /\ prefix' = Installed(p, a) /\ Set(p, Idle)
      /\ UNCHANGED <<world, dist, stage, product, made>>
  BY DEF Publish, bounds
<1>2. Verifies(a) /\ KnownArchive(a, made)
  BY <1>1, JobFields DEF JobOK
<1>3. a.contract \in made
  BY <1>2 DEF Verifies, KnownArchive, Known
<1>4. GoodContract(a.contract)
  BY <1>3 DEF ProductInv, MadeOK
<1> HIDE DEF a
<1>5. PrefixOK'
  BY <1>1, <1>2, <1>3, <1>4, InstalledIsSound
<1>6. JobOK(Idle, made) /\ Idle.pc \notin PackingSteps
  BY IdleOK DEF PackingSteps, Staging
<1> QED
  BY <1>1, <1>5, <1>6, OtherKeeps

LEMMA KeepsPublishFails ==
  ASSUME ProductInv, NEW p \in Procs, PublishFails(p)
  PROVE  ProductInv'
BY EndKeeps DEF PublishFails, Fail

LEMMA KeepsCrash ==
  ASSUME ProductInv, NEW p \in Procs, Crash(p)
  PROVE  ProductInv'
BY EndKeeps DEF Crash

\* After an edit or damage no run is alone with what it loaded.
LEMMA UnquietKeeps ==
  ASSUME ProductInv, Unquiet, made' = made
  PROVE  JobsOK' /\ QuietOK'
<1>1. job' = [q \in Procs |-> [job[q] EXCEPT !.quiet = FALSE]]
  BY DEF Unquiet
<1>2. \A q \in Procs : JobOK(job'[q], made) /\ job'[q].quiet = FALSE
  BY <1>1, Unquieted, JobFields
<1>3. \A q \in Procs : job'[q] \in Jobs
  BY <1>2 DEF JobOK
<1>4. DOMAIN job' = Procs /\ job' = [q \in Procs |-> job'[q]]
  BY <1>1
<1> QED
  BY <1>2, <1>3, <1>4 DEF JobsOK, QuietOK

LEMMA KeepsEdit ==
  ASSUME ProductInv, Edit
  PROVE  ProductInv'
<1>1. Unquiet /\ UNCHANGED <<dist, stage, product, prefix, made>>
  BY DEF Edit
<1>2. JobsOK' /\ QuietOK'
  BY <1>1, UnquietKeeps
<1>3. WorldOK'
  <2>1. WorldOK
    BY DEF ProductInv
  <2>2. CASE \E m \in Members, v, b \in Versions :
               src' = [src EXCEPT ![m] = [version |-> v, build |-> b]]
               /\ UNCHANGED <<ext, release, data>>
    BY <2>1, <2>2 DEF WorldOK, Sources
  <2>3. CASE \E x \in Externals, v \in Versions :
               ext' = [ext EXCEPT ![x] = v] /\ UNCHANGED <<src, release, data>>
    BY <2>1, <2>3 DEF WorldOK
  <2>4. CASE UNCHANGED <<src, ext, data>>
    BY <2>1, <2>4 DEF WorldOK
  <2>5. CASE data' = 3 - data /\ UNCHANGED <<src, ext, release>>
    BY <2>1, <2>5 DEF WorldOK
  <2> QED
    BY <2>2, <2>3, <2>4, <2>5 DEF Edit
<1> QED
  BY <1>1, <1>2, <1>3, Frame DEF ProductInv

LEMMA KeepsDamage ==
  ASSUME ProductInv, Damage
  PROVE  ProductInv'
<1>1. Unquiet /\ UNCHANGED <<world, dist, stage, prefix, made>>
  BY DEF Damage
<1>2. \/ product' = [product EXCEPT !.archive = Torn, !.quiet = FALSE]
      \/ product' = [product EXCEPT !.manifest = Torn, !.quiet = FALSE]
  BY DEF Damage
<1>3. JobsOK' /\ QuietOK'
  BY <1>1, UnquietKeeps
<1>4. ProductOK' /\ QuietProductVerifies'
  <2>1. ProductOK
    BY DEF ProductInv
  <2>2. ~product'.quiet
    BY <1>2, <2>1 DEF ProductOK
  <2>3. /\ product' \in [archive : Digests, manifest : Digests, quiet : BOOLEAN]
        /\ product'.archive \in {product.archive, Torn}
    BY <1>2, <2>1 DEF ProductOK, Digests
  <2> QED
    BY <1>1, <2>1, <2>2, <2>3 DEF ProductOK, QuietProductVerifies, KnownArchive
<1> QED
  BY <1>1, <1>3, <1>4, Frame DEF ProductInv

LEMMA KeepsRemovePrefix ==
  ASSUME ProductInv, RemovePrefix
  PROVE  ProductInv'
<1>1. prefix' = NONE /\ UNCHANGED <<world, dist, stage, product, job, made>>
  BY DEF RemovePrefix
<1>2. PrefixOK'
  BY <1>1 DEF PrefixOK, InstalledIsOneRun, InstalledFitsTogether, ActivatesOneCopy
<1>3. JobsOK' /\ QuietOK'
  BY <1>1 DEF ProductInv, JobsOK, QuietOK, Alone, world
<1> QED
  BY <1>1, <1>2, <1>3, Frame DEF ProductInv

-----------------------------------------------------------------------------
LEMMA InitHasInv == Init => ProductInv
<1> SUFFICES ASSUME Init PROVE ProductInv
  OBVIOUS
<1>1. WorldOK
  BY DEF Init, WorldOK, Sources, Versions
<1>2. DistOK
  <2>1. NoFiles \in Files /\ \A f \in DOMAIN NoFiles : NoFiles[f] = NONE
    BY DEF NoFiles, Files
  <2>2. dist = [m \in Members |-> [v \in Versions |-> NoFiles]]
    BY DEF Init
  <2> QED
    BY <2>1, <2>2 DEF DistOK, At
<1>3. StageOK
  <2>1. NoFiles \in Files
    BY DEF NoFiles, Files
  <2>2. stage = EmptyStage
    BY DEF Init
  <2> QED
    BY <2>1, <2>2 DEF EmptyStage, StageOK, Known
<1>4. ProductOK /\ QuietProductVerifies
  BY DEF Init, ProductOK, QuietProductVerifies, KnownArchive, Digests
<1>5. JobsOK /\ QuietOK
  <2>1. job = [p \in Procs |-> Idle]
    BY DEF Init
  <2> QED
    BY <2>1, IdleOK DEF JobsOK, QuietOK, JobOK
<1>6. MadeOK /\ PrefixOK
  BY DEF Init, MadeOK, PrefixOK, InstalledIsOneRun, InstalledFitsTogether, ActivatesOneCopy
<1> QED
  BY <1>1, <1>2, <1>3, <1>4, <1>5, <1>6 DEF ProductInv

LEMMA StepKeepsInv == ProductInv /\ [Next]_vars => ProductInv'
<1> SUFFICES ASSUME ProductInv, [Next]_vars PROVE ProductInv'
  OBVIOUS
<1>1. CASE UNCHANGED vars
  <2>1. UNCHANGED <<world, dist, stage, product, prefix, made, job>>
    BY <1>1 DEF vars, world
  <2>2. JobsOK' /\ QuietOK'
    BY <2>1 DEF ProductInv, JobsOK, QuietOK, Alone, world
  <2> QED
    BY <2>1, <2>2, Frame DEF ProductInv
<1>2. ASSUME NEW p \in Procs, Step(p) PROVE ProductInv'
  BY <1>2, KeepsStartPackage, KeepsPack, KeepsDescribe, KeepsPrepare, KeepsPrepareFails,
     KeepsStageArchive, KeepsStageArchiveFails, KeepsStageMeta, KeepsWriteContract,
     KeepsWriteContractFails, KeepsBundle, KeepsWriteProduct, KeepsStartVerify, KeepsVerify,
     KeepsVerifyFails, KeepsPublish, KeepsPublishFails, KeepsCrash DEF Step
<1>3. CASE Edit
  BY <1>3, KeepsEdit
<1>4. CASE Damage
  BY <1>4, KeepsDamage
<1>5. CASE RemovePrefix
  BY <1>5, KeepsRemovePrefix
<1> QED
  BY <1>1, <1>2, <1>3, <1>4, <1>5 DEF Next

(* The inductive invariant: a contract on disk is one that a run completed *)
(* over packages in the workspace's order, what is to be installed was     *)
(* verified, and the files of a run that is alone are what it wrote there. *)
THEOREM ProductInvHolds == Spec => []ProductInv
  BY InitHasInv, StepKeepsInv, PTL DEF Spec

LEMMA InvImpliesFits == ProductInv => ProductFits
<1> SUFFICES ASSUME ProductInv PROVE ProductFits
  OBVIOUS
<1>1. TypeOK
  <2>1. \A m \in Members, v \in Versions : \A f \in DOMAIN NoFiles :
          dist[m][v][f] \in {NONE} \cup {e \in Packages : e.id = m /\ e.version = v}
    BY DEF ProductInv, DistOK, At
  <2>2. \A m \in Members : stage.tree[m] \in {NONE} \cup Packages
    BY DEF ProductInv, StageOK
  <2>3. prefix # NONE => \A m \in DOMAIN prefix.tree : prefix.tree[m] \in Packages
    BY DEF ProductInv, PrefixOK
  <2>4. \A p \in Procs : job[p].i \in 0..Len(Order)
    BY JobFields
  <2> QED
    BY <2>1, <2>2, <2>3, <2>4 DEF TypeOK
<1> QED
  BY <1>1 DEF ProductInv, PrefixOK, ProductFits

(* However packagings, verifications and installations overlap, what is    *)
(* installed is the product of one packaging run whose members fit         *)
(* together, activation finds one copy of each, and a product that was     *)
(* packaged while nothing else changed verifies: `ost plugin package       *)
(* --workspace --product`, `product verify` and `product install`.         *)
THEOREM InstalledProductsFit == Spec => []ProductFits
  BY ProductInvHolds, InvImpliesFits, PTL
=============================================================================
