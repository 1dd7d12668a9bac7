--------------------------- MODULE PluginProduct ---------------------------
(***************************************************************************)
(* `ost plugin package --workspace --product`, `product verify` and        *)
(* `product install` (ost-cli, commands/plugin.rs).  A packaging run       *)
(* packs every member into its dist directory, collects the released       *)
(* members in one staging directory, and packs that into the product.      *)
(* No lock is held: runs share the dist directories and the stage, and     *)
(* sources change between the packing of one member and of the next.       *)
(*                                                                         *)
(* A package is a record of what its archive holds, and stands for the     *)
(* archive's digest, for the manifest that names the digest, and for the   *)
(* checksums of the archive and its evidence.                              *)
(***************************************************************************)
EXTENDS Integers, FiniteSets, Sequences, Functions

CONSTANTS
    Procs,          \* running ost commands
    Bundles,        \* the workspace bundles, in the graph's topological order
    Tools,          \* the workspace tools
    Deps,           \* bundle -> workspace bundles it requires
    Embeds,         \* bundle -> external bundles it requires
    Releases,       \* the [declared, excluded] a manifest may declare
    NONE, Torn,
    MaxCommands, MaxEdits, MaxFaults

Order == Bundles \o Tools
Members == Range(Order)
IsTool(m) == m \in Range(Tools)
Externals == UNION {Embeds[b] : b \in Range(Bundles)}
Versions == 1..2
DepsOf(m) == IF IsTool(m) THEN {} ELSE Deps[m]
EmbedsOf(m) == IF IsTool(m) THEN {} ELSE Embeds[m]

(* discover_workspace_members and the graph's topological_order; an empty  *)
(* workspace is refused, and an external bundle is one that no workspace   *)
(* bundle provides.                                                        *)
ASSUME GraphAssumption ==
    /\ Bundles \in Seq(Range(Bundles)) /\ Tools \in Seq(Range(Tools))
    /\ Order # <<>> /\ IsInjective(Order)
    /\ \A i \in DOMAIN Bundles : Deps[Bundles[i]] \subseteq {Bundles[j] : j \in 1..(i - 1)}
    /\ Externals \cap Members = {}

VARIABLES
    src,      \* member -> [version, build]: its descriptor and its built output
    ext,      \* external bundle -> the artifact the lock selects
    release,  \* the workspace's release_members and release_exclude
    data,     \* the workspace's install_data
    dist,     \* member -> version -> the files of its dist directory
    stage,    \* plugin-product-stage
    product,  \* the product's dist directory
    prefix,   \* the installation prefix
    job,      \* proc -> what it is doing
    made,     \* contracts a run has completed (history)
    commands, edits, faults
vars == <<src, ext, release, data, dist, stage, product, prefix, job, made, commands, edits, faults>>
world == <<src, ext, release, data, edits>>
bounds == <<commands, faults>>

Packages ==
    UNION {[id : {m}, version : Versions, build : Versions,
            deps : [DepsOf(m) -> Versions], ext : [EmbedsOf(m) -> Versions]] : m \in Members}
Contracts == [members : Seq(Packages), data : 1..2]
Files == [archive : Packages \cup {NONE}, evidence : Packages \cup {NONE},
          manifest : Packages \cup {NONE}, sums : Packages \cup {NONE}]
Archives == [files : [Members -> Files], contract : Contracts \cup {NONE}, data : {1, 2, NONE}]
ASSUME NoneAssumption ==
    NONE \notin Packages \cup Contracts \cup Archives /\ Torn \notin Archives

NoFiles == [archive |-> NONE, evidence |-> NONE, manifest |-> NONE, sums |-> NONE]
EmptyStage == [files |-> [m \in Members |-> NoFiles], tree |-> [m \in Members |-> NONE],
               contract |-> NONE, data |-> NONE]
Idle == [pc |-> "idle", i |-> 0, loaded |-> NONE, out |-> <<>>, members |-> <<>>,
         install |-> FALSE, digest |-> NONE, tree |-> NONE, quiet |-> FALSE]

Packing(j) == j.pc \in {"pack", "describe", "resolve", "archive", "meta", "contract", "bundle", "manifest"}

Set(p, j) == job' = [job EXCEPT ![p] = j]
Fail(p) == Set(p, Idle) /\ UNCHANGED <<dist, stage, product, prefix, made>>

-----------------------------------------------------------------------------
(* package_workspace: every member is packed, whatever is released.        *)

(* The descriptors are loaded once, before the first member is packed.     *)
StartPackage(p) ==
    /\ job[p].pc = "idle" /\ commands < MaxCommands
    /\ job' = [q \in Procs |->
                IF q = p THEN [Idle EXCEPT !.pc = "pack", !.i = 1,
                               !.loaded = [m \in Members |-> src[m].version],
                               !.quiet = \A r \in Procs : ~Packing(job[r])]
                ELSE [job[q] EXCEPT !.quiet = FALSE]]
    /\ commands' = commands + 1
    /\ UNCHANGED <<src, ext, release, data, dist, stage, product, prefix, made, edits, faults>>

(* What package_bundle and package_tool put in an archive: the descriptor  *)
(* the run loaded, the output as it is now, and the providers as they are  *)
(* now.                                                                    *)
Packed(j, m) ==
    [id |-> m, version |-> j.loaded[m], build |-> src[m].build,
     deps |-> [d \in DepsOf(m) |-> src[d].version],
     ext |-> [x \in EmbedsOf(m) |-> ext[x]]]

Pack(p) ==
    LET j == job[p]
        pkg == Packed(j, Order[j.i]) IN
    /\ j.pc = "pack"
    /\ dist' = [dist EXCEPT ![pkg.id][pkg.version].archive = pkg]
    /\ Set(p, [j EXCEPT !.pc = "describe", !.out = Append(@, pkg)])
    /\ UNCHANGED <<world, stage, product, prefix, made, bounds>>

(* The evidence, the manifest and the checksums follow the archive.        *)
Describe(p) ==
    LET j == job[p]
        pkg == j.out[j.i] IN
    /\ j.pc = "describe"
    /\ dist' = [dist EXCEPT ![pkg.id][pkg.version] =
                  [archive |-> @.archive, evidence |-> pkg, manifest |-> pkg, sums |-> pkg]]
    /\ Set(p, IF j.i < Len(Order) THEN [j EXCEPT !.pc = "pack", !.i = @ + 1]
              ELSE [j EXCEPT !.pc = "resolve"])
    /\ UNCHANGED <<world, stage, product, prefix, made, bounds>>

(* resolve_product_members: a declared release is exactly the members that *)
(* were discovered and not excluded.                                       *)
Resolvable(r) ==
    \/ r.declared = NONE
    \/ r.excluded \subseteq Members /\ r.declared = Members \ r.excluded
UpTo(K, n) == {k \in K : k <= n}
Nth(K, i) == CHOOSE n \in K : Cardinality(UpTo(K, n)) = i
Released(r, out) ==
    IF r.declared = NONE THEN out
    ELSE LET K == {n \in DOMAIN out : out[n].id \in r.declared} IN
         [i \in 1..Cardinality(K) |-> out[Nth(K, i)]]

(* package_workspace_product begins by emptying the stage, whoever uses it.*)
Prepare(p) ==
    LET j == job[p] IN
    /\ j.pc = "resolve" /\ Resolvable(release) /\ Released(release, j.out) # <<>>
    /\ stage' = EmptyStage
    /\ Set(p, [j EXCEPT !.pc = "archive", !.i = 1, !.members = Released(release, j.out)])
    /\ UNCHANGED <<world, dist, product, prefix, made, bounds>>

PrepareFails(p) ==
    /\ job[p].pc = "resolve" /\ ~(Resolvable(release) /\ Released(release, job[p].out) # <<>>)
    /\ Fail(p) /\ UNCHANGED <<world, bounds>>

(* The archive is copied, then extracted if it is still the one this run   *)
(* packed and if nothing is in the way.                                    *)
Extractable(e) == dist[e.id][e.version].archive = e /\ stage.tree[e.id] = NONE

StageArchive(p) ==
    LET j == job[p]
        e == j.members[j.i] IN
    /\ j.pc = "archive" /\ Extractable(e)
    /\ stage' = [stage EXCEPT !.files[e.id].archive = e, !.tree[e.id] = e]
    /\ Set(p, [j EXCEPT !.pc = "meta"])
    /\ UNCHANGED <<world, dist, product, prefix, made, bounds>>

StageArchiveFails(p) ==
    LET j == job[p]
        e == j.members[j.i] IN
    /\ j.pc = "archive" /\ ~Extractable(e)
    /\ stage' = [stage EXCEPT !.files[e.id].archive = dist[e.id][e.version].archive]
    /\ Set(p, Idle)
    /\ UNCHANGED <<world, dist, product, prefix, made, bounds>>

(* Its manifest, checksums and evidence are copied as they are now.        *)
StageMeta(p) ==
    LET j == job[p]
        e == j.members[j.i]
        f == dist[e.id][e.version] IN
    /\ j.pc = "meta"
    /\ stage' = [stage EXCEPT !.files[e.id] = [f EXCEPT !.archive = stage.files[e.id].archive]]
    /\ Set(p, IF j.i < Len(j.members) THEN [j EXCEPT !.pc = "archive", !.i = @ + 1]
              ELSE [j EXCEPT !.pc = "contract"])
    /\ UNCHANGED <<world, dist, product, prefix, made, bounds>>

-----------------------------------------------------------------------------
(* The product's contract: its members in install order, and its data.     *)

(* internal_product_bundle_dependencies: a bundle that is in the product   *)
(* has the version its consumers were packed with, as the descriptor in    *)
(* its tree says and as its own entry says.                                *)
InternalAgree(members, tree) ==
    \A i, k \in DOMAIN members :
        LET c == members[i]  q == members[k] IN
        q.id \in DepsOf(c.id) =>
            /\ tree[q.id] # NONE
            /\ tree[q.id].version = c.deps[q.id]
            /\ tree[q.id].version = q.version
Internal(members, m) == DepsOf(m) \cap {members[k].id : k \in DOMAIN members}

(* Members that embed one external bundle embed one artifact of it.        *)
EmbeddedAgree(members) ==
    \A i, k \in DOMAIN members : \A x \in EmbedsOf(members[i].id) \cap EmbedsOf(members[k].id) :
        members[i].ext[x] = members[k].ext[x]
Acceptable(members) ==
    /\ \A i \in DOMAIN members : stage.tree[members[i].id] # NONE \/ IsTool(members[i].id)
    /\ InternalAgree(members, stage.tree)
    /\ EmbeddedAgree(members)

WriteContract(p) ==
    LET j == job[p]
        c == [members |-> j.members, data |-> data] IN
    /\ j.pc = "contract" /\ Acceptable(j.members)
    /\ stage' = [stage EXCEPT !.contract = c, !.data = data]
    /\ made' = made \cup {c}
    /\ Set(p, [j EXCEPT !.pc = "bundle"])
    /\ UNCHANGED <<world, dist, product, prefix, bounds>>

WriteContractFails(p) ==
    LET j == job[p] IN
    /\ j.pc = "contract" /\ ~Acceptable(j.members)
    /\ stage' = IF InternalAgree(j.members, stage.tree) THEN [stage EXCEPT !.data = data] ELSE stage
    /\ Set(p, Idle)
    /\ UNCHANGED <<world, dist, product, prefix, made, bounds>>

(* The stage is packed as it is, then its digest written next to it.       *)
Snapshot(s) == [files |-> s.files, contract |-> s.contract, data |-> s.data]
Bundle(p) ==
    /\ job[p].pc = "bundle"
    /\ product' = [product EXCEPT !.archive = Snapshot(stage), !.quiet = FALSE]
    /\ Set(p, [job[p] EXCEPT !.pc = "manifest", !.digest = Snapshot(stage)])
    /\ UNCHANGED <<world, dist, stage, prefix, made, bounds>>

WriteProduct(p) ==
    /\ job[p].pc = "manifest"
    /\ product' = [product EXCEPT !.manifest = job[p].digest, !.quiet = job[p].quiet]
    /\ Set(p, Idle)
    /\ UNCHANGED <<world, dist, stage, prefix, made, bounds>>

-----------------------------------------------------------------------------
(* verify_plugin_product.                                                  *)

(* resolve_product_archive: the digest the manifest pins, which the        *)
(* archive must have, or the archive's own when the manifest is unusable   *)
(* and the archive was named itself.                                       *)
Resolved(explicit) ==
    IF product.manifest # NONE /\ product.manifest # Torn
    THEN IF product.archive = product.manifest THEN product.manifest ELSE NONE
    ELSE IF explicit THEN product.archive ELSE NONE

StartVerify(p, install, explicit) ==
    /\ job[p].pc = "idle" /\ commands < MaxCommands
    /\ commands' = commands + 1
    /\ Resolved(explicit) # NONE
    /\ Set(p, [Idle EXCEPT !.pc = "extract", !.install = install, !.digest = Resolved(explicit)])
    /\ UNCHANGED <<world, dist, stage, product, prefix, made, faults>>

(* Mutant: the member archive is taken as it is in the product.            *)
MemberVerifiesUnhashed(a, e) ==
    LET f == a.files[e.id] IN
    f.archive # NONE /\ f.manifest = e /\ f.evidence = f.sums /\ f.evidence # NONE

(* verify_product_member: the archive's digest and size, the manifest's    *)
(* identity and digest, the checksums over archive and evidence, and the   *)
(* extracted files and descriptor.                                         *)
MemberVerifies(a, e) ==
    LET f == a.files[e.id] IN
    /\ f.archive = e
    /\ f.manifest = e
    /\ f.sums = e /\ f.evidence = e

TreeOf(a) == [m \in Members |-> a.files[m].archive]
ContractSound(c) ==
    /\ c.members # <<>>
    /\ \A i, k \in DOMAIN c.members : c.members[i].id = c.members[k].id => i = k
Verifies(a) ==
    /\ a # NONE /\ a # Torn
    /\ a.contract # NONE
    /\ ContractSound(a.contract)
    /\ \A i \in DOMAIN a.contract.members : MemberVerifies(a, a.contract.members[i])
    /\ InternalAgree(a.contract.members, TreeOf(a))
    /\ a.data = a.contract.data

(* The archive is extracted by the digest that was resolved, into a        *)
(* directory of this process, and everything is checked there.             *)
Extracts(p) == product.archive = job[p].digest /\ Verifies(product.archive)
Verify(p) ==
    /\ job[p].pc = "extract" /\ Extracts(p)
    /\ Set(p, IF job[p].install /\ prefix = NONE
              THEN [job[p] EXCEPT !.pc = "install", !.tree = product.archive]
              ELSE Idle)
    /\ UNCHANGED <<world, dist, stage, product, prefix, made, bounds>>

VerifyFails(p) ==
    /\ job[p].pc = "extract" /\ ~Extracts(p)
    /\ Fail(p) /\ UNCHANGED <<world, bounds>>

-----------------------------------------------------------------------------
(* install_plugin_product.                                                 *)

(* write_product_activation: a member's own directory, and the bundles it  *)
(* carries unless they are members themselves.                             *)
Paths(a, m) ==
    {[in |-> m, of |-> m]}
    \cup {[in |-> m, of |-> d] : d \in (DepsOf(m) \ Internal(a.contract.members, m)) \cup EmbedsOf(m)}
Ids(c) == {c.members[i].id : i \in DOMAIN c.members}
Installed(p, a) ==
    [by |-> p, contract |-> a.contract,
     tree |-> [m \in Ids(a.contract) |-> a.files[m].archive],
     data |-> a.data,
     paths |-> UNION {Paths(a, m) : m \in Ids(a.contract)}]

(* Everything is put together beside the prefix and renamed into place; a  *)
(* prefix that has appeared makes the rename fail.                         *)
Publish(p) ==
    /\ job[p].pc = "install" /\ prefix = NONE
    /\ prefix' = Installed(p, job[p].tree) /\ Set(p, Idle)
    /\ UNCHANGED <<world, dist, stage, product, made, bounds>>

PublishFails(p) ==
    /\ job[p].pc = "install" /\ prefix # NONE
    /\ Fail(p) /\ UNCHANGED <<world, bounds>>

-----------------------------------------------------------------------------
(* What happens around the commands.                                       *)

Unquiet == job' = [q \in Procs |-> [job[q] EXCEPT !.quiet = FALSE]]
Edit ==
    /\ edits < MaxEdits /\ edits' = edits + 1 /\ Unquiet
    /\ \/ \E m \in Members, v, b \in Versions :
            /\ (src[m].version # v) # (src[m].build # b)
            /\ src' = [src EXCEPT ![m] = [version |-> v, build |-> b]]
            /\ UNCHANGED <<ext, release, data>>
       \/ \E x \in Externals, v \in Versions :
            ext[x] # v /\ ext' = [ext EXCEPT ![x] = v] /\ UNCHANGED <<src, release, data>>
       \/ \E r \in Releases : r # release /\ release' = r /\ UNCHANGED <<src, ext, data>>
       \/ data' = 3 - data /\ UNCHANGED <<src, ext, release>>
    /\ UNCHANGED <<dist, stage, product, prefix, made, bounds>>

Damage ==
    /\ faults < MaxFaults /\ faults' = faults + 1 /\ Unquiet
    /\ \/ product.archive # NONE /\ product' = [product EXCEPT !.archive = Torn, !.quiet = FALSE]
       \/ product.manifest # NONE /\ product' = [product EXCEPT !.manifest = Torn, !.quiet = FALSE]
    /\ UNCHANGED <<world, dist, stage, prefix, made, commands>>

Crash(p) ==
    /\ faults < MaxFaults /\ faults' = faults + 1
    /\ job[p].pc # "idle"
    /\ Set(p, Idle)
    /\ UNCHANGED <<world, dist, stage, product, prefix, made, commands>>

RemovePrefix ==
    /\ faults < MaxFaults /\ faults' = faults + 1
    /\ prefix # NONE /\ prefix' = NONE
    /\ UNCHANGED <<world, dist, stage, product, job, made, commands>>

Init ==
    /\ src = [m \in Members |-> [version |-> 1, build |-> 1]]
    /\ ext = [x \in Externals |-> 1]
    /\ release \in Releases
    /\ data = 1
    /\ dist = [m \in Members |-> [v \in Versions |-> NoFiles]]
    /\ stage = EmptyStage
    /\ product = [archive |-> NONE, manifest |-> NONE, quiet |-> FALSE]
    /\ prefix = NONE
    /\ job = [p \in Procs |-> Idle]
    /\ made = {}
    /\ commands = 0 /\ edits = 0 /\ faults = 0

Step(p) ==
    \/ StartPackage(p) \/ Pack(p) \/ Describe(p)
    \/ Prepare(p) \/ PrepareFails(p) \/ StageArchive(p) \/ StageArchiveFails(p) \/ StageMeta(p)
    \/ WriteContract(p) \/ WriteContractFails(p) \/ Bundle(p) \/ WriteProduct(p)
    \/ \E install, explicit \in BOOLEAN : StartVerify(p, install, explicit)
    \/ Verify(p) \/ VerifyFails(p) \/ Publish(p) \/ PublishFails(p)
    \/ Crash(p)
Next == (\E p \in Procs : Step(p)) \/ Edit \/ Damage \/ RemovePrefix
Spec == Init /\ [][Next]_vars

-----------------------------------------------------------------------------
(* The variables have their types; in particular a prefix holds the trees  *)
(* of packages, never of something half written.                           *)
TypeOK ==
    /\ \A m \in Members, v \in Versions : \A f \in DOMAIN NoFiles :
        dist[m][v][f] \in {NONE} \cup {e \in Packages : e.id = m /\ e.version = v}
    /\ \A m \in Members : stage.tree[m] \in {NONE} \cup Packages
    /\ prefix # NONE => \A m \in DOMAIN prefix.tree : prefix.tree[m] \in Packages
    /\ \A p \in Procs : job[p].pc # "idle" => job[p].i \in 0..Len(Order)

(* What is installed is the product of one packaging run, each member the  *)
(* package that run made, however many runs were writing the stage, the    *)
(* dist directories and the product at the time.                           *)
InstalledIsOneRun ==
    prefix # NONE =>
        /\ prefix.contract \in made
        /\ prefix.data = prefix.contract.data
        /\ \A i \in DOMAIN prefix.contract.members :
            prefix.tree[prefix.contract.members[i].id] = prefix.contract.members[i]

(* The members of an installed product fit together: a bundle comes after  *)
(* the members it requires, and was packed against their versions.         *)
InstalledFitsTogether ==
    prefix # NONE =>
        LET members == prefix.contract.members IN
        \A i, k \in DOMAIN members :
            members[k].id \in DepsOf(members[i].id) =>
                /\ k < i
                /\ members[i].deps[members[k].id] = prefix.tree[members[k].id].version

(* Activating an installed product puts one copy of each member on the     *)
(* paths, and copies of an external bundle that are all the same artifact. *)
ActivatesOneCopy ==
    prefix # NONE =>
        \A a, b \in prefix.paths : a.of = b.of =>
            \/ a = b
            \/ /\ a.of \notin DOMAIN prefix.tree
               /\ a.of \in Externals =>
                    prefix.tree[a.in].ext[a.of] = prefix.tree[b.in].ext[b.of]

(* A product that was packaged while nothing else changed verifies.        *)
QuietProductVerifies ==
    product.quiet => Verifies(product.archive) /\ product.manifest = product.archive

-----------------------------------------------------------------------------
(* What is installed is the product of one packaging run whose members fit *)
(* together, activation finds one copy of each, and a product that was     *)
(* packaged while nothing else changed verifies.                           *)
ProductFits ==
    /\ TypeOK
    /\ InstalledIsOneRun
    /\ InstalledFitsTogether
    /\ ActivatesOneCopy
    /\ QuietProductVerifies
=============================================================================
