------------------------- MODULE CompositionResolve -------------------------
(***************************************************************************)
(* The resolver of a runtime composition (ost-formation, composition.rs):  *)
(* a manifest asks for capabilities, artifacts pinned by digest provide    *)
(* and require them, and a greedy worklist without backtracking selects    *)
(* one provider per capability, follows what the selected components       *)
(* require, and orders the result.  The model keeps the worklist: one      *)
(* action per requirement popped, one per component emitted by the         *)
(* topological sort, one for every way the resolver gives up.              *)
(*                                                                         *)
(* Identifiers and capabilities are numbers, so that the code's string     *)
(* order is <.  A version range is an interval [lo, hi]; AnyVersion is an  *)
(* absent range, the empty string of requirement_key, and sorts first.     *)
(* The manifest's requirement list is a set: the code sorts it, and meets  *)
(* a repeated entry a second time as a capability already selected.        *)
(***************************************************************************)
EXTENDS Integers, FiniteSets, Sequences

CONSTANTS
    Pinnable,       \* the artifacts a manifest may pin
    Ids,            \* component ids
    Capabilities,   \* capability names
    Usd,            \* the capability "usd"
    Targets,        \* platform targets
    Compositions,   \* the manifests a run resolves
    Inputs          \* the sets of artifact records handed to the resolver

NoId == 0
AnyVersion == [lo |-> 0, hi |-> 0]
NoAbi == 0

ASSUME NumbersAssumption ==
    /\ Ids \subseteq Nat \ {NoId}
    /\ Capabilities \subseteq Nat
    /\ Usd \in Capabilities

Ranges == [lo : Nat, hi : Nat]
Requirements == [capability : Capabilities, version : Ranges, provider : Ids \cup {NoId}]
Provisions == [capability : Capabilities, version : Nat, singleton : BOOLEAN]

(* Lists are finite, and pins name components.                             *)
ASSUME ManifestsAssumption == \A m \in Compositions :
    /\ m.requirements \subseteq Requirements /\ IsFiniteSet(m.requirements)
    /\ m.providers \in [Capabilities -> Ids \cup {NoId}]
ASSUME InputsAssumption == \A rs \in Inputs : \A r \in rs :
    /\ r.component.id \in Ids
    /\ r.component.provides \subseteq Provisions
    /\ r.component.requires \subseteq Requirements /\ IsFiniteSet(r.component.requires)

VARIABLES
    composition,   \* [requirements, artifacts, providers, target]
    records,       \* the artifact records supplied for it
    outcome,       \* "loading", "resolving", "ordering", "resolved" or "refused"
    queue,         \* the worklist: <<[consumer, requirement], ...>>
    selected,      \* the ids of the selected components
    provider,      \* capability -> [id, version] of the provider selected for it
    edges,         \* <<provider, consumer>> pairs of ids
    order          \* the ids emitted by the topological sort

resolveVars == <<composition, records, outcome, queue, selected, provider, edges, order>>

Unprovided == [id |-> NoId, version |-> 0]

(* What the loop does when a requirement's capability has a provider.      *)
Chosen(c) == provider[c].id # NoId

-----------------------------------------------------------------------------
(* The manifest and the records are screened before anything is resolved.  *)

(* RuntimeCompositionManifest::validate: something is required, something  *)
(* is offered, and a source that is named is pinned by digest.             *)
ValidManifest(m) ==
    /\ m.requirements # {}
    /\ m.artifacts # {}
    /\ \A a \in m.artifacts : m.source[a] # "mutable"

(* ComponentContract::validate: no capability is provided twice, and every *)
(* environment contribution has a value.                                   *)
ValidContract(c) ==
    /\ \A p, q \in c.provides : p.capability = q.capability => p = q
    /\ \A e \in c.environment : e.values # {}

(* The records are those of the artifacts the manifest pins, each with a   *)
(* contract that carries the record's own name and version, and no two     *)
(* components share an id.                                                 *)
Screened(m, rs) ==
    /\ ValidManifest(m)
    /\ Cardinality(rs) = Cardinality(m.artifacts)
    /\ \A r \in rs :
        /\ r.digest \in m.artifacts
        /\ r.contracted
        /\ ValidContract(r.component)
        /\ r.named
    /\ \A r, s \in rs : r.component.id = s.component.id => r = s

RecordOf(id) == CHOOSE r \in records : r.component.id = id
ContractOf(id) == RecordOf(id).component
Candidates == {r.component.id : r \in records}

-----------------------------------------------------------------------------
(* The order of the worklist.                                              *)

KeyOf(q) == <<q.capability, q.version.lo, q.version.hi, q.provider>>
KeyLess(a, b) ==
    \E i \in 1..4 : KeyOf(a)[i] < KeyOf(b)[i]
                    /\ \A j \in 1..(i - 1) : KeyOf(a)[j] = KeyOf(b)[j]

(* The requirements of one list, sorted by requirement_key, as entries of  *)
(* the worklist on behalf of a consumer (NoId: the manifest itself).       *)
Sorted(S) ==
    CHOOSE s \in [1..Cardinality(S) -> S] :
        /\ \A q \in S : \E i \in DOMAIN s : s[i] = q
        /\ \A i, j \in DOMAIN s : i < j => KeyLess(s[i], s[j])
Entries(consumer, S) ==
    [i \in 1..Cardinality(S) |-> [consumer |-> consumer, requirement |-> Sorted(S)[i]]]

-----------------------------------------------------------------------------
(* The tests the loop makes on one requirement.                            *)

VersionSatisfies(version, range) ==
    range = AnyVersion \/ (range.lo <= version /\ version <= range.hi)

(* A requirement's own pin comes before the manifest's for its capability. *)
PinsConflict(q) ==
    /\ q.provider # NoId
    /\ composition.providers[q.capability] # NoId
    /\ q.provider # composition.providers[q.capability]
Pin(q) == IF q.provider # NoId THEN q.provider ELSE composition.providers[q.capability]

(* A contract without targets runs on the target its record was built for. *)
TargetMatches(r, target) ==
    IF r.component.targets = {} THEN r.target = target ELSE target \in r.component.targets

Provision(r, capability) == CHOOSE p \in r.component.provides : p.capability = capability
Provides(r, capability) == \E p \in r.component.provides : p.capability = capability

TargetCompatible(q) ==
    {r \in records : Provides(r, q.capability) /\ TargetMatches(r, composition.target)}
Compatible(q) ==
    {r \in TargetCompatible(q) :
        /\ Pin(q) \in {NoId, r.component.id}
        /\ VersionSatisfies(Provision(r, q.capability).version, q.version)}

(* An unpinned choice between several providers is refused as soon as one  *)
(* of them calls the capability a singleton.                               *)
Ambiguous(q) ==
    /\ Cardinality(Compatible(q)) > 1
    /\ Pin(q) = NoId
    /\ \E r \in Compatible(q) : Provision(r, q.capability).singleton

(* Of the compatible candidates the one with the smallest key, which is    *)
(* the smallest id: ids are unique among the candidates.                   *)
Best(q) ==
    CHOOSE r \in Compatible(q) :
        \A s \in Compatible(q) : r.component.id <= s.component.id

(* A capability already resolved must have gone to the pin, at a version   *)
(* this requirement accepts too.                                           *)
Agrees(q) ==
    /\ Pin(q) \in {NoId, provider[q.capability].id}
    /\ VersionSatisfies(provider[q.capability].version, q.version)

-----------------------------------------------------------------------------
(* The checks on the whole selection.                                      *)

UnusedPin == \E c \in Capabilities : composition.providers[c] # NoId /\ ~Chosen(c)

(* Mutant: only the provider selected for a capability is asked.           *)
SelectedSingletonsCollide ==
    \E c \in Capabilities : \E i \in selected :
        /\ Chosen(c) /\ i # provider[c].id
        /\ Provision(RecordOf(provider[c].id), c).singleton /\ Provides(RecordOf(i), c)

SingletonsCollide ==
    \E i, j \in selected : i # j /\ \E p \in ContractOf(i).provides :
        \E q \in ContractOf(j).provides :
            p.capability = q.capability /\ (p.singleton \/ q.singleton)

AbisConflict ==
    Cardinality({ContractOf(i).abi : i \in selected} \ {NoAbi}) > 1

OpenUsdConflicts ==
    /\ Chosen(Usd)
    /\ \E i \in selected :
        ~VersionSatisfies(provider[Usd].version, ContractOf(i).openusd)

(* A variable that anyone sets is set by everyone, to the same values.     *)
Contributions == UNION {{[source |-> i, var |-> e] : e \in ContractOf(i).environment} : i \in selected}
EnvironmentConflicts ==
    \E a, b \in Contributions :
        /\ a.var.variable = b.var.variable
        /\ a.var.operation = "set"
        /\ (b.var.operation # "set" \/ a.var.values # b.var.values)

(* Destinations are compared without case; a contract lists a destination  *)
(* by a folded name here.                                                  *)
Mappings == UNION {{[component |-> i, map |-> e] : e \in ContractOf(i).install} : i \in selected}
InstallCollides ==
    \E a, b \in Mappings : a # b /\ a.map.destination = b.map.destination

Consistent ==
    ~UnusedPin /\ ~SingletonsCollide /\ ~AbisConflict /\ ~OpenUsdConflicts
Installable == ~EnvironmentConflicts /\ ~InstallCollides

-----------------------------------------------------------------------------
ResolveInit ==
    /\ composition \in Compositions
    /\ records \in Inputs
    /\ outcome = "loading"
    /\ queue = <<>>
    /\ selected = {}
    /\ provider = [c \in Capabilities |-> Unprovided]
    /\ edges = {}
    /\ order = <<>>

Refuse ==
    /\ outcome' = "refused"
    /\ UNCHANGED <<composition, records, queue, selected, provider, edges, order>>

(* Before the loop: the candidates are indexed and the worklist filled.    *)
Load ==
    /\ outcome = "loading"
    /\ Screened(composition, records)
    /\ outcome' = "resolving"
    /\ queue' = Entries(NoId, composition.requirements)
    /\ UNCHANGED <<composition, records, selected, provider, edges, order>>
LoadRefuses == outcome = "loading" /\ ~Screened(composition, records) /\ Refuse

Popping == outcome = "resolving" /\ queue # <<>>
Popped == Head(queue).requirement

(* An edge records that the popped requirement's consumer needs id.        *)
EdgeTo(id) ==
    IF Head(queue).consumer = NoId THEN {} ELSE {<<id, Head(queue).consumer>>}

(* Mutant: what the provider requires joins the worklist again.            *)
ReuseRequeues ==
    /\ Popping
    /\ ~PinsConflict(Popped)
    /\ Chosen(Popped.capability)
    /\ Agrees(Popped)
    /\ edges' = edges \cup EdgeTo(provider[Popped.capability].id)
    /\ LET id == provider[Popped.capability].id IN
       queue' = Tail(queue) \o Entries(id, ContractOf(id).requires)
    /\ UNCHANGED <<composition, records, outcome, selected, provider, order>>

(* The capability has its provider: the requirement must agree with it.    *)
Reuse ==
    /\ Popping
    /\ ~PinsConflict(Popped)
    /\ Chosen(Popped.capability)
    /\ Agrees(Popped)
    /\ edges' = edges \cup EdgeTo(provider[Popped.capability].id)
    /\ queue' = Tail(queue)
    /\ UNCHANGED <<composition, records, outcome, selected, provider, order>>
ReuseRefuses ==
    /\ Popping
    /\ PinsConflict(Popped) \/ (Chosen(Popped.capability) /\ ~Agrees(Popped))
    /\ Refuse

(* The capability has none yet: the best compatible candidate is selected, *)
(* and what a newly selected component requires joins the worklist.        *)
Select ==
    /\ Popping
    /\ ~PinsConflict(Popped)
    /\ ~Chosen(Popped.capability)
    /\ Compatible(Popped) # {}
    /\ ~Ambiguous(Popped)
    /\ LET best == Best(Popped)
           id == best.component.id
           version == Provision(best, Popped.capability).version
           new == IF id \in selected THEN <<>> ELSE Entries(id, best.component.requires)
       IN  /\ provider' = [provider EXCEPT ![Popped.capability] =
                              [id |-> id, version |-> version]]
           /\ edges' = edges \cup EdgeTo(id)
           /\ selected' = selected \cup {id}
           /\ queue' = Tail(queue) \o new
    /\ UNCHANGED <<composition, records, outcome, order>>
SelectRefuses ==
    /\ Popping
    /\ ~PinsConflict(Popped)
    /\ ~Chosen(Popped.capability)
    /\ Compatible(Popped) = {} \/ Ambiguous(Popped)
    /\ Refuse

(* The worklist is empty: the selection as a whole is judged.              *)
Judge ==
    /\ outcome = "resolving" /\ queue = <<>>
    /\ Consistent
    /\ outcome' = "ordering"
    /\ UNCHANGED <<composition, records, queue, selected, provider, edges, order>>
JudgeRefuses == outcome = "resolving" /\ queue = <<>> /\ ~Consistent /\ Refuse

(* topological_order: the smallest component whose providers, itself       *)
(* aside, are all emitted goes next.                                       *)
Emitted == {order[i] : i \in DOMAIN order}
Ready ==
    {i \in selected \ Emitted :
        \A e \in edges : e[2] = i /\ e[1] # i => e[1] \in Emitted}
Emit ==
    /\ outcome = "ordering"
    /\ Ready # {}
    /\ order' = Append(order, CHOOSE i \in Ready : \A j \in Ready : i <= j)
    /\ UNCHANGED <<composition, records, outcome, queue, selected, provider, edges>>

(* A cycle leaves components that are never ready; otherwise environment   *)
(* and install mappings are merged and the composition is resolved.        *)
Finish ==
    /\ outcome = "ordering" /\ Ready = {}
    /\ Emitted = selected
    /\ Installable
    /\ outcome' = "resolved"
    /\ UNCHANGED <<composition, records, queue, selected, provider, edges, order>>
FinishRefuses ==
    /\ outcome = "ordering" /\ Ready = {}
    /\ Emitted # selected \/ ~Installable
    /\ Refuse

ResolveNext ==
    \/ Load \/ LoadRefuses
    \/ Reuse \/ ReuseRefuses
    \/ Select \/ SelectRefuses
    \/ Judge \/ JudgeRefuses
    \/ Emit \/ Finish \/ FinishRefuses

ResolveSpec == ResolveInit /\ [][ResolveNext]_resolveVars /\ WF_resolveVars(ResolveNext)

-----------------------------------------------------------------------------
ResolveTypeOK ==
    /\ composition \in Compositions
    /\ records \in Inputs
    /\ outcome \in {"loading", "resolving", "ordering", "resolved", "refused"}
    /\ \A i \in DOMAIN queue : queue[i].consumer \in selected \cup {NoId}
    /\ selected \subseteq Candidates
    /\ \A c \in Capabilities : Chosen(c) => provider[c].id \in selected
    /\ edges \subseteq selected \X selected
    /\ Emitted \subseteq selected

(* What a requirement was promised: a selected component that provides the *)
(* capability on the target, in a version within the range, and the one    *)
(* that was pinned when one was.                                           *)
Granted(q) ==
    LET p == provider[q.capability] IN
    /\ p.id \in selected
    /\ Provides(RecordOf(p.id), q.capability)
    /\ TargetMatches(RecordOf(p.id), composition.target)
    /\ p.version = Provision(RecordOf(p.id), q.capability).version
    /\ VersionSatisfies(p.version, q.version)
    /\ q.provider \in {NoId, p.id}
    /\ composition.providers[q.capability] \in {NoId, p.id}

(* A resolved composition is closed: every requirement of the manifest and *)
(* of every selected component is granted, although each provider was      *)
(* chosen for the first requirement that asked, before the others, with    *)
(* other ranges and pins, were met (composition.rs, the worklist loop).    *)
ResolvedIsClosed ==
    outcome = "resolved" =>
        /\ \A q \in composition.requirements : Granted(q)
        /\ \A i \in selected : \A q \in ContractOf(i).requires : Granted(q)

(* Nothing is selected that nothing needs: a selected component is the     *)
(* provider chosen for a capability that the manifest, or another          *)
(* component of the resolved set, requires.                                *)
ResolvedIsNeeded ==
    outcome = "resolved" =>
        \A i \in selected : \E c \in Capabilities :
            /\ provider[c].id = i
            /\ \/ \E q \in composition.requirements : q.capability = c
               \/ \E j \in selected \ {i} :
                    \E q \in ContractOf(j).requires : q.capability = c

(* The components are listed each once, and each after the providers of    *)
(* everything it requires: an activation that follows the list never       *)
(* meets a component before what it needs, including a need met by a       *)
(* provider that was selected earlier for someone else.                    *)
OrderFollowsNeeds ==
    outcome = "resolved" =>
        /\ Len(order) = Cardinality(selected) /\ Emitted = selected
        /\ \A i, j \in DOMAIN order :
            (\E q \in ContractOf(order[j]).requires :
                provider[q.capability].id = order[i] /\ i # j) => i < j

(* One library of a kind is loaded: no two components of a resolved set    *)
(* provide a capability that either calls a singleton, whichever of the    *)
(* two was selected for it or for something else, all name one ABI, and    *)
(* the OpenUSD that was selected suits every one of them.                  *)
ResolvedIsConsistent ==
    outcome = "resolved" =>
        /\ \A i, j \in selected : \A p \in ContractOf(i).provides :
            (p.singleton /\ i # j) => ~Provides(RecordOf(j), p.capability)
        /\ \A i, j \in selected :
            NoAbi \in {ContractOf(i).abi, ContractOf(j).abi}
                \/ ContractOf(i).abi = ContractOf(j).abi
        /\ \A i \in selected : Chosen(Usd) =>
            VersionSatisfies(provider[Usd].version, ContractOf(i).openusd)

(* The resolver ends, with cycles among the requirements too: a component  *)
(* enters its requirements in the worklist once, when it is selected.      *)
Terminates == <>(outcome \in {"resolved", "refused"})

-----------------------------------------------------------------------------
(* A resolved composition grants every requirement, holds nothing that     *)
(* nothing needs, lists components after their needs, and loads one        *)
(* library of a kind, one ABI and an OpenUSD that suits all, although the  *)
(* worklist never backtracks.                                              *)
ResolutionIsSound ==
    /\ ResolveTypeOK
    /\ ResolvedIsClosed
    /\ ResolvedIsNeeded
    /\ OrderFollowsNeeds
    /\ ResolvedIsConsistent
=============================================================================
