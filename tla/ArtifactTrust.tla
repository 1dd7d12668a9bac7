---------------------------- MODULE ArtifactTrust ----------------------------
(***************************************************************************)
(* Who may publish and what an artifact is trusted as (ost-artifact,       *)
(* policy, evidence and transport::verify; the artifact command's verify   *)
(* and push).  Pure decisions over documents:                              *)
(*   a policy     [minimum, protected, publishers], sequences of           *)
(*                [namespace, minimum, allowed] and of publishers;         *)
(*   a manifest   [digest, kind, build, runtime], its build NONE or        *)
(*                [source, identity, dependencies];                        *)
(*   an SBOM      [subjects, packages], the digests any package carries    *)
(*                and the dependency packages;                             *)
(*   a provenance a sequence of [subjects, source, identity, materials,    *)
(*                runtime] statements;                                     *)
(*   gates        [minimum, sbom, provenance, policy] of one command.      *)
(* Namespaces and Git refs are sequences of their parts.                   *)
(***************************************************************************)
EXTENDS Integers, Sequences, FiniteSets, SequencesExt, Common

CONSTANTS
    Policies,     \* the policy files of a run
    Destinations, \* the repositories a push names
    Identities,   \* the identities a GitHub OIDC token carries
    Manifests,    \* the producer manifests
    AllGates      \* the flags of verify and pull

Local == 0
Unsigned == 1
Attested == 2
Verified == 3
Trusted == 4
TrustLevel == Local..Trusted
AtLeast(a, b) == IF a >= b THEN a ELSE b

FirstWith(seq, Test(_)) ==
    LET hits == {i \in DOMAIN seq : Test(seq[i])} IN
    IF hits = {} THEN NONE ELSE seq[CHOOSE i \in hits : \A j \in hits : i <= j]

-----------------------------------------------------------------------------
(* The policy file.                                                        *)

(* A ref pattern is [path, open]: open ones end in "*".                    *)
RefMatches(pattern, ref) == IF pattern.open THEN IsPrefix(pattern.path, ref) ELSE ref = pattern.path

PublisherMatches(p, identity) ==
    /\ p.repository = identity.repository
    /\ p.workflow = identity.workflow
    /\ \E pattern \in p.refs : RefMatches(pattern, identity.ref)
    /\ identity.actor \in p.actors
    /\ identity.event \in p.events

PublisherOf(policy, id) == FirstWith(policy.publishers, LAMBDA p : p.id = id)

ValidPublisher(p) == p.refs # {} /\ p.actors # {} /\ p.events # {}
ValidNamespace(policy, n) ==
    /\ Len(n.namespace) >= 2
    /\ n.allowed # <<>>
    /\ \A i \in DOMAIN n.allowed :
        LET p == PublisherOf(policy, n.allowed[i]) IN p # NONE /\ p.trust >= n.minimum
ValidPolicy(policy) ==
    /\ \A i \in DOMAIN policy.publishers : ValidPublisher(policy.publishers[i])
    /\ \A i, j \in DOMAIN policy.publishers :
        policy.publishers[i].id = policy.publishers[j].id => i = j
    /\ \A i \in DOMAIN policy.protected : ValidNamespace(policy, policy.protected[i])
    /\ \A i, j \in DOMAIN policy.protected :
        policy.protected[i].namespace = policy.protected[j].namespace => i = j

NamespaceContains(namespace, destination) == IsPrefix(namespace, destination)

(* The longest namespace that contains the destination.                    *)
ProtectedNamespace(policy, destination) ==
    FirstWith(policy.protected, LAMBDA n :
        /\ NamespaceContains(n.namespace, destination)
        /\ \A j \in DOMAIN policy.protected :
            NamespaceContains(policy.protected[j].namespace, destination)
                => Len(policy.protected[j].namespace) <= Len(n.namespace))

(* The publisher that authorizes the identity: "open" where nothing is     *)
(* protected, NONE where nobody does.                                      *)
AuthorizePublisher(policy, destination, identity) ==
    LET protected == ProtectedNamespace(policy, destination) IN
    IF protected = NONE THEN "open"
    ELSE FirstWith(protected.allowed,
                   LAMBDA id : PublisherMatches(PublisherOf(policy, id), identity))

-----------------------------------------------------------------------------
(* The identity of a GitHub Actions job, from its OIDC token.              *)

Skew == 60
OidcAudience == "openstrata-artifact-publish"

(* The identity the claims carry, or NONE: another issuer or audience, a   *)
(* token out of its time, a workflow of another repository.                *)
FromOidc(claims, now) ==
    IF /\ claims.wellFormed /\ claims.issuer = "github" /\ OidcAudience \in claims.audience
       /\ claims.exp + Skew >= now
       /\ claims.nbf # NONE => claims.nbf <= now + Skew
       /\ claims.workflowRepository = claims.identity.repository
    THEN claims.identity ELSE NONE

(* authorize_push: no policy, or nothing protected there, lets everyone    *)
(* push; the override is for protected destinations.                       *)
AuthorizePush(policy, destination, override, identity) ==
    \/ policy = NONE
    \/ ProtectedNamespace(policy, destination) = NONE
    \/ override
    \/ identity # NONE /\ AuthorizePublisher(policy, destination, identity) # NONE

-----------------------------------------------------------------------------
(* What packaging writes beside an artifact.                               *)

ComposedKind == "composed-runtime"

(* Build metadata names a source and a builder; its dependencies are       *)
(* named once.                                                             *)
ValidBuild(build) ==
    /\ build.source # NONE
    /\ \A d, e \in build.dependencies : d.name = e.name => d = e
DependenciesOf(manifest) == IF manifest.build = NONE THEN {} ELSE manifest.build.dependencies

SpdxDocument(manifest) ==
    [subjects |-> {manifest.digest} \cup ({d.archive : d \in DependenciesOf(manifest)} \ {NONE}),
     packages |-> SetToSeq(DependenciesOf(manifest))]

ProvenanceStatement(manifest) ==
    [subjects  |-> {manifest.digest},
     source    |-> manifest.build.source,
     identity  |-> manifest.build.identity,
     materials |-> IF manifest.kind = ComposedKind THEN {d.archive : d \in DependenciesOf(manifest)} ELSE NONE,
     runtime   |-> IF manifest.kind = ComposedKind THEN manifest.runtime ELSE NONE]

GenerateEvidence(manifest) ==
    [sbom |-> SpdxDocument(manifest),
     provenance |-> IF manifest.build = NONE THEN NONE ELSE <<ProvenanceStatement(manifest)>>]

-----------------------------------------------------------------------------
(* Checking it.                                                            *)

PackageMatches(package, d) ==
    /\ package.name = d.name /\ package.source = d.source
    /\ d.archive # NONE => package.archive = d.archive
VerifySbom(sbom, digest, dependencies) ==
    /\ digest \in sbom.subjects
    /\ dependencies # {} =>
        /\ Len(sbom.packages) = Cardinality(dependencies)
        /\ \A d \in dependencies : \E i \in DOMAIN sbom.packages : PackageMatches(sbom.packages[i], d)

Rejected == [ok |-> FALSE, publisher |-> NONE]
Accepted(publisher) == [ok |-> TRUE, publisher |-> publisher]

(* The first statement about this digest must name the manifest's source,  *)
(* a composition's runtime and inputs, and under a policy an allowed       *)
(* builder.                                                                *)
VerifyProvenance(provenance, manifest, policy) ==
    LET statement == FirstWith(provenance, LAMBDA s : manifest.digest \in s.subjects) IN
    IF \/ statement = NONE
       \/ manifest.build = NONE
       \/ statement # NONE /\ manifest.build # NONE /\ statement.source # manifest.build.source
       \/ /\ statement # NONE /\ manifest.kind = ComposedKind
          /\ \/ statement.materials # {d.archive : d \in DependenciesOf(manifest)}
             \/ statement.runtime # manifest.runtime
    THEN Rejected
    ELSE IF policy = NONE THEN Accepted(NONE)
    ELSE IF statement.identity = NONE THEN Rejected
    ELSE LET p == FirstWith(policy.publishers, LAMBDA q : PublisherMatches(q, statement.identity)) IN
         IF p = NONE THEN Rejected ELSE Accepted(p.id)

PolicyMinimum(gates) == IF gates.policy = NONE THEN Local ELSE gates.policy.minimum
Required(gates) == AtLeast(gates.minimum, PolicyMinimum(gates))

(* A stored or fetched artifact is [manifest, trust, sbom, provenance].    *)
SbomOk(a, gates) ==
    IF a.sbom = NONE THEN ~gates.sbom
    ELSE VerifySbom(a.sbom, a.manifest.digest, DependenciesOf(a.manifest))
ProvenanceCheck(a, gates, policy) ==
    IF a.provenance = NONE THEN [ok |-> ~gates.provenance, publisher |-> NONE]
    ELSE VerifyProvenance(a.provenance, a.manifest, policy)

(* Mutant: a matched publisher is enough without the SBOM.                 *)
EvidenceTrustWithoutSbom(a, gates, check) ==
    CASE a.provenance = NONE \/ ~check.ok -> Local
      [] check.publisher = NONE -> Attested
      [] OTHER -> AtLeast(Attested, PublisherOf(gates.policy, check.publisher).trust)

(* What the evidence earns: nothing without provenance, the publisher's    *)
(* trust only with an SBOM and a matched publisher.                        *)
EvidenceTrust(a, gates, check) ==
    CASE a.provenance = NONE \/ ~check.ok -> Local
      [] check.publisher = NONE \/ a.sbom = NONE \/ ~SbomOk(a, gates) -> Attested
      [] OTHER -> AtLeast(Attested, PublisherOf(gates.policy, check.publisher).trust)

(* `ost artifact verify`: the builder is matched only when provenance is   *)
(* required.                                                               *)
VerifyStored(a, gates) ==
    LET check == ProvenanceCheck(a, gates, IF gates.provenance THEN gates.policy ELSE NONE)
        trust == AtLeast(a.trust, EvidenceTrust(a, gates, check)) IN
    [passed |-> SbomOk(a, gates) /\ check.ok /\ trust >= Required(gates), trust |-> trust]

(* verify_dist, before anything is imported: the builder is matched when   *)
(* the required trust needs it too.                                        *)
VerifyFetched(a, gates) ==
    LET policy == IF gates.provenance \/ Required(gates) > Attested THEN gates.policy ELSE NONE
        check == ProvenanceCheck(a, gates, policy)
        trust == IF a.provenance = NONE THEN a.trust ELSE EvidenceTrust(a, gates, check) IN
    [passed |-> SbomOk(a, gates) /\ check.ok /\ trust >= Required(gates), trust |-> trust]

-----------------------------------------------------------------------------
(* What the decisions promise, for one input each.                         *)

(* The evidence that may be beside a manifest: its own, that of another    *)
(* manifest, both provenances in one file, or none.                        *)
Sboms == {GenerateEvidence(m).sbom : m \in Manifests} \cup {NONE}
Provenances ==
    LET own == {GenerateEvidence(m).provenance : m \in Manifests} \ {NONE} IN
    own \cup {p \o q : p, q \in own} \cup {NONE}
Fetched == [manifest : Manifests, trust : {Local}, sbom : Sboms, provenance : Provenances]
ValidGates == {g \in AllGates : g.policy = NONE \/ ValidPolicy(g.policy)}

Binds(m, n) ==
    LET e == GenerateEvidence(m) IN
    /\ VerifySbom(e.sbom, m.digest, DependenciesOf(m))
    /\ m.build # NONE => VerifyProvenance(e.provenance, m, NONE).ok
    /\ (m.build # NONE /\ VerifyProvenance(e.provenance, n, NONE).ok)
        => /\ n.digest = m.digest /\ n.build.source = m.build.source
           /\ n.kind = ComposedKind => n.runtime = m.runtime
    /\ VerifySbom(e.sbom, n.digest, DependenciesOf(n)) /\ n.digest # m.digest
        => \E d \in DependenciesOf(m) : d.archive = n.digest

Earned(a, g, r) ==
    r.passed /\ r.trust > Attested =>
        /\ a.sbom # NONE /\ a.manifest.digest \in a.sbom.subjects
        /\ \E i \in DOMAIN a.provenance, j \in DOMAIN g.policy.publishers :
            /\ a.manifest.digest \in a.provenance[i].subjects
            /\ a.provenance[i].source = a.manifest.build.source
            /\ PublisherMatches(g.policy.publishers[j], a.provenance[i].identity)
            /\ g.policy.publishers[j].trust = r.trust

Agree(g, pulled, stored) ==
    /\ stored.passed => pulled.passed
    /\ (pulled.passed /\ (g.provenance \/ Required(g) <= Attested)) => stored.passed
    /\ (pulled.passed /\ stored.passed) => pulled.trust = stored.trust

(* The namespace n of the policy is the innermost around a destination.    *)
Innermost(policy, n, d) ==
    /\ NamespaceContains(n.namespace, d)
    /\ \A j \in DOMAIN policy.protected :
        NamespaceContains(policy.protected[j].namespace, d) => IsPrefix(policy.protected[j].namespace, n.namespace)
Authorized(policy, d, claims, now) ==
    \A i \in DOMAIN policy.protected :
        LET n == policy.protected[i] IN
        Innermost(policy, n, d) =>
            /\ claims.issuer = "github" /\ now - 60 <= claims.exp
            /\ claims.identity.repository = claims.workflowRepository
            /\ \E k \in DOMAIN n.allowed : LET p == PublisherOf(policy, n.allowed[k]) IN
                PublisherMatches(p, claims.identity) /\ p.trust >= n.minimum
=============================================================================
