--------------------------- MODULE MCArtifactStore ---------------------------
(* Instances of ArtifactStore: the producer outputs that are imported. *)
EXTENDS ArtifactStore, TLC

CONSTANTS p1, p2, p3, a, b, s1, s2, k1, u1, dbg1, dbg2

ThreeProcs == {p1, p2, p3}
TwoDigests == {a, b}

Ident(source, deps, usd) ==
  [f \in Field |-> CASE f = "source" -> source [] f = "deps" -> deps [] OTHER -> usd]
Manifest(build, ident, debug) == [build |-> build, ident |-> ident, debug |-> debug]
Sbom(build, deps) == [build |-> build, deps |-> deps]
Prov(build, source) == [build |-> build, source |-> source]

\* The same archive from a producer that records nothing, from one that records
\* everything and attests it, and from a later build of it.
Bare == [digest |-> a, manifest |-> Manifest(0, Ident(None, None, None), None),
         sbom |-> None, prov |-> None]
Attested == [digest |-> a, manifest |-> Manifest(1, Ident(s1, k1, None), dbg1),
             sbom |-> Sbom(1, k1), prov |-> Prov(1, s1)]
Rebuilt == [digest |-> a, manifest |-> Manifest(2, Ident(s1, k1, None), dbg1),
            sbom |-> Sbom(2, k1), prov |-> Prov(2, s1)]
OtherSource == [digest |-> a, manifest |-> Manifest(3, Ident(s2, None, None), None),
                sbom |-> None, prov |-> Prov(3, s2)]
SbomOnly == [digest |-> a, manifest |-> Manifest(4, Ident(None, k1, None), None),
             sbom |-> Sbom(4, k1), prov |-> None]
Verified == [digest |-> a, manifest |-> Manifest(5, Ident(None, None, u1), None),
             sbom |-> None, prov |-> None]
OtherDebug == [digest |-> a, manifest |-> Manifest(6, Ident(s1, k1, None), dbg2),
               sbom |-> Sbom(6, k1), prov |-> Prov(6, s1)]
SbomDebug == [digest |-> a, manifest |-> Manifest(8, Ident(None, k1, None), dbg1),
              sbom |-> Sbom(8, k1), prov |-> None]
Second == [digest |-> b, manifest |-> Manifest(7, Ident(s1, None, None), None),
           sbom |-> None, prov |-> Prov(7, s1)]

AllDists == {Bare, Attested, Rebuilt, OtherSource, SbomOnly, OtherDebug, SbomDebug, Verified,
             Second}
Documented == (0..8) \cup {s1, s2, k1, u1, dbg1, dbg2}
AllOps == {"import", "remove", "export"}
Symmetry == Permutations(Proc)
=============================================================================
