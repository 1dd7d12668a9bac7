-------------------------------- MODULE MCCi ---------------------------------
(* Two matrices for the runs: main raises its trust and adds a release.       *)
EXTENDS CiRuns, CiFixtures

Evidenced(m) == [manifest |-> m, trust |-> Local, sbom |-> GenerateEvidence(m).sbom, provenance |-> GenerateEvidence(m).provenance]
MCContents ==
    "o1" :> Evidenced(RtNightly) @@ "o2" :> Evidenced(RtRelease) @@ "o3" :> [Evidenced(RtRelease) EXCEPT !.sbom = NONE]
MCBuilt ==
    "a" :> Evidenced(Man("pa", "plugin", BuildBy(ReleaseId, {}))) @@ "b" :> Evidenced(Man("pb", "plugin", BuildBy(ReleaseId, {})))
Raised == [Source EXCEPT !.trust = Verified, !.remote = Remote("o2")]
Released ==
    [Releasing EXCEPT !.cells = <<Raised, [Candidate("a") EXCEPT !.runner = "own"], Candidate("b")>>, !.trust.pr = Verified]
(* After the last run has started nothing reads the repository again, and     *)
(* nothing but the matrix the run checked out, which it keeps, shows it.      *)
StillRead ==
    <<IF Open THEN <<ciFile, files, rendering, pending>> ELSE <<>>,
      runs, jobs, cache, registry, staged, destination, publisher>>
MCCiMatrices == <<With(<<Source, [Main EXCEPT !.remote = Remote("o3")], Support>>), Released>>
=============================================================================
