----------------------------- MODULE MCBlobFetch -----------------------------
(* Instances of BlobFetch: two layers, pulled in one order. *)
EXTENDS BlobFetch

CONSTANTS p1, p2, a, b

TwoProcs == {p1, p2}
TwoDigests == {a, b}

\* A layer of two pieces, and an empty one.
Pieces == [d \in Digest |-> IF d = a THEN 2 ELSE 0]
PullBoth == {<<a>>, <<a, b>>, <<b, a>>}
=============================================================================
