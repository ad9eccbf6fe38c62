------------------------- MODULE MCExposureMonitor -------------------------
(* Small instances of the public exposure monitor.                         *)
EXTENDS ExposureMonitor

Interchangeable == Permutations(Runs)
OthersInterchangeable == Permutations(Gists \ Matching)

\* Bound: one gist is revised, any of them.
OneRevised == Cardinality({g \in Gists : version[g] > 1}) <= 1
=============================================================================
