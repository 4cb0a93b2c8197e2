----------------------------- MODULE MCPreload -----------------------------
(* Instances of Preload for TLC.                                           *)
EXTENDS Preload, TLC

CONSTANTS t1, t2, t3, p1, p2, p3

ThreeThreads == {t1, t2, t3}
ThreeProcs == {p1, p2, p3}
Interchangeable == Permutations(ThreeThreads) \cup Permutations(ThreeProcs)

TwoThreads == {t1, t2}
TwoProcs == {p1, p2}
=============================================================================
