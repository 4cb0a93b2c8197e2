------------------------------ MODULE MCFakeFd ------------------------------
(* Instances of FakeFd for TLC.  The threads are interchangeable: no       *)
(* action or invariant orders them.                                        *)
EXTENDS FakeFd, TLC

CONSTANTS t1, t2, t3

ThreeThreads == {t1, t2, t3}
Offsets == {-2, 1}

ThreadSymmetry == Permutations(Threads)
=============================================================================
