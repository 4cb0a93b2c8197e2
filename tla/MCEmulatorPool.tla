--------------------------- MODULE MCEmulatorPool ---------------------------
(* Instances of EmulatorPool for TLC.                                      *)
EXTENDS EmulatorPool, TLC

CONSTANTS t1, t2, t3, t4

FourThreads == {t1, t2, t3, t4}
ThreeThreads == {t1, t2, t3}

=============================================================================
