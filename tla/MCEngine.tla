------------------------------ MODULE MCEngine ------------------------------
(* Instances of Engine for TLC: every command line the scripts use.        *)
EXTENDS Engine

AllModes == {{"benchmark"}, {"bypass"}, {"spdk", "bypass"}}
=============================================================================
