------------------------------- MODULE MCSqCq -------------------------------
(* Instances of SqCq for TLC; the bounds are in the cfg files.             *)
EXTENDS SqCq
=============================================================================
