----------------------------- MODULE MCIorRing ------------------------------
(* Instances of IorRing for TLC.                                           *)
EXTENDS IorRing

CONSTANTS t1, t2, p1, p2, p3

TwoProducers == {t1, t2}
ThreePayloads == {p1, p2, p3}
=============================================================================
