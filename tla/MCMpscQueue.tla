---------------------------- MODULE MCMpscQueue ----------------------------
(* Instances of MpscQueue for TLC. *)
EXTENDS MpscQueue

CONSTANTS p1, p2, p3, n1, n2, n3

ThreeProducers == {p1, p2, p3}
ThreeNodes == {n1, n2, n3}
=============================================================================
