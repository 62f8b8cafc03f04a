----------------------------- MODULE MCLibrary -----------------------------
(* Instances of Library for TLC. *)
EXTENDS Library

CONSTANTS a1, a2

OnceAuto == <<Automatic>>
TwoApps == {a1, a2}
=============================================================================
