------------------------- MODULE MCClientLifecycle -------------------------
(* Instances of ClientLifecycle for TLC. *)
EXTENDS ClientLifecycle

CONSTANTS w, a, b

TwoCallers == {a, b}
=============================================================================
