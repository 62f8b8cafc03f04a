---------------------------- MODULE MCTaskDrain ----------------------------
(* Instances of TaskDrain for TLC. *)
EXTENDS TaskDrain, TLC

CONSTANTS w, a, b, k1, k2

AllThreads == {w, a, b}
OnlyOwner == {a}
OwnerOrSibling == {a, w}
TwoTasks == {k1, k2}
=============================================================================
