---------------------------- MODULE MCSessionIo ----------------------------
(* Instances of SessionIo for TLC. *)
EXTENDS SessionIo

CONSTANT s1

OneSender == {s1}
AllBackends == {"epoll", "kqueue", "iocp"}
InputBound == [b \in AllBackends |-> IF b = "iocp" THEN 4 ELSE 5]
=============================================================================
