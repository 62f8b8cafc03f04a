----------------------------- MODULE MCPollLoop -----------------------------
(* Instances of PollLoop for TLC. *)
EXTENDS PollLoop

CONSTANTS c1, c2

TwoConnectors == {c1, c2}
AllBackends == {"epoll", "kqueue", "iocp"}
OneToFour == 1 .. 4
=============================================================================
