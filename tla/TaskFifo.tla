------------------------------ MODULE TaskFifo ------------------------------
(***************************************************************************)
(* What MultiProducerSingleConsumerQueue (src/src/utils/mpscq.cc) promises *)
(* its users: a FIFO whose push has two visible halves.  The first half    *)
(* (the exchange of newest_) fixes the position of the node; the second    *)
(* (the store to prev->next) makes it reachable.  A consumer that arrives  *)
(* between the two may be told that the queue is empty.                    *)
(*                                                                         *)
(* MpscQueue implements this specification; TaskDrain uses it.             *)
(***************************************************************************)
EXTENDS Sequences

CONSTANT Nodes

VARIABLES
  fifo,    \* the nodes pushed and not yet popped, oldest first
  linking  \* the nodes of fifo whose push has not linked them yet

fifoVars == <<fifo, linking>>

Init ==
  /\ fifo = <<>>
  /\ linking = {}

PushExchange(n) ==
  /\ fifo' = Append(fifo, n)
  /\ linking' = linking \cup {n}

PushLink(n) ==
  /\ n \in linking
  /\ linking' = linking \ {n}
  /\ UNCHANGED fifo

\* PopAndCheckEnd returns nullptr with *empty = true.
MayReportEmpty == fifo # <<>> => Head(fifo) \in linking

Pop(n) ==
  /\ fifo # <<>>
  /\ n = Head(fifo)
  /\ n \notin linking
  /\ fifo' = Tail(fifo)
  /\ UNCHANGED linking

Next ==
  \E n \in Nodes :
    \/ /\ \A i \in DOMAIN fifo : fifo[i] # n
       /\ PushExchange(n)
    \/ PushLink(n)
    \/ Pop(n)

Spec == Init /\ [][Next]_fifoVars
=============================================================================
