----------------------------- MODULE MpscQueue -----------------------------
(***************************************************************************)
(* MultiProducerSingleConsumerQueue (src/src/utils/mpscq.cc): an intrusive *)
(* list of nodes with a stub.  One action is one access to a shared        *)
(* pointer (newest_ or the next of a node); oldest_ belongs to the         *)
(* consumer.  The consumer deletes what it pops, and a producer may get    *)
(* the same address again for its next node.                               *)
(***************************************************************************)
EXTENDS Naturals, Sequences, FiniteSets

CONSTANTS Producers, Nodes, Stub, Null

ASSUME NodesAssumption ==
  /\ Stub \notin Nodes
  /\ Null \notin Nodes \cup {Stub}
  /\ IsFiniteSet(Nodes)

VARIABLES
  newest, oldest, next,
  push, node, prev,  \* per producer: push
  pop,               \* PopAndCheckEnd
  stubPrev,          \* prev of the push(&stub_) it makes
  free               \* nodes that do not exist: never allocated or deleted

vars == <<newest, oldest, next, push, node, prev, pop, stubPrev, free>>
producerVars == <<push, node, prev>>

Links == Nodes \cup {Stub}
Pointers == Links \cup {Null}

PopPc == {"idle", "empty", "reload", "newest", "stubReset", "stubExchange", "stubLink",
          "last"}

Init ==
  /\ newest = Stub
  /\ oldest = Stub
  /\ next = [n \in Links |-> Null]
  /\ push = [p \in Producers |-> "idle"]
  /\ node = [p \in Producers |-> Null]
  /\ prev = [p \in Producers |-> Null]
  /\ pop = "idle"
  /\ stubPrev = Null
  /\ free = Nodes

-----------------------------------------------------------------------------
(* push *)

\* node->next.Store(nullptr) of a new node
PushReset(p, n) ==
  /\ push[p] = "idle"
  /\ n \in free
  /\ free' = free \ {n}
  /\ next' = [next EXCEPT ![n] = Null]
  /\ node' = [node EXCEPT ![p] = n]
  /\ push' = [push EXCEPT ![p] = "reset"]
  /\ UNCHANGED <<newest, oldest, prev, pop, stubPrev>>

PushExchange(p) ==
  /\ push[p] = "reset"
  /\ prev' = [prev EXCEPT ![p] = newest]
  /\ newest' = node[p]
  /\ push' = [push EXCEPT ![p] = "exchanged"]
  /\ UNCHANGED <<oldest, next, node, pop, stubPrev, free>>

PushLink(p) ==
  /\ push[p] = "exchanged"
  /\ next' = [next EXCEPT ![prev[p]] = node[p]]
  /\ push' = [push EXCEPT ![p] = "idle"]
  /\ node' = [node EXCEPT ![p] = Null]
  /\ prev' = [prev EXCEPT ![p] = Null]
  /\ UNCHANGED <<newest, oldest, pop, stubPrev, free>>

-----------------------------------------------------------------------------
(* PopAndCheckEnd *)

\* The caller gets the oldest node and deletes it.
ReturnOldest ==
  /\ next[oldest] # Null
  /\ oldest' = next[oldest]
  /\ free' = free \cup {oldest}
  /\ pop' = "idle"

\* Mutant: the oldest node is returned although nothing follows it.
PopFirstUnchecked ==
  /\ pop \in {"idle", "empty"}
  /\ IF oldest = Stub
       THEN IF next[Stub] = Null
              THEN pop' = "empty" /\ UNCHANGED <<oldest, free>>
              ELSE oldest' = next[Stub] /\ pop' = "reload" /\ UNCHANGED free
       ELSE /\ oldest' = IF next[oldest] = Null THEN Stub ELSE next[oldest]
            /\ free' = free \cup {oldest}
            /\ pop' = "idle"
  /\ UNCHANGED <<newest, next, producerVars, stubPrev>>

\* The first load of oldest_->next.
PopFirst ==
  /\ pop \in {"idle", "empty"}
  /\ \/ /\ oldest = Stub
        /\ next[Stub] = Null
        /\ pop' = "empty"
        /\ UNCHANGED <<oldest, free>>
     \/ /\ oldest = Stub
        /\ next[Stub] # Null
        /\ oldest' = next[Stub]
        /\ pop' = "reload"
        /\ UNCHANGED free
     \/ /\ oldest # Stub
        /\ \/ ReturnOldest
           \/ next[oldest] = Null /\ pop' = "newest" /\ UNCHANGED <<oldest, free>>
  /\ UNCHANGED <<newest, next, producerVars, stubPrev>>

\* The second load, after the stub has been skipped.
PopReload ==
  /\ pop = "reload"
  /\ \/ ReturnOldest
     \/ next[oldest] = Null /\ pop' = "newest" /\ UNCHANGED <<oldest, free>>
  /\ UNCHANGED <<newest, next, producerVars, stubPrev>>

\* Mutant: the stub is pushed without a look at newest_.
PopNewestUnchecked ==
  /\ pop = "newest"
  /\ pop' = "stubReset"
  /\ UNCHANGED <<newest, oldest, next, producerVars, stubPrev, free>>

\* Mutant: the last element is always taken for one behind which a producer adds.
PopNewestWaits ==
  /\ pop = "newest"
  /\ pop' = "idle"
  /\ UNCHANGED <<newest, oldest, next, producerVars, stubPrev, free>>

\* A producer is still adding: nullptr with *empty = false.
PopNewest ==
  /\ pop = "newest"
  /\ pop' = IF newest = oldest THEN "stubReset" ELSE "idle"
  /\ UNCHANGED <<newest, oldest, next, producerVars, stubPrev, free>>

\* push(&stub_)
PopStubReset ==
  /\ pop = "stubReset"
  /\ next' = [next EXCEPT ![Stub] = Null]
  /\ pop' = "stubExchange"
  /\ UNCHANGED <<newest, oldest, producerVars, stubPrev, free>>

PopStubExchange ==
  /\ pop = "stubExchange"
  /\ stubPrev' = newest
  /\ newest' = Stub
  /\ pop' = "stubLink"
  /\ UNCHANGED <<oldest, next, producerVars, free>>

PopStubLink ==
  /\ pop = "stubLink"
  /\ next' = [next EXCEPT ![stubPrev] = Stub]
  /\ stubPrev' = Null
  /\ pop' = "last"
  /\ UNCHANGED <<newest, oldest, producerVars, free>>

\* Mutant: reports the end of the list although a producer is still adding.
PopLastSaysEmpty ==
  /\ pop = "last"
  /\ \/ ReturnOldest
     \/ next[oldest] = Null /\ pop' = "empty" /\ UNCHANGED <<oldest, free>>
  /\ UNCHANGED <<newest, next, producerVars, stubPrev>>

\* The last load of tail->next.
PopLast ==
  /\ pop = "last"
  /\ \/ ReturnOldest
     \/ next[oldest] = Null /\ pop' = "idle" /\ UNCHANGED <<oldest, free>>
  /\ UNCHANGED <<newest, next, producerVars, stubPrev>>

PopAndCheckEnd ==
  \/ PopFirst
  \/ PopReload
  \/ PopNewest
  \/ PopStubReset
  \/ PopStubExchange
  \/ PopStubLink
  \/ PopLast

-----------------------------------------------------------------------------
Next ==
  \/ \E p \in Producers :
       \/ \E n \in Nodes : PushReset(p, n)
       \/ PushExchange(p)
       \/ PushLink(p)
  \/ PopAndCheckEnd

Spec == Init /\ [][Next]_vars

\* A push that has begun is finished, and the consumer calls PopAndCheckEnd
\* again and again, as PopAvailableTaskNode and PopTask do.
Fairness ==
  /\ \A p \in Producers : WF_vars(PushExchange(p) \/ PushLink(p))
  /\ WF_vars(PopAndCheckEnd)

FairSpec == Spec /\ Fairness

-----------------------------------------------------------------------------
(* Properties *)

\* The link that follows n in the list: the one its next points to, or the one
\* whose push has taken n as prev and has not stored it there yet.
Follows(n) ==
  LET pending == {p \in Producers : push[p] = "exchanged" /\ prev[p] = n} IN
  IF n = newest \/ n = Null THEN Null
  ELSE IF pending # {} THEN node[CHOOSE p \in pending : TRUE]
  ELSE IF pop = "stubLink" /\ stubPrev = n THEN Stub
  ELSE next[n]

\* The links met on the way from oldest_, then Null for good.
Walk[i \in 0 .. Cardinality(Nodes)] == IF i = 0 THEN oldest ELSE Follows(Walk[i - 1])

\* The list from oldest_ to newest_.
List == [i \in 1 .. Cardinality({j \in DOMAIN Walk : Walk[j] # Null}) |-> Walk[i - 1]]

\* The nodes of a list: all of it but the stub.
WithoutStub(l) ==
  LET at == CHOOSE j \in DOMAIN l : l[j] = Stub IN
  IF \E j \in DOMAIN l : l[j] = Stub
    THEN [i \in 1 .. Len(l) - 1 |-> IF i < at THEN l[i] ELSE l[i + 1]]
    ELSE l

\* The queue is a FIFO: nodes come out in the order of their exchanges, each
\* once, and none is lost or made up, whatever the producers have half done.
Fifo == INSTANCE TaskFifo WITH
  fifo <- WithoutStub(List),
  linking <- {node[p] : p \in {q \in Producers : push[q] = "exchanged"}}

ImplementsTaskFifo == Fifo!Spec

\* When everything that was pushed has been popped the list is the stub alone,
\* which ~MultiProducerSingleConsumerQueue asserts, and the next push returns
\* true (prev == &stub_), by which WorkerPool wakes its worker.
EmptyMeansStub ==
  WithoutStub(List) = <<>> => newest = Stub /\ oldest = Stub

\* PopAndCheckEnd reports an empty queue only when no node is reachable: there
\* is none, or the oldest is still being linked, and then by a push that will
\* return true, on which WorkerPool relies to be woken for it.  A queue that was
\* emptied is as it was in the beginning.
EmptyIsTrue ==
  /\ []EmptyMeansStub
  /\ [][PopAndCheckEnd /\ pop' = "empty" =>
          /\ Fifo!MayReportEmpty
          /\ \A p \in Producers :
               push[p] = "exchanged" /\ List[1] = Stub /\ Len(List) > 1 /\ node[p] = List[2] =>
                 prev[p] = Stub]_vars

\* No pointer that push or PopAndCheckEnd will still follow or write through is
\* to a node that was popped, and so deleted.
NoDanglingPointer ==
  /\ oldest \notin free /\ newest \notin free /\ stubPrev \notin free
  /\ \A p \in Producers : node[p] \notin free /\ prev[p] \notin free

\* Every node that was pushed is popped: no interleaving leaves the consumer
\* retrying for ever or blind to a node.
PushedIsPopped == \A n \in Nodes : n \notin free ~> n \in free
=============================================================================
