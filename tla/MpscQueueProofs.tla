-------------------------- MODULE MpscQueueProofs --------------------------
(***************************************************************************)
(* The lock-free queue, for any producers and any finite set of nodes: it  *)
(* is the FIFO that TaskFifo promises, no pointer in use is to a deleted   *)
(* node, and it reports to be empty only when it may.                      *)
(*                                                                         *)
(* The argument is one about a sequence l of links: it leads from oldest_  *)
(* to newest_, and each link of it is stored in the next of the one before *)
(* or is about to be, by the push that has the two in its node and prev.   *)
(* A step appends to l, takes its first element, or leaves it alone.       *)
(***************************************************************************)
EXTENDS MpscQueue, TLAPS

PushPc == {"idle", "reset", "exchanged"}

\* Types, and what each place of push and PopAndCheckEnd knows of its locals.
TypeInv ==
  /\ newest \in Links /\ oldest \in Links
  /\ next \in [Links -> Pointers]
  /\ push \in [Producers -> PushPc]
  /\ node \in [Producers -> Nodes \cup {Null}]
  /\ prev \in [Producers -> Pointers]
  /\ pop \in PopPc
  /\ stubPrev \in Pointers
  /\ free \subseteq Nodes

LocalInv ==
  /\ \A p \in Producers : push[p] = "idle" => node[p] = Null
  /\ \A p \in Producers : push[p] # "idle" => node[p] \in Nodes \ free
  /\ \A p \in Producers : push[p] = "reset" => next[node[p]] = Null
  /\ \A p \in Producers : push[p] # "exchanged" => prev[p] = Null
  /\ \A p, q \in Producers : push[p] # "idle" /\ push[q] # "idle" /\ node[p] = node[q] => p = q
  /\ pop # "stubLink" => stubPrev = Null
  /\ pop = "stubExchange" => next[Stub] = Null
  /\ pop \notin {"idle", "empty"} => oldest # Stub

\* l leads from oldest_ to newest_, behind which nothing comes.
Path(l) ==
  /\ l \in Seq(Links) /\ Len(l) > 0
  /\ l[1] = oldest /\ l[Len(l)] = newest /\ next[newest] = Null
  /\ \A i, j \in 1 .. Len(l) : l[i] = l[j] => i = j

\* A link of l points to the following one, or somebody is about to make it do so.
Linked(l) ==
  \A i \in 1 .. Len(l) - 1 :
    \/ next[l[i]] = l[i + 1]
    \/ /\ next[l[i]] = Null
       /\ \/ \E p \in Producers : push[p] = "exchanged" /\ prev[p] = l[i] /\ node[p] = l[i + 1]
          \/ pop = "stubLink" /\ stubPrev = l[i] /\ l[i + 1] = Stub

\* What a push has between exchange and store: two neighbours of l not linked yet.
PushInv(l) ==
  \A p \in Producers : push[p] = "exchanged" =>
    \E i \in 1 .. Len(l) - 1 : prev[p] = l[i] /\ node[p] = l[i + 1] /\ next[l[i]] = Null

\* The same for the push of the stub.
StubInv(l) ==
  pop = "stubLink" =>
    \E i \in 1 .. Len(l) - 1 : stubPrev = l[i] /\ l[i + 1] = Stub /\ next[l[i]] = Null

\* Nothing in l was deleted, is about to be pushed, or is the stub to be pushed.
Apart(l) ==
  /\ \A i \in 1 .. Len(l) : l[i] \notin free
  /\ \A p \in Producers : push[p] = "reset" => \A i \in 1 .. Len(l) : l[i] # node[p]
  /\ pop \in {"stubReset", "stubExchange"} => \A i \in 1 .. Len(l) : l[i] # Stub

ListInv(l) == Path(l) /\ Linked(l) /\ PushInv(l) /\ StubInv(l) /\ Apart(l)

IndInv == TypeInv /\ LocalInv /\ \E l \in Seq(Links) : ListInv(l)

-----------------------------------------------------------------------------
(* The list. *)

\* The constructor makes a list of the stub alone.
LEMMA ListInit == Init => TypeInv /\ LocalInv /\ ListInv(<<Stub>>)
<1> SUFFICES ASSUME Init PROVE TypeInv /\ LocalInv /\ ListInv(<<Stub>>)
  BY Zenon
<1> USE NodesAssumption DEF Init
<1>1. TypeInv
  BY Zenon DEF TypeInv, Links, Pointers, PushPc, PopPc
<1>2. LocalInv
  BY Zenon DEF LocalInv
<1>3. ListInv(<<Stub>>)
  <2>1. <<Stub>> \in Seq(Links) /\ Len(<<Stub>>) = 1 /\ <<Stub>>[1] = Stub
    BY DEF Links
  <2> QED
    BY <2>1 DEF ListInv, Path, Linked, PushInv, StubInv, Apart, Links
<1> QED
  BY <1>1, <1>2, <1>3, Zenon

\* Append(l, n) is l with n behind it.
LEMMA AppendIs ==
  ASSUME NEW l \in Seq(Links), NEW n \in Links
  PROVE  /\ Append(l, n) \in Seq(Links) /\ Len(Append(l, n)) = Len(l) + 1
         /\ \A i \in 1 .. Len(l) : Append(l, n)[i] = l[i]
         /\ Append(l, n)[Len(l) + 1] = n
  OBVIOUS

\* Tail(l) is l without its first link.
LEMMA TailIs ==
  ASSUME NEW l \in Seq(Links), Len(l) > 0
  PROVE  /\ Tail(l) \in Seq(Links) /\ Len(Tail(l)) = Len(l) - 1
         /\ \A i \in 1 .. Len(l) - 1 : Tail(l)[i] = l[i + 1]
  OBVIOUS

\* A step that touches neither the pointers of the list nor a pending link keeps it.
LEMMA SameList ==
  ASSUME NEW l \in Seq(Links), ListInv(l),
         newest' = newest, oldest' = oldest, stubPrev' = stubPrev, prev' = prev, free' \subseteq free,
         \A i \in 1 .. Len(l) : next'[l[i]] = next[l[i]],
         \A q \in Producers : push'[q] = "exchanged" <=> push[q] = "exchanged",
         \A q \in Producers : push[q] = "exchanged" => node'[q] = node[q],
         \A q \in Producers : push'[q] = "reset" => \A i \in 1 .. Len(l) : l[i] # node'[q],
         pop' = "stubLink" <=> pop = "stubLink",
         pop' \in {"stubReset", "stubExchange"} => \A i \in 1 .. Len(l) : l[i] # Stub
  PROVE  ListInv(l)'
<1>1. Len(l) \in Nat /\ Len(l) > 0
  BY DEF ListInv, Path
<1>2. \A i \in 1 .. Len(l) - 1 : next'[l[i]] = next[l[i]]
  BY <1>1
<1>3. next'[newest'] = Null
  BY <1>1 DEF ListInv, Path
<1>4. Path(l)'
  BY <1>3, Zenon DEF ListInv, Path
<1>5. Linked(l)'
  BY <1>2 DEF ListInv, Linked
<1>6. PushInv(l)'
  BY <1>2 DEF ListInv, PushInv
<1>7. StubInv(l)'
  BY <1>2, Zenon DEF ListInv, StubInv
<1>8. Apart(l)'
  BY Zenon DEF ListInv, Apart
<1> QED
  BY <1>4, <1>5, <1>6, <1>7, <1>8, Zenon DEF ListInv

\* A new node is not in the list.
LEMMA ResetStep ==
  ASSUME TypeInv, LocalInv, NEW l \in Seq(Links), ListInv(l),
         NEW p \in Producers, NEW n \in Nodes, PushReset(p, n)
  PROVE  TypeInv' /\ LocalInv' /\ ListInv(l)'
<1> USE NodesAssumption
<1>1. /\ push[p] = "idle" /\ push' = [push EXCEPT ![p] = "reset"]
      /\ n \in free /\ free' = free \ {n}
      /\ next' = [next EXCEPT ![n] = Null] /\ node' = [node EXCEPT ![p] = n]
      /\ UNCHANGED <<newest, oldest, prev, pop, stubPrev>>
  BY Zenon DEF PushReset
<1>2. TypeInv'
  BY <1>1, Zenon DEF TypeInv, PushPc, Links, Pointers
<1>3. \A q \in Producers : q # p => push'[q] = push[q] /\ node'[q] = node[q]
  BY <1>1, Zenon DEF TypeInv
<1>4. push'[p] = "reset" /\ node'[p] = n /\ next'[n] = Null
  BY <1>1, Zenon DEF TypeInv, Links
<1>5. \A m \in Links : m # n => next'[m] = next[m]
  BY <1>1, Zenon DEF TypeInv
<1>6. \A q \in Producers : push[q] # "idle" => node[q] # n /\ node[q] \in Links
  BY <1>1, Zenon DEF LocalInv, Links
<1>7. LocalInv'
  <2>1. \A q \in Producers : push'[q] = "reset" => next'[node'[q]] = Null
    BY <1>3, <1>4, <1>5, <1>6 DEF LocalInv
  <2>2. \A q \in Producers : push'[q] # "idle" => node'[q] \in Nodes \ free'
    BY <1>1, <1>3, <1>4 DEF LocalInv
  <2>3. \A q, r \in Producers : push'[q] # "idle" /\ push'[r] # "idle" /\ node'[q] = node'[r] => q = r
    BY <1>3, <1>4, <1>6 DEF LocalInv
  <2>4. pop' = "stubExchange" => next'[Stub] = Null
    BY <1>1, <1>5, Zenon DEF LocalInv, Links
  <2> QED
    BY <1>1, <1>3, <1>4, <2>1, <2>2, <2>3, <2>4 DEF LocalInv
<1>8. n \in free
  BY <1>1, Zenon
<1>9. \A i \in 1 .. Len(l) : l[i] # n
  BY <1>8, Zenon DEF ListInv, Apart
<1>10. \A i \in 1 .. Len(l) : next'[l[i]] = next[l[i]]
  BY <1>5, <1>9
<1>11. \A q \in Producers : push'[q] = "reset" => \A i \in 1 .. Len(l) : l[i] # node'[q]
  BY <1>3, <1>4, <1>9 DEF ListInv, Apart
<1>12. \A q \in Producers : push'[q] = "exchanged" <=> push[q] = "exchanged"
  BY <1>1, <1>3, <1>4, Zenon
<1>13. \A q \in Producers : push[q] = "exchanged" => node'[q] = node[q]
  BY <1>1, <1>3, Zenon
<1>14. newest' = newest /\ oldest' = oldest /\ prev' = prev /\ pop' = pop /\ stubPrev' = stubPrev
       /\ free' \subseteq free
  BY <1>1, Zenon
<1>15. pop \in {"stubReset", "stubExchange"} => \A i \in 1 .. Len(l) : l[i] # Stub
  BY Zenon DEF ListInv, Apart
<1>16. ListInv(l)'
  BY <1>10, <1>11, <1>12, <1>13, <1>14, <1>15, SameList, Zenon
<1> QED
  BY <1>2, <1>7, <1>16, Zenon

\* The exchange of newest_ puts the node at the end of the list; its link is pending.
LEMMA ExchangeStep ==
  ASSUME TypeInv, LocalInv, NEW l \in Seq(Links), ListInv(l),
         NEW p \in Producers, PushExchange(p),
         NEW n, n = node[p], NEW m, m = Append(l, n)
  PROVE  TypeInv' /\ LocalInv' /\ ListInv(m)'
<1> USE NodesAssumption
<1>1. /\ push[p] = "reset" /\ push' = [push EXCEPT ![p] = "exchanged"]
      /\ prev' = [prev EXCEPT ![p] = newest] /\ newest' = n
      /\ UNCHANGED <<oldest, next, node, pop, stubPrev, free>>
  BY Zenon DEF PushExchange
<1>2. n \in Nodes /\ n \in Links /\ next[n] = Null /\ n \notin free
  BY <1>1, Zenon DEF LocalInv, Links
<1>3. \A i \in 1 .. Len(l) : l[i] # n
  BY <1>1, Zenon DEF ListInv, Apart
<1>4. TypeInv'
  BY <1>1, <1>2, Zenon DEF TypeInv, PushPc, Links, Pointers
<1>5. \A q \in Producers : q # p => push'[q] = push[q] /\ prev'[q] = prev[q]
  BY <1>1, Zenon DEF TypeInv
<1>6. push'[p] = "exchanged" /\ prev'[p] = newest
  BY <1>1, Zenon DEF TypeInv
<1>7. LocalInv'
  BY <1>1, <1>5, <1>6 DEF LocalInv
<1>8. Len(l) \in Nat /\ Len(l) > 0
  BY DEF ListInv, Path
<1>9. /\ m \in Seq(Links) /\ Len(m) = Len(l) + 1
      /\ \A i \in 1 .. Len(l) : m[i] = l[i]
      /\ m[Len(l) + 1] = n
  BY <1>2, AppendIs
<1>10. /\ \A i \in 1 .. Len(m) - 1 : i = Len(l) \/ i \in 1 .. Len(l) - 1
       /\ \A i \in 1 .. Len(l) - 1 : i \in 1 .. Len(m) - 1 /\ m[i] = l[i] /\ m[i + 1] = l[i + 1]
       /\ Len(l) \in 1 .. Len(m) - 1 /\ m[Len(l)] = newest /\ m[Len(l) + 1] = n
       /\ \A i \in 1 .. Len(m) : i = Len(m) \/ i \in 1 .. Len(l)
  <2>1. m[Len(l)] = newest
    BY <1>8, <1>9 DEF ListInv, Path
  <2> QED
    BY <1>8, <1>9, <2>1
<1>11. Path(m)'
  <2>1. m[1] = oldest /\ m[Len(m)] = n
    BY <1>8, <1>9 DEF ListInv, Path
  <2>2. \A i, j \in 1 .. Len(m) : m[i] = m[j] => i = j
    BY <1>3, <1>8, <1>9 DEF ListInv, Path
  <2> QED
    BY <1>1, <1>2, <1>8, <1>9, <2>1, <2>2 DEF Path
<1>12. next[newest] = Null
  BY Zenon DEF ListInv, Path
<1>13. Linked(m)'
  <2> SUFFICES ASSUME NEW i \in 1 .. Len(m) - 1
               PROVE  \/ next[m[i]] = m[i + 1]
                      \/ /\ next[m[i]] = Null
                         /\ \/ \E q \in Producers : push'[q] = "exchanged" /\ prev'[q] = m[i] /\ node[q] = m[i + 1]
                            \/ pop = "stubLink" /\ stubPrev = m[i] /\ m[i + 1] = Stub
    BY <1>1 DEF Linked
  <2>1. CASE i = Len(l)
    BY <1>6, <1>10, <1>12, <2>1
  <2>2. CASE i \in 1 .. Len(l) - 1
    <3>1. \A q \in Producers : push[q] = "exchanged" => push'[q] = "exchanged" /\ prev'[q] = prev[q]
      BY <1>1, <1>5, Zenon
    <3> QED
      BY <1>10, <2>2, <3>1 DEF ListInv, Linked
  <2> QED
    BY <1>10, <2>1, <2>2, Zenon
<1>14. PushInv(m)'
  <2> SUFFICES ASSUME NEW q \in Producers, push'[q] = "exchanged"
               PROVE  \E i \in 1 .. Len(m) - 1 : prev'[q] = m[i] /\ node[q] = m[i + 1] /\ next[m[i]] = Null
    BY <1>1 DEF PushInv
  <2>1. CASE q = p
    BY <1>6, <1>10, <1>12, <2>1, SMTT(30)
  <2>2. CASE q # p
    <3>1. push[q] = "exchanged" /\ prev'[q] = prev[q]
      BY <1>5, <2>2, Zenon
    <3>2. PICK i \in 1 .. Len(l) - 1 : prev[q] = l[i] /\ node[q] = l[i + 1] /\ next[l[i]] = Null
      BY <3>1, Zenon DEF ListInv, PushInv
    <3> QED
      BY <1>10, <3>1, <3>2
  <2> QED
    BY <2>1, <2>2, Zenon
<1>15. StubInv(m)'
  <2> SUFFICES ASSUME pop = "stubLink"
               PROVE  \E i \in 1 .. Len(m) - 1 : stubPrev = m[i] /\ m[i + 1] = Stub /\ next[m[i]] = Null
    BY <1>1, Zenon DEF StubInv
  <2>1. PICK i \in 1 .. Len(l) - 1 : stubPrev = l[i] /\ l[i + 1] = Stub /\ next[l[i]] = Null
    BY Zenon DEF ListInv, StubInv
  <2> QED
    BY <1>10, <2>1, Zenon
<1>16. Apart(m)'
  <2>1. \A i \in 1 .. Len(m) : m[i] \notin free /\ (m[i] = n \/ \E j \in 1 .. Len(l) : m[i] = l[j])
    BY <1>2, <1>8, <1>9, <1>10, Zenon DEF ListInv, Apart
  <2>2. \A q \in Producers : push'[q] = "reset" => q # p /\ push[q] = "reset" /\ node[q] # n
    BY <1>1, <1>5, <1>6, Zenon DEF LocalInv
  <2>3. \A q \in Producers : push'[q] = "reset" => \A i \in 1 .. Len(m) : m[i] # node[q]
    BY <2>1, <2>2 DEF ListInv, Apart
  <2>4. pop \in {"stubReset", "stubExchange"} => \A i \in 1 .. Len(m) : m[i] # Stub
    BY <1>2, <2>1 DEF ListInv, Apart
  <2> QED
    BY <1>1, <2>1, <2>3, <2>4, Zenon DEF Apart
<1>17. ListInv(m)'
  BY <1>11, <1>13, <1>14, <1>15, <1>16, Zenon DEF ListInv
<1> QED
  BY <1>4, <1>7, <1>17, Zenon

\* The store to prev->next makes one pending link of the list real.
LEMMA LinkStep ==
  ASSUME TypeInv, LocalInv, NEW l \in Seq(Links), ListInv(l),
         NEW p \in Producers, PushLink(p)
  PROVE  TypeInv' /\ LocalInv' /\ ListInv(l)'
<1> USE NodesAssumption
<1>1. /\ push[p] = "exchanged" /\ push' = [push EXCEPT ![p] = "idle"]
      /\ next' = [next EXCEPT ![prev[p]] = node[p]]
      /\ node' = [node EXCEPT ![p] = Null] /\ prev' = [prev EXCEPT ![p] = Null]
      /\ UNCHANGED <<newest, oldest, pop, stubPrev, free>>
  BY Zenon DEF PushLink
<1>2. PICK k \in 1 .. Len(l) - 1 : prev[p] = l[k] /\ node[p] = l[k + 1] /\ next[l[k]] = Null
  BY <1>1, Zenon DEF ListInv, PushInv
<1>3. Len(l) \in Nat /\ k \in 1 .. Len(l) /\ k + 1 \in 1 .. Len(l) /\ l[k] \in Links /\ l[k + 1] \in Links
  BY <1>2
<1>4. node[p] \in Nodes
  BY <1>1, Zenon DEF LocalInv
<1>5. TypeInv'
  BY <1>1, <1>2, <1>3, <1>4, Zenon DEF TypeInv, PushPc, Links, Pointers
<1>6. \A q \in Producers : q # p => push'[q] = push[q] /\ node'[q] = node[q] /\ prev'[q] = prev[q]
  BY <1>1, Zenon DEF TypeInv
<1>7. push'[p] = "idle" /\ node'[p] = Null /\ prev'[p] = Null
  BY <1>1, Zenon DEF TypeInv
<1>8. \A m \in Links : next'[m] = IF m = l[k] THEN l[k + 1] ELSE next[m]
  BY <1>1, <1>2, <1>3, Zenon DEF TypeInv
<1>9. \A i \in 1 .. Len(l) : next'[l[i]] = IF i = k THEN l[k + 1] ELSE next[l[i]]
  BY <1>3, <1>8 DEF ListInv, Path
<1>10. LocalInv'
  <2>1. ASSUME NEW q \in Producers, push'[q] = "reset" PROVE next'[node'[q]] = Null
    <3>1. q # p /\ push[q] = "reset" /\ node'[q] = node[q]
      BY <1>6, <1>7, <2>1, Zenon
    <3>2. node[q] # l[k] /\ node[q] \in Links /\ next[node[q]] = Null
      BY <1>3, <3>1, Zenon DEF ListInv, Apart, LocalInv, Links
    <3> QED
      BY <1>8, <3>1, <3>2, Zenon
  <2>2. pop' = "stubExchange" => next'[Stub] = Null
    <3>1. pop = "stubExchange" => l[k] # Stub
      BY <1>3, Zenon DEF ListInv, Apart
    <3> QED
      BY <1>1, <1>8, <3>1, Zenon DEF LocalInv, Links
  <2>3. /\ \A q \in Producers : push'[q] = "idle" => node'[q] = Null
        /\ \A q \in Producers : push'[q] # "idle" => node'[q] \in Nodes \ free'
        /\ \A q \in Producers : push'[q] # "exchanged" => prev'[q] = Null
    BY <1>1, <1>6, <1>7 DEF LocalInv
  <2>4. \A q, r \in Producers : push'[q] # "idle" /\ push'[r] # "idle" /\ node'[q] = node'[r] => q = r
    BY <1>6, <1>7 DEF LocalInv
  <2> QED
    BY <1>1, <2>1, <2>2, <2>3, <2>4, Zenon DEF LocalInv
<1>11. Path(l)'
  <2>1. next'[newest] = Null
    BY <1>2, <1>3, <1>9 DEF ListInv, Path
  <2> QED
    BY <1>1, <2>1, Zenon DEF ListInv, Path
<1>12. Linked(l)'
  <2> SUFFICES ASSUME NEW i \in 1 .. Len(l) - 1
               PROVE  \/ next'[l[i]] = l[i + 1]
                      \/ /\ next'[l[i]] = Null
                         /\ \/ \E q \in Producers :
                                 push'[q] = "exchanged" /\ prev'[q] = l[i] /\ node'[q] = l[i + 1]
                            \/ pop = "stubLink" /\ stubPrev = l[i] /\ l[i + 1] = Stub
    BY <1>1, Zenon DEF Linked
  <2>1. i \in 1 .. Len(l)
    BY <1>3
  <2>2. CASE i = k
    BY <1>9, <2>1, <2>2, Zenon
  <2>3. CASE i # k
    <3>1. l[i] # l[k] /\ next'[l[i]] = next[l[i]]
      BY <1>3, <1>9, <2>1, <2>3, Zenon DEF ListInv, Path
    <3>2. \A q \in Producers : push[q] = "exchanged" /\ prev[q] = l[i] =>
            push'[q] = "exchanged" /\ prev'[q] = prev[q] /\ node'[q] = node[q]
      BY <1>2, <1>6, <3>1, Zenon
    <3> QED
      BY <3>1, <3>2 DEF ListInv, Linked
  <2> QED
    BY <2>2, <2>3, Zenon
<1>13. PushInv(l)'
  <2> SUFFICES ASSUME NEW q \in Producers, push'[q] = "exchanged"
               PROVE  \E i \in 1 .. Len(l) - 1 : prev'[q] = l[i] /\ node'[q] = l[i + 1] /\ next'[l[i]] = Null
    BY Zenon DEF PushInv
  <2>1. q # p /\ push[q] = "exchanged" /\ prev'[q] = prev[q] /\ node'[q] = node[q]
    BY <1>6, <1>7, Zenon
  <2>2. PICK i \in 1 .. Len(l) - 1 : prev[q] = l[i] /\ node[q] = l[i + 1] /\ next[l[i]] = Null
    BY <2>1, Zenon DEF ListInv, PushInv
  <2>3. i # k
    BY <1>1, <1>2, <2>1, <2>2 DEF LocalInv
  <2>4. next'[l[i]] = Null
    BY <1>3, <1>9, <2>2, <2>3, SMTT(30)
  <2> QED
    BY <2>1, <2>2, <2>4, Zenon
<1>14. StubInv(l)'
  <2> SUFFICES ASSUME pop = "stubLink"
               PROVE  \E i \in 1 .. Len(l) - 1 : stubPrev = l[i] /\ l[i + 1] = Stub /\ next'[l[i]] = Null
    BY <1>1, Zenon DEF StubInv
  <2>1. PICK i \in 1 .. Len(l) - 1 : stubPrev = l[i] /\ l[i + 1] = Stub /\ next[l[i]] = Null
    BY ZenonT(40) DEF ListInv, StubInv
  <2>2. i # k
    BY <1>2, <1>4, <2>1, Zenon
  <2>3. next'[l[i]] = Null
    BY <1>3, <1>9, <2>1, <2>2
  <2> QED
    BY <2>1, <2>3, Zenon
<1>15. Apart(l)'
  BY <1>1, <1>6, <1>7 DEF ListInv, Apart
<1>16. ListInv(l)'
  BY <1>11, <1>12, <1>13, <1>14, <1>15, Zenon DEF ListInv
<1> QED
  BY <1>5, <1>10, <1>16, Zenon

\* The consumer that finds a next in the oldest link moves on to it: this is the
\* second link of the list, and nobody has a pending link at the first.
LEMMA TailStep ==
  ASSUME TypeInv, LocalInv, NEW l \in Seq(Links), ListInv(l),
         next[oldest] # Null, oldest' = next[oldest],
         pop \notin {"stubReset", "stubExchange", "stubLink"}, pop' \in {"idle", "reload"},
         free' \subseteq free \cup {oldest},
         UNCHANGED <<newest, next, push, node, prev, stubPrev>>
  PROVE  Len(l) > 1 /\ oldest' = l[2] /\ ListInv(Tail(l))'
<1> USE NodesAssumption
<1>1. Len(l) \in Nat /\ Len(l) > 0 /\ l[1] = oldest /\ l[Len(l)] = newest /\ next[newest] = Null
  BY DEF ListInv, Path
<1>2. Len(l) > 1
  BY <1>1
<1>3. 1 \in 1 .. Len(l) - 1
  BY <1>1, <1>2
<1>4. oldest' = l[2]
  BY <1>1, <1>3 DEF ListInv, Linked
<1> DEFINE m == Tail(l)
<1>5. /\ m \in Seq(Links) /\ Len(m) = Len(l) - 1
      /\ \A i \in 1 .. Len(l) - 1 : m[i] = l[i + 1]
  BY <1>1, TailIs, Zenon
<1> HIDE DEF m
<1>6. /\ \A i \in 1 .. Len(m) : i + 1 \in 1 .. Len(l) /\ m[i] = l[i + 1]
      /\ \A i \in 1 .. Len(m) - 1 : i + 1 \in 1 .. Len(l) - 1 /\ m[i] = l[i + 1] /\ m[i + 1] = l[i + 1 + 1]
      /\ \A i \in 1 .. Len(l) - 1 : i # 1 => /\ i - 1 \in 1 .. Len(m) - 1
                                            /\ m[i - 1] = l[i] /\ m[i - 1 + 1] = l[i + 1]
  BY <1>1, <1>5
<1>7. Path(m)'
  <2>1. m[1] = l[2] /\ m[Len(m)] = newest /\ Len(m) > 0
    BY <1>1, <1>2, <1>5
  <2>2. \A i, j \in 1 .. Len(m) : m[i] = m[j] => i = j
    <3> SUFFICES ASSUME NEW i \in 1 .. Len(m), NEW j \in 1 .. Len(m), m[i] = m[j] PROVE i = j
      BY Zenon
    <3>1. i + 1 = j + 1
      BY <1>6 DEF ListInv, Path
    <3> QED
      BY <1>5, <3>1
  <2> QED
    BY <1>1, <1>4, <1>5, <2>1, <2>2, Zenon DEF Path
<1>8. Linked(m)'
  <2> SUFFICES ASSUME NEW i \in 1 .. Len(m) - 1
               PROVE  \/ next[m[i]] = m[i + 1]
                      \/ /\ next[m[i]] = Null
                         /\ \E q \in Producers : push[q] = "exchanged" /\ prev[q] = m[i] /\ node[q] = m[i + 1]
    BY Zenon DEF Linked
  <2> QED
    BY <1>6 DEF ListInv, Linked
<1>9. PushInv(m)'
  <2> SUFFICES ASSUME NEW q \in Producers, push[q] = "exchanged"
               PROVE  \E i \in 1 .. Len(m) - 1 : prev[q] = m[i] /\ node[q] = m[i + 1] /\ next[m[i]] = Null
    BY ZenonT(40) DEF PushInv
  <2>1. PICK i \in 1 .. Len(l) - 1 : prev[q] = l[i] /\ node[q] = l[i + 1] /\ next[l[i]] = Null
    BY Zenon DEF ListInv, PushInv
  <2>2. i # 1
    BY <1>1, <2>1, Zenon
  <2>3. /\ i - 1 \in 1 .. Len(m) - 1
        /\ m[i - 1] = l[i] /\ m[i - 1 + 1] = l[i + 1]
    BY <1>6, <2>2, Zenon
  <2>4. prev[q] = m[i - 1] /\ node[q] = m[i - 1 + 1] /\ next[m[i - 1]] = Null
    BY <2>1, <2>3, Zenon
  <2> QED
    BY <2>3, <2>4, Zenon
<1>10. StubInv(m)'
  BY Zenon DEF StubInv
<1>11. Apart(m)'
  <2>1. \A i \in 1 .. Len(m) : m[i] # oldest
    <3> SUFFICES ASSUME NEW i \in 1 .. Len(m), m[i] = oldest PROVE FALSE
      BY Zenon
    <3>1. i + 1 \in 1 .. Len(l) /\ 1 \in 1 .. Len(l) /\ l[i + 1] = l[1]
      BY <1>1, <1>6
    <3>2. i + 1 = 1
      BY <3>1, Zenon DEF ListInv, Path
    <3> QED
      BY <1>5, <3>2
  <2>2. \A i \in 1 .. Len(m) : m[i] \notin free'
    BY <1>6, <2>1 DEF ListInv, Apart
  <2>3. \A q \in Producers : push[q] = "reset" => \A i \in 1 .. Len(m) : m[i] # node[q]
    BY <1>6 DEF ListInv, Apart
  <2> QED
    BY <2>2, <2>3, Zenon DEF Apart
<1>12. ListInv(m)'
  BY <1>7, <1>8, <1>9, <1>10, <1>11, Zenon DEF ListInv
<1> QED
  BY <1>2, <1>4, <1>12, Zenon DEF m

\* The same for the push of the stub: its exchange appends the stub.
LEMMA StubExchangeStep ==
  ASSUME TypeInv, LocalInv, NEW l \in Seq(Links), ListInv(l), PopStubExchange,
         NEW m, m = Append(l, Stub)
  PROVE  TypeInv' /\ LocalInv' /\ ListInv(m)'
<1> USE NodesAssumption
<1>1. /\ pop = "stubExchange" /\ pop' = "stubLink"
      /\ stubPrev' = newest /\ newest' = Stub
      /\ UNCHANGED <<oldest, next, push, node, prev, free>>
  BY Zenon DEF PopStubExchange, producerVars
<1>2. Stub \in Links /\ next[Stub] = Null /\ Stub \notin free /\ \A i \in 1 .. Len(l) : l[i] # Stub
  BY <1>1, Zenon DEF TypeInv, LocalInv, ListInv, Apart, Links
<1>3. TypeInv'
  BY <1>1, <1>2, Zenon DEF TypeInv, Pointers, PopPc
<1>4. LocalInv'
  BY <1>1, Zenon DEF LocalInv
<1>5. Len(l) \in Nat /\ Len(l) > 0 /\ next[newest] = Null
  BY DEF ListInv, Path
<1>6. /\ m \in Seq(Links) /\ Len(m) = Len(l) + 1
      /\ \A i \in 1 .. Len(l) : m[i] = l[i]
      /\ m[Len(l) + 1] = Stub
  BY <1>2, AppendIs
<1>7. /\ \A i \in 1 .. Len(m) - 1 : i = Len(l) \/ i \in 1 .. Len(l) - 1
      /\ \A i \in 1 .. Len(l) - 1 : i \in 1 .. Len(m) - 1 /\ m[i] = l[i] /\ m[i + 1] = l[i + 1]
      /\ Len(l) \in 1 .. Len(m) - 1 /\ m[Len(l)] = newest /\ m[Len(l) + 1] = Stub
      /\ \A i \in 1 .. Len(m) : i = Len(m) \/ i \in 1 .. Len(l)
  <2>1. m[Len(l)] = newest
    BY <1>5, <1>6 DEF ListInv, Path
  <2> QED
    BY <1>5, <1>6, <2>1
<1>8. Path(m)'
  <2>1. m[1] = oldest /\ m[Len(m)] = Stub
    BY <1>5, <1>6 DEF ListInv, Path
  <2>2. \A i, j \in 1 .. Len(m) : m[i] = m[j] => i = j
    BY <1>2, <1>5, <1>6 DEF ListInv, Path
  <2> QED
    BY <1>1, <1>2, <1>5, <1>6, <2>1, <2>2 DEF Path
<1>9. Linked(m)'
  <2> SUFFICES ASSUME NEW i \in 1 .. Len(m) - 1
               PROVE  \/ next[m[i]] = m[i + 1]
                      \/ /\ next[m[i]] = Null
                         /\ \/ \E q \in Producers : push[q] = "exchanged" /\ prev[q] = m[i] /\ node[q] = m[i + 1]
                            \/ newest = m[i] /\ m[i + 1] = Stub
    BY <1>1, Zenon DEF Linked
  <2>1. CASE i = Len(l)
    BY <1>5, <1>7, <2>1, Zenon
  <2>2. CASE i \in 1 .. Len(l) - 1
    BY <1>1, <1>7, <2>2 DEF ListInv, Linked
  <2> QED
    BY <1>7, <2>1, <2>2, Zenon
<1>10. PushInv(m)'
  <2> SUFFICES ASSUME NEW q \in Producers, push[q] = "exchanged"
               PROVE  \E i \in 1 .. Len(m) - 1 : prev[q] = m[i] /\ node[q] = m[i + 1] /\ next[m[i]] = Null
    BY <1>1, Zenon DEF PushInv
  <2>1. PICK i \in 1 .. Len(l) - 1 : prev[q] = l[i] /\ node[q] = l[i + 1] /\ next[l[i]] = Null
    BY Zenon DEF ListInv, PushInv
  <2> QED
    BY <1>7, <2>1, Zenon
<1>11. StubInv(m)'
  BY <1>1, <1>5, <1>7, Zenon DEF StubInv
<1>12. Apart(m)'
  <2>1. \A i \in 1 .. Len(m) : m[i] \notin free
    BY <1>2, <1>6, <1>7 DEF ListInv, Apart
  <2>2. \A q \in Producers : push[q] = "reset" => node[q] \in Nodes
    BY Zenon DEF LocalInv
  <2>3. \A q \in Producers : push[q] = "reset" => \A i \in 1 .. Len(m) : m[i] # node[q]
    BY <1>6, <1>7, <2>2 DEF ListInv, Apart
  <2> QED
    BY <1>1, <2>1, <2>3, Zenon DEF Apart
<1>13. ListInv(m)'
  BY <1>8, <1>9, <1>10, <1>11, <1>12, Zenon DEF ListInv
<1> QED
  BY <1>3, <1>4, <1>13, Zenon

\* Its store makes the pending link to the stub real.
LEMMA StubLinkStep ==
  ASSUME TypeInv, LocalInv, NEW l \in Seq(Links), ListInv(l), PopStubLink
  PROVE  TypeInv' /\ LocalInv' /\ ListInv(l)'
<1> USE NodesAssumption
<1>1. /\ pop = "stubLink" /\ pop' = "last" /\ next' = [next EXCEPT ![stubPrev] = Stub] /\ stubPrev' = Null
      /\ UNCHANGED <<newest, oldest, push, node, prev, free>>
  BY Zenon DEF PopStubLink, producerVars
<1>2. PICK k \in 1 .. Len(l) - 1 : stubPrev = l[k] /\ l[k + 1] = Stub /\ next[l[k]] = Null
  BY <1>1, Zenon DEF ListInv, StubInv
<1>3. Len(l) \in Nat /\ k \in 1 .. Len(l) /\ k + 1 \in 1 .. Len(l) /\ l[k] \in Links /\ l[k + 1] \in Links
  BY <1>2
<1>4. TypeInv'
  BY <1>1, <1>2, <1>3, Zenon DEF TypeInv, Links, Pointers, PopPc
<1>5. \A m \in Links : next'[m] = IF m = l[k] THEN l[k + 1] ELSE next[m]
  BY <1>1, <1>2, <1>3, Zenon DEF TypeInv
<1>6. \A i \in 1 .. Len(l) : next'[l[i]] = IF i = k THEN l[k + 1] ELSE next[l[i]]
  BY <1>3, <1>5 DEF ListInv, Path
<1>7. LocalInv'
  <2>1. ASSUME NEW q \in Producers, push[q] = "reset" PROVE next'[node[q]] = Null
    <3>1. node[q] # l[k] /\ node[q] \in Links /\ next[node[q]] = Null
      BY <1>3, <2>1, Zenon DEF ListInv, Apart, LocalInv, Links
    <3> QED
      BY <1>5, <3>1, Zenon
  <2> QED
    BY <1>1, <2>1, Zenon DEF LocalInv
<1>8. Path(l)'
  <2>1. next'[newest] = Null
    BY <1>2, <1>3, <1>6 DEF ListInv, Path
  <2> QED
    BY <1>1, <2>1, Zenon DEF ListInv, Path
<1>9. Linked(l)'
  <2> SUFFICES ASSUME NEW i \in 1 .. Len(l) - 1
               PROVE  \/ next'[l[i]] = l[i + 1]
                      \/ /\ next'[l[i]] = Null
                         /\ \E q \in Producers : push[q] = "exchanged" /\ prev[q] = l[i] /\ node[q] = l[i + 1]
    BY <1>1, Zenon DEF Linked
  <2>1. i \in 1 .. Len(l)
    BY <1>3
  <2>2. CASE i = k
    BY <1>6, <2>1, <2>2, Zenon
  <2>3. CASE i # k
    <3>1. l[i] # l[k] /\ next'[l[i]] = next[l[i]]
      BY <1>3, <1>6, <2>1, <2>3, Zenon DEF ListInv, Path
    <3> QED
      BY <1>2, <3>1, Zenon DEF ListInv, Linked
  <2> QED
    BY <2>2, <2>3, Zenon
<1>10. PushInv(l)'
  <2> SUFFICES ASSUME NEW q \in Producers, push[q] = "exchanged"
               PROVE  \E i \in 1 .. Len(l) - 1 : prev[q] = l[i] /\ node[q] = l[i + 1] /\ next'[l[i]] = Null
    BY <1>1, Zenon DEF PushInv
  <2>1. PICK i \in 1 .. Len(l) - 1 : prev[q] = l[i] /\ node[q] = l[i + 1] /\ next[l[i]] = Null
    BY Zenon DEF ListInv, PushInv
  <2>2. node[q] # Stub
    BY Zenon DEF LocalInv
  <2>3. i # k
    BY <1>2, <2>1, <2>2, Zenon
  <2>4. next'[l[i]] = Null
    BY <1>3, <1>6, <2>1, <2>3
  <2> QED
    BY <2>1, <2>4, Zenon
<1>11. StubInv(l)' /\ Apart(l)'
  BY <1>1, Zenon DEF ListInv, StubInv, Apart
<1>12. ListInv(l)'
  BY <1>8, <1>9, <1>10, <1>11, Zenon DEF ListInv
<1> QED
  BY <1>4, <1>7, <1>12, Zenon

-----------------------------------------------------------------------------
(* The steps, by what they do to the list. *)

\* PopAndCheckEnd skips the stub, and the rest of the list remains.
SkipStub ==
  /\ pop \in {"idle", "empty"} /\ oldest = Stub /\ next[Stub] # Null
  /\ oldest' = next[Stub] /\ pop' = "reload"
  /\ UNCHANGED <<newest, next, producerVars, stubPrev, free>>

\* PopAndCheckEnd returns the oldest node.
TakeOldest ==
  /\ pop \in {"idle", "empty", "reload", "last"} /\ oldest # Stub
  /\ ReturnOldest
  /\ UNCHANGED <<newest, next, producerVars, stubPrev>>

\* PopAndCheckEnd goes on, or gives up, or prepares the stub to be pushed.
Quiet ==
  /\ \/ pop \in {"idle", "empty"} /\ oldest = Stub /\ next[Stub] = Null /\ pop' = "empty"
     \/ pop \in {"idle", "empty", "reload"} /\ oldest # Stub /\ pop' = "newest"
     \/ pop = "last" /\ pop' = "idle"
     \/ pop = "newest" /\ pop' = IF newest = oldest THEN "stubReset" ELSE "idle"
  /\ UNCHANGED <<newest, oldest, next, producerVars, stubPrev, free>>

\* Every step of PopAndCheckEnd is one of these, or one of the push of the stub.
LEMMA PopIs ==
  ASSUME LocalInv, PopAndCheckEnd
  PROVE  \/ SkipStub \/ TakeOldest \/ Quiet
         \/ PopStubReset \/ PopStubExchange \/ PopStubLink
<1>1. CASE PopFirst
  BY <1>1, Zenon DEF PopFirst, SkipStub, TakeOldest, Quiet
<1>2. CASE PopReload
  BY <1>2, Zenon DEF PopReload, LocalInv, TakeOldest, Quiet
<1>3. CASE PopNewest
  BY <1>3, Zenon DEF PopNewest, Quiet
<1>4. CASE PopLast
  BY <1>4, Zenon DEF PopLast, LocalInv, TakeOldest, Quiet
<1> QED
  BY <1>1, <1>2, <1>3, <1>4, Zenon DEF PopAndCheckEnd

\* The stub is skipped.
LEMMA SkipStep ==
  ASSUME TypeInv, LocalInv, NEW l \in Seq(Links), ListInv(l), SkipStub
  PROVE  /\ TypeInv' /\ LocalInv' /\ ListInv(Tail(l))'
         /\ Len(l) > 1 /\ l[1] = Stub
<1> USE NodesAssumption
<1>1. /\ pop \in {"idle", "empty"} /\ oldest = Stub /\ next[Stub] # Null /\ oldest' = next[Stub] /\ pop' = "reload"
      /\ UNCHANGED <<newest, next, push, node, prev, stubPrev, free>>
  BY Zenon DEF SkipStub, producerVars
<1>2. Len(l) > 1 /\ oldest' = l[2] /\ ListInv(Tail(l))'
  BY <1>1, TailStep, Zenon
<1>3. l[1] = Stub /\ Len(l) \in Nat
  <2>1. l[1] = oldest
    BY Zenon DEF ListInv, Path
  <2> QED  BY <1>1, <2>1
<1>4. l[2] # Stub /\ l[2] \in Links
  BY <1>2, <1>3 DEF ListInv, Path
<1>5. TypeInv'
  BY <1>1, <1>2, <1>4, Zenon DEF TypeInv, PopPc
<1>6. LocalInv'
  BY <1>1, <1>2, <1>4, Zenon DEF LocalInv
<1> QED
  BY <1>2, <1>3, <1>5, <1>6, Zenon

\* The oldest node is returned: nobody holds it.
LEMMA TakeStep ==
  ASSUME TypeInv, LocalInv, NEW l \in Seq(Links), ListInv(l), TakeOldest
  PROVE  /\ TypeInv' /\ LocalInv' /\ ListInv(Tail(l))'
         /\ Len(l) > 1 /\ l[1] = oldest
         /\ \A q \in Producers : node[q] # oldest
<1> USE NodesAssumption
<1>1. /\ pop \in {"idle", "empty", "reload", "last"} /\ oldest # Stub /\ next[oldest] # Null
      /\ oldest' = next[oldest] /\ pop' = "idle" /\ free' = free \cup {oldest}
      /\ UNCHANGED <<newest, next, push, node, prev, stubPrev>>
  BY Zenon DEF TakeOldest, ReturnOldest, producerVars
<1>2. Len(l) > 1 /\ oldest' = l[2] /\ ListInv(Tail(l))'
  BY <1>1, TailStep, Zenon
<1>3. l[1] = oldest /\ Len(l) \in Nat
  BY DEF ListInv, Path
<1>4. l[2] \in Links /\ oldest \in Nodes
  BY <1>1, <1>2, <1>3 DEF TypeInv, Links
<1>5. TypeInv'
  BY <1>1, <1>2, <1>4, Zenon DEF TypeInv, PopPc
<1>6. ASSUME NEW q \in Producers PROVE node[q] # oldest
  <2>1. CASE push[q] = "idle"
    BY <1>4, <2>1, Zenon DEF LocalInv
  <2>2. CASE push[q] = "reset"
    BY <1>2, <1>3, <2>2 DEF ListInv, Apart
  <2>3. CASE push[q] = "exchanged"
    <3>1. PICK i \in 1 .. Len(l) - 1 : node[q] = l[i + 1]
      BY <2>3, Zenon DEF ListInv, PushInv
    <3>2. i + 1 \in 1 .. Len(l) /\ 1 \in 1 .. Len(l) /\ i + 1 # 1
      BY <1>2, <1>3
    <3> QED
      BY <1>3, <3>1, <3>2, Zenon DEF ListInv, Path
  <2> QED
    BY <2>1, <2>2, <2>3, Zenon DEF TypeInv, PushPc
<1>7. LocalInv'
  BY <1>1, <1>6, Zenon DEF LocalInv
<1> QED
  BY <1>2, <1>3, <1>5, <1>6, <1>7, Zenon

\* A quiet step keeps the list.  When newest_ is oldest_ the list is that one
\* node, so that the stub, which is about to be pushed, is not in it.
LEMMA QuietStep ==
  ASSUME TypeInv, LocalInv, NEW l \in Seq(Links), ListInv(l), Quiet
  PROVE  TypeInv' /\ LocalInv' /\ ListInv(l)'
<1>1. /\ pop \notin {"stubReset", "stubExchange", "stubLink"} /\ pop' \in PopPc \ {"stubExchange", "stubLink"}
      /\ pop' \notin {"idle", "empty"} => oldest # Stub
      /\ UNCHANGED <<newest, oldest, next, push, node, prev, stubPrev, free>>
  BY Zenon DEF Quiet, producerVars, PopPc, LocalInv
<1>2. TypeInv'
  BY <1>1, Zenon DEF TypeInv
<1>3. LocalInv'
  BY <1>1, Zenon DEF LocalInv
<1>4. pop' = "stubReset" => \A i \in 1 .. Len(l) : l[i] # Stub
  <2>1. pop' = "stubReset" => newest = oldest /\ oldest # Stub
    BY <1>1, Zenon DEF Quiet
  <2>2. Len(l) \in Nat /\ Len(l) > 0
    BY DEF ListInv, Path
  <2>3. newest = oldest => Len(l) = 1
    <3>1. 1 \in 1 .. Len(l) /\ Len(l) \in 1 .. Len(l) /\ l[1] = oldest /\ l[Len(l)] = newest
      BY <2>2 DEF ListInv, Path
    <3> QED
      BY <3>1, ZenonT(40) DEF ListInv, Path
  <2>4. l[1] = oldest /\ (Len(l) = 1 => \A i \in 1 .. Len(l) : i = 1)
    BY <2>2 DEF ListInv, Path
  <2> QED
    BY <2>1, <2>3, <2>4, Zenon
<1>5. ListInv(l)'
  BY <1>1, <1>4, SameList, Zenon DEF ListInv, Apart
<1> QED
  BY <1>2, <1>3, <1>5, Zenon

\* The stub is reset while it is not in the list.
LEMMA StubResetStep ==
  ASSUME TypeInv, LocalInv, NEW l \in Seq(Links), ListInv(l), PopStubReset
  PROVE  TypeInv' /\ LocalInv' /\ ListInv(l)'
<1> USE NodesAssumption
<1>1. /\ pop = "stubReset" /\ pop' = "stubExchange" /\ next' = [next EXCEPT ![Stub] = Null]
      /\ UNCHANGED <<newest, oldest, push, node, prev, stubPrev, free>>
  BY Zenon DEF PopStubReset, producerVars
<1>2. TypeInv'
  BY <1>1, Zenon DEF TypeInv, Links, Pointers, PopPc
<1>3. next'[Stub] = Null /\ \A m \in Links : m # Stub => next'[m] = next[m]
  BY <1>1, Zenon DEF TypeInv, Links
<1>4. LocalInv'
  BY <1>1, <1>3, Zenon DEF LocalInv, Links
<1>5. \A i \in 1 .. Len(l) : l[i] # Stub /\ l[i] \in Links
  BY <1>1 DEF ListInv, Apart
<1>6. ListInv(l)'
  BY <1>1, <1>3, <1>5, SameList, Zenon DEF ListInv, Apart
<1> QED
  BY <1>2, <1>4, <1>6, Zenon

\* What a step does to the list: a push that exchanges appends its node, and the
\* push of the stub the stub; PopAndCheckEnd takes the first link away.
ListStep(l, m) ==
  \/ \E p \in Producers : PushExchange(p) /\ m = Append(l, node[p])
  \/ \E p \in Producers : PushLink(p) /\ m = l
  \/ SkipStub /\ m = Tail(l) /\ Len(l) > 1 /\ l[1] = Stub
  \/ TakeOldest /\ m = Tail(l) /\ Len(l) > 1 /\ l[1] = oldest /\ \A q \in Producers : node[q] # oldest
  \/ PopStubExchange /\ m = Append(l, Stub)
  \/ /\ \/ \E p \in Producers, n \in Nodes : PushReset(p, n)
        \/ Quiet
        \/ PopStubReset
        \/ PopStubLink
        \/ UNCHANGED vars
     /\ m = l

\* Every step keeps the invariant, of a list that changes as ListStep says.
LEMMA StepList ==
  ASSUME TypeInv, LocalInv, NEW l \in Seq(Links), ListInv(l), [Next]_vars
  PROVE  TypeInv' /\ LocalInv' /\ \E m \in Seq(Links) : ListInv(m)' /\ ListStep(l, m)
<1>1. \A m : ListInv(m)' => m \in Seq(Links)
  BY Zenon DEF ListInv, Path
<1>2. ASSUME NEW p \in Producers, NEW n \in Nodes, PushReset(p, n)
      PROVE  TypeInv' /\ LocalInv' /\ ListInv(l)' /\ ListStep(l, l)
  BY <1>2, ResetStep, Zenon DEF ListStep
<1>3. ASSUME NEW p \in Producers, PushExchange(p)
      PROVE  TypeInv' /\ LocalInv' /\ \E m : ListInv(m)' /\ ListStep(l, m)
  <2>1. PICK m : m = Append(l, node[p])
    BY ZenonT(40)
  <2>2. TypeInv' /\ LocalInv' /\ ListInv(m)'
    BY <1>3, <2>1, ExchangeStep, ZenonT(40)
  <2> QED
    BY <1>3, <2>1, <2>2, ZenonT(40) DEF ListStep
<1>4. ASSUME NEW p \in Producers, PushLink(p)
      PROVE  TypeInv' /\ LocalInv' /\ ListInv(l)' /\ ListStep(l, l)
  BY <1>4, LinkStep, Zenon DEF ListStep
<1>5. ASSUME SkipStub PROVE TypeInv' /\ LocalInv' /\ ListInv(Tail(l))' /\ ListStep(l, Tail(l))
  BY <1>5, SkipStep, Zenon DEF ListStep
<1>6. ASSUME TakeOldest PROVE TypeInv' /\ LocalInv' /\ ListInv(Tail(l))' /\ ListStep(l, Tail(l))
  BY <1>6, TakeStep, Zenon DEF ListStep
<1>7. ASSUME Quiet PROVE TypeInv' /\ LocalInv' /\ ListInv(l)' /\ ListStep(l, l)
  BY <1>7, QuietStep, Zenon DEF ListStep
<1>8. ASSUME PopStubReset PROVE TypeInv' /\ LocalInv' /\ ListInv(l)' /\ ListStep(l, l)
  BY <1>8, StubResetStep, Zenon DEF ListStep
<1>9. ASSUME PopStubExchange PROVE TypeInv' /\ LocalInv' /\ \E m : ListInv(m)' /\ ListStep(l, m)
  <2>1. PICK m : m = Append(l, Stub)
    BY ZenonT(40)
  <2>2. TypeInv' /\ LocalInv' /\ ListInv(m)'
    BY <1>9, <2>1, StubExchangeStep, ZenonT(40)
  <2> QED
    BY <1>9, <2>1, <2>2, ZenonT(40) DEF ListStep
<1>10. ASSUME PopStubLink PROVE TypeInv' /\ LocalInv' /\ ListInv(l)' /\ ListStep(l, l)
  BY <1>10, StubLinkStep, Zenon DEF ListStep
<1>11. ASSUME UNCHANGED vars PROVE TypeInv' /\ LocalInv' /\ ListInv(l)' /\ ListStep(l, l)
  <2>1. TypeInv' /\ LocalInv'
    BY <1>11, Zenon DEF vars, TypeInv, LocalInv
  <2>2. Path(l)' /\ Linked(l)' /\ PushInv(l)' /\ StubInv(l)' /\ Apart(l)'
    BY <1>11 DEF vars, ListInv, Path, Linked, PushInv, StubInv, Apart
  <2> QED
    BY <1>11, <2>1, <2>2, Zenon DEF ListInv, ListStep
<1>12. CASE PopAndCheckEnd
  <2>1. \/ SkipStub \/ TakeOldest \/ Quiet \/ PopStubReset \/ PopStubExchange \/ PopStubLink
    BY <1>12, PopIs, Zenon
  <2> QED
    BY <1>1, <1>5, <1>6, <1>7, <1>8, <1>9, <1>10, <2>1, Zenon
<1> QED
  BY <1>1, <1>2, <1>3, <1>4, <1>11, <1>12, Zenon DEF Next

\* There is always such a list.
LEMMA Invariance == Spec => []IndInv
<1>1. Init => IndInv
  <2>1. <<Stub>> \in Seq(Links)
    BY DEF Links
  <2> QED
    BY <2>1, ListInit, ZenonT(40) DEF IndInv
<1>2. IndInv /\ [Next]_vars => IndInv'
  BY StepList, Zenon DEF IndInv
<1> QED
  BY <1>1, <1>2, PTL DEF Spec

\* MultiProducerSingleConsumerQueue never follows or writes through a pointer to
\* a node that was popped, whatever a push has half done.
THEOREM NoPointerDangles == Spec => []NoDanglingPointer
<1>1. IndInv => NoDanglingPointer
  <2> SUFFICES ASSUME IndInv PROVE NoDanglingPointer
    BY Zenon
  <2> USE NodesAssumption
  <2>1. TypeInv /\ LocalInv
    BY Zenon DEF IndInv
  <2>2. PICK l \in Seq(Links) : ListInv(l)
    BY Zenon DEF IndInv
  <2>3. Len(l) \in Nat /\ Len(l) > 0 /\ l[1] = oldest /\ l[Len(l)] = newest
    BY <2>2 DEF ListInv, Path
  <2>4. \A i \in 1 .. Len(l) : l[i] \notin free
    BY <2>2, Zenon DEF ListInv, Apart
  <2>5. Null \notin free
    BY <2>1, Zenon DEF TypeInv
  <2>6. \A i \in 1 .. Len(l) - 1 : l[i] \notin free
    BY <2>3, <2>4
  <2>7. oldest \notin free /\ newest \notin free
    BY <2>3, <2>4
  <2>8. stubPrev \notin free
    BY <2>1, <2>2, <2>5, <2>6, Zenon DEF LocalInv, ListInv, StubInv
  <2>9. ASSUME NEW p \in Producers PROVE node[p] \notin free /\ prev[p] \notin free
    BY <2>1, <2>2, <2>5, <2>6 DEF LocalInv, ListInv, PushInv
  <2> QED
    BY <2>7, <2>8, <2>9, Zenon DEF NoDanglingPointer
<1> QED
  BY <1>1, Invariance, PTL

-----------------------------------------------------------------------------
(* The nodes of a list. *)

\* A list without the stub, and one with it.
LEMMA WithoutStubIs ==
  ASSUME NEW l \in Seq(Links), \A i, j \in 1 .. Len(l) : l[i] = l[j] => i = j
  PROVE  /\ (\A i \in 1 .. Len(l) : l[i] # Stub) => WithoutStub(l) = l
         /\ \A k \in 1 .. Len(l) : l[k] = Stub =>
              WithoutStub(l) = [i \in 1 .. Len(l) - 1 |-> IF i < k THEN l[i] ELSE l[i + 1]]
<1>1. DOMAIN l = 1 .. Len(l)
  OBVIOUS
<1>2. ASSUME NEW k \in 1 .. Len(l), l[k] = Stub
      PROVE  WithoutStub(l) = [i \in 1 .. Len(l) - 1 |-> IF i < k THEN l[i] ELSE l[i + 1]]
  <2>1. (CHOOSE j \in DOMAIN l : l[j] = Stub) = k
    BY <1>1, <1>2, Zenon
  <2> QED
    BY <1>1, <1>2, <2>1, Zenon DEF WithoutStub
<1>3. ASSUME \A i \in 1 .. Len(l) : l[i] # Stub PROVE WithoutStub(l) = l
  BY <1>1, <1>3, ZenonT(40) DEF WithoutStub
<1> QED
  BY <1>2, <1>3, Zenon

\* Sequences of the same length with the same elements are one.
LEMMA SameLinks ==
  ASSUME NEW S, NEW s \in Seq(S), NEW t \in Seq(S),
         Len(s) = Len(t), \A i \in 1 .. Len(s) : s[i] = t[i]
  PROVE  s = t
  OBVIOUS

\* Its length and elements.
LEMMA WithoutStubSeq ==
  ASSUME NEW l \in Seq(Links), \A i, j \in 1 .. Len(l) : l[i] = l[j] => i = j,
         NEW k \in 1 .. Len(l), l[k] = Stub
  PROVE  /\ WithoutStub(l) \in Seq(Links) /\ Len(WithoutStub(l)) = Len(l) - 1
         /\ \A i \in 1 .. Len(l) - 1 : WithoutStub(l)[i] = IF i < k THEN l[i] ELSE l[i + 1]
<1> DEFINE w == [i \in 1 .. Len(l) - 1 |-> IF i < k THEN l[i] ELSE l[i + 1]]
<1>1. WithoutStub(l) = w
  BY WithoutStubIs, Zenon
<1>2. Len(l) - 1 \in Nat
  OBVIOUS
<1>3. \A i \in 1 .. Len(l) - 1 : w[i] \in Links
  OBVIOUS
<1>4. w \in [1 .. Len(l) - 1 -> Links]
  BY <1>3, Zenon
<1>5. w \in Seq(Links) /\ Len(w) = Len(l) - 1
  BY <1>2, <1>4
<1> QED
  BY <1>1, <1>5, Zenon

\* A node put behind the list is put behind its nodes.
LEMMA AppendNode ==
  ASSUME NEW l \in Seq(Links), \A i, j \in 1 .. Len(l) : l[i] = l[j] => i = j,
         NEW n \in Nodes, \A i \in 1 .. Len(l) : l[i] # n
  PROVE  WithoutStub(Append(l, n)) = Append(WithoutStub(l), n)
<1> DEFINE m == Append(l, n)
<1>1. n \in Links /\ n # Stub
  BY NodesAssumption, Zenon DEF Links
<1>2. /\ m \in Seq(Links) /\ Len(m) = Len(l) + 1 /\ Len(l) \in Nat
      /\ \A i \in 1 .. Len(l) : m[i] = l[i]
      /\ m[Len(l) + 1] = n
  BY <1>1, AppendIs
<1> HIDE DEF m
<1>3. \A i, j \in 1 .. Len(m) : m[i] = m[j] => i = j
  BY <1>2
<1>4. CASE \A i \in 1 .. Len(l) : l[i] # Stub
  <2>1. \A i \in 1 .. Len(m) : m[i] # Stub
    BY <1>1, <1>2, <1>4
  <2> QED
    BY <1>2, <1>3, <1>4, <2>1, WithoutStubIs, ZenonT(40) DEF m
<1>5. ASSUME NEW k \in 1 .. Len(l), l[k] = Stub PROVE WithoutStub(Append(l, n)) = Append(WithoutStub(l), n)
  <2> DEFINE w == WithoutStub(l)
  <2>1. k \in 1 .. Len(m) /\ m[k] = Stub
    BY <1>2, <1>5
  <2>2. /\ w \in Seq(Links) /\ Len(w) = Len(l) - 1
        /\ \A i \in 1 .. Len(l) - 1 : w[i] = IF i < k THEN l[i] ELSE l[i + 1]
    BY <1>5, WithoutStubSeq, Zenon
  <2>3. /\ WithoutStub(m) \in Seq(Links) /\ Len(WithoutStub(m)) = Len(m) - 1
        /\ \A i \in 1 .. Len(m) - 1 : WithoutStub(m)[i] = IF i < k THEN m[i] ELSE m[i + 1]
    BY <1>2, <1>3, <2>1, WithoutStubSeq, ZenonT(40)
  <2> HIDE DEF w
  <2>4. /\ Append(w, n) \in Seq(Links) /\ Len(Append(w, n)) = Len(w) + 1
        /\ \A i \in 1 .. Len(w) : Append(w, n)[i] = w[i]
        /\ Append(w, n)[Len(w) + 1] = n
    BY <1>1, <2>2, AppendIs, Zenon
  <2>5. \A i \in 1 .. Len(l) : WithoutStub(m)[i] = Append(w, n)[i]
    <3> SUFFICES ASSUME NEW i \in 1 .. Len(l) PROVE WithoutStub(m)[i] = Append(w, n)[i]
      BY ZenonT(40)
    <3>1. CASE i = Len(l)
      <4>1. i \in 1 .. Len(m) - 1 /\ ~(i < k) /\ i = Len(w) + 1
        BY <1>2, <2>2, <3>1
      <4>2. WithoutStub(m)[i] = m[i + 1]
        BY <2>3, <4>1, Zenon
      <4> QED
        BY <1>2, <2>4, <3>1, <4>1, <4>2, Zenon
    <3>2. CASE i # Len(l)
      <4>1. i \in 1 .. Len(l) - 1 /\ i \in 1 .. Len(m) - 1 /\ i + 1 \in 1 .. Len(l)
        BY <1>2, <3>2
      <4> QED
        BY <1>2, <2>2, <2>3, <2>4, <4>1
    <3> QED
      BY <3>1, <3>2, ZenonT(40)
  <2>6. WithoutStub(m) = Append(w, n)
    BY <1>2, <2>2, <2>3, <2>4, <2>5, SameLinks
  <2> QED
    BY <2>6, Zenon DEF m, w
<1> QED
  BY <1>4, <1>5, Zenon

\* The stub put behind the list changes nothing for its nodes.
LEMMA AppendStub ==
  ASSUME NEW l \in Seq(Links), \A i, j \in 1 .. Len(l) : l[i] = l[j] => i = j,
         \A i \in 1 .. Len(l) : l[i] # Stub
  PROVE  WithoutStub(Append(l, Stub)) = WithoutStub(l)
<1> DEFINE m == Append(l, Stub)
           k == Len(l) + 1
<1>1. Stub \in Links
  BY Zenon DEF Links
<1>2. /\ m \in Seq(Links) /\ Len(m) = Len(l) + 1 /\ Len(l) \in Nat
      /\ \A i \in 1 .. Len(l) : m[i] = l[i]
      /\ m[k] = Stub
  BY <1>1, AppendIs
<1> HIDE DEF m
<1>3. \A i, j \in 1 .. Len(m) : m[i] = m[j] => i = j
  BY <1>2
<1>4. k \in 1 .. Len(m)
  BY <1>2
<1>5. /\ WithoutStub(m) \in Seq(Links) /\ Len(WithoutStub(m)) = Len(m) - 1
      /\ \A i \in 1 .. Len(m) - 1 : WithoutStub(m)[i] = IF i < k THEN m[i] ELSE m[i + 1]
  BY <1>2, <1>3, <1>4, WithoutStubSeq, Zenon
<1>6. \A i \in 1 .. Len(l) : WithoutStub(m)[i] = l[i]
  BY <1>2, <1>5
<1>7. WithoutStub(m) = l
  BY <1>2, <1>5, <1>6, SameLinks
<1> QED
  BY <1>7, WithoutStubIs, Zenon DEF m

\* Neither does it when it is the first link and is taken away.
LEMMA TailStub ==
  ASSUME NEW l \in Seq(Links), \A i, j \in 1 .. Len(l) : l[i] = l[j] => i = j,
         Len(l) > 0, l[1] = Stub
  PROVE  WithoutStub(Tail(l)) = WithoutStub(l) /\ WithoutStub(l) = Tail(l)
<1> DEFINE m == Tail(l)
<1>1. /\ m \in Seq(Links) /\ Len(m) = Len(l) - 1 /\ Len(l) \in Nat
      /\ \A i \in 1 .. Len(l) - 1 : m[i] = l[i + 1]
  BY TailIs
<1> HIDE DEF m
<1>2. \A i \in 1 .. Len(m) : i + 1 \in 1 .. Len(l) /\ m[i] = l[i + 1] /\ i + 1 # 1
  BY <1>1
<1>3. \A i, j \in 1 .. Len(m) : m[i] = m[j] => i = j
  <2> SUFFICES ASSUME NEW i \in 1 .. Len(m), NEW j \in 1 .. Len(m), m[i] = m[j] PROVE i = j
    BY Zenon
  <2>1. i + 1 = j + 1
    BY <1>2
  <2> QED
    BY <1>1, <2>1
<1>4. \A i \in 1 .. Len(m) : m[i] # Stub
  BY <1>1, <1>2
<1>5. 1 \in 1 .. Len(l)
  BY <1>1
<1>6. /\ WithoutStub(l) \in Seq(Links) /\ Len(WithoutStub(l)) = Len(l) - 1
      /\ \A i \in 1 .. Len(l) - 1 : WithoutStub(l)[i] = IF i < 1 THEN l[i] ELSE l[i + 1]
  BY <1>5, WithoutStubSeq, Zenon
<1>7. \A i \in 1 .. Len(m) : WithoutStub(l)[i] = m[i]
  BY <1>1, <1>6
<1>8. WithoutStub(l) = m
  BY <1>1, <1>6, <1>7, SameLinks
<1> QED
  BY <1>1, <1>3, <1>4, <1>8, WithoutStubIs, ZenonT(40) DEF m

\* When the first link is a node it is the first of the nodes, and the rest are
\* the nodes of the rest.
LEMMA TailNode ==
  ASSUME NEW l \in Seq(Links), \A i, j \in 1 .. Len(l) : l[i] = l[j] => i = j,
         Len(l) > 0, l[1] # Stub
  PROVE  /\ WithoutStub(Tail(l)) = Tail(WithoutStub(l))
         /\ WithoutStub(l) # <<>> /\ Head(WithoutStub(l)) = l[1]
<1> DEFINE m == Tail(l)
<1>1. /\ m \in Seq(Links) /\ Len(m) = Len(l) - 1 /\ Len(l) \in Nat
      /\ \A i \in 1 .. Len(l) - 1 : m[i] = l[i + 1]
  BY TailIs
<1> HIDE DEF m
<1>2. \A i \in 1 .. Len(m) : i + 1 \in 1 .. Len(l) /\ m[i] = l[i + 1] /\ i + 1 # 1
  BY <1>1
<1>3. \A i, j \in 1 .. Len(m) : m[i] = m[j] => i = j
  <2> SUFFICES ASSUME NEW i \in 1 .. Len(m), NEW j \in 1 .. Len(m), m[i] = m[j] PROVE i = j
    BY Zenon
  <2>1. i + 1 = j + 1
    BY <1>2
  <2> QED
    BY <1>1, <2>1
<1>4. CASE \A i \in 1 .. Len(l) : l[i] # Stub
  <2>1. \A i \in 1 .. Len(m) : m[i] # Stub
    BY <1>2, <1>4
  <2>2. WithoutStub(l) = l /\ WithoutStub(m) = m
    BY <1>1, <1>3, <1>4, <2>1, WithoutStubIs, Zenon
  <2>3. l # <<>> /\ Head(l) = l[1]
    BY <1>1
  <2> QED
    BY <2>2, <2>3, Zenon DEF m
<1>5. ASSUME NEW k \in 1 .. Len(l), l[k] = Stub
      PROVE  /\ WithoutStub(Tail(l)) = Tail(WithoutStub(l))
             /\ WithoutStub(l) # <<>> /\ Head(WithoutStub(l)) = l[1]
  <2> DEFINE w == WithoutStub(l)
             t == Tail(w)
             v == WithoutStub(m)
  <2>1. k # 1 /\ k - 1 \in 1 .. Len(m) /\ m[k - 1] = Stub /\ Len(l) > 1
    BY <1>1, <1>5
  <2>2. /\ w \in Seq(Links) /\ Len(w) = Len(l) - 1
        /\ \A i \in 1 .. Len(l) - 1 : w[i] = IF i < k THEN l[i] ELSE l[i + 1]
    BY <1>5, WithoutStubSeq, Zenon
  <2>3. /\ v \in Seq(Links) /\ Len(v) = Len(m) - 1
        /\ \A i \in 1 .. Len(m) - 1 : v[i] = IF i < k - 1 THEN m[i] ELSE m[i + 1]
    BY <1>1, <1>3, <2>1, WithoutStubSeq, SMTT(30)
  <2> HIDE DEF w, v
  <2>4. Len(w) > 0 /\ w # <<>> /\ Head(w) = w[1] /\ w[1] = l[1]
    BY <1>1, <2>1, <2>2
  <2>5. /\ t \in Seq(Links) /\ Len(t) = Len(w) - 1
        /\ \A i \in 1 .. Len(w) - 1 : t[i] = w[i + 1]
    BY <2>2, <2>4, TailIs, Zenon
  <2> HIDE DEF t
  <2>6. ASSUME NEW i \in 1 .. Len(v) PROVE v[i] = t[i]
    <3>1. i \in 1 .. Len(m) - 1 /\ i + 1 \in 1 .. Len(l) - 1 /\ i \in 1 .. Len(w) - 1
      BY <1>1, <2>2, <2>3
    <3>2. m[i] = l[i + 1] /\ m[i + 1] = l[i + 1 + 1]
      BY <1>1, <3>1, SMTT(30)
    <3>3. i < k - 1 <=> i + 1 < k
      BY <2>3
    <3> QED
      BY <2>2, <2>3, <2>5, <3>1, <3>2, <3>3, Zenon
  <2>7. Len(v) = Len(t)
    BY <1>1, <2>2, <2>3, <2>5, Zenon
  <2>8. v = t
    BY <2>3, <2>5, <2>6, <2>7, SameLinks, Zenon
  <2> QED
    BY <2>4, <2>8, Zenon DEF m, v, t, w
<1> QED
  BY <1>4, <1>5, Zenon

\* The nodes of a list are links of it.
LEMMA NodesAreLinks ==
  ASSUME NEW l \in Seq(Links), \A i, j \in 1 .. Len(l) : l[i] = l[j] => i = j
  PROVE  \A i \in DOMAIN WithoutStub(l) : \E j \in 1 .. Len(l) : WithoutStub(l)[i] = l[j]
<1> DEFINE w == WithoutStub(l)
<1>1. CASE \A i \in 1 .. Len(l) : l[i] # Stub
  BY <1>1, WithoutStubIs
<1>2. ASSUME NEW k \in 1 .. Len(l), l[k] = Stub
      PROVE  \A i \in DOMAIN w : \E j \in 1 .. Len(l) : w[i] = l[j]
  <2>1. w = [i \in 1 .. Len(l) - 1 |-> IF i < k THEN l[i] ELSE l[i + 1]]
    BY <1>2, WithoutStubIs, Zenon
  <2> HIDE DEF w
  <2>2. \A i \in 1 .. Len(l) - 1 : i \in 1 .. Len(l) /\ i + 1 \in 1 .. Len(l)
    OBVIOUS
  <2> QED
    BY <2>1, <2>2, Zenon
<1> QED
  BY <1>1, <1>2, Zenon

-----------------------------------------------------------------------------
(* The queue is the FIFO of TaskFifo. *)

\* The nodes whose push has exchanged and not linked.
Linking == {node[p] : p \in {q \in Producers : push[q] = "exchanged"}}

\* The exchange of push is the PushExchange of the FIFO.
LEMMA ExchangeRefines ==
  ASSUME TypeInv, LocalInv, NEW l \in Seq(Links), ListInv(l), List = l,
         NEW p \in Producers, PushExchange(p), List' = Append(l, node[p])
  PROVE  Fifo!Next
<1> DEFINE n == node[p]
<1>1. /\ push[p] = "reset" /\ push' = [push EXCEPT ![p] = "exchanged"] /\ node' = node
  BY Zenon DEF PushExchange
<1>2. n \in Nodes /\ \A i \in 1 .. Len(l) : l[i] # n
  BY <1>1, Zenon DEF LocalInv, ListInv, Apart
<1>3. \A i, j \in 1 .. Len(l) : l[i] = l[j] => i = j
  BY Zenon DEF ListInv, Path
<1>4. WithoutStub(List)' = Append(WithoutStub(List), n)
  <2>1. WithoutStub(Append(l, n)) = Append(WithoutStub(l), n)
    BY <1>2, <1>3, AppendNode, Zenon
  <2>2. WithoutStub(List)' = WithoutStub(Append(l, n))
    BY Zenon DEF WithoutStub
  <2> QED
    BY <2>1, <2>2, Zenon
<1>5. \A i \in DOMAIN WithoutStub(List) : WithoutStub(List)[i] # n
  BY <1>2, <1>3, NodesAreLinks
<1>6. Linking' = Linking \cup {n}
  <2>1. \A q \in Producers : push'[q] = "exchanged" <=> q = p \/ push[q] = "exchanged"
    BY <1>1, Zenon DEF TypeInv
  <2> QED
    BY <1>1, <2>1, Zenon DEF Linking
<1> QED
  BY <1>2, <1>4, <1>5, <1>6, ZenonT(40) DEF Fifo!Next, Fifo!PushExchange, Linking

\* The store of push is its PushLink.
LEMMA LinkRefines ==
  ASSUME TypeInv, LocalInv, NEW p \in Producers, PushLink(p), List' = List
  PROVE  Fifo!Next
<1> DEFINE n == node[p]
<1>1. /\ push[p] = "exchanged" /\ push' = [push EXCEPT ![p] = "idle"]
      /\ node' = [node EXCEPT ![p] = Null]
  BY Zenon DEF PushLink
<1>2. n \in Nodes /\ n \in Linking
  BY <1>1, Zenon DEF LocalInv, Linking
<1>3. \A q \in Producers : q # p => push'[q] = push[q] /\ node'[q] = node[q]
  BY <1>1, Zenon DEF TypeInv
<1>4. push'[p] = "idle"
  BY <1>1, Zenon DEF TypeInv
<1>5. \A q \in Producers : push[q] = "exchanged" /\ node[q] = n => q = p
  BY <1>1, Zenon DEF LocalInv
<1>6. Linking' = Linking \ {n}
  <2>1. ASSUME NEW x \in Linking' PROVE x \in Linking \ {n}
    <3>1. PICK q \in Producers : push'[q] = "exchanged" /\ x = node'[q]
      BY Zenon DEF Linking
    <3>2. q # p
      BY <1>4, <3>1, Zenon
    <3> QED
      BY <1>3, <1>5, <3>1, <3>2, Zenon DEF Linking
  <2>2. ASSUME NEW x \in Linking \ {n} PROVE x \in Linking'
    <3>1. PICK q \in Producers : push[q] = "exchanged" /\ x = node[q]
      BY Zenon DEF Linking
    <3>2. q # p
      BY <2>2, <3>1, Zenon
    <3> QED
      BY <1>3, <3>1, <3>2, Zenon DEF Linking
  <2> QED
    BY <2>1, <2>2, Zenon
<1>7. WithoutStub(List)' = WithoutStub(List)
  BY Zenon DEF WithoutStub
<1> QED
  BY <1>2, <1>6, <1>7, Zenon DEF Fifo!Next, Fifo!PushLink, Linking

\* Taking the oldest node is its Pop: that node is linked.
LEMMA TakeRefines ==
  ASSUME TypeInv, NEW l \in Seq(Links), ListInv(l), List = l,
         TakeOldest, List' = Tail(l), l[1] = oldest, \A q \in Producers : node[q] # oldest
  PROVE  Fifo!Next
<1>1. oldest \in Nodes /\ oldest # Stub /\ UNCHANGED <<push, node>>
  BY Zenon DEF TypeInv, TakeOldest, Links, producerVars
<1>2. Len(l) > 0 /\ \A i, j \in 1 .. Len(l) : l[i] = l[j] => i = j
  BY Zenon DEF ListInv, Path
<1>3. /\ WithoutStub(Tail(l)) = Tail(WithoutStub(l))
      /\ WithoutStub(l) # <<>> /\ Head(WithoutStub(l)) = l[1]
  BY <1>1, <1>2, TailNode, Zenon
<1>4. WithoutStub(List)' = WithoutStub(Tail(l))
  BY Zenon DEF WithoutStub
<1>5. oldest \notin Linking /\ Linking' = Linking
  BY <1>1, Zenon DEF Linking
<1> QED
  BY <1>1, <1>3, <1>4, <1>5, Zenon DEF Fifo!Next, Fifo!Pop, Linking

\* The other steps leave the FIFO as it is.
LEMMA RestStutters ==
  ASSUME TypeInv, NEW l \in Seq(Links), ListInv(l), List = l,
         \/ SkipStub /\ List' = Tail(l) /\ Len(l) > 1 /\ l[1] = Stub
         \/ PopStubExchange /\ List' = Append(l, Stub)
         \/ /\ \/ \E p \in Producers, n \in Nodes : PushReset(p, n)
               \/ Quiet \/ PopStubReset \/ PopStubLink \/ UNCHANGED vars
            /\ List' = l
  PROVE  UNCHANGED Fifo!fifoVars
<1>1. \A i, j \in 1 .. Len(l) : l[i] = l[j] => i = j
  BY Zenon DEF ListInv, Path
<1>2. \A m : List' = m => WithoutStub(List)' = WithoutStub(m)
  BY Zenon DEF WithoutStub
<1>3. WithoutStub(List)' = WithoutStub(List)
  <2>1. CASE List' = l
    BY <1>2, <2>1, Zenon
  <2>2. CASE List' = Tail(l) /\ Len(l) > 1 /\ l[1] = Stub
    <3>1. Len(l) > 0
      BY <2>2
    <3> QED
      BY <1>1, <1>2, <2>2, <3>1, TailStub, Zenon
  <2>3. CASE PopStubExchange /\ List' = Append(l, Stub)
    <3>1. \A i \in 1 .. Len(l) : l[i] # Stub
      BY <2>3, Zenon DEF PopStubExchange, ListInv, Apart
    <3> QED
      BY <1>1, <1>2, <2>3, <3>1, AppendStub, Zenon
  <2> QED
    BY <2>1, <2>2, <2>3, Zenon
<1>4. Linking' = Linking
  <2>1. ASSUME NEW p \in Producers, NEW n \in Nodes, PushReset(p, n) PROVE Linking' = Linking
    <3>1. /\ push[p] = "idle" /\ push' = [push EXCEPT ![p] = "reset"] /\ node' = [node EXCEPT ![p] = n]
      BY <2>1, Zenon DEF PushReset
    <3>2. /\ push'[p] # "exchanged" /\ push[p] # "exchanged"
          /\ \A q \in Producers : q # p => push'[q] = push[q] /\ node'[q] = node[q]
      BY <3>1, Zenon DEF TypeInv
    <3>3. \A q \in Producers : /\ push'[q] = "exchanged" <=> push[q] = "exchanged"
                               /\ push[q] = "exchanged" => node'[q] = node[q]
      BY <3>2, Zenon
    <3> QED
      BY <3>3, Zenon DEF Linking
  <2>2. CASE UNCHANGED <<push, node>>
    BY <2>2, Zenon DEF Linking
  <2> QED
    BY <2>1, <2>2, Zenon DEF SkipStub, PopStubExchange, Quiet, PopStubReset, PopStubLink, vars, producerVars
<1> QED
  BY <1>3, <1>4, ZenonT(40) DEF Fifo!fifoVars, Linking

-----------------------------------------------------------------------------
(* The list of the invariant is the one that Walk finds. *)

\* Follows leads from each link of the list to the next one.
LEMMA FollowsIs ==
  ASSUME TypeInv, LocalInv, NEW l \in Seq(Links), ListInv(l)
  PROVE  /\ \A i \in 1 .. Len(l) - 1 : Follows(l[i]) = l[i + 1]
         /\ Follows(newest) = Null /\ Follows(Null) = Null
<1> USE NodesAssumption
<1>1. ASSUME NEW i \in 1 .. Len(l) - 1 PROVE Follows(l[i]) = l[i + 1]
  <2> DEFINE pending == {p \in Producers : push[p] = "exchanged" /\ prev[p] = l[i]}
  <2>1. Len(l) \in Nat /\ i \in 1 .. Len(l) /\ Len(l) \in 1 .. Len(l) /\ i # Len(l)
    OBVIOUS
  <2>2. l[i] # newest /\ l[i] # Null
    BY <2>1, SMTT(30) DEF ListInv, Path, Links
  <2>3. Follows(l[i]) = IF pending # {} THEN node[CHOOSE p \in pending : TRUE]
                        ELSE IF pop = "stubLink" /\ stubPrev = l[i] THEN Stub ELSE next[l[i]]
    BY <2>2, Zenon DEF Follows
  <2>4. ASSUME NEW j \in 1 .. Len(l) - 1, l[j] = l[i] PROVE j = i
    <3>1. j \in 1 .. Len(l)
      BY <2>1
    <3> QED
      BY <2>1, <2>4, <3>1, Zenon DEF ListInv, Path
  <2>5. ASSUME NEW p \in pending PROVE node[p] = l[i + 1]
    <3>1. PICK j \in 1 .. Len(l) - 1 : prev[p] = l[j] /\ node[p] = l[j + 1]
      BY Zenon DEF ListInv, PushInv
    <3>2. j = i
      BY <2>4, <3>1, Zenon
    <3> QED
      BY <3>1, <3>2, Zenon
  <2>6. CASE pending # {}
    <3>1. (CHOOSE p \in pending : TRUE) \in pending
      BY <2>6, Zenon
    <3> HIDE DEF pending
    <3> QED
      BY <2>3, <2>5, <2>6, <3>1, Zenon
  <2>7. CASE pending = {} /\ pop = "stubLink" /\ stubPrev = l[i]
    <3>1. PICK j \in 1 .. Len(l) - 1 : stubPrev = l[j] /\ l[j + 1] = Stub
      BY <2>7, Zenon DEF ListInv, StubInv
    <3>2. j = i
      BY <2>4, <2>7, <3>1, Zenon
    <3> HIDE DEF pending
    <3> QED
      BY <2>3, <2>7, <3>1, <3>2, Zenon
  <2>8. CASE pending = {} /\ ~(pop = "stubLink" /\ stubPrev = l[i])
    <3>1. next[l[i]] = l[i + 1]
      BY <2>8, Zenon DEF ListInv, Linked
    <3> HIDE DEF pending
    <3> QED
      BY <2>3, <2>8, <3>1, Zenon
  <2> HIDE DEF pending
  <2> QED
    BY <2>6, <2>7, <2>8, Zenon
<1>2. Follows(newest) = Null /\ Follows(Null) = Null
  BY Zenon DEF Follows
<1> QED
  BY <1>1, <1>2, Zenon

INSTANCE FiniteSetTheorems
INSTANCE WellFoundedInduction

\* A nonempty set of numbers has a least one.
LEMMA LeastNumber ==
  ASSUME NEW S \in SUBSET Nat, S # {}
  PROVE  \E m \in S : \A k \in S : m <= k
<1>1. PICK m \in S : \A k \in S : ~(<<k, m>> \in OpToRel(<, Nat))
  BY NatLessThanWellFounded, WFMin, ZenonT(40)
<1>2. ASSUME NEW k \in S PROVE m <= k
  <2>1. ~(<<k, m>> \in OpToRel(<, Nat))
    BY <1>1, ZenonT(40)
  <2>2. ~(k < m)
    BY <2>1, Zenon DEF OpToRel
  <2> QED
    BY <2>2
<1> QED
  BY <1>2, Zenon

\* A list has no more links than there are.
LEMMA ShortList ==
  ASSUME NEW l \in Seq(Links), \A i, j \in 1 .. Len(l) : l[i] = l[j] => i = j
  PROVE  Cardinality(Nodes) \in Nat /\ Len(l) <= Cardinality(Nodes) + 1
<1>1. IsFiniteSet(Links) /\ Cardinality(Links) = Cardinality(Nodes) + 1
  BY NodesAssumption, FS_AddElement, Zenon DEF Links
<1>2. Cardinality(Nodes) \in Nat
  BY NodesAssumption, FS_CardinalityType, Zenon
<1>3. Len(l) \in Nat /\ l \in [1 .. Len(l) -> Links]
  OBVIOUS
<1>4. l \in Injection(1 .. Len(l), Links)
  BY <1>3, Zenon DEF Injection, IsInjective
<1>5. Cardinality(1 .. Len(l)) <= Cardinality(Links)
  BY <1>1, <1>4, FS_Injection, Zenon
<1>6. Cardinality(1 .. Len(l)) = Len(l)
  BY <1>3, FS_Interval, SMTT(30)
<1> QED
  BY <1>1, <1>2, <1>5, <1>6, ZenonT(40)

\* Walk meets the links of the list in order and then finds nothing.
LEMMA WalkIs ==
  ASSUME TypeInv, LocalInv, NEW l \in Seq(Links), ListInv(l)
  PROVE  Walk = [i \in 0 .. Cardinality(Nodes) |-> IF i < Len(l) THEN l[i + 1] ELSE Null]
<1> DEFINE N == Cardinality(Nodes)
           W == [i \in 0 .. N |-> IF i < Len(l) THEN l[i + 1] ELSE Null]
           F(f) == [i \in 0 .. N |-> IF i = 0 THEN oldest ELSE Follows(f[i - 1])]
<1>1. N \in Nat
  BY ShortList, Zenon DEF ListInv, Path
<1>2. Len(l) \in Nat /\ Len(l) > 0 /\ l[1] = oldest /\ l[Len(l)] = newest
  BY DEF ListInv, Path
<1>3. ASSUME NEW i \in 0 .. N, i # 0 PROVE i - 1 \in 0 .. N /\ Follows(W[i - 1]) = W[i]
  <2>1. i - 1 \in 0 .. N /\ i \in 0 .. N
    BY <1>1, <1>3
  <2>2. CASE i < Len(l)
    <3>1. W[i - 1] = l[i] /\ W[i] = l[i + 1] /\ i \in 1 .. Len(l) - 1
      BY <1>1, <1>2, <1>3, <2>1, <2>2, SMTT(30)
    <3> QED
      BY <2>1, <3>1, FollowsIs, ZenonT(40)
  <2>3. CASE i = Len(l)
    <3>1. W[i - 1] = newest /\ W[i] = Null
      BY <1>1, <1>2, <1>3, <2>1, <2>3, SMTT(30)
    <3> QED
      BY <2>1, <3>1, FollowsIs, ZenonT(40)
  <2>4. CASE i > Len(l)
    <3>1. W[i - 1] = Null /\ W[i] = Null
      BY <1>1, <1>2, <1>3, <2>1, <2>4, SMTT(30)
    <3> QED
      BY <2>1, <3>1, FollowsIs, ZenonT(40)
  <2> QED
    BY <1>1, <1>2, <2>2, <2>3, <2>4, SMTT(30)
<1>4. W[0] = oldest
  BY <1>1, <1>2
<1> HIDE DEF N
<1>5. W = F(W)
  BY <1>3, <1>4, Zenon
<1>6. Walk = CHOOSE f : f = F(f)
  BY Zenon DEF Walk, N
<1>7. Walk = F(Walk)
  <2> HIDE DEF F, W
  <2> QED
    BY <1>5, <1>6, Zenon
<1>8. \A i \in 0 .. N : Walk[i] = IF i = 0 THEN oldest ELSE Follows(Walk[i - 1])
  BY <1>7, ZenonT(40)
<1>9. \A i \in 0 .. N : Walk[i] = W[i]
  <2> DEFINE S == {i \in 0 .. N : Walk[i] # W[i]}
  <2> HIDE DEF W
  <2> SUFFICES ASSUME S # {} PROVE FALSE
    BY Zenon
  <2>1. S \in SUBSET Nat
    BY <1>1
  <2>2. PICK k \in S : \A i \in S : k <= i
    BY <2>1, LeastNumber, ZenonT(40)
  <2>3. k \in 0 .. N /\ Walk[k] # W[k]
    BY Zenon
  <2>4. k # 0
    BY <1>4, <1>8, <2>3, ZenonT(40)
  <2>5. k - 1 \in 0 .. N /\ Follows(W[k - 1]) = W[k]
    BY <1>3, <2>3, <2>4, ZenonT(40)
  <2>6. Walk[k - 1] = W[k - 1]
    BY <1>1, <2>2, <2>3, <2>5, SMTT(30)
  <2> QED
    BY <1>8, <2>3, <2>4, <2>5, <2>6, ZenonT(40)
<1>10. Walk = [i \in 0 .. N |-> Walk[i]]
  BY <1>7, Zenon
<1> QED
  BY <1>9, <1>10, Zenon DEF N

\* The list of the invariant is the one the properties speak of.
ListIsFound == \A l \in Seq(Links) : ListInv(l) => List = l

LEMMA ListIs == TypeInv /\ LocalInv => ListIsFound
<1> SUFFICES ASSUME TypeInv, LocalInv, NEW l \in Seq(Links), ListInv(l) PROVE List = l
  BY Zenon DEF ListIsFound
<1> DEFINE N == Cardinality(Nodes)
<1>1. N \in Nat /\ Len(l) <= N + 1
  BY ShortList, Zenon DEF ListInv, Path
<1>2. Len(l) \in Nat /\ l = [i \in 1 .. Len(l) |-> l[i]] /\ \A i \in 1 .. Len(l) : l[i] \in Links
  OBVIOUS
<1>3. Walk = [i \in 0 .. N |-> IF i < Len(l) THEN l[i + 1] ELSE Null]
  BY WalkIs, Zenon
<1> HIDE DEF N
<1>4. DOMAIN Walk = 0 .. N /\ \A i \in 0 .. N : Walk[i] = IF i < Len(l) THEN l[i + 1] ELSE Null
  BY <1>3, Zenon
<1>5. {j \in DOMAIN Walk : Walk[j] # Null} = 0 .. Len(l) - 1
  <2>1. Null \notin Links
    BY NodesAssumption, Zenon DEF Links
  <2>2. \A j \in 0 .. N : Walk[j] # Null <=> j \in 0 .. Len(l) - 1
    BY <1>1, <1>2, <1>4, <2>1, SMTT(30)
  <2>3. \A j \in 0 .. Len(l) - 1 : j \in 0 .. N
    BY <1>1, <1>2
  <2> QED
    BY <1>4, <2>2, <2>3, ZenonT(40)
<1>6. Cardinality(0 .. Len(l) - 1) = Len(l)
  <2>1. 0 \in Int /\ Len(l) - 1 \in Int
    BY <1>2
  <2>2. Cardinality(0 .. Len(l) - 1) = IF 0 > Len(l) - 1 THEN 0 ELSE (Len(l) - 1) - 0 + 1
    BY <2>1, FS_Interval, ZenonT(40)
  <2> QED
    BY <1>2, <2>2
<1>7. List = [i \in 1 .. Len(l) |-> Walk[i - 1]]
  BY <1>5, <1>6, ZenonT(40) DEF List
<1>8. \A i \in 1 .. Len(l) : Walk[i - 1] = l[i]
  BY <1>1, <1>2, <1>4
<1> QED
  BY <1>2, <1>7, <1>8, ZenonT(40)

\* Every step of the queue is one of the FIFO.
LEMMA StepRefines == IndInv /\ [Next]_vars => [Fifo!Next]_Fifo!fifoVars
<1> SUFFICES ASSUME IndInv, [Next]_vars PROVE [Fifo!Next]_Fifo!fifoVars
  BY Zenon
<1>1. TypeInv /\ LocalInv
  BY Zenon DEF IndInv
<1>2. PICK l \in Seq(Links) : ListInv(l)
  BY Zenon DEF IndInv
<1>3. List = l
  BY <1>1, <1>2, ListIs, ZenonT(40) DEF ListIsFound
<1>4. TypeInv' /\ LocalInv' /\ \E m \in Seq(Links) : ListInv(m)' /\ ListStep(l, m)
  BY <1>1, <1>2, StepList, Zenon
<1>5. PICK m \in Seq(Links) : ListInv(m)' /\ ListStep(l, m)
  BY <1>4, Zenon
<1>6. TypeInv' /\ LocalInv' => ListIsFound'
  BY ListIs, PTL
<1>7. List' = m
  BY <1>4, <1>5, <1>6, Zenon DEF ListIsFound
<1>8. ASSUME NEW p \in Producers, PushExchange(p), m = Append(l, node[p]) PROVE Fifo!Next
  BY <1>1, <1>2, <1>3, <1>7, <1>8, ExchangeRefines, ZenonT(40)
<1>9. ASSUME NEW p \in Producers, PushLink(p), m = l PROVE Fifo!Next
  BY <1>1, <1>3, <1>7, <1>9, LinkRefines, ZenonT(40)
<1>10. CASE TakeOldest /\ m = Tail(l) /\ l[1] = oldest /\ \A q \in Producers : node[q] # oldest
  BY <1>1, <1>2, <1>3, <1>7, <1>10, TakeRefines, ZenonT(40)
<1>11. CASE \/ SkipStub /\ m = Tail(l) /\ Len(l) > 1 /\ l[1] = Stub
            \/ PopStubExchange /\ m = Append(l, Stub)
            \/ /\ \/ \E p \in Producers, n \in Nodes : PushReset(p, n)
                  \/ Quiet \/ PopStubReset \/ PopStubLink \/ UNCHANGED vars
               /\ m = l
  BY <1>1, <1>2, <1>3, <1>7, <1>11, RestStutters, ZenonT(40)
<1> QED
  BY <1>5, <1>8, <1>9, <1>10, <1>11, ZenonT(40) DEF ListStep

\* Nodes come out of MultiProducerSingleConsumerQueue in the order in which their
\* pushes exchanged newest_, each once and none lost, for any producers.
THEOREM IsTaskFifo == Spec => ImplementsTaskFifo
<1>1. Init => Fifo!Init
  <2> SUFFICES ASSUME Init PROVE Fifo!Init
    BY Zenon
  <2>1. <<Stub>> \in Seq(Links) /\ Len(<<Stub>>) = 1 /\ <<Stub>>[1] = Stub
    BY DEF Links
  <2>2. List = <<Stub>>
    BY <2>1, ListInit, ListIs, ZenonT(40) DEF ListIsFound
  <2>3. WithoutStub(<<Stub>>) = Tail(<<Stub>>)
    <3>1. Len(<<Stub>>) > 0 /\ \A i, j \in 1 .. Len(<<Stub>>) : i = j
      BY <2>1
    <3> QED
      BY <2>1, <3>1, TailStub, ZenonT(40)
  <2>4. Tail(<<Stub>>) = <<>>
    OBVIOUS
  <2>5. Linking = {}
    BY Zenon DEF Init, Linking
  <2> QED
    BY <2>2, <2>3, <2>4, <2>5, ZenonT(40) DEF Fifo!Init, Linking
<1> QED
  BY <1>1, Invariance, StepRefines, PTL DEF Spec, ImplementsTaskFifo, Fifo!Spec

\* PopAndCheckEnd reports an empty queue only when the first node, if there is
\* one, is still being linked, by a push that then returns true; and an emptied
\* queue is the stub alone, as the destructor asserts.
THEOREM EmptyReportsAreTrue == Spec => EmptyIsTrue
<1>1. IndInv => EmptyMeansStub
  <2> SUFFICES ASSUME IndInv, WithoutStub(List) = <<>> PROVE newest = Stub /\ oldest = Stub
    BY Zenon DEF EmptyMeansStub
  <2>1. PICK l \in Seq(Links) : ListInv(l)
    BY Zenon DEF IndInv
  <2>2. List = l
    BY <2>1, ListIs, ZenonT(40) DEF IndInv, ListIsFound
  <2>3. /\ Len(l) \in Nat /\ Len(l) > 0 /\ l[1] = oldest /\ l[Len(l)] = newest
        /\ \A i, j \in 1 .. Len(l) : l[i] = l[j] => i = j
    BY <2>1 DEF ListInv, Path
  <2>4. l[1] = Stub
    BY <2>2, <2>3, TailNode, ZenonT(40)
  <2>5. Tail(l) = <<>>
    BY <2>2, <2>3, <2>4, TailStub, ZenonT(40)
  <2>6. Len(l) = 1
    <3>1. Len(Tail(l)) = Len(l) - 1
      BY <2>3, TailIs, Zenon
    <3>2. Len(Tail(l)) = 0
      <4>1. Len(<<>>) = 0
        BY Zenon
      <4> QED
        BY <2>5, <4>1, Zenon
    <3> QED
      BY <2>3, <3>1, <3>2
  <2> QED
    BY <2>3, <2>4, <2>6, ZenonT(40)
<1>2. ASSUME IndInv, PopAndCheckEnd, pop' = "empty"
      PROVE  /\ Fifo!MayReportEmpty
             /\ \A p \in Producers :
                  push[p] = "exchanged" /\ List[1] = Stub /\ Len(List) > 1 /\ node[p] = List[2] =>
                    prev[p] = Stub
  <2>1. PICK l \in Seq(Links) : ListInv(l)
    BY <1>2, Zenon DEF IndInv
  <2>2. List = l
    BY <1>2, <2>1, ListIs, ZenonT(40) DEF IndInv, ListIsFound
  <2>3. /\ Len(l) \in Nat /\ Len(l) > 0 /\ l[1] = oldest
        /\ \A i, j \in 1 .. Len(l) : l[i] = l[j] => i = j
    BY <2>1 DEF ListInv, Path
  <2>4. pop \in {"idle", "empty"} /\ oldest = Stub /\ next[Stub] = Null
    BY <1>2, PopIs, Zenon DEF IndInv, SkipStub, TakeOldest, ReturnOldest, Quiet, PopStubReset, PopStubExchange, PopStubLink
  <2>5. WithoutStub(l) = Tail(l)
    BY <2>3, <2>4, TailStub, ZenonT(40)
  <2>6. ASSUME WithoutStub(l) # <<>> PROVE Head(WithoutStub(l)) \in Linking
    <3>1. Len(l) > 1 /\ Head(WithoutStub(l)) = l[2] /\ l[2] \in Links
      BY <2>3, <2>5, <2>6
    <3>2. 1 \in 1 .. Len(l) - 1 /\ next[l[1]] = Null
      BY <2>3, <2>4, <3>1
    <3>3. l[2] # Null
      BY <3>1, NodesAssumption, ZenonT(40) DEF Links
    <3>4. PICK p \in Producers : push[p] = "exchanged" /\ node[p] = l[1 + 1]
      BY <2>1, <2>4, <3>2, <3>3, SMTT(30) DEF ListInv, Linked
    <3> QED
      BY <3>1, <3>4 DEF Linking
  <2>7. ASSUME NEW p \in Producers, push[p] = "exchanged", Len(l) > 1, node[p] = l[2] PROVE prev[p] = Stub
    <3>1. PICK i \in 1 .. Len(l) - 1 : prev[p] = l[i] /\ node[p] = l[i + 1]
      BY <2>1, <2>7, ZenonT(40) DEF ListInv, PushInv
    <3>2. i + 1 \in 1 .. Len(l) /\ 2 \in 1 .. Len(l)
      BY <2>3, <2>7
    <3>3. l[i + 1] = l[2]
      BY <2>7, <3>1, Zenon
    <3>4. i + 1 = 2
      BY <2>3, <3>2, <3>3, ZenonT(40)
    <3>5. i = 1
      BY <2>3, <3>4
    <3> QED
      BY <2>3, <2>4, <3>1, <3>5, ZenonT(40)
  <2> QED
    BY <2>2, <2>6, <2>7, ZenonT(40) DEF Fifo!MayReportEmpty, Linking
<1> QED
  BY <1>1, <1>2, Invariance, PTL DEF Spec, EmptyIsTrue
=============================================================================
