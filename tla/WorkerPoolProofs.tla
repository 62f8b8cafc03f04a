-------------------------- MODULE WorkerPoolProofs --------------------------
(***************************************************************************)
(* Proofs about WorkerPool, for any tasks and any calls of Start: a Stop   *)
(* that has returned leaves its pool quiet for good.                       *)
(***************************************************************************)
EXTENDS WorkerPool, TLAPS

-----------------------------------------------------------------------------
(* The invariant. *)

\* Places in PostToWorker: past the check of accepting, and counted in active.
Accepted == {"push", "link", "wake", "leave"}
Counted == Accepted \cup {"accepting?"}
Pushed == {"link", "wake", "leave", "closed?", "notify", "over"}

PostRecords ==
  [pc : Counted \cup Pushed \cup {"new", "load", "enter"}, at : Workers \cup {Nobody}]

Starting == {"spawn", "publish"}
Stopping == {"take", "refuse", "wake", "join", "await", "asleep", "drain"}

Controls ==
  [pc : Starting \cup Stopping \cup {"idle"}, by : Workers \cup {Main, Nobody},
   gen : Generations \cup {0}, i : Nat]

ThreadPlaces ==
  {"none", "wait", "blocked", "check", "pop", "popped", "run", "drained", "gone"}

TypeInv ==
  /\ stopping \in BOOLEAN /\ generation \in Nat /\ list \in Generations \cup {0}
  /\ accepting \in [Workers -> BOOLEAN] /\ active \in [Workers -> Nat]
  /\ fifo \in [Workers -> Seq(Tasks)]
  /\ thread \in [Workers -> ThreadPlaces]
  /\ post \in [Tasks -> PostRecords]
  /\ ctl \in Controls
  /\ closed \subseteq Generations \X (Workers \cup {Main})

\* The generation a Start or Stop is about, and what is published between them.
ControlInv ==
  /\ ctl.pc = "idle" =>
       IF stopping THEN list = 0 ELSE list = generation /\ generation \in Generations
  /\ ctl.pc # "idle" =>
       /\ ctl.gen \in Generations /\ ctl.i \in 1 .. Count(ctl.gen)
       /\ ctl.by \in Workers \cup {Main}
  /\ ctl.pc \in Starting => ctl.gen = generation /\ ~stopping
  /\ ctl.pc \in Stopping => ctl.gen < generation /\ stopping
  /\ ctl.pc = "take" => ctl.i = 1
  /\ ctl.pc \in Stopping \ {"take"} => list = 0
  /\ \A c \in closed : c[1] < generation

\* A post has a worker while it uses one, and a task is in a queue only after
\* the exchange of its push, in its own worker's at least until it is linked.
PostInv ==
  /\ \A p \in Tasks :
       /\ post[p].pc \notin {"new", "load", "over"} => post[p].at \in Workers
       /\ p \in linking <=> post[p].pc = "link"
  /\ \A w \in Workers : \A i \in 1 .. Len(fifo[w]) :
       /\ post[fifo[w][i]].pc \in Pushed
       /\ post[fifo[w][i]].pc = "link" => post[fifo[w][i]].at = w

\* active counts the posts between its increment and its decrement.
Inside(w) == {p \in Tasks : post[p].at = w /\ post[p].pc \in Counted}

CountInv ==
  \A w \in Workers : IsFiniteSet(Inside(w)) /\ active[w] = Cardinality(Inside(w))

\* The workers for which Stop has passed a loop: those of the calls that have
\* returned, and those it has done in this one, which is in the loop itself at
\* the places now and past it at the places after.
Past(now, after) ==
  {w \in Workers :
     \/ \E c \in closed : c[1] = w[1]
     \/ w[1] = ctl.gen /\ (ctl.pc \in after \/ (ctl.pc \in now /\ w[2] < ctl.i))}

Refused == Past({"refuse"}, {"wake", "join", "await", "asleep", "drain"})
Left == Past({"await", "asleep"}, {"drain"})
Emptied == Past({"drain"}, {})

\* What each loop of Stop has brought about.
StopInv ==
  /\ \A w \in Refused : ~accepting[w]
  /\ \A w \in Left, p \in Tasks : post[p].at = w => post[p].pc \notin Accepted
  /\ \A w \in Emptied : fifo[w] = <<>>

\* Threads end, but for the one that runs Stop.
Joined ==
  {w \in Workers :
     w[1] = ctl.gen
       /\ (ctl.pc \in {"await", "asleep", "drain"} \/ (ctl.pc = "join" /\ w[2] < ctl.i))}

JoinInv ==
  /\ \A w \in Joined : thread[w] \in {"none", "gone"} \/ w = ctl.by
  /\ \A c \in closed, w \in Workers :
       w[1] = c[1] => thread[w] \in {"none", "gone"} \/ w = c[2]

IndInv == TypeInv /\ ControlInv /\ PostInv /\ CountInv /\ StopInv /\ JoinInv

-----------------------------------------------------------------------------
(* Lemmas about workers, the loops of Start and Stop, and posts. *)

LEMMA CountPositive ==
  \A g \in Generations : g \in Nat \ {0} /\ Count(g) \in Nat \ {0}
<1> SUFFICES ASSUME NEW k \in 1 .. Len(Threads)
             PROVE  2 * k - 1 \in Nat \ {0} /\ Count(2 * k - 1) \in Nat \ {0}
  BY Zenon DEF Generations
<1>1. k \in Nat \ {0} /\ 2 * k - 1 \in Nat \ {0} /\ (2 * k - 1 + 1) \div 2 = k
  BY PoolAssumption
<1>2. Threads[k] \in Nat
  BY PoolAssumption
<1> QED  BY <1>1, <1>2 DEF Count

LEMMA WorkerIs ==
  \A w \in Workers :
    /\ w = <<w[1], w[2]>> /\ w[1] \in Generations /\ w[2] \in 1 .. Count(w[1])
    /\ w[1] \in Nat \ {0} /\ w[2] \in Nat \ {0} /\ w # Nobody
<1> SUFFICES ASSUME NEW g \in Generations, NEW w \in {g} \X (1 .. Count(g))
             PROVE  /\ w = <<w[1], w[2]>> /\ w[1] \in Generations /\ w[2] \in 1 .. Count(w[1])
                    /\ w[1] \in Nat \ {0} /\ w[2] \in Nat \ {0} /\ w # Nobody
  BY DEF Workers
<1>1. w[1] = g /\ w[2] \in 1 .. Count(g) /\ w = <<w[1], w[2]>>
  OBVIOUS
<1> QED  BY <1>1, CountPositive DEF Nobody

LEMMA IsWorker ==
  ASSUME NEW g \in Generations, NEW i \in 1 .. Count(g)
  PROVE  <<g, i>> \in Workers
  BY DEF Workers

\* The worker a loop is at.
LEMMA AtWorker ==
  ASSUME TypeInv, ControlInv, ctl.pc # "idle"
  PROVE  /\ At \in Workers /\ ctl.gen \in Generations /\ ctl.i \in 1 .. Count(ctl.gen)
         /\ Count(ctl.gen) \in Nat /\ ctl.i \in Nat
         /\ \A w \in Workers : w[1] = ctl.gen => w[2] \in 1 .. Count(ctl.gen)
         /\ \A w \in Workers : w[1] = ctl.gen /\ w[2] = ctl.i => w = At
<1>1. ctl.gen \in Generations /\ ctl.i \in 1 .. Count(ctl.gen)
  BY Zenon DEF ControlInv
<1>2. Count(ctl.gen) \in Nat
  BY <1>1, CountPositive, Zenon
<1>3. At \in Workers
  BY <1>1, IsWorker, Zenon DEF At
<1>4. \A w \in Workers : w[1] = ctl.gen /\ w[2] = ctl.i => w = At
  BY WorkerIs, Zenon DEF At
<1> QED  BY <1>1, <1>2, <1>3, <1>4, WorkerIs

\* A loop goes to its next worker, or on.
LEMMA NextWorkerIs ==
  ASSUME TypeInv, ControlInv, ctl.pc # "idle",
         NEW then \in Starting \cup Stopping, NextWorker(then)
  PROVE  /\ ctl' \in Controls /\ ctl'.gen = ctl.gen /\ ctl'.by = ctl.by
         /\ ctl'.i \in 1 .. Count(ctl.gen)
         /\ \/ ctl'.pc = ctl.pc /\ ctl'.i = ctl.i + 1
            \/ ctl'.pc = then /\ ctl'.i = 1 /\ ctl.i = Count(ctl.gen)
<1>1. /\ ctl.gen \in Generations /\ ctl.i \in 1 .. Count(ctl.gen)
      /\ Count(ctl.gen) \in Nat /\ ctl.i \in Nat
  BY AtWorker, Zenon
<1>2. CASE ctl.i < Count(ctl.gen)
  <2>1. PICK n \in Nat : n = ctl.i + 1
    BY <1>1
  <2>2. ctl' = [ctl EXCEPT !.i = n]
    BY <1>2, <2>1, Zenon DEF NextWorker
  <2>3. /\ ctl' \in Controls /\ ctl'.gen = ctl.gen /\ ctl'.by = ctl.by
        /\ ctl'.pc = ctl.pc /\ ctl'.i = n
    BY <2>2, ZenonT(40) DEF TypeInv, Controls
  <2> QED  BY <1>1, <1>2, <2>1, <2>3
<1>3. CASE ~(ctl.i < Count(ctl.gen))
  <2>1. ctl' = [ctl EXCEPT !.pc = then, !.i = 1]
    BY <1>3, Zenon DEF NextWorker
  <2>2. /\ ctl' \in Controls /\ ctl'.gen = ctl.gen /\ ctl'.by = ctl.by
        /\ ctl'.pc = then /\ ctl'.i = 1
    BY <2>1, ZenonT(40) DEF TypeInv, Controls
  <2> QED  BY <1>1, <1>3, <2>2
<1> QED  BY <1>2, <1>3, Zenon

\* A post that was accepted, or whose queue is still to be emptied, is not past.
LEMMA PastOrder == Emptied \subseteq Left /\ Left \subseteq Refused
  BY Zenon DEF Emptied, Left, Refused, Past

\* Task p's post goes to place l, with worker a; the others stay.
PostAt(p, l, a) ==
  /\ post' \in [Tasks -> PostRecords]
  /\ post'[p].pc = l /\ post'[p].at = a
  /\ \A q \in Tasks : q # p => post'[q] = post[q]

LEMMA PostGoesIs ==
  ASSUME TypeInv, NEW p \in Tasks, NEW l \in Counted \cup Pushed \cup {"load"}, PostGoes(p, l)
  PROVE  PostAt(p, l, post[p].at)
<1>1. post[p] \in PostRecords
  BY Zenon DEF TypeInv
<1>2. post' = [post EXCEPT ![p] = [post[p] EXCEPT !.pc = l]]
  BY Zenon DEF PostGoes
<1>3. PICK r : r = [post[p] EXCEPT !.pc = l]
  BY ZenonT(40)
<1>4. r \in PostRecords /\ r.pc = l /\ r.at = post[p].at
  BY <1>1, <1>3, Zenon DEF PostRecords
<1>5. post' = [post EXCEPT ![p] = r]
  BY <1>2, <1>3, Zenon
<1> QED  BY <1>4, <1>5, Zenon DEF TypeInv, PostAt

LEMMA PostBecomes ==
  ASSUME TypeInv, NEW p \in Tasks, NEW l \in Counted \cup Pushed \cup {"enter"},
         NEW a \in Workers \cup {Nobody}, post' = [post EXCEPT ![p] = [pc |-> l, at |-> a]]
  PROVE  PostAt(p, l, a)
<1>1. PICK r : r = [pc |-> l, at |-> a]
  BY ZenonT(40)
<1>2. r \in PostRecords /\ r.pc = l /\ r.at = a
  BY <1>1, Zenon DEF PostRecords
<1>3. post' = [post EXCEPT ![p] = r]
  BY <1>1, Zenon
<1> QED  BY <1>2, <1>3 DEF TypeInv, PostAt

LEMMA PostEndsIs ==
  ASSUME TypeInv, NEW p \in Tasks, PostEnds(p)
  PROVE  PostAt(p, "over", Nobody)
<1>1. "over" \in Counted \cup Pushed \cup {"enter"}
  BY Zenon DEF Pushed
<1> QED  BY <1>1, PostBecomes, ZenonT(40) DEF PostEnds

-----------------------------------------------------------------------------
(* Steps of posts and of workers: what they leave alone. *)

\* They may wake a Stop that waits; otherwise Start and Stop stay where they are.
ControlStays ==
  /\ ctl' \in Controls
  /\ ctl'.gen = ctl.gen /\ ctl'.by = ctl.by /\ ctl'.i = ctl.i
  /\ ctl'.pc = ctl.pc \/ (ctl.pc = "asleep" /\ ctl'.pc = "await")

\* Threads that have ended, or are not there, stay so.
ThreadsStay ==
  /\ thread' \in [Workers -> ThreadPlaces]
  /\ \A w \in Workers : thread[w] \in {"none", "gone"} => thread'[w] = thread[w]

LEMMA PastStays ==
  ASSUME ControlStays, UNCHANGED closed
  PROVE  /\ Refused' = Refused /\ Left' = Left /\ Emptied' = Emptied
         /\ Joined' = Joined
<1>1. /\ ctl'.pc \in {"await", "asleep"} <=> ctl.pc \in {"await", "asleep"}
      /\ \A l \in {"refuse", "wake", "join", "drain"} : ctl'.pc = l <=> ctl.pc = l
      /\ ctl'.gen = ctl.gen /\ ctl'.i = ctl.i
  BY Zenon DEF ControlStays
<1>2. Refused' = Refused
  BY <1>1, Zenon DEF Refused, Past
<1>3. Left' = Left
  BY <1>1, Zenon DEF Left, Past
<1>4. Emptied' = Emptied
  BY <1>1, Zenon DEF Emptied, Past
<1>5. Joined' = Joined
  BY <1>1, Zenon DEF Joined
<1> QED  BY <1>2, <1>3, <1>4, <1>5, Zenon

LEMMA OthersKeep ==
  ASSUME IndInv, ControlStays, ThreadsStay, UNCHANGED <<poolVars, accepting, closed>>
  PROVE  /\ ControlInv' /\ JoinInv' /\ Left' = Left /\ Emptied' = Emptied
         /\ \A w \in Refused' : ~accepting'[w]
<1> USE DEF IndInv
<1>1. /\ Refused' = Refused /\ Left' = Left /\ Emptied' = Emptied
      /\ Joined' = Joined
  BY PastStays, Zenon
<1>2. ControlInv'
  BY Zenon DEF ControlInv, ControlStays, poolVars, Starting, Stopping
<1>3. JoinInv'
  <2>1. \A w \in Joined : w \in Workers
    BY Zenon DEF Joined
  <2> QED  BY <1>1, <2>1, Zenon DEF JoinInv, ControlStays, ThreadsStay
<1>4. \A w \in Refused' : ~accepting'[w]
  BY <1>1, Zenon DEF StopInv
<1> QED  BY <1>1, <1>2, <1>3, <1>4, Zenon

LEMMA NotifyKeeps ==
  ASSUME TypeInv, NEW w \in Workers, Notify(w)
  PROVE  ControlStays /\ ThreadsStay
<1>1. ControlStays
  <2>1. CASE ctl' = ctl
    BY <2>1, Zenon DEF ControlStays, TypeInv
  <2>2. CASE ctl.pc = "asleep" /\ ctl' = [ctl EXCEPT !.pc = "await"]
    BY <2>2, ZenonT(40) DEF ControlStays, TypeInv, Controls, Stopping
  <2> QED  BY <2>1, <2>2, Zenon DEF Notify
<1>2. ThreadsStay
  <2>1. CASE thread' = thread
    BY <2>1, Zenon DEF ThreadsStay, TypeInv
  <2>2. CASE thread[w] = "blocked" /\ thread' = [thread EXCEPT ![w] = "wait"]
    BY <2>2, Zenon DEF ThreadsStay, TypeInv, ThreadPlaces
  <2> QED  BY <2>1, <2>2, Zenon DEF Notify
<1> QED  BY <1>1, <1>2, Zenon

LEMMA NothingNotified ==
  ASSUME TypeInv, UNCHANGED <<thread, ctl>>
  PROVE  ControlStays /\ ThreadsStay
  BY Zenon DEF TypeInv, ControlStays, ThreadsStay

\* What Head and Tail are of a queue that is not empty.
LEMMA TailOfSeq ==
  ASSUME NEW S, NEW s \in Seq(S), s # <<>>
  PROVE  /\ Len(s) \in Nat \ {0} /\ Head(s) = s[1] /\ s[1] \in S
         /\ Tail(s) \in Seq(S) /\ Len(Tail(s)) = Len(s) - 1
         /\ \A i \in 1 .. Len(Tail(s)) : Tail(s)[i] = s[i + 1]
<1>1. Len(s) \in Nat /\ Len(s) # 0
  OBVIOUS
<1>2. Tail(s) \in Seq(S)
  BY <1>1
<1>3. Len(Tail(s)) = Len(s) - 1
  BY <1>1
<1>4. Head(s) = s[1] /\ s[1] \in S
  BY <1>1
<1>5. \A i \in 1 .. Len(Tail(s)) : Tail(s)[i] = s[i + 1]
  BY <1>1, <1>3
<1> QED  BY <1>1, <1>2, <1>3, <1>4, <1>5, Zenon

\* One task leaves a queue: the others move up.
LEMMA FifoShrinks ==
  ASSUME TypeInv, PostInv, UNCHANGED <<post, linking>>, NEW v \in Workers,
         fifo[v] # <<>>, fifo' = [fifo EXCEPT ![v] = Tail(@)]
  PROVE  fifo' \in [Workers -> Seq(Tasks)] /\ PostInv'
<1>1. /\ Tail(fifo[v]) \in Seq(Tasks) /\ Len(Tail(fifo[v])) = Len(fifo[v]) - 1
      /\ Len(fifo[v]) \in Nat \ {0}
      /\ \A i \in 1 .. Len(Tail(fifo[v])) : Tail(fifo[v])[i] = fifo[v][i + 1]
  <2>1. fifo[v] \in Seq(Tasks)
    BY Zenon DEF TypeInv
  <2> QED  BY <2>1, TailOfSeq, Zenon
<1>2. fifo' \in [Workers -> Seq(Tasks)]
  BY <1>1, Zenon DEF TypeInv
<1>3. fifo'[v] = Tail(fifo[v]) /\ \A w \in Workers : w # v => fifo'[w] = fifo[w]
  BY Zenon DEF TypeInv
<1>4. ASSUME NEW w \in Workers, NEW i \in 1 .. Len(fifo'[w])
      PROVE  \E j \in 1 .. Len(fifo[w]) : fifo'[w][i] = fifo[w][j]
  <2>1. CASE w = v
    <3>1. i \in 1 .. Len(Tail(fifo[v])) /\ fifo'[w][i] = Tail(fifo[v])[i]
      BY <1>3, <1>4, <2>1, ZenonT(40)
    <3>2. fifo'[w][i] = fifo[w][i + 1]
      BY <1>1, <2>1, <3>1, Zenon
    <3>3. i + 1 \in 1 .. Len(fifo[v])
      BY <1>1, <3>1
    <3> QED  BY <2>1, <3>2, <3>3, Zenon
  <2>2. CASE w # v
    BY <1>3, <1>4, <2>2, Zenon
  <2> QED  BY <2>1, <2>2, Zenon
<1>5. PostInv'
  <2>1. \A w \in Workers : \A i \in 1 .. Len(fifo'[w]) :
          /\ post[fifo'[w][i]].pc \in Pushed
          /\ post[fifo'[w][i]].pc = "link" => post[fifo'[w][i]].at = w
    <3> SUFFICES ASSUME NEW w \in Workers, NEW i \in 1 .. Len(fifo'[w])
                 PROVE  /\ post[fifo'[w][i]].pc \in Pushed
                        /\ post[fifo'[w][i]].pc = "link" => post[fifo'[w][i]].at = w
      BY ZenonT(40)
    <3>1. PICK j \in 1 .. Len(fifo[w]) : fifo'[w][i] = fifo[w][j]
      BY <1>4, Zenon
    <3>2. /\ post[fifo[w][j]].pc \in Pushed
          /\ post[fifo[w][j]].pc = "link" => post[fifo[w][j]].at = w
      BY Zenon DEF PostInv
    <3> QED  BY <3>1, <3>2, Zenon
  <2> QED  BY <2>1, Zenon DEF PostInv
<1> QED  BY <1>2, <1>5, Zenon

-----------------------------------------------------------------------------
(* The steps of a worker. *)

LEMMA RunStep ==
  ASSUME IndInv, NEW v \in Workers, Run(v) \/ SpuriousWakeup(v)
  PROVE  IndInv'
<1> USE DEF IndInv
<1>1. /\ UNCHANGED <<poolVars, accepting, active, linking, post, ctl, closed>>
      /\ \E l \in ThreadPlaces : thread' = [thread EXCEPT ![v] = l]
      /\ thread[v] \notin {"none", "gone"}
      /\ fifo' = fifo \/ (fifo[v] # <<>> /\ fifo' = [fifo EXCEPT ![v] = Tail(@)])
  BY Zenon DEF Run, RunWait, RunCheck, RunPop, RunPopped, TaskEnds, RunDrained, SpuriousWakeup,
         ThreadGoes, ThreadPlaces, Available, stateVars, queueVars
<1>2. ControlStays /\ ThreadsStay
  BY <1>1 DEF ControlStays, ThreadsStay, TypeInv
<1>3. /\ ControlInv' /\ JoinInv' /\ Emptied' = Emptied /\ Left' = Left
      /\ \A w \in Refused' : ~accepting'[w]
  BY <1>1, <1>2, OthersKeep, Zenon
<1>4. fifo' \in [Workers -> Seq(Tasks)] /\ PostInv'
  <2>1. CASE fifo' = fifo
    BY <1>1, <2>1 DEF TypeInv, PostInv
  <2> QED  BY <1>1, <2>1, FifoShrinks, Zenon
<1>5. TypeInv'
  BY <1>1, <1>2, <1>4, Zenon DEF TypeInv, poolVars, ThreadsStay
<1>6. CountInv'
  BY <1>1, Zenon DEF CountInv, Inside
<1>7. StopInv'
  <2>1. \A w \in Emptied : w \in Workers /\ fifo[w] = <<>> /\ fifo'[w] = <<>>
    BY <1>1, Zenon DEF StopInv, TypeInv, Emptied, Past
  <2>2. \A w \in Left', p \in Tasks : post'[p].at = w => post'[p].pc \notin Accepted
    BY <1>1, <1>3, Zenon DEF StopInv
  <2> QED  BY <1>3, <2>1, <2>2, Zenon DEF StopInv
<1> QED  BY <1>3, <1>4, <1>5, <1>6, <1>7, Zenon

-----------------------------------------------------------------------------
(* The steps of a post. *)

\* A step outside of the push: what it must respect.
LEMMA PostMoves ==
  ASSUME IndInv, NEW p \in Tasks, NEW l, NEW a, PostAt(p, l, a),
         l \notin {"new", "load", "over"} => a \in Workers,
         post[p].pc # "link", l # "link", post[p].pc \in Pushed => l \in Pushed,
         l \in Accepted => a \notin Left \/ (post[p].pc \in Accepted /\ post[p].at = a),
         UNCHANGED <<fifo, linking>>
  PROVE  /\ PostInv'
         /\ \A w \in Left, q \in Tasks : post'[q].at = w => post'[q].pc \notin Accepted
<1> USE DEF IndInv
<1>1. post'[p].pc = l /\ post'[p].at = a /\ \A q \in Tasks : q # p => post'[q] = post[q]
  BY Zenon DEF PostAt
<1>2. \A q \in Tasks :
        /\ post'[q].pc \notin {"new", "load", "over"} => post'[q].at \in Workers
        /\ q \in linking' <=> post'[q].pc = "link"
  BY <1>1, Zenon DEF PostInv
<1>3. ASSUME NEW w \in Workers, NEW i \in 1 .. Len(fifo'[w])
      PROVE  /\ post'[fifo'[w][i]].pc \in Pushed
             /\ post'[fifo'[w][i]].pc = "link" => post'[fifo'[w][i]].at = w
  <2>1. PICK q \in Tasks : q = fifo[w][i]
    BY <1>3 DEF TypeInv
  <2>2. post[q].pc \in Pushed /\ (post[q].pc = "link" => post[q].at = w)
    BY <1>3, <2>1, Zenon DEF PostInv
  <2> QED  BY <1>1, <2>1, <2>2, Zenon
<1>4. PostInv'
  BY <1>2, <1>3, Zenon DEF PostInv
<1>5. \A w \in Left, q \in Tasks : post'[q].at = w => post'[q].pc \notin Accepted
  BY <1>1 DEF StopInv
<1> QED  BY <1>4, <1>5, Zenon

\* What is used of the theory of finite sets; CountingHolds shows it.
Counting ==
  /\ IsFiniteSet({}) /\ Cardinality({}) = 0
  /\ \A S : IsFiniteSet(S) =>
       /\ Cardinality(S) \in Nat /\ (Cardinality(S) = 0 => S = {})
       /\ \A x : IF x \in S
                 THEN IsFiniteSet(S \ {x}) /\ Cardinality(S \ {x}) = Cardinality(S) - 1
                 ELSE IsFiniteSet(S \cup {x}) /\ Cardinality(S \cup {x}) = Cardinality(S) + 1

\* How active follows the posts.
LEMMA CountSame ==
  ASSUME IndInv, NEW p \in Tasks, NEW l, NEW a, PostAt(p, l, a), UNCHANGED active,
         \/ post[p].pc \notin Counted /\ l \notin Counted
         \/ post[p].pc \in Counted /\ l \in Counted /\ post[p].at = a
  PROVE  CountInv'
<1>1. \A w \in Workers : Inside(w)' = Inside(w)
  BY Zenon DEF Inside, PostAt
<1> QED  BY <1>1, Zenon DEF IndInv, CountInv

LEMMA CountUp ==
  ASSUME Counting, IndInv, NEW p \in Tasks, NEW l \in Counted, NEW a \in Workers, PostAt(p, l, a),
         post[p].pc \notin Counted, active' = [active EXCEPT ![a] = @ + 1]
  PROVE  CountInv' /\ active' \in [Workers -> Nat]
<1> USE DEF IndInv
<1>1. active[a] \in Nat /\ IsFiniteSet(Inside(a)) /\ active[a] = Cardinality(Inside(a))
  BY Zenon DEF TypeInv, CountInv
<1>2. Inside(a)' = Inside(a) \cup {p} /\ p \notin Inside(a)
  BY Zenon DEF Inside, PostAt
<1>3. \A w \in Workers : w # a => Inside(w)' = Inside(w)
  BY Zenon DEF Inside, PostAt
<1>4. IsFiniteSet(Inside(a)') /\ Cardinality(Inside(a)') = active[a] + 1
  BY <1>1, <1>2 DEF Counting
<1>5. active'[a] = active[a] + 1 /\ \A w \in Workers : w # a => active'[w] = active[w]
  BY Zenon DEF TypeInv
<1>6. active' \in [Workers -> Nat]
  BY <1>1 DEF TypeInv
<1>7. ASSUME NEW w \in Workers
      PROVE  IsFiniteSet(Inside(w)') /\ active'[w] = Cardinality(Inside(w)')
  <2>1. CASE w = a
    BY <1>4, <1>5, <2>1, Zenon
  <2>2. CASE w # a
    BY <1>3, <1>5, <2>2, Zenon DEF CountInv
  <2> QED  BY <2>1, <2>2, Zenon
<1> QED  BY <1>6, <1>7, Zenon DEF CountInv

LEMMA CountDown ==
  ASSUME Counting, IndInv, NEW p \in Tasks, NEW l, NEW a, PostAt(p, l, a), l \notin Counted,
         post[p].pc \in Counted, active' = [active EXCEPT ![post[p].at] = @ - 1]
  PROVE  CountInv' /\ active' \in [Workers -> Nat]
<1> USE DEF IndInv
<1>1. PICK b \in Workers : b = post[p].at
  <2>1. post[p].pc \notin {"new", "load", "over"}
    BY Zenon DEF Counted, Accepted
  <2> QED  BY <2>1, Zenon DEF PostInv
<1>2. active[b] \in Nat /\ IsFiniteSet(Inside(b)) /\ active[b] = Cardinality(Inside(b))
  BY Zenon DEF TypeInv, CountInv
<1>3. Inside(b)' = Inside(b) \ {p} /\ p \in Inside(b)
  BY <1>1, Zenon DEF Inside, PostAt
<1>4. \A w \in Workers : w # b => Inside(w)' = Inside(w)
  BY <1>1, Zenon DEF Inside, PostAt
<1>5. /\ IsFiniteSet(Inside(b)') /\ Cardinality(Inside(b)') = active[b] - 1
      /\ active[b] # 0
  BY <1>2, <1>3 DEF Counting
<1>6. active' = [active EXCEPT ![b] = active[b] - 1]
  BY <1>1, Zenon
<1>7. active'[b] = active[b] - 1 /\ \A w \in Workers : w # b => active'[w] = active[w]
  BY <1>6, Zenon DEF TypeInv
<1>8. active' \in [Workers -> Nat]
  <2>1. active[b] - 1 \in Nat
    BY <1>2, <1>5
  <2> QED  BY <1>6, <2>1 DEF TypeInv
<1>9. ASSUME NEW w \in Workers
      PROVE  IsFiniteSet(Inside(w)') /\ active'[w] = Cardinality(Inside(w)')
  <2>1. CASE w = b
    BY <1>5, <1>7, <2>1, Zenon
  <2>2. CASE w # b
    BY <1>4, <1>7, <2>2, Zenon DEF CountInv
  <2> QED  BY <2>1, <2>2, Zenon
<1> QED  BY <1>8, <1>9, Zenon DEF CountInv

\* The rest of the invariant, after a post's step that respects these.
LEMMA PostKeeps ==
  ASSUME IndInv, NEW p \in Tasks, NEW l, NEW a, PostAt(p, l, a),
         ControlStays, ThreadsStay, UNCHANGED <<poolVars, accepting, closed>>,
         CountInv', active' \in [Workers -> Nat],
         PostInv', fifo' \in [Workers -> Seq(Tasks)],
         \A w \in Left, q \in Tasks : post'[q].at = w => post'[q].pc \notin Accepted,
         \A w \in Emptied : fifo'[w] = <<>>
  PROVE  IndInv'
<1> USE DEF IndInv
<1>1. /\ ControlInv' /\ JoinInv' /\ Left' = Left /\ Emptied' = Emptied
      /\ \A w \in Refused' : ~accepting'[w]
  BY OthersKeep, Zenon
<1>2. TypeInv'
  BY Zenon DEF TypeInv, PostAt, ControlStays, ThreadsStay, poolVars
<1>3. StopInv'
  BY <1>1, Zenon DEF StopInv
<1> QED  BY <1>1, <1>2, <1>3, Zenon

\* The steps that do not touch the queue, nor wake anybody.
LEMMA PostQuietStep ==
  ASSUME Counting, IndInv, NEW p \in Tasks,
         PostBegin(p) \/ PostLoad(p) \/ PostEnter(p) \/ PostAccepting(p) \/ PostLeave(p)
           \/ PostClosed(p)
  PROVE  IndInv'
<1> USE DEF IndInv
<1>1. UNCHANGED <<poolVars, accepting, queueVars, thread, ctl, closed>>
  BY Zenon DEF PostBegin, PostLoad, PostEnter, PostAccepting, PostLeave, PostClosed, stateVars
<1>2. ControlStays /\ ThreadsStay
  BY <1>1, NothingNotified, Zenon
<1>3. /\ UNCHANGED <<fifo, linking>> /\ fifo' \in [Workers -> Seq(Tasks)]
      /\ \A w \in Emptied : fifo'[w] = <<>>
  BY <1>1, Zenon DEF queueVars, TypeInv, StopInv
<1>4. active \in [Workers -> Nat]
  BY Zenon DEF TypeInv
<1>5. post[p].pc \notin {"new", "load", "over"} => post[p].at \in Workers
  BY Zenon DEF PostInv
<1>6. CASE PostBegin(p)
  <2>1. post[p].pc = "new" /\ UNCHANGED active
    BY <1>6, Zenon DEF PostBegin, stateVars
  <2>2. PostAt(p, "over", Nobody) \/ PostAt(p, "load", post[p].at)
    BY <1>6, PostEndsIs, PostGoesIs, Zenon DEF PostBegin
  <2>3. PICK l \in {"over", "load"}, a \in {Nobody, post[p].at} : PostAt(p, l, a)
    BY <2>2, Zenon
  <2>4. CountInv'
    BY <2>1, <2>3, CountSame, Zenon DEF Counted, Accepted
  <2>5. /\ PostInv'
        /\ \A w \in Left, q \in Tasks : post'[q].at = w => post'[q].pc \notin Accepted
    BY <1>3, <2>1, <2>3, PostMoves, Zenon DEF Accepted, Pushed
  <2> QED  BY <1>1, <1>2, <1>3, <1>4, <2>1, <2>3, <2>4, <2>5, PostKeeps, Zenon
<1>7. CASE PostLoad(p)
  <2>1. post[p].pc = "load" /\ UNCHANGED active
    BY <1>7, Zenon DEF PostLoad, stateVars
  <2>2. PICK l \in {"over", "enter"}, a \in Workers \cup {Nobody} :
          PostAt(p, l, a) /\ (l = "enter" => a \in Workers)
    <3>1. CASE list = 0
      BY <1>7, <3>1, PostEndsIs, Zenon DEF PostLoad
    <3>2. CASE list # 0
      <4>1. PICK i \in 1 .. Count(list) :
              post' = [post EXCEPT ![p] = [pc |-> "enter", at |-> <<list, i>>]]
        BY <1>7, <3>2, Zenon DEF PostLoad
      <4>2. <<list, i>> \in Workers
        BY <3>2, IsWorker, Zenon DEF TypeInv
      <4>3. PostAt(p, "enter", <<list, i>>)
        BY <4>1, <4>2, PostBecomes, ZenonT(40)
      <4> QED  BY <4>2, <4>3, Zenon
    <3> QED  BY <3>1, <3>2, Zenon
  <2>3. CountInv'
    BY <2>1, <2>2, CountSame, Zenon DEF Counted, Accepted
  <2>4. /\ PostInv'
        /\ \A w \in Left, q \in Tasks : post'[q].at = w => post'[q].pc \notin Accepted
    BY <1>3, <2>1, <2>2, PostMoves, Zenon DEF Accepted, Pushed
  <2> QED  BY <1>1, <1>2, <1>3, <1>4, <2>1, <2>2, <2>3, <2>4, PostKeeps, Zenon
<1>8. CASE PostEnter(p)
  <2>1. /\ post[p].pc = "enter" /\ active' = [active EXCEPT ![post[p].at] = @ + 1]
        /\ PostGoes(p, "accepting?") /\ post[p].at \in Workers
    BY <1>5, <1>8, Zenon DEF PostEnter
  <2>2. PostAt(p, "accepting?", post[p].at)
    BY <2>1, PostGoesIs, Zenon DEF Counted
  <2>3. CountInv' /\ active' \in [Workers -> Nat]
    BY <2>1, <2>2, CountUp, ZenonT(40) DEF Counted, Accepted
  <2>4. /\ PostInv'
        /\ \A w \in Left, q \in Tasks : post'[q].at = w => post'[q].pc \notin Accepted
    BY <1>3, <2>1, <2>2, PostMoves, Zenon DEF Accepted, Pushed
  <2> QED  BY <1>1, <1>2, <1>3, <2>2, <2>3, <2>4, PostKeeps, Zenon
<1>9. CASE PostAccepting(p)
  <2>1. post[p].pc = "accepting?" /\ post[p].at \in Workers
    BY <1>5, <1>9, Zenon DEF PostAccepting
  <2>2. CASE accepting[post[p].at]
    <3>1. PostGoes(p, "push") /\ UNCHANGED active
      BY <1>9, <2>2, Zenon DEF PostAccepting
    <3>2. PostAt(p, "push", post[p].at)
      BY <3>1, PostGoesIs, Zenon DEF Counted, Accepted
    <3>3. CountInv'
      BY <2>1, <3>1, <3>2, CountSame, Zenon DEF Counted, Accepted
    <3>4. post[p].at \notin Left
      BY <2>2, PastOrder, Zenon DEF StopInv
    <3>5. /\ PostInv'
          /\ \A w \in Left, q \in Tasks : post'[q].at = w => post'[q].pc \notin Accepted
      BY <1>3, <2>1, <3>2, <3>4, PostMoves, Zenon DEF Pushed
    <3> QED  BY <1>1, <1>2, <1>3, <1>4, <3>1, <3>2, <3>3, <3>5, PostKeeps, Zenon
  <2>3. CASE ~accepting[post[p].at]
    <3>1. active' = [active EXCEPT ![post[p].at] = @ - 1]
      BY <1>9, <2>3, Zenon DEF PostAccepting
    <3>2. PICK l \in {"notify", "over"}, a \in Workers \cup {Nobody} :
            PostAt(p, l, a) /\ (l = "notify" => a \in Workers)
      <4>1. PostGoes(p, "notify") \/ PostEnds(p)
        BY <1>9, <2>3, Zenon DEF PostAccepting
      <4>2. PostAt(p, "notify", post[p].at) \/ PostAt(p, "over", Nobody)
        BY <4>1, PostGoesIs, PostEndsIs, Zenon DEF Pushed
      <4> QED  BY <2>1, <4>2, Zenon
    <3>3. CountInv' /\ active' \in [Workers -> Nat]
      BY <2>1, <3>1, <3>2, CountDown, ZenonT(40) DEF Counted, Accepted
    <3>4. /\ PostInv'
          /\ \A w \in Left, q \in Tasks : post'[q].at = w => post'[q].pc \notin Accepted
      BY <1>3, <2>1, <3>2, PostMoves, Zenon DEF Accepted, Pushed
    <3> QED  BY <1>1, <1>2, <1>3, <3>2, <3>3, <3>4, PostKeeps, Zenon
  <2> QED  BY <2>2, <2>3, Zenon
<1>10. CASE PostLeave(p)
  <2>1. post[p].pc = "leave" /\ post[p].at \in Workers
        /\ active' = [active EXCEPT ![post[p].at] = @ - 1]
    BY <1>5, <1>10, ZenonT(40) DEF PostLeave
  <2>2. PICK l \in {"closed?", "over"}, a \in Workers \cup {Nobody} :
          PostAt(p, l, a) /\ (l = "closed?" => a \in Workers)
    <3>1. PostGoes(p, "closed?") \/ PostEnds(p)
      BY <1>10, Zenon DEF PostLeave
    <3>2. PostAt(p, "closed?", post[p].at) \/ PostAt(p, "over", Nobody)
      BY <3>1, PostGoesIs, PostEndsIs, Zenon DEF Pushed
    <3> QED  BY <2>1, <3>2, Zenon
  <2>3. CountInv' /\ active' \in [Workers -> Nat]
    BY <2>1, <2>2, CountDown, ZenonT(40) DEF Counted, Accepted
  <2>4. /\ PostInv'
        /\ \A w \in Left, q \in Tasks : post'[q].at = w => post'[q].pc \notin Accepted
    BY <1>3, <2>1, <2>2, PostMoves, Zenon DEF Accepted, Pushed
  <2> QED  BY <1>1, <1>2, <1>3, <2>2, <2>3, <2>4, PostKeeps, Zenon
<1>11. CASE PostClosed(p)
  <2>1. post[p].pc = "closed?" /\ post[p].at \in Workers /\ UNCHANGED active
    BY <1>5, <1>11, Zenon DEF PostClosed, stateVars
  <2>2. PICK l \in {"notify", "over"}, a \in Workers \cup {Nobody} :
          PostAt(p, l, a) /\ (l = "notify" => a \in Workers)
    <3>1. PostGoes(p, "notify") \/ PostEnds(p)
      BY <1>11, Zenon DEF PostClosed
    <3>2. PostAt(p, "notify", post[p].at) \/ PostAt(p, "over", Nobody)
      BY <3>1, PostGoesIs, PostEndsIs DEF Pushed
    <3> QED  BY <2>1, <3>2, Zenon
  <2>3. CountInv'
    BY <2>1, <2>2, CountSame, Zenon DEF Counted, Accepted
  <2>4. /\ PostInv'
        /\ \A w \in Left, q \in Tasks : post'[q].at = w => post'[q].pc \notin Accepted
    BY <1>3, <2>1, <2>2, PostMoves, Zenon DEF Accepted, Pushed
  <2> QED  BY <1>1, <1>2, <1>3, <1>4, <2>1, <2>2, <2>3, <2>4, PostKeeps, Zenon
<1> QED  BY <1>6, <1>7, <1>8, <1>9, <1>10, <1>11, Zenon

\* The steps that wake somebody.
LEMMA PostWakesStep ==
  ASSUME IndInv, NEW p \in Tasks, PostWake(p) \/ PostNotify(p)
  PROVE  IndInv'
<1> USE DEF IndInv
<1>1. /\ UNCHANGED <<poolVars, accepting, active, queueVars, closed>>
      /\ post[p].pc \in {"wake", "notify"} /\ Notify(post[p].at)
  BY Zenon DEF PostWake, PostNotify, stateVars
<1>2. post[p].at \in Workers
  BY <1>1, Zenon DEF PostInv
<1>3. ControlStays /\ ThreadsStay
  BY <1>1, <1>2, NotifyKeeps, Zenon
<1>4. /\ UNCHANGED <<fifo, linking>> /\ fifo' \in [Workers -> Seq(Tasks)]
      /\ \A w \in Emptied : fifo'[w] = <<>>
      /\ active' = active /\ active' \in [Workers -> Nat]
  BY <1>1, Zenon DEF queueVars, TypeInv, StopInv
<1>5. CASE PostWake(p)
  <2>1. post[p].pc = "wake" /\ PostGoes(p, "leave")
    BY <1>5, Zenon DEF PostWake
  <2>2. PostAt(p, "leave", post[p].at)
    BY <2>1, PostGoesIs, Zenon DEF Pushed
  <2>3. CountInv'
    BY <1>4, <2>1, <2>2, CountSame, Zenon DEF Counted, Accepted
  <2>4. /\ PostInv'
        /\ \A w \in Left, q \in Tasks : post'[q].at = w => post'[q].pc \notin Accepted
    BY <1>2, <1>4, <2>1, <2>2, PostMoves, Zenon DEF Accepted, Pushed
  <2> QED  BY <1>1, <1>3, <1>4, <2>2, <2>3, <2>4, PostKeeps, Zenon
<1>6. CASE PostNotify(p)
  <2>1. post[p].pc = "notify" /\ PostEnds(p)
    BY <1>6, Zenon DEF PostNotify
  <2>2. PostAt(p, "over", Nobody)
    BY <2>1, PostEndsIs, Zenon
  <2>3. CountInv'
    BY <1>4, <2>1, <2>2, CountSame, Zenon DEF Counted, Accepted
  <2>4. /\ PostInv'
        /\ \A w \in Left, q \in Tasks : post'[q].at = w => post'[q].pc \notin Accepted
    BY <1>4, <2>1, <2>2, PostMoves, Zenon DEF Accepted, Pushed
  <2> QED  BY <1>1, <1>3, <1>4, <2>2, <2>3, <2>4, PostKeeps, Zenon
<1> QED  BY <1>5, <1>6, Zenon

\* The two halves of a push.
LEMMA PostExchangeStep ==
  ASSUME IndInv, NEW p \in Tasks, PostExchange(p)
  PROVE  IndInv'
<1> USE DEF IndInv
<1>1. /\ post[p].pc = "push" /\ linking' = linking \cup {p} /\ PostGoes(p, "link")
      /\ UNCHANGED <<poolVars, accepting, active, thread, ctl, closed>>
  BY Zenon DEF PostExchange, stateVars
<1>2. PICK w \in Workers : w = post[p].at
  BY <1>1, Zenon DEF PostInv
<1>3. fifo' = [fifo EXCEPT ![w] = Append(@, p)]
  BY <1>2, Zenon DEF PostExchange
<1>4. fifo[w] \in Seq(Tasks)
  BY Zenon DEF TypeInv
<1>5. /\ fifo'[w] = Append(fifo[w], p) /\ \A v \in Workers : v # w => fifo'[v] = fifo[v]
      /\ fifo' \in [Workers -> Seq(Tasks)]
  BY <1>3, <1>4 DEF TypeInv
<1>6. PostAt(p, "link", w)
  BY <1>1, <1>2, PostGoesIs, Zenon DEF Pushed
<1>7. ControlStays /\ ThreadsStay
  BY <1>1, NothingNotified, Zenon
<1>8. CountInv' /\ active' \in [Workers -> Nat]
  <2>1. active' \in [Workers -> Nat]
    BY <1>1, Zenon DEF TypeInv
  <2> QED  BY <1>1, <1>2, <1>6, <2>1, CountSame, Zenon DEF Counted, Accepted
<1>9. post'[p].pc = "link" /\ post'[p].at = w /\ \A q \in Tasks : q # p => post'[q] = post[q]
  BY <1>6, Zenon DEF PostAt
<1>10. ASSUME NEW v \in Workers, NEW i \in 1 .. Len(fifo'[v])
       PROVE  /\ post'[fifo'[v][i]].pc \in Pushed
              /\ post'[fifo'[v][i]].pc = "link" => post'[fifo'[v][i]].at = v
  <2>1. CASE i \in 1 .. Len(fifo[v]) /\ fifo'[v][i] = fifo[v][i]
    <3>1. PICK q \in Tasks : q = fifo[v][i]
      BY <2>1 DEF TypeInv
    <3>2. post[q].pc \in Pushed /\ (post[q].pc = "link" => post[q].at = v)
      BY <2>1, <3>1, Zenon DEF PostInv
    <3>3. q # p
      BY <1>1, <3>2, Zenon DEF Pushed
    <3> QED  BY <1>9, <2>1, <3>1, <3>2, <3>3, Zenon
  <2>2. CASE v = w /\ fifo'[v][i] = p
    BY <1>9, <2>2, Zenon DEF Pushed
  <2>3. v = w => Len(fifo'[v]) = Len(fifo[w]) + 1
                 /\ fifo'[v][i] = IF i = Len(fifo[w]) + 1 THEN p ELSE fifo[w][i]
    BY <1>4, <1>5, <1>10
  <2>4. Len(fifo[w]) \in Nat
    BY <1>4
  <2>5. CASE v = w
    BY <1>10, <2>1, <2>2, <2>3, <2>4, <2>5
  <2>6. CASE v # w
    BY <1>5, <1>10, <2>1, <2>6, Zenon
  <2> QED  BY <2>5, <2>6, Zenon
<1>11. PostInv'
  <2>1. \A q \in Tasks :
          /\ post'[q].pc \notin {"new", "load", "over"} => post'[q].at \in Workers
          /\ q \in linking' <=> post'[q].pc = "link"
    BY <1>1, <1>9, Zenon DEF PostInv
  <2> QED  BY <1>10, <2>1, Zenon DEF PostInv
<1>12. w \notin Left
  BY <1>1, <1>2, Zenon DEF StopInv, Accepted
<1>13. \A v \in Left, q \in Tasks : post'[q].at = v => post'[q].pc \notin Accepted
  BY <1>9, <1>12, Zenon DEF StopInv
<1>14. \A v \in Emptied : fifo'[v] = <<>>
  <2>1. \A v \in Emptied : v \in Workers /\ v # w
    BY <1>12, PastOrder, Zenon DEF Emptied, Past
  <2> QED  BY <1>5, <2>1, Zenon DEF StopInv
<1> QED  BY <1>1, <1>5, <1>6, <1>7, <1>8, <1>11, <1>13, <1>14, PostKeeps, Zenon

LEMMA PostLinkStep ==
  ASSUME IndInv, NEW p \in Tasks, PostLink(p)
  PROVE  IndInv'
<1> USE DEF IndInv
<1>1. /\ post[p].pc = "link" /\ linking' = linking \ {p} /\ UNCHANGED fifo
      /\ UNCHANGED <<poolVars, accepting, active, thread, ctl, closed>>
      /\ PostGoes(p, IF p \in first THEN "wake" ELSE "leave")
  BY Zenon DEF PostLink, stateVars
<1>2. PICK l \in {"wake", "leave"} : PostGoes(p, l)
  BY <1>1, Zenon
<1>3. PICK w \in Workers : w = post[p].at
  BY <1>1, Zenon DEF PostInv
<1>4. PostAt(p, l, w)
  BY <1>2, <1>3, PostGoesIs, Zenon DEF Pushed
<1>5. ControlStays /\ ThreadsStay
  BY <1>1, NothingNotified, Zenon
<1>6. CountInv' /\ active' \in [Workers -> Nat]
  <2>1. active' \in [Workers -> Nat]
    BY <1>1, Zenon DEF TypeInv
  <2> QED  BY <1>1, <1>3, <1>4, <2>1, CountSame, Zenon DEF Counted, Accepted
<1>7. post'[p].pc = l /\ post'[p].at = w /\ \A q \in Tasks : q # p => post'[q] = post[q]
  BY <1>4, Zenon DEF PostAt
<1>8. PostInv'
  <2>1. \A q \in Tasks :
          /\ post'[q].pc \notin {"new", "load", "over"} => post'[q].at \in Workers
          /\ q \in linking' <=> post'[q].pc = "link"
    BY <1>1, <1>7, Zenon DEF PostInv
  <2>2. ASSUME NEW v \in Workers, NEW i \in 1 .. Len(fifo'[v])
        PROVE  /\ post'[fifo'[v][i]].pc \in Pushed
               /\ post'[fifo'[v][i]].pc = "link" => post'[fifo'[v][i]].at = v
    <3>1. PICK q \in Tasks : q = fifo[v][i] /\ q = fifo'[v][i]
      BY <1>1, <2>2, SMTT(30) DEF TypeInv
    <3>2. post[q].pc \in Pushed /\ (post[q].pc = "link" => post[q].at = v)
      BY <1>1, <2>2, <3>1, ZenonT(40) DEF PostInv
    <3>3. l \in Pushed /\ l # "link"
      BY Zenon DEF Pushed
    <3> QED  BY <1>7, <3>1, <3>2, <3>3, Zenon
  <2> QED  BY <2>1, <2>2, Zenon DEF PostInv
<1>9. \A v \in Left, q \in Tasks : post'[q].at = v => post'[q].pc \notin Accepted
  <2>1. w \notin Left
    BY <1>1, <1>3, Zenon DEF StopInv, Accepted
  <2> QED  BY <1>7, <2>1, ZenonT(40) DEF StopInv
<1>10. fifo' \in [Workers -> Seq(Tasks)] /\ \A v \in Emptied : fifo'[v] = <<>>
  BY <1>1, Zenon DEF TypeInv, StopInv
<1> QED  BY <1>1, <1>4, <1>5, <1>6, <1>8, <1>9, <1>10, PostKeeps, Zenon

-----------------------------------------------------------------------------
(* The steps of Start and Stop. *)

LEMMA PostsKept ==
  ASSUME IndInv, UNCHANGED <<post, linking, active, fifo>>
  PROVE  PostInv' /\ CountInv'
  BY Zenon DEF IndInv, PostInv, CountInv, Inside

\* A step that is past no loop that was not passed before.
LEMMA NoLoopPassed ==
  ASSUME IndInv, Refused' \subseteq Refused, Left' \subseteq Left, Emptied' \subseteq Emptied,
         \A w \in Refused : accepting'[w] => accepting[w],
         UNCHANGED <<post, fifo>>
  PROVE  StopInv'
  BY Zenon DEF IndInv, StopInv

\* A loop of Stop goes on: past it is the worker it was at.
LEMMA LoopMoves ==
  ASSUME IndInv, NEW then \in {"wake", "join", "await", "drain"}, NextWorker(then),
         \/ ctl.pc = "refuse" /\ then = "wake"
         \/ ctl.pc = "wake" /\ then = "join"
         \/ ctl.pc = "join" /\ then = "await"
         \/ ctl.pc = "await" /\ then = "drain",
         UNCHANGED <<poolVars, closed>>
  PROVE  /\ ctl' \in Controls /\ ControlInv' /\ ctl'.by = ctl.by /\ At \in Workers
         /\ Refused' \subseteq IF ctl.pc = "refuse" THEN Refused \cup {At} ELSE Refused
         /\ Joined' \subseteq IF ctl.pc = "join" THEN Joined \cup {At} ELSE Joined
         /\ Left' \subseteq IF ctl.pc = "await" THEN Left \cup {At} ELSE Left
         /\ Emptied' \subseteq Emptied
<1> USE DEF IndInv
<1>1. ctl.pc # "idle" /\ then \in Starting \cup Stopping
  BY Zenon DEF Stopping
<1>2. /\ ctl' \in Controls /\ ctl'.gen = ctl.gen /\ ctl'.by = ctl.by
      /\ ctl'.i \in 1 .. Count(ctl.gen)
      /\ \/ ctl'.pc = ctl.pc /\ ctl'.i = ctl.i + 1
         \/ ctl'.pc = then /\ ctl'.i = 1 /\ ctl.i = Count(ctl.gen)
  BY <1>1, NextWorkerIs, Zenon
<1>3. /\ At \in Workers /\ Count(ctl.gen) \in Nat /\ ctl.i \in Nat
      /\ \A w \in Workers : w[1] = ctl.gen => w[2] \in 1 .. Count(ctl.gen)
      /\ \A w \in Workers : w[1] = ctl.gen /\ w[2] = ctl.i => w = At
  BY <1>1, AtWorker, Zenon
<1>4. ControlInv'
  BY <1>1, <1>2, Zenon DEF ControlInv, poolVars, Starting, Stopping
<1>5. \A w \in Workers : w[1] = ctl.gen =>
        /\ w[2] < ctl.i + 1 => w[2] < ctl.i \/ w = At
        /\ ctl.i = Count(ctl.gen) => w[2] < ctl.i \/ w = At
        /\ ~(w[2] < 1)
  BY <1>3
<1>6. Refused' \subseteq IF ctl.pc = "refuse" THEN Refused \cup {At} ELSE Refused
  BY <1>2, <1>5, Zenon DEF Refused, Past
<1>7. Joined' \subseteq IF ctl.pc = "join" THEN Joined \cup {At} ELSE Joined
  BY <1>2, <1>5, Zenon DEF Joined
<1>8. Left' \subseteq IF ctl.pc = "await" THEN Left \cup {At} ELSE Left
  BY <1>2, <1>5, Zenon DEF Left, Past
<1>9. Emptied' \subseteq Emptied
  BY <1>2, <1>5, Zenon DEF Emptied, Past
<1> QED  BY <1>2, <1>3, <1>4, <1>6, <1>7, <1>8, <1>9, Zenon

LEMMA StopRefuseStep ==
  ASSUME IndInv, StopRefuse
  PROVE  IndInv'
<1> USE DEF IndInv
<1>1. /\ ctl.pc = "refuse" /\ accepting' = [accepting EXCEPT ![At] = FALSE]
      /\ NextWorker("wake") /\ UNCHANGED <<poolVars, active, fifo, linking, thread, post, closed>>
  BY Zenon DEF StopRefuse, queueVars
<1>2. /\ ctl' \in Controls /\ ControlInv' /\ ctl'.by = ctl.by /\ At \in Workers
      /\ Refused' \subseteq Refused \cup {At} /\ Joined' \subseteq Joined
      /\ Left' \subseteq Left /\ Emptied' \subseteq Emptied
  BY <1>1, LoopMoves, Zenon
<1>3. /\ accepting' \in [Workers -> BOOLEAN] /\ ~accepting'[At]
      /\ \A w \in Workers : w # At => accepting'[w] = accepting[w]
  BY <1>1, <1>2, Zenon DEF TypeInv
<1>4. TypeInv'
  BY <1>1, <1>2, <1>3, Zenon DEF TypeInv, poolVars
<1>5. PostInv' /\ CountInv'
  BY <1>1, PostsKept, Zenon
<1>6. StopInv'
  <2>1. \A w \in Refused' : ~accepting'[w]
    <3>1. \A w \in Refused : w \in Workers
      BY Zenon DEF Refused, Past
    <3> QED  BY <1>2, <1>3, <3>1, Zenon DEF StopInv
  <2> QED  BY <1>1, <1>2, <2>1, ZenonT(40) DEF StopInv
<1>7. JoinInv'
  BY <1>1, <1>2, Zenon DEF JoinInv
<1> QED  BY <1>2, <1>4, <1>5, <1>6, <1>7, Zenon

LEMMA StopWakeStep ==
  ASSUME IndInv, StopWake
  PROVE  IndInv'
<1> USE DEF IndInv
<1>1. /\ ctl.pc = "wake" /\ NextWorker("join")
      /\ thread' = IF thread[At] = "blocked" THEN [thread EXCEPT ![At] = "wait"] ELSE thread
      /\ UNCHANGED <<poolVars, accepting, active, fifo, linking, post, closed>>
  BY Zenon DEF StopWake, queueVars
<1>2. /\ ctl' \in Controls /\ ControlInv' /\ ctl'.by = ctl.by /\ At \in Workers
      /\ Refused' \subseteq Refused /\ Joined' \subseteq Joined
      /\ Left' \subseteq Left /\ Emptied' \subseteq Emptied
  BY <1>1, LoopMoves, Zenon
<1>3. ThreadsStay
  <2>1. CASE thread[At] = "blocked"
    BY <1>1, <1>2, <2>1, Zenon DEF ThreadsStay, TypeInv, ThreadPlaces
  <2>2. CASE thread[At] # "blocked"
    BY <1>1, <2>2, Zenon DEF ThreadsStay, TypeInv
  <2> QED  BY <2>1, <2>2, Zenon
<1>4. TypeInv'
  BY <1>1, <1>2, <1>3, Zenon DEF TypeInv, poolVars, ThreadsStay
<1>5. PostInv' /\ CountInv'
  BY <1>1, PostsKept, Zenon
<1>6. StopInv'
  BY <1>1, <1>2, NoLoopPassed, Zenon
<1>7. JoinInv'
  <2>1. \A w \in Joined : w \in Workers
    BY Zenon DEF Joined
  <2> QED  BY <1>1, <1>2, <1>3, <2>1, Zenon DEF JoinInv, ThreadsStay
<1> QED  BY <1>2, <1>4, <1>5, <1>6, <1>7, Zenon

LEMMA StopJoinStep ==
  ASSUME IndInv, StopJoin
  PROVE  IndInv'
<1> USE DEF IndInv
<1>1. /\ ctl.pc = "join" /\ NextWorker("await")
      /\ thread[At] \in {"none", "gone"} \/ At = ctl.by
      /\ UNCHANGED <<poolVars, accepting, active, fifo, linking, thread, post, closed>>
  BY Zenon DEF StopJoin, queueVars, stateVars
<1>2. /\ ctl' \in Controls /\ ControlInv' /\ ctl'.by = ctl.by /\ At \in Workers
      /\ Refused' \subseteq Refused /\ Joined' \subseteq Joined \cup {At}
      /\ Left' \subseteq Left /\ Emptied' \subseteq Emptied
  BY <1>1, LoopMoves, Zenon
<1>3. TypeInv'
  BY <1>1, <1>2, Zenon DEF TypeInv, poolVars
<1>4. PostInv' /\ CountInv'
  BY <1>1, PostsKept, Zenon
<1>5. StopInv'
  BY <1>1, <1>2, NoLoopPassed, Zenon
<1>6. JoinInv'
  <2>1. \A w \in Joined' : thread[w] \in {"none", "gone"} \/ w = ctl.by
    BY <1>1, <1>2, Zenon DEF JoinInv
  <2> QED  BY <1>1, <1>2, <2>1, Zenon DEF JoinInv
<1> QED  BY <1>2, <1>3, <1>4, <1>5, <1>6, Zenon

LEMMA StopAwaitStep ==
  ASSUME Counting, IndInv, StopAwait
  PROVE  IndInv'
<1> USE DEF IndInv
<1>1. /\ ctl.pc = "await"
      /\ IF active[At] = 0 THEN NextWorker("drain") ELSE ctl' = [ctl EXCEPT !.pc = "asleep"]
      /\ UNCHANGED <<poolVars, accepting, active, fifo, linking, thread, post, closed>>
  BY Zenon DEF StopAwait, queueVars, stateVars
<1>2. PostInv' /\ CountInv'
  BY <1>1, PostsKept, Zenon
<1>3. CASE active[At] = 0
  <2>1. /\ ctl' \in Controls /\ ControlInv' /\ ctl'.by = ctl.by /\ At \in Workers
        /\ Refused' \subseteq Refused /\ Joined' \subseteq Joined
        /\ Left' \subseteq Left \cup {At} /\ Emptied' \subseteq Emptied
    BY <1>1, <1>3, LoopMoves, Zenon
  <2>2. TypeInv'
    BY <1>1, <2>1, Zenon DEF TypeInv, poolVars
  <2>3. \A p \in Tasks : post[p].at = At => post[p].pc \notin Accepted
    <3>1. Inside(At) = {}
      <4>1. IsFiniteSet(Inside(At)) /\ Cardinality(Inside(At)) = 0
        BY <1>3, <2>1, Zenon DEF CountInv
      <4> QED  BY <4>1, Zenon DEF Counting
    <3> QED  BY <3>1, Zenon DEF Inside, Counted
  <2>4. StopInv'
    BY <1>1, <2>1, <2>3, Zenon DEF StopInv
  <2>5. JoinInv'
    BY <1>1, <2>1, Zenon DEF JoinInv
  <2> QED  BY <1>2, <2>1, <2>2, <2>4, <2>5, Zenon
<1>4. CASE active[At] # 0
  <2>1. /\ ctl' \in Controls /\ ctl'.pc = "asleep" /\ ctl'.gen = ctl.gen
        /\ ctl'.by = ctl.by /\ ctl'.i = ctl.i
    BY <1>1, <1>4, SMTT(30) DEF TypeInv, Controls, Stopping
  <2>2. TypeInv'
    BY <1>1, <2>1, Zenon DEF TypeInv, poolVars
  <2>3. ControlInv'
    BY <1>1, <2>1, Zenon DEF ControlInv, poolVars, Starting, Stopping
  <2>4. Refused' = Refused /\ Left' = Left /\ Emptied' = Emptied
    BY <1>1, <2>1, Zenon DEF Refused, Left, Emptied, Past
  <2>5. StopInv'
    BY <1>1, <2>4, NoLoopPassed, Zenon
  <2>6. JoinInv'
    <3>1. Joined' = Joined
      BY <1>1, <2>1, Zenon DEF Joined
    <3> QED  BY <1>1, <2>1, <3>1, Zenon DEF JoinInv
  <2> QED  BY <1>2, <2>2, <2>3, <2>5, <2>6, Zenon
<1> QED  BY <1>3, <1>4, Zenon

LEMMA StopDrainStep ==
  ASSUME IndInv, StopDrain
  PROVE  IndInv'
<1> USE DEF IndInv
<1>1. /\ ctl.pc = "drain"
      /\ UNCHANGED <<poolVars, accepting, active, linking, thread, post>>
  BY Zenon DEF StopDrain, stateVars
<1>2. /\ At \in Workers /\ ctl.gen \in Generations /\ ctl.i \in 1 .. Count(ctl.gen)
      /\ Count(ctl.gen) \in Nat /\ ctl.i \in Nat
      /\ \A w \in Workers : w[1] = ctl.gen => w[2] \in 1 .. Count(ctl.gen)
      /\ \A w \in Workers : w[1] = ctl.gen /\ w[2] = ctl.i => w = At
  BY <1>1, AtWorker, Zenon
<1>3. CountInv'
  BY <1>1, Zenon DEF CountInv, Inside
<1>4. CASE Available(At) /\ fifo' = [fifo EXCEPT ![At] = Tail(@)] /\ UNCHANGED <<ctl, closed>>
  <2>1. fifo[At] # <<>>
    BY <1>4, Zenon DEF Available
  <2>2. fifo' \in [Workers -> Seq(Tasks)] /\ PostInv'
    BY <1>1, <1>2, <1>4, <2>1, FifoShrinks, ZenonT(40)
  <2>3. TypeInv'
    BY <1>1, <1>4, <2>2, Zenon DEF TypeInv, poolVars
  <2>4. ControlStays /\ ThreadsStay
    BY <1>1, <1>4, NothingNotified, Zenon
  <2>5. /\ ControlInv' /\ JoinInv' /\ Left' = Left /\ Emptied' = Emptied
        /\ \A w \in Refused' : ~accepting'[w]
    BY <1>1, <1>4, <2>4, OthersKeep, Zenon
  <2>6. \A w \in Emptied : fifo'[w] = <<>>
    <3>1. \A w \in Emptied : w \in Workers /\ w # At
      BY <2>1, Zenon DEF StopInv, Emptied, Past
    <3> QED  BY <1>4, <3>1, Zenon DEF StopInv, TypeInv
  <2>7. StopInv'
    BY <1>1, <2>5, <2>6, Zenon DEF StopInv
  <2> QED  BY <1>3, <2>2, <2>3, <2>5, <2>7, Zenon
<1>5. CASE /\ ReportsEmpty(At) /\ UNCHANGED fifo
           /\ IF ctl.i < Count(ctl.gen)
                THEN ctl' = [ctl EXCEPT !.i = @ + 1] /\ UNCHANGED closed
                ELSE ctl' = NoControl /\ closed' = closed \cup {<<ctl.gen, ctl.by>>}
  <2>1. fifo[At] = <<>>
    <3> SUFFICES ASSUME fifo[At] # <<>> PROVE FALSE
      BY Zenon
    <3>1. fifo[At] \in Seq(Tasks)
      BY <1>2, Zenon DEF TypeInv
    <3>2. 1 \in 1 .. Len(fifo[At]) /\ Head(fifo[At]) = fifo[At][1] /\ fifo[At][1] \in Tasks
      BY <3>1, TailOfSeq
    <3>3. PICK p \in Tasks : p = fifo[At][1] /\ p \in linking
      BY <1>5, <3>2, Zenon DEF ReportsEmpty
    <3>4. post[p].pc = "link" /\ post[p].at = At
      BY <1>2, <3>2, <3>3, Zenon DEF PostInv
    <3>5. At \in Left
      <4>1. At[1] = ctl.gen
        BY Zenon DEF At
      <4> QED  BY <1>1, <1>2, <4>1, Zenon DEF Left, Past
    <3> QED  BY <3>4, <3>5, Zenon DEF StopInv, Accepted
  <2>2. PostInv'
    BY <1>1, <1>5, PostsKept, Zenon
  <2>3. CASE ctl.i < Count(ctl.gen)
    <3>1. PICK n \in Nat : n = ctl.i + 1
      BY <1>2
    <3>2. ctl' = [ctl EXCEPT !.i = n] /\ UNCHANGED closed
      BY <1>5, <2>3, <3>1, Zenon
    <3>3. /\ ctl' \in Controls /\ ctl'.pc = "drain" /\ ctl'.gen = ctl.gen
          /\ ctl'.by = ctl.by /\ ctl'.i = n
      BY <1>1, <3>2, ZenonT(40) DEF TypeInv, Controls
    <3>4. TypeInv'
      BY <1>1, <1>5, <3>2, <3>3, Zenon DEF TypeInv, poolVars
    <3>5. ControlInv'
      <4>1. n \in 1 .. Count(ctl.gen)
        BY <1>2, <2>3, <3>1
      <4> QED  BY <1>1, <3>2, <3>3, <4>1, Zenon DEF ControlInv, poolVars, Starting, Stopping
    <3>6. \A w \in Workers : w[1] = ctl.gen /\ w[2] < n => w[2] < ctl.i \/ w = At
      BY <1>2, <3>1
    <3>7. Refused' \subseteq Refused /\ Left' \subseteq Left /\ Emptied' \subseteq Emptied \cup {At}
      BY <1>1, <3>2, <3>3, <3>6, Zenon DEF Refused, Left, Emptied, Past
    <3>8. StopInv'
      BY <1>1, <1>5, <2>1, <3>7, Zenon DEF StopInv
    <3>9. JoinInv'
      <4>1. Joined' \subseteq Joined
        BY <1>1, <3>3, Zenon DEF Joined
      <4> QED  BY <1>1, <3>2, <3>3, <4>1, Zenon DEF JoinInv
    <3> QED  BY <1>3, <2>2, <3>4, <3>5, <3>8, <3>9, Zenon
  <2>4. CASE ~(ctl.i < Count(ctl.gen))
    <3>1. ctl' = NoControl /\ closed' = closed \cup {<<ctl.gen, ctl.by>>}
      BY <1>5, <2>4, Zenon
    <3>2. ctl'.pc = "idle" /\ ctl'.gen = 0 /\ ctl' \in Controls
      BY <3>1, Zenon DEF NoControl, Controls
    <3>3. ctl.by \in Workers \cup {Main} /\ ctl.gen < generation /\ stopping /\ list = 0
      BY <1>1, Zenon DEF ControlInv, Stopping
    <3>4. TypeInv'
      <4>1. closed' \subseteq Generations \X (Workers \cup {Main})
        BY <1>2, <3>1, <3>3 DEF TypeInv
      <4> QED  BY <1>1, <1>5, <3>2, <4>1, Zenon DEF TypeInv, poolVars
    <3>5. ControlInv'
      BY <1>1, <3>1, <3>2, <3>3 DEF ControlInv, poolVars, Starting, Stopping
    <3>6. \A w \in Workers : w[1] # 0 /\ (w[1] = ctl.gen => w[2] < ctl.i \/ w = At)
      BY <1>2, <2>4, WorkerIs
    <3>7. \A w \in Workers : (\E c \in closed' : c[1] = w[1]) =>
            (\E c \in closed : c[1] = w[1]) \/ w[1] = ctl.gen
      BY <3>1
    <3>8. Refused' \subseteq Refused /\ Left' \subseteq Left /\ Emptied' \subseteq Emptied \cup {At}
      BY <1>1, <3>2, <3>6, <3>7, Zenon DEF Refused, Left, Emptied, Past
    <3>9. StopInv'
      BY <1>1, <1>5, <2>1, <3>8, Zenon DEF StopInv
    <3>10. JoinInv'
      <4>1. Joined' = {}
        BY <3>2, <3>6, Zenon DEF Joined
      <4>2. \A w \in Workers : w[1] = ctl.gen => thread[w] \in {"none", "gone"} \/ w = ctl.by
        BY <1>1, Zenon DEF JoinInv, Joined
      <4>3. \A c \in closed', w \in Workers :
              w[1] = c[1] => thread[w] \in {"none", "gone"} \/ w = c[2]
        BY <3>1, <4>2 DEF JoinInv
      <4> QED  BY <1>1, <4>1, <4>3, Zenon DEF JoinInv
    <3> QED  BY <1>3, <2>2, <3>4, <3>5, <3>9, <3>10, Zenon
  <2> QED  BY <2>3, <2>4, Zenon
<1> QED  BY <1>4, <1>5, Zenon DEF StopDrain

\* Nothing is past while Start is at work, or before the first loop of Stop, but
\* for the calls that have returned.
LEMMA OnlyReturned ==
  ASSUME IndInv, UNCHANGED closed, ctl'.i = 1 \/ ctl'.pc # "refuse",
         ctl'.pc \in {"idle", "spawn", "publish", "take", "refuse"}
  PROVE  /\ Refused' \subseteq Refused /\ Left' \subseteq Left /\ Emptied' \subseteq Emptied
         /\ Joined' = {}
<1>1. \A w \in Workers : w[2] \in Nat /\ ~(w[2] < 1)
  BY WorkerIs
<1> QED  BY <1>1, Zenon DEF Refused, Left, Emptied, Joined, Past

LEMMA BeginStep ==
  ASSUME IndInv,
         StartOpen \/ StartPublish \/ StopTake \/ (\E by \in Workers \cup {Main} : StopBegin(by))
  PROVE  IndInv'
<1> USE DEF IndInv
<1>1. UNCHANGED <<accepting, active, fifo, linking, thread, post, closed>>
  BY Zenon DEF StartOpen, StartPublish, StopTake, StopBegin, stateVars, queueVars
<1>2. /\ TypeInv' /\ ControlInv' /\ (ctl'.i = 1 \/ ctl'.pc # "refuse")
      /\ ctl'.pc \in {"idle", "spawn", "publish", "take", "refuse"}
  <2>1. CASE StartOpen
    <3>1. /\ ctl' = [pc |-> "spawn", by |-> Main, gen |-> generation', i |-> 1]
          /\ stopping' = FALSE /\ generation' = generation + 1
          /\ generation' \in Generations /\ UNCHANGED list
      BY <2>1, Zenon DEF StartOpen
    <3>2. ctl' \in Controls
      BY <3>1, Zenon DEF Controls, Starting
    <3>3. generation' \in Nat /\ 1 \in 1 .. Count(generation')
      BY <3>1, CountPositive DEF TypeInv
    <3>4. TypeInv'
      BY <1>1, <3>1, <3>2, <3>3, ZenonT(40) DEF TypeInv
    <3>5. ControlInv'
      <4>1. \A c \in closed : c[1] < generation'
        <5>1. \A c \in closed : c[1] \in Nat /\ c[1] < generation
          BY CountPositive, Zenon DEF TypeInv, ControlInv
        <5> QED  BY <3>1, <5>1 DEF TypeInv
      <4> QED  BY <1>1, <3>1, <3>3, <4>1, Zenon DEF ControlInv, Starting, Stopping
    <3> QED  BY <3>1, <3>4, <3>5, Zenon
  <2>2. CASE StartPublish
    <3>1. /\ ctl.pc = "publish" /\ list' = ctl.gen /\ ctl' = NoControl
          /\ UNCHANGED <<stopping, generation>>
      BY <2>2, Zenon DEF StartPublish
    <3>2. ctl.gen = generation /\ ~stopping /\ ctl.gen \in Generations
      BY <3>1, Zenon DEF ControlInv, Starting
    <3>3. ctl'.pc = "idle" /\ ctl' \in Controls
      BY <3>1, Zenon DEF NoControl, Controls
    <3>4. TypeInv'
      BY <1>1, <3>1, <3>2, <3>3, Zenon DEF TypeInv
    <3>5. ControlInv'
      BY <1>1, <3>1, <3>2, <3>3, Zenon DEF ControlInv, Starting, Stopping
    <3> QED  BY <3>3, <3>4, <3>5, Zenon
  <2>3. CASE StopTake
    <3>1. /\ ctl.pc = "take" /\ list' = 0 /\ ctl' = [ctl EXCEPT !.pc = "refuse"]
          /\ UNCHANGED <<stopping, generation>>
      BY <2>3, Zenon DEF StopTake
    <3>2. /\ ctl' \in Controls /\ ctl'.pc = "refuse" /\ ctl'.gen = ctl.gen
          /\ ctl'.by = ctl.by /\ ctl'.i = ctl.i
      BY <3>1, ZenonT(40) DEF TypeInv, Controls, Stopping
    <3>3. ctl.i = 1
      BY <3>1, Zenon DEF ControlInv
    <3>4. TypeInv'
      BY <1>1, <3>1, <3>2, Zenon DEF TypeInv
    <3>5. ControlInv'
      BY <1>1, <3>1, <3>2, Zenon DEF ControlInv, Starting, Stopping
    <3> QED  BY <3>2, <3>3, <3>4, <3>5, Zenon
  <2>4. ASSUME NEW by \in Workers \cup {Main}, StopBegin(by)
        PROVE  /\ TypeInv' /\ ControlInv' /\ (ctl'.i = 1 \/ ctl'.pc # "refuse")
               /\ ctl'.pc \in {"idle", "spawn", "publish", "take", "refuse"}
    <3>1. /\ ctl.pc = "idle" /\ ~stopping /\ stopping' = TRUE
          /\ generation' = generation + 1 /\ UNCHANGED list
          /\ ctl' = [pc |-> "take", by |-> by, gen |-> list, i |-> 1]
      BY <2>4, Zenon DEF StopBegin
    <3>2. list = generation /\ generation \in Generations /\ generation \in Nat
      BY <3>1, Zenon DEF ControlInv, TypeInv
    <3>3. ctl' \in Controls
      BY <3>1, <3>2, Zenon DEF Controls, Stopping
    <3>4. 1 \in 1 .. Count(generation)
      BY <3>2, CountPositive
    <3>5. TypeInv'
      BY <1>1, <3>1, <3>2, <3>3 DEF TypeInv
    <3>6. ControlInv'
      <4>1. \A c \in closed : c[1] < generation'
        <5>1. \A c \in closed : c[1] \in Nat /\ c[1] < generation
          BY CountPositive, Zenon DEF TypeInv, ControlInv
        <5> QED  BY <3>1, <3>2, <5>1
      <4> QED  BY <1>1, <3>1, <3>2, <3>4, <4>1 DEF ControlInv, Starting, Stopping
    <3> QED  BY <3>1, <3>5, <3>6, Zenon
  <2> QED  BY <2>1, <2>2, <2>3, <2>4, Zenon
<1>3. PostInv' /\ CountInv'
  BY <1>1, PostsKept, Zenon
<1>4. /\ Refused' \subseteq Refused /\ Left' \subseteq Left /\ Emptied' \subseteq Emptied
      /\ Joined' = {}
  BY <1>1, <1>2, OnlyReturned, Zenon
<1>5. StopInv'
  BY <1>1, <1>4, NoLoopPassed, Zenon
<1>6. JoinInv'
  BY <1>1, <1>4, Zenon DEF JoinInv
<1> QED  BY <1>2, <1>3, <1>5, <1>6, Zenon

LEMMA StartSpawnStep ==
  ASSUME IndInv, StartSpawn
  PROVE  IndInv'
<1> USE DEF IndInv
<1>1. /\ ctl.pc = "spawn" /\ accepting' = [accepting EXCEPT ![At] = TRUE]
      /\ thread' = [thread EXCEPT ![At] = "wait"] /\ NextWorker("publish")
      /\ UNCHANGED <<poolVars, active, fifo, linking, post, closed>>
  BY Zenon DEF StartSpawn, ThreadGoes, queueVars
<1>2. At \in Workers /\ At[1] = ctl.gen /\ ctl.gen = generation /\ ~stopping
  BY <1>1, AtWorker, Zenon DEF At, ControlInv, Starting
<1>3. /\ ctl' \in Controls /\ ctl'.gen = ctl.gen /\ ctl'.by = ctl.by
      /\ ctl'.i \in 1 .. Count(ctl.gen) /\ ctl'.pc \in {"spawn", "publish"}
  BY <1>1, NextWorkerIs, Zenon DEF Starting
<1>4. /\ accepting' \in [Workers -> BOOLEAN] /\ thread' \in [Workers -> ThreadPlaces]
      /\ \A w \in Workers : w # At => accepting'[w] = accepting[w] /\ thread'[w] = thread[w]
  BY <1>1, ZenonT(40) DEF TypeInv, ThreadPlaces
<1>5. TypeInv'
  BY <1>1, <1>3, <1>4, Zenon DEF TypeInv, poolVars
<1>6. ControlInv'
  BY <1>1, <1>2, <1>3, Zenon DEF ControlInv, poolVars, Starting, Stopping
<1>7. PostInv' /\ CountInv'
  BY <1>1, PostsKept, Zenon
<1>8. /\ Refused' \subseteq Refused /\ Left' \subseteq Left /\ Emptied' \subseteq Emptied
      /\ Joined' = {}
  BY <1>1, <1>3, OnlyReturned, Zenon
<1>9. \A c \in closed : c[1] # At[1]
  <2>1. \A c \in closed : c[1] \in Nat /\ c[1] < generation
    BY CountPositive, Zenon DEF TypeInv, ControlInv
  <2> QED  BY <1>2, <2>1 DEF TypeInv
<1>10. StopInv'
  <2>1. \A w \in Refused : w \in Workers /\ w # At
    BY <1>1, <1>9, Zenon DEF Refused, Past
  <2> QED  BY <1>1, <1>4, <1>8, <2>1, NoLoopPassed, Zenon
<1>11. JoinInv'
  BY <1>1, <1>4, <1>8, <1>9 DEF JoinInv
<1> QED  BY <1>5, <1>6, <1>7, <1>10, <1>11, Zenon

LEMMA StartFailsStep ==
  ASSUME IndInv, StartFails
  PROVE  IndInv'
<1> USE DEF IndInv
<1>1. /\ ctl.pc = "spawn" /\ stopping' = TRUE /\ generation' = generation + 1 /\ list' = 0
      /\ accepting' = [w \in Workers |-> IF w[1] = ctl.gen THEN FALSE ELSE accepting[w]]
      /\ ctl' = [ctl EXCEPT !.pc = "wake", !.i = 1]
      /\ UNCHANGED <<active, fifo, linking, thread, post, closed>>
  BY Zenon DEF StartFails, queueVars
<1>2. /\ ctl.gen \in Generations /\ ctl.gen = generation /\ ctl.by \in Workers \cup {Main}
      /\ generation \in Nat /\ 1 \in 1 .. Count(ctl.gen)
  <2>1. ctl.gen \in Generations /\ ctl.gen = generation /\ ctl.by \in Workers \cup {Main}
    BY <1>1, Zenon DEF ControlInv, Starting
  <2> QED  BY <2>1, CountPositive DEF TypeInv
<1>3. /\ ctl' \in Controls /\ ctl'.pc = "wake" /\ ctl'.gen = ctl.gen
      /\ ctl'.by = ctl.by /\ ctl'.i = 1
  BY <1>1, ZenonT(40) DEF TypeInv, Controls, Stopping
<1>4. TypeInv'
  <2>1. accepting' \in [Workers -> BOOLEAN]
    BY <1>1, ZenonT(40) DEF TypeInv
  <2>2. generation' \in Nat /\ list' \in Generations \cup {0} /\ stopping' \in BOOLEAN
    BY <1>1, <1>2
  <2>3. UNCHANGED <<active, fifo, thread, post, closed>> /\ ctl' \in Controls
    BY <1>1, <1>3, Zenon
  <2> QED  BY <2>1, <2>2, <2>3, Zenon DEF TypeInv
<1>5. ControlInv'
  <2>1. \A c \in closed : c[1] < generation'
    <3>1. \A c \in closed : c[1] \in Nat /\ c[1] < generation
      BY CountPositive DEF TypeInv, ControlInv
    <3> QED  BY <1>1, <1>2, <3>1
  <2> QED  BY <1>1, <1>2, <1>3, <2>1 DEF ControlInv, Starting, Stopping
<1>6. PostInv' /\ CountInv'
  BY <1>1, PostsKept, Zenon
<1>7. /\ \A w \in Refused' : w \in Workers /\ (w \in Refused \/ w[1] = ctl.gen)
      /\ Left' \subseteq Left /\ Emptied' \subseteq Emptied /\ Joined' = {}
  BY <1>1, <1>3, Zenon DEF Refused, Left, Emptied, Joined, Past
<1>8. StopInv'
  <2>1. \A w \in Refused' : ~accepting'[w]
    BY <1>1, <1>7, Zenon DEF StopInv
  <2> QED  BY <1>1, <1>7, <2>1, ZenonT(40) DEF StopInv
<1>9. JoinInv'
  BY <1>1, <1>7, Zenon DEF JoinInv
<1> QED  BY <1>4, <1>5, <1>6, <1>8, <1>9

-----------------------------------------------------------------------------
(* The theorem. *)

LEMMA InvInit == Counting /\ Init => IndInv
<1> SUFFICES ASSUME Counting, Init PROVE IndInv
  BY Zenon
<1>1. /\ ctl \in Controls /\ ctl.pc = "idle" /\ ctl.gen = 0
      /\ \A p \in Tasks : post[p] \in PostRecords /\ post[p].pc = "new"
  BY Zenon DEF Init, NoControl, NotPosted, Controls, PostRecords
<1>2. TypeInv
  <2>1. post \in [Tasks -> PostRecords]
    BY <1>1, Zenon DEF Init
  <2>2. fifo \in [Workers -> Seq(Tasks)] /\ thread \in [Workers -> ThreadPlaces]
    BY DEF Init, ThreadPlaces
  <2> QED  BY <1>1, <2>1, <2>2, Zenon DEF Init, TypeInv
<1>3. ControlInv
  BY <1>1, Zenon DEF Init, ControlInv, Starting, Stopping
<1>4. PostInv
  BY <1>1 DEF Init, PostInv
<1>5. CountInv
  <2>1. \A w \in Workers : Inside(w) = {}
    BY <1>1, Zenon DEF Inside, Counted, Accepted
  <2> QED  BY <2>1, ZenonT(40) DEF Init, CountInv, Counting
<1>6. Refused = {} /\ Left = {} /\ Emptied = {} /\ Joined = {}
  BY <1>1, Zenon DEF Init, Refused, Left, Emptied, Joined, Past
<1>7. StopInv /\ JoinInv
  BY <1>6, Zenon DEF Init, StopInv, JoinInv
<1> QED  BY <1>2, <1>3, <1>4, <1>5, <1>7, Zenon DEF IndInv

LEMMA InvStep == Counting /\ IndInv /\ [Next]_vars => IndInv'
<1> SUFFICES ASSUME Counting, IndInv, [Next]_vars PROVE IndInv'
  BY Zenon
<1>1. CASE \E p \in Tasks : PostBegin(p) \/ PostToWorker(p)
  BY <1>1, PostQuietStep, PostWakesStep, PostExchangeStep, PostLinkStep, Zenon DEF PostToWorker
<1>2. CASE \E w \in Workers : Run(w) \/ SpuriousWakeup(w)
  BY <1>2, RunStep, Zenon
<1>3. CASE \/ StartOpen \/ StopBegin(Main) \/ StartPublish \/ StopTake
           \/ \E w \in Workers : StopBegin(w)
  BY <1>3, BeginStep, Zenon
<1>4. CASE \/ StartFails \/ StartSpawn \/ StopRefuse \/ StopWake \/ StopJoin
           \/ StopAwait \/ StopDrain
  BY <1>4, StartFailsStep, StartSpawnStep, StopRefuseStep, StopWakeStep, StopJoinStep,
     StopAwaitStep, StopDrainStep, Zenon
<1>5. CASE UNCHANGED vars
  <2>1. /\ UNCHANGED <<poolVars, accepting, active, fifo, linking, thread, post, ctl, closed>>
    BY <1>5, Zenon DEF vars, stateVars, queueVars
  <2>2. TypeInv /\ StopInv
    BY Zenon DEF IndInv
  <2>3. ControlStays /\ ThreadsStay
    BY <2>1, <2>2, NothingNotified, Zenon
  <2>4. /\ ControlInv' /\ JoinInv' /\ Left' = Left /\ Emptied' = Emptied
        /\ \A w \in Refused' : ~accepting'[w]
    BY <2>1, <2>3, OthersKeep, Zenon
  <2>5. PostInv' /\ CountInv'
    BY <2>1, PostsKept, Zenon
  <2>6. TypeInv'
    BY <2>1, <2>2, Zenon DEF TypeInv, poolVars
  <2>7. StopInv'
    BY <2>1, <2>2, <2>4, Zenon DEF StopInv
  <2> QED  BY <2>4, <2>5, <2>6, <2>7, Zenon DEF IndInv
<1> QED  BY <1>1, <1>2, <1>3, <1>4, <1>5, Zenon DEF Next, Control

INSTANCE FiniteSetTheorems

LEMMA CountingHolds == Counting
  BY FS_EmptySet, FS_CardinalityType, FS_AddElement, FS_RemoveElement, Zenon DEF Counting

LEMMA Invariance == Spec => []IndInv
<1>1. Init => IndInv
  BY CountingHolds, InvInit, Zenon
<1>2. IndInv /\ [Next]_vars => IndInv'
  BY CountingHolds, InvStep, Zenon
<1> QED  BY <1>1, <1>2, PTL DEF Spec

\* When Stop has returned, its pool is quiet and stays so: its threads have ended, but
\* for a worker that called Stop itself, and its queues are empty, for any number of
\* workers, posts under way and calls of Start and Stop (WorkerPool::Stop).
THEOREM StoppedPoolsAreQuiet == Spec => []StoppedIsQuiet
<1>1. IndInv => StoppedIsQuiet
  <2> SUFFICES ASSUME IndInv, NEW c \in closed, NEW w \in {c[1]} \X (1 .. Count(c[1]))
               PROVE  fifo[w] = <<>> /\ (thread[w] \in {"none", "gone"} \/ w = c[2])
    BY Zenon DEF StoppedIsQuiet
  <2>1. c[1] \in Generations /\ w[1] = c[1] /\ w[2] \in 1 .. Count(c[1]) /\ w = <<w[1], w[2]>>
    BY DEF IndInv, TypeInv
  <2>2. w \in Workers
    <3>1. <<w[1], w[2]>> \in Workers
      BY <2>1, IsWorker, Zenon
    <3> QED  BY <2>1, <3>1, Zenon
  <2>3. w \in Emptied
    BY <2>1, <2>2, Zenon DEF Emptied, Past
  <2> QED  BY <2>1, <2>2, <2>3, Zenon DEF IndInv, StopInv, JoinInv
<1> QED  BY <1>1, Invariance, PTL
=============================================================================
