-------------------------- MODULE TaskDrainProofs --------------------------
(***************************************************************************)
(* The counters of TaskDrain are exact, what follows from the inductive    *)
(* invariant (TaskDrainInvariant) for the properties of TaskDrain, and     *)
(* that TaskDrain implements SerialExecutor.                               *)
(***************************************************************************)
EXTENDS TaskDrainInvariant, FiniteSetTheorems

-----------------------------------------------------------------------------
\* A step that moves no thread into or out of the sets that CountersExact
\* counts, and no node into or out of the queue.
NothingCounted ==
  /\ UNCHANGED <<active_posts, queued_tasks, Posting, Counted, Took, Discarding>>
  /\ Len(fifo') = Len(fifo)

\* The sets of threads that the counters count are finite.
LEMMA CountedFinite ==
  /\ IsFiniteSet(Posting) /\ IsFiniteSet(Counted)
  /\ IsFiniteSet(Took) /\ IsFiniteSet(Discarding)
<1>1. /\ Posting \subseteq Threads /\ Counted \subseteq Threads
      /\ Took \subseteq Threads /\ Discarding \subseteq Threads
  BY Zenon DEF Posting, Counted, Took, Discarding
<1> QED
  BY <1>1, FS_Subset, ConstantsAssumption, Zenon

\* Their cardinalities are natural numbers.
LEMMA CountedNat ==
  /\ Cardinality(Posting) \in Nat /\ Cardinality(Counted) \in Nat
  /\ Cardinality(Took) \in Nat /\ Cardinality(Discarding) \in Nat
  BY CountedFinite, FS_CardinalityType, Zenon

\* A new element adds one to the cardinality of a finite set.
LEMMA CardinalityAdd ==
  ASSUME NEW S, NEW R, NEW x, IsFiniteSet(S), x \notin S, R = S \cup {x}
  PROVE  Cardinality(R) = Cardinality(S) + 1
  BY FS_AddElement, Zenon

\* Taking an element away subtracts one.
LEMMA CardinalityRemove ==
  ASSUME NEW S, NEW R, NEW x, IsFiniteSet(S), x \in S, R = S \ {x}
  PROVE  Cardinality(R) = Cardinality(S) - 1
  BY FS_RemoveElement, Zenon

\* Taking a node from task_queue_ makes it one shorter.
LEMMA PopLength ==
  ASSUME FlagsOK, NEW k, Q!Pop(k)
  PROVE  Len(fifo') = Len(fifo) - 1
  BY DEF FlagsOK, Q!Pop

\* The counters of a new connection are exact: nothing to count.
LEMMA CountInit == Init => CountersExact
<1> SUFFICES ASSUME Init PROVE CountersExact
  BY Zenon
<1>1. Posting = {} /\ Counted = {} /\ Took = {} /\ Discarding = {}
  BY Zenon DEF Init, Posting, Counted, Took, Discarding
<1> QED
  BY <1>1, FS_EmptySet DEF Init, Q!Init, CountersExact

\* A step that moves nothing counted keeps the counters exact.
LEMMA CountSame == CountersExact /\ NothingCounted => CountersExact'
  BY Zenon DEF CountersExact, NothingCounted

\* Every increment and decrement of active_posts_ and queued_tasks_ goes with
\* one thread or node that enters or leaves what they count.
LEMMA CountStep ==
  ShapeOK /\ HolderInv /\ StackInv /\ CountersExact /\ [Next]_vars => CountersExact'
<1> SUFFICES ASSUME ShapeOK, HolderInv, StackInv, CountersExact, [Next]_vars
             PROVE  CountersExact'
  BY Zenon
<1> USE ConstantsAssumption
    DEF ShapeOK, FlagsOK, PostOK, DrainOK, CloseOK, PostPc, DrainPc, SubPc,
        Goto, Call, sharedVars, queueVars, poolVars, postVars, drainVars, closeVars
<1>1. ASSUME NEW t \in Threads, NEW k \in Tasks, PostEnter(t, k) PROVE CountersExact'
  <2>1. t \notin Posting /\ Posting' = Posting \cup {t}
    BY <1>1 DEF PostEnter, InUserCode, Posting
  <2>2. UNCHANGED <<Counted, Took, Discarding>>
    BY <1>1, Zenon DEF PostEnter, InUserCode, Counted, Took, Discarding
  <2>3. active_posts' = active_posts + 1 /\ UNCHANGED <<queued_tasks, fifo>>
    BY <1>1, Zenon DEF PostEnter, InUserCode
  <2>4. Cardinality(Posting') = Cardinality(Posting) + 1
    BY <2>1, CountedFinite, CardinalityAdd, Zenon
  <2> QED
    BY <2>2, <2>3, <2>4, CountedNat, Zenon DEF CountersExact
<1>2. ASSUME NEW t \in Threads, PostCheckAccepting(t) PROVE NothingCounted
  BY <1>2 DEF PostCheckAccepting,
         NothingCounted, Posting, Counted, Took, Discarding
<1>3. ASSUME NEW t \in Threads, PostCount(t) PROVE CountersExact'
  <2>1. t \notin Counted /\ Counted' = Counted \cup {t}
    BY <1>3 DEF PostCount, Counted
  <2>2. UNCHANGED <<Posting, Took, Discarding>>
    BY <1>3 DEF PostCount, Posting, Took, Discarding
  <2>3. queued_tasks' = queued_tasks + 1 /\ UNCHANGED <<active_posts, fifo>>
    BY <1>3, Zenon DEF PostCount
  <2>4. Cardinality(Counted') = Cardinality(Counted) + 1
    BY <2>1, CountedFinite, CardinalityAdd, Zenon
  <2> QED
    BY <2>2, <2>3, <2>4, CountedNat, SMTT(30) DEF CountersExact
<1>4. ASSUME NEW t \in Threads, PostExchange(t) PROVE CountersExact'
  <2>1. t \in Counted /\ Counted' = Counted \ {t}
    BY <1>4, Zenon DEF PostExchange, Q!PushExchange, Counted
  <2>2. UNCHANGED <<Posting, Took, Discarding>>
    BY <1>4 DEF PostExchange, Q!PushExchange, Posting, Took, Discarding
  <2>3. UNCHANGED <<active_posts, queued_tasks>> /\ Len(fifo') = Len(fifo) + 1
    BY <1>4 DEF PostExchange, Q!PushExchange
  <2>4. Cardinality(Counted') = Cardinality(Counted) - 1
    BY <2>1, CountedFinite, CardinalityRemove, Zenon
  <2> QED
    BY <2>2, <2>3, <2>4, CountedNat DEF CountersExact
<1>5. ASSUME NEW t \in Threads, PostLink(t) PROVE NothingCounted
  BY <1>5 DEF PostLink, Q!PushLink,
         NothingCounted, Posting, Counted, Took, Discarding
<1>6. ASSUME NEW t \in Threads, PostElect(t) PROVE NothingCounted
  BY <1>6 DEF PostElect,
         NothingCounted, Posting, Counted, Took, Discarding
<1>7. ASSUME NEW t \in Threads, PostLeave(t) PROVE CountersExact'
  <2>1. t \in Posting /\ Posting' = Posting \ {t}
    BY <1>7 DEF StackInv, FlushPc, PostLeave, Posting
  <2>2. UNCHANGED <<Counted, Took, Discarding>>
    BY <1>7 DEF StackInv, FlushPc, PostLeave, Counted, Took, Discarding
  <2>3. active_posts' = active_posts - 1 /\ UNCHANGED <<queued_tasks, fifo>>
    BY <1>7, Zenon DEF PostLeave
  <2>4. Cardinality(Posting') = Cardinality(Posting) - 1
    BY <2>1, CountedFinite, CardinalityRemove, ZenonT(40)
  <2> QED
    BY <2>2, <2>3, <2>4, CountedNat, ZenonT(40) DEF CountersExact
<1>8. ASSUME NEW t \in Threads, PostSchedule(t) PROVE NothingCounted
  BY <1>8 DEF HolderInv, Draining, DrainHolds, PostSchedule, ScheduleDrain,
         NothingCounted, Posting, Counted, Took, Discarding
<1>9. ASSUME NEW t \in Threads, DrainTop(t) PROVE NothingCounted
  BY <1>9 DEF StackInv, FlushPc, DrainTop,
         NothingCounted, Posting, Counted, Took, Discarding
<1>10. ASSUME NEW t \in Threads, DrainPop(t) PROVE CountersExact'
  <2>1. ASSUME NEW k \in Tasks, Q!Pop(k),
               dtask' = [dtask EXCEPT ![t] = k], Goto(drain, t, "took")
        PROVE  CountersExact'
    <3>1. t \notin Took /\ Took' = Took \cup {t}
      BY <1>10, <2>1 DEF DrainPop, Took
    <3>2. UNCHANGED <<active_posts, queued_tasks, Posting, Counted, Discarding>>
      BY <1>10, <2>1, Zenon DEF DrainPop, Posting, Counted, Discarding
    <3>3. Cardinality(Took') = Cardinality(Took) + 1
      BY <3>1, CountedFinite, CardinalityAdd, Zenon
    <3>4. Len(fifo') = Len(fifo) - 1
      BY <2>1, PopLength, Zenon
    <3> QED
      BY <3>2, <3>3, <3>4, CountedNat, SMTT(30) DEF CountersExact
  <2>2. CASE Goto(drain, t, "empty") /\ UNCHANGED <<queueVars, dtask>>
    <3>1. NothingCounted
      BY <1>10, <2>2 DEF DrainPop, NothingCounted, Posting, Counted, Took, Discarding
    <3> QED
      BY <3>1, CountSame, Zenon
  <2> QED
    BY <1>10, <2>1, <2>2, Zenon DEF DrainPop
<1>11. ASSUME NEW t \in Threads, DrainCount(t) PROVE CountersExact'
  <2>1. t \in Took /\ Took' = Took \ {t}
    BY <1>11, Zenon DEF DrainCount, Took
  <2>2. UNCHANGED <<Posting, Counted, Discarding>>
    BY <1>11 DEF DrainCount, Posting, Counted, Discarding
  <2>3. queued_tasks' = queued_tasks - 1 /\ UNCHANGED <<active_posts, fifo>>
    BY <1>11, Zenon DEF DrainCount
  <2>4. Cardinality(Took') = Cardinality(Took) - 1
    BY <2>1, CountedFinite, CardinalityRemove, ZenonT(40)
  <2> QED
    BY <2>2, <2>3, <2>4, CountedNat, SMTT(30) DEF CountersExact
<1>12. ASSUME NEW t \in Threads, DrainTaskEnds(t) PROVE NothingCounted
  BY <1>12 DEF DrainTaskEnds, InUserCode, InClose,
         NothingCounted, Posting, Counted, Took, Discarding
<1>13. ASSUME NEW t \in Threads, DrainYield(t) PROVE NothingCounted
  BY <1>13 DEF DrainYield,
         NothingCounted, Posting, Counted, Took, Discarding
<1>14. ASSUME NEW t \in Threads, DrainEmpty(t) PROVE NothingCounted
  BY <1>14 DEF StackInv, FlushPc, DrainEmpty, StoreNotDraining,
         NothingCounted, Posting, Counted, Took, Discarding
<1>15. ASSUME NEW t \in Threads, DrainRecheck(t) PROVE NothingCounted
  BY <1>15 DEF DrainRecheck,
         NothingCounted, Posting, Counted, Took, Discarding
<1>16. ASSUME NEW t \in Threads, DrainReelect(t) PROVE NothingCounted
  BY <1>16 DEF DrainReelect,
         NothingCounted, Posting, Counted, Took, Discarding
<1>17. ASSUME NEW t \in Threads, DrainClose(t) PROVE NothingCounted
  BY <1>17 DEF DrainClose,
         NothingCounted, Posting, Counted, Took, Discarding
<1>18. ASSUME NEW t \in Threads, DrainRelease(t) PROVE NothingCounted
  BY <1>18 DEF StackInv, FlushPc, DrainRelease, StoreNotDraining,
         NothingCounted, Posting, Counted, Took, Discarding
<1>19. ASSUME NEW t \in Threads, DrainReturn(t) PROVE NothingCounted
  BY <1>19 DEF DrainReturn,
         NothingCounted, Posting, Counted, Took, Discarding
<1>20. ASSUME NEW t \in Threads, NotifyCheckClosing(t) PROVE NothingCounted
  BY <1>20 DEF NotifyCheckClosing,
         NothingCounted, Posting, Counted, Took, Discarding
<1>21. ASSUME NEW t \in Threads, NotifyLocked(t) PROVE NothingCounted
  BY <1>21 DEF NotifyLocked,
         NothingCounted, Posting, Counted, Took, Discarding
<1>22. ASSUME NEW t \in Threads, FlushPop(t) PROVE CountersExact'
  <2>1. ASSUME NEW k \in Tasks, Q!Pop(k), Call(t, "count")
        PROVE  CountersExact'
    <3>1. t \notin Discarding /\ Discarding' = Discarding \cup {t}
      BY <1>22, <2>1 DEF FlushPop, Discarding
    <3>2. UNCHANGED <<active_posts, queued_tasks, Posting, Counted, Took>>
      BY <1>22, <2>1 DEF FlushPop, Posting, Counted, Took
    <3>3. Cardinality(Discarding') = Cardinality(Discarding) + 1
      BY <3>1, CountedFinite, CardinalityAdd, Zenon
    <3>4. Len(fifo') = Len(fifo) - 1
      BY <2>1, PopLength, Zenon
    <3> QED
      BY <3>2, <3>3, <3>4, CountedNat, SMTT(30) DEF CountersExact
  <2>2. CASE Call(t, "active?") /\ UNCHANGED queueVars
    <3>1. NothingCounted
      BY <1>22, <2>2 DEF FlushPop, NothingCounted, Posting, Counted, Took, Discarding
    <3> QED
      BY <3>1, CountSame
  <2> QED
    BY <1>22, <2>1, <2>2, ZenonT(40) DEF FlushPop
<1>23. ASSUME NEW t \in Threads, FlushCount(t) PROVE CountersExact'
  <2>1. t \in Discarding /\ Discarding' = Discarding \ {t}
    BY <1>23, ZenonT(40) DEF FlushCount, Discarding
  <2>2. UNCHANGED <<Posting, Counted, Took>>
    BY <1>23 DEF FlushCount, Posting, Counted, Took
  <2>3. queued_tasks' = queued_tasks - 1 /\ UNCHANGED <<active_posts, fifo>>
    BY <1>23, Zenon DEF FlushCount
  <2>4. Cardinality(Discarding') = Cardinality(Discarding) - 1
    BY <2>1, CountedFinite, CardinalityRemove, ZenonT(40)
  <2> QED
    BY <2>2, <2>3, <2>4, CountedNat, SMTT(30) DEF CountersExact
<1>24. ASSUME NEW t \in Threads, FlushRecheck(t) PROVE NothingCounted
  BY <1>24 DEF FlushRecheck,
         NothingCounted, Posting, Counted, Took, Discarding
<1>25. ASSUME NEW t \in Threads, CloseEnter(t) PROVE NothingCounted
  BY <1>25 DEF CloseEnter, InUserCode, InClose,
         NothingCounted, Posting, Counted, Took, Discarding
<1>26. ASSUME WorkerRunsDrain PROVE NothingCounted
  BY <1>26, Zenon DEF WorkerRunsDrain, InUserCode,
         NothingCounted, Posting, Counted, Took, Discarding
<1>27. ASSUME CloseStop PROVE NothingCounted
  BY <1>27 DEF CloseStop,
         NothingCounted, Posting, Counted, Took, Discarding
<1>28. ASSUME CloseAwaitPosts PROVE NothingCounted
  BY <1>28 DEF CloseAwaitPosts,
         NothingCounted, Posting, Counted, Took, Discarding
<1>29. ASSUME CloseChoose PROVE NothingCounted
  BY <1>29 DEF StackInv, FlushPc, CloseChoose,
         NothingCounted, Posting, Counted, Took, Discarding
<1>30. ASSUME CloseSelf PROVE NothingCounted
  BY <1>30 DEF CloseSelf,
         NothingCounted, Posting, Counted, Took, Discarding
<1>31. ASSUME CloseSchedule PROVE NothingCounted
  BY <1>31 DEF HolderInv, NoThreadHolds, Draining, DrainHolds, CloseSchedule, ScheduleDrain,
         NothingCounted, Posting, Counted, Took, Discarding
<1>32. ASSUME CloseAwaitIdle PROVE NothingCounted
  BY <1>32, Zenon DEF CloseAwaitIdle,
         NothingCounted, Posting, Counted, Took, Discarding
<1>33. ASSUME SpuriousWakeup PROVE NothingCounted
  BY <1>33 DEF SpuriousWakeup,
         NothingCounted, Posting, Counted, Took, Discarding
<1>34. ASSUME WriteBack PROVE NothingCounted
  BY <1>34 DEF WriteBack,
         NothingCounted, Posting, Counted, Took, Discarding
<1>35. ASSUME UNCHANGED vars PROVE NothingCounted
  BY <1>35 DEF vars, NothingCounted, Posting, Counted, Took, Discarding
<1> QED
  BY <1>1, <1>2, <1>3, <1>4, <1>5, <1>6, <1>7, <1>8, <1>9, <1>10, <1>11, <1>12,
     <1>13, <1>14, <1>15, <1>16, <1>17, <1>18, <1>19, <1>20, <1>21, <1>22, <1>23,
     <1>24, <1>25, <1>26, <1>27, <1>28, <1>29, <1>30, <1>31, <1>32, <1>33, <1>34,
     <1>35, CountSame, ZenonT(40)
     DEF Next, Post, Drain, Sub, CloseFromOwner

\* Types, responsibility for draining, release, nesting and counters together
\* are inductive.
IndInv == ShapeOK /\ HolderInv /\ ReleaseInv /\ StackInv /\ CountersExact

\* The inductive invariant holds in every reachable state.
LEMMA IndInvInvariant == Spec => []IndInv
<1>1. Init => IndInv
  BY ShapeInit, HolderInit, ReleaseInit, StackInit, CountInit, Zenon DEF IndInv
<1>2. IndInv /\ [Next]_vars => IndInv'
  BY ShapeStep, HolderStep, ReleaseStep, StackStep, CountStep, Zenon DEF IndInv
<1> QED
  BY <1>1, <1>2, PTL DEF Spec

\* Every member keeps its type; in particular neither active_posts_ nor
\* queued_tasks_ (a size_t) ever goes below zero.
THEOREM TypeCorrect == Spec => []TypeOK
<1>1. IndInv => TypeOK
  <2> SUFFICES ASSUME IndInv PROVE TypeOK
    BY Zenon
  <2>1. active_posts \in Nat /\ queued_tasks \in Nat
    BY CountedNat DEF IndInv, ShapeOK, FlagsOK, CountersExact
  <2> QED
    BY <2>1, Zenon DEF IndInv, ShapeOK, FlagsOK, PostOK, DrainOK, CloseOK, TypeOK
<1> QED
  BY <1>1, IndInvInvariant, PTL

\* active_posts_ and queued_tasks_ are exact in every reachable state.
THEOREM CountersAreExact == Spec => []CountersExact
<1>1. IndInv => CountersExact
  BY Zenon DEF IndInv
<1> QED
  BY <1>1, IndInvInvariant, PTL

\* No two threads are ever inside the part of Drain that takes and runs tasks.
THEOREM TasksAreSerial == Spec => []SerialTasks
<1>1. IndInv => SerialTasks
  BY Zenon DEF IndInv, HolderInv, Draining, SerialTasks
<1> QED
  BY <1>1, IndInvInvariant, PTL

\* draining_ is never left set without someone responsible for draining.
THEOREM FlagIsHeld == Spec => []FlagHasHolder
<1>1. IndInv => FlagHasHolder
  <2> SUFFICES ASSUME IndInv PROVE FlagHasHolder
    OBVIOUS
  <2> DEFINE ByDrain == {<<"drain", t>> : t \in {u \in Threads : drain[u] \in DrainHolds}}
             ByPost == {<<"post", t>> : t \in {u \in Threads :
                                               won[u] /\ post[u] \in {"leaving", "schedule"}}}
             ByClose == {<<"close", t>> : t \in {u \in Threads : closer = u /\ close = "schedule"}}
             ByPool == {<<"pool", i>> : i \in 1 .. poolQueue}
  <2>1. ByDrain # {} <=> \E t \in Threads : Draining(t)
    BY Zenon DEF Draining
  <2>2. ByPost # {} <=> \E t \in Threads : won[t]
    BY Zenon DEF IndInv, HolderInv
  <2>3. ByClose # {} <=> close = "schedule"
    BY Zenon DEF IndInv, ShapeOK, CloseOK
  <2>4. ByPool # {} <=> poolQueue = 1
    <3>1. CASE poolQueue = 0
      <4>1. 1 .. poolQueue = {}
        BY <3>1
      <4> QED
        BY <3>1, <4>1
    <3>2. CASE poolQueue = 1
      <4>1. 1 \in 1 .. poolQueue
        BY <3>2
      <4> QED
        BY <3>2, <4>1, Zenon
    <3> QED
      BY <3>1, <3>2, Zenon DEF IndInv, HolderInv
  <2>5. Holders # {} <=> ByDrain # {} \/ ByPost # {} \/ ByClose # {} \/ ByPool # {}
    BY Zenon DEF Holders
  <2> HIDE DEF ByDrain, ByPost, ByClose, ByPool
  <2> QED
    BY <2>1, <2>2, <2>3, <2>4, <2>5, Zenon
       DEF IndInv, HolderInv, ShapeOK, FlagsOK, FlagHasHolder
<1> QED
  BY <1>1, IndInvInvariant, PTL

\* No task runs or begins once CloseFromOwner has returned, except the task
\* that called it.
THEOREM NothingRunsAfterRelease == Spec => []NoTaskAfterRelease
<1>1. IndInv => NoTaskAfterRelease
  BY Zenon DEF IndInv, ReleaseInv, NoTaskAfterRelease
<1> QED
  BY <1>1, IndInvInvariant, PTL

-----------------------------------------------------------------------------
(* The serial executor. *)

\* What the refinement needs besides: which threads hold a task; that nothing is
\* pushed any more once CloseFromOwner has seen active_posts_ at zero; that the
\* queue is empty when it returns; and that its thread takes no further task.
ExecInv ==
  /\ \A t \in Threads : dtask[t] # NoTask <=> drain[t] \in {"took", "running"}
  /\ accepting_tasks <=> close \in {"open", "stop"}
  /\ close \notin {"open", "stop", "wait1", "sleep1"} =>
       \A t \in Threads : post[t] \notin {"accepted", "counted", "exchanged", "linked"}
  /\ close \in {"wait2active", "done"} => fifo = <<>>
  /\ close = "selfflush" => sub[closer] \in FlushPc \/ fifo = <<>>
  /\ closer = NoThread <=> close = "open"
  /\ closer # NoThread => drain[closer] \notin {"pop", "took"}
  /\ \A t \in Threads : drain[t] = "flush" => close # "open"

\* queued_tasks_ = 0 means that task_queue_ is empty.
LEMMA NothingQueued ==
  ASSUME FlagsOK, CountersExact, queued_tasks = 0
  PROVE  fifo = <<>>
<1>1. Len(fifo) = 0
  BY CountedNat DEF FlagsOK, CountersExact
<1> QED
  BY <1>1 DEF FlagsOK

\* active_posts_ = 0 means that no thread is inside Post.
LEMMA NothingPosting ==
  ASSUME CountersExact, active_posts = 0
  PROVE  \A t \in Threads : t \notin Posting
<1>1. Posting = {}
  BY CountedFinite, FS_EmptySet, Zenon DEF CountersExact
<1> QED
  BY <1>1, Zenon

LEMMA ExecInit == Init => ExecInv
  BY ConstantsAssumption, ZenonT(40) DEF Init, Q!Init, ExecInv

\* Every step keeps what the refinement needs.
LEMMA ExecStep == IndInv /\ ExecInv /\ [Next]_vars => ExecInv'
<1> SUFFICES ASSUME IndInv, ExecInv, [Next]_vars PROVE ExecInv'
  BY ZenonT(40)
<1> USE ConstantsAssumption
    DEF IndInv, ShapeOK, FlagsOK, PostOK, DrainOK, CloseOK, StackInv, ExecInv, FlushPc, PostPc,
        DrainPc, SubPc, ClosePc,
        Goto, Call, sharedVars, queueVars, poolVars, postVars, drainVars, closeVars
<1>1. ASSUME NEW t \in Threads, NEW k \in Tasks, PostEnter(t, k) PROVE ExecInv'
  BY <1>1, SMTT(30) DEF PostEnter, InUserCode
<1>2. ASSUME NEW t \in Threads, PostCheckAccepting(t) PROVE ExecInv'
  BY <1>2 DEF PostCheckAccepting
<1>3. ASSUME NEW t \in Threads, PostCount(t) PROVE ExecInv'
  BY <1>3, Zenon DEF PostCount
<1>4. ASSUME NEW t \in Threads, PostExchange(t) PROVE ExecInv'
  BY <1>4, Zenon DEF PostExchange, Q!PushExchange
<1>5. ASSUME NEW t \in Threads, PostLink(t) PROVE ExecInv'
  BY <1>5, Zenon DEF PostLink, Q!PushLink
<1>6. ASSUME NEW t \in Threads, PostElect(t) PROVE ExecInv'
  BY <1>6, ZenonT(40) DEF PostElect
<1>7. ASSUME NEW t \in Threads, PostLeave(t) PROVE ExecInv'
  BY <1>7, SMTT(30) DEF PostLeave, StackInv
<1>8. ASSUME NEW t \in Threads, PostSchedule(t) PROVE ExecInv'
  BY <1>8, SMTT(30) DEF PostSchedule, ScheduleDrain, HolderInv, Draining, DrainHolds
<1>9. ASSUME NEW t \in Threads, DrainTop(t) PROVE ExecInv'
  BY <1>9, ZenonT(40) DEF DrainTop, ReleaseInv
<1>10. ASSUME NEW t \in Threads, DrainPop(t) PROVE ExecInv'
  <2>1. /\ drain[t] = "pop" /\ close # "done"
        /\ UNCHANGED <<accepting_tasks, post, sub, close, closer>>
        /\ \A u \in Threads : u # t => drain'[u] = drain[u] /\ dtask'[u] = dtask[u]
    BY <1>10 DEF DrainPop, ReleaseInv
  <2>2. close # "open" => t # closer
    BY <2>1, Zenon
  <2>3. dtask'[t] # NoTask <=> drain'[t] \in {"took", "running"}
    BY <1>10 DEF DrainPop
  <2>4. fifo = <<>> => fifo' = <<>>
    BY <1>10, Zenon DEF DrainPop, Q!Pop
  <2>5. \A u \in Threads : dtask'[u] # NoTask <=> drain'[u] \in {"took", "running"}
    BY <2>1, <2>3, SMTT(30)
  <2>6. closer' # NoThread => drain'[closer'] \notin {"pop", "took"}
    BY <2>1, <2>2, Zenon
  <2>7. drain'[t] # "flush"
    BY <1>10 DEF DrainPop
  <2>8. \A u \in Threads : drain'[u] = "flush" => close' # "open"
    BY <2>1, <2>7
  <2> HIDE DEF IndInv
  <2> QED
    BY <2>1, <2>4, <2>5, <2>6, <2>8, Zenon
<1>11. ASSUME NEW t \in Threads, DrainCount(t) PROVE ExecInv'
  BY <1>11 DEF DrainCount
<1>12. ASSUME NEW t \in Threads, DrainTaskEnds(t) PROVE ExecInv'
  BY <1>12 DEF DrainTaskEnds, InUserCode, InClose
<1>13. ASSUME NEW t \in Threads, DrainYield(t) PROVE ExecInv'
  <2>1. /\ drain[t] = "after" /\ drain'[t] \in {"top", "returning"}
        /\ UNCHANGED <<accepting_tasks, post, dtask, sub, fifo, close, closer>>
        /\ \A u \in Threads : u # t => drain'[u] = drain[u]
    BY <1>13 DEF DrainYield
  <2> QED
    BY <2>1, ZenonT(40)
<1>14. ASSUME NEW t \in Threads, DrainEmpty(t) PROVE ExecInv'
  BY <1>14 DEF DrainEmpty, StoreNotDraining
<1>15. ASSUME NEW t \in Threads, DrainRecheck(t) PROVE ExecInv'
  <2>1. /\ drain[t] \notin {"took", "running"} /\ drain'[t] \in {"queued?", "active?", "recas", "returning"}
        /\ UNCHANGED <<accepting_tasks, post, dtask, sub, fifo, close, closer>>
        /\ \A u \in Threads : u # t => drain'[u] = drain[u]
    BY <1>15, SMTT(30) DEF DrainRecheck
  <2> QED
    BY <2>1, SMTT(30)
<1>16. ASSUME NEW t \in Threads, DrainReelect(t) PROVE ExecInv'
  BY <1>16, SMTT(30) DEF DrainReelect
<1>17. ASSUME NEW t \in Threads, DrainClose(t) PROVE ExecInv'
  BY <1>17, SMTT(30) DEF DrainClose
<1>18. ASSUME NEW t \in Threads, DrainRelease(t) PROVE ExecInv'
  BY <1>18, SMTT(30) DEF DrainRelease, StoreNotDraining
<1>19. ASSUME NEW t \in Threads, DrainReturn(t) PROVE ExecInv'
  BY <1>19, SMTT(30) DEF DrainReturn
<1>20. ASSUME NEW t \in Threads, NotifyCheckClosing(t) PROVE ExecInv'
  BY <1>20, SMTT(30) DEF NotifyCheckClosing
<1>21. ASSUME NEW t \in Threads, NotifyLocked(t) PROVE ExecInv'
  BY <1>21, SMTT(30) DEF NotifyLocked
<1>22. ASSUME NEW t \in Threads, FlushPop(t) PROVE ExecInv'
  <2>1. /\ sub[t] = "pop" /\ sub'[t] \in FlushPc
        /\ UNCHANGED <<accepting_tasks, post, drain, dtask, close, closer>>
        /\ \A u \in Threads : u # t => sub'[u] = sub[u]
    BY <1>22 DEF FlushPop
  <2>2. fifo = <<>> => fifo' = <<>>
    BY <1>22, ZenonT(40) DEF FlushPop, Q!Pop
  <2> QED
    BY <2>1, <2>2, SMTT(30)
<1>23. ASSUME NEW t \in Threads, FlushCount(t) PROVE ExecInv'
  BY <1>23 DEF FlushCount
<1>24. ASSUME NEW t \in Threads, FlushRecheck(t) PROVE ExecInv'
  <2>1. /\ UNCHANGED <<accepting_tasks, post, drain, dtask, fifo, close, closer>>
        /\ \A u \in Threads : u # t => sub'[u] = sub[u]
        /\ sub'[t] \in FlushPc \/ queued_tasks = 0
    BY <1>24 DEF FlushRecheck
  <2>2. queued_tasks = 0 => fifo = <<>>
    BY NothingQueued, Zenon
  <2> QED
    BY <2>1, <2>2, ZenonT(40)
<1>25. ASSUME NEW t \in Threads, CloseEnter(t) PROVE ExecInv'
  BY <1>25, ZenonT(40) DEF CloseEnter, InUserCode, InClose
<1>26. CASE WorkerRunsDrain
  BY <1>26 DEF WorkerRunsDrain, InUserCode
<1>27. CASE CloseStop
  BY <1>27, Zenon DEF CloseStop
<1>28. CASE CloseAwaitPosts
  <2>1. active_posts = 0 => \A t \in Threads : t \notin Posting
    BY NothingPosting, ZenonT(40)
  <2> QED
    BY <1>28, <2>1, Zenon DEF CloseAwaitPosts, Posting
<1>29. CASE CloseChoose
  BY <1>29 DEF CloseChoose
<1>30. CASE CloseSelf
  BY <1>30, ZenonT(40) DEF CloseSelf, ReleaseInv
<1>31. CASE CloseSchedule
  BY <1>31, SMTT(30) DEF CloseSchedule, ScheduleDrain, HolderInv, NoThreadHolds, Draining, DrainHolds
<1>32. CASE CloseAwaitIdle
  <2>1. queued_tasks = 0 => fifo = <<>>
    BY NothingQueued, Zenon
  <2> QED
    BY <1>32, <2>1, SMTT(30) DEF CloseAwaitIdle
<1>33. CASE SpuriousWakeup
  BY <1>33, Zenon DEF SpuriousWakeup
<1>34. CASE WriteBack
  BY <1>34, Zenon DEF WriteBack
<1>35. CASE UNCHANGED vars
  BY <1>35, Zenon DEF vars
<1> HIDE DEF IndInv, ShapeOK, FlagsOK, PostOK, DrainOK, CloseOK, StackInv, ExecInv, FlushPc, PostPc,
             DrainPc, SubPc, ClosePc,
             Goto, Call, sharedVars, queueVars, poolVars, postVars, drainVars, closeVars
<1> QED
  BY <1>1, <1>2, <1>3, <1>4, <1>5, <1>6, <1>7, <1>8, <1>9, <1>10, <1>11, <1>12,
     <1>13, <1>14, <1>15, <1>16, <1>17, <1>18, <1>19, <1>20, <1>21, <1>22,
     <1>23, <1>24, <1>25, <1>26, <1>27, <1>28, <1>29, <1>30, <1>31, <1>32,
     <1>33, <1>34, <1>35, SMTT(30)
     DEF Next, Post, Drain, Sub, CloseFromOwner

LEMMA ExecInvInvariant == Spec => []ExecInv
  BY ExecInit, ExecStep, IndInvInvariant, PTL DEF Spec

\* The refinement mapping of Executor: the task that runs, the phase of the release
\* and the task that asked for it.
Running(held) ==
  IF \E t \in Threads : held[t] # NoTask
    THEN held[CHOOSE t \in Threads : held[t] # NoTask]
    ELSE NoTask

Phase(c) ==
  IF c = "open" THEN "open"
  ELSE IF c = "done" THEN "released"
  ELSE "closing"

AskedBy(c, held) == IF c = NoThread THEN NoTask ELSE held[c]

\* The only thread that holds a task holds the running one.
LEMMA RunningIs ==
  ASSUME NEW held, NEW t \in Threads, held[t] # NoTask,
         \A u \in Threads : held[u] # NoTask => u = t
  PROVE  Running(held) = held[t]
<1>1. (CHOOSE u \in Threads : held[u] # NoTask) = t
  BY Zenon
<1> QED
  BY <1>1, Zenon DEF Running

\* One thread at a time holds a task: it is the one that drains.
LEMMA OneHolds ==
  ASSUME IndInv, ExecInv, NEW t \in Threads, NEW u \in Threads,
         drain[t] \in DrainHolds, dtask[u] # NoTask
  PROVE  u = t
  BY Zenon DEF IndInv, HolderInv, Draining, DrainHolds, ExecInv

\* A step that changes neither the queue nor who holds which task nor the phase is
\* no step of the executor.
Unseen == UNCHANGED <<fifo, dtask, closer>> /\ Phase(close') = Phase(close)

LEMMA UnseenStutters == Unseen => UNCHANGED Executor!execVars
  BY Zenon DEF Unseen, Phase, Executor!execVars

\* A push puts the task at the end of the executor's queue; CloseFromOwner has not
\* returned, because it waits for the posts.
LEMMA ExchangeSubmits ==
  ASSUME IndInv, ExecInv, NEW t \in Threads, PostExchange(t)
  PROVE  Executor!Next
<1>1. ptask[t] \in Tasks /\ close # "done"
  BY Zenon DEF IndInv, ShapeOK, PostOK, ExecInv, PostExchange
<1>2. fifo' = Append(fifo, ptask[t]) /\ UNCHANGED <<dtask, close, closer>>
  BY Zenon DEF PostExchange, Q!PushExchange, drainVars, closeVars
<1>3. Executor!Submit(ptask[t])
  BY <1>1, <1>2, Zenon DEF Executor!Submit
<1> QED
  BY <1>1, <1>3, Zenon DEF Executor!Next

\* Drain takes the oldest task while nobody runs one.
LEMMA PopBegins ==
  ASSUME IndInv, ExecInv, NEW t \in Threads, NEW k \in Tasks, drain[t] = "pop",
         Q!Pop(k), dtask' = [dtask EXCEPT ![t] = k], UNCHANGED <<close, closer>>
  PROVE  Executor!Next
<1> USE ConstantsAssumption
<1>1. \A u \in Threads : dtask[u] = NoTask
  BY OneHolds, Zenon DEF DrainHolds, ExecInv
<1>2. \A u \in Threads : dtask'[u] = IF u = t THEN k ELSE NoTask
  BY <1>1, Zenon DEF IndInv, ShapeOK, DrainOK
<1>3. Running(dtask) = NoTask
  BY <1>1, Zenon DEF Running
<1>4. Running(dtask') = k
  <2>1. dtask'[t] # NoTask /\ \A u \in Threads : dtask'[u] # NoTask => u = t
    BY <1>2, Zenon
  <2> DEFINE held == dtask'
  <2>2. held[t] = k
    BY <1>2, Zenon
  <2> HIDE DEF held
  <2>3. Running(held) = held[t]
    BY <2>1, RunningIs, Zenon DEF held
  <2> QED
    BY <2>2, <2>3, Zenon DEF held
<1>5. close # "done"
  BY Zenon DEF IndInv, ReleaseInv
<1>6. closer # NoThread => closer \in Threads /\ closer # t
  BY Zenon DEF ExecInv, IndInv, ShapeOK, CloseOK
<1>7. AskedBy(closer', dtask') = AskedBy(closer, dtask)
  BY <1>1, <1>2, <1>6, Zenon DEF AskedBy
<1>8. fifo # <<>> /\ k = Head(fifo) /\ fifo' = Tail(fifo)
  BY Zenon DEF Q!Pop
<1>9. Executor!Begin
  BY <1>3, <1>4, <1>5, <1>7, <1>8, ZenonT(40) DEF Executor!Begin, Running, AskedBy
<1> QED
  BY <1>9, Zenon DEF Executor!Next

\* The task that runs ends; the one that released the connection does so only after
\* CloseFromOwner has returned.
LEMMA TaskEndEnds ==
  ASSUME IndInv, ExecInv, NEW t \in Threads, DrainTaskEnds(t)
  PROVE  Executor!Next
<1> USE ConstantsAssumption
<1>1. /\ drain[t] = "running" /\ ~InClose(t)
      /\ dtask' = [dtask EXCEPT ![t] = NoTask] /\ UNCHANGED <<fifo, close, closer>>
  BY Zenon DEF DrainTaskEnds, InUserCode, queueVars, closeVars
<1>2. dtask[t] # NoTask /\ \A u \in Threads : dtask[u] # NoTask => u = t
  BY <1>1, OneHolds, Zenon DEF ExecInv, DrainHolds
<1>3. Running(dtask) = dtask[t]
  BY <1>2, RunningIs, Zenon
<1>4. \A u \in Threads : dtask'[u] = NoTask
  BY <1>1, <1>2, Zenon DEF IndInv, ShapeOK, DrainOK
<1>5. Running(dtask') = NoTask
  BY <1>4, Zenon DEF Running
<1>6. closer \in Threads \cup {NoThread}
  BY Zenon DEF IndInv, ShapeOK, CloseOK
<1>7. AskedBy(closer, dtask) # NoTask => Phase(close) = "released"
  BY <1>1, <1>2, <1>6, Zenon DEF AskedBy, Phase, InClose
<1>8. AskedBy(closer', dtask') = NoTask
  BY <1>1, <1>4, <1>6, Zenon DEF AskedBy
<1>9. Executor!End
  BY <1>1, <1>2, <1>3, <1>5, <1>7, <1>8, ZenonT(40) DEF Executor!End, Running, AskedBy, Phase
<1> QED
  BY <1>9, Zenon DEF Executor!Next

\* The owner closes, outside any task or inside the one that runs.
LEMMA EnterStartsRelease ==
  ASSUME IndInv, ExecInv, NEW t \in Threads, CloseEnter(t)
  PROVE  Executor!Next
<1> USE ConstantsAssumption
<1>1. /\ close = "open" /\ close' = "stop" /\ closer' = t /\ UNCHANGED <<fifo, dtask>>
      /\ drain[t] \in {"off", "running"}
  BY Zenon DEF CloseEnter, InUserCode, queueVars, drainVars
<1>2. dtask[t] = NoTask \/ Running(dtask) = dtask[t]
  <2>1. CASE drain[t] = "running"
    <3>1. dtask[t] # NoTask /\ \A u \in Threads : dtask[u] # NoTask => u = t
      BY <2>1, OneHolds, Zenon DEF ExecInv, DrainHolds
    <3> QED
      BY <3>1, RunningIs, Zenon
  <2>2. CASE drain[t] = "off"
    BY <2>2, Zenon DEF ExecInv
  <2> QED
    BY <1>1, <2>1, <2>2, Zenon
<1>3. AskedBy(closer', dtask') = dtask[t]
  BY <1>1, Zenon DEF AskedBy
<1>4. Executor!StartRelease
  BY <1>1, <1>2, <1>3, Zenon DEF Executor!StartRelease, Running, AskedBy
<1> QED
  BY <1>4, Zenon DEF Executor!Next

\* DrainTaskQueue discards the oldest task, and only while CloseFromOwner is under way.
LEMMA FlushDiscards ==
  ASSUME IndInv, ExecInv, NEW t \in Threads, NEW k \in Tasks, FlushPop(t), Q!Pop(k)
  PROVE  Executor!Next
<1>1. fifo # <<>> /\ fifo' = Tail(fifo) /\ sub[t] = "pop" /\ UNCHANGED <<dtask, close, closer>>
  BY Zenon DEF Q!Pop, FlushPop, drainVars, closeVars
<1>2. close # "done"
  BY <1>1, Zenon DEF ExecInv
<1>3. close # "open"
  <2>1. drain[t] = "flush" \/ close = "selfflush"
    BY <1>1, Zenon DEF IndInv, StackInv, FlushPc
  <2> QED
    BY <2>1, Zenon DEF ExecInv
<1>4. Executor!Discard
  BY <1>1, <1>2, <1>3, Zenon DEF Executor!Discard
<1> QED
  BY <1>4, Zenon DEF Executor!Next

\* CloseFromOwner returns with an empty queue, and nothing runs but the task it was
\* called from.
LEMMA ReturnFinishesRelease ==
  ASSUME IndInv, ExecInv, close \notin {"open", "done"}, close' = "done",
         UNCHANGED <<fifo, dtask, closer>>, CloseSelf \/ CloseAwaitIdle
  PROVE  Executor!Next
<1> USE ConstantsAssumption
<1>1. closer \in Threads
  BY Zenon DEF IndInv, ShapeOK, CloseOK
<1>2. fifo = <<>> /\ Running(dtask) = dtask[closer]
  <2>1. CASE CloseSelf
    <3>1. close = "selfflush" /\ sub[closer] = "none" /\ drain[closer] = "running"
      BY <2>1, Zenon DEF CloseSelf, IndInv, ReleaseInv
    <3>2. dtask[closer] # NoTask /\ \A u \in Threads : dtask[u] # NoTask => u = closer
      BY <1>1, <3>1, OneHolds, Zenon DEF ExecInv, DrainHolds
    <3>3. fifo = <<>>
      BY <3>1, Zenon DEF ExecInv, FlushPc
    <3> QED
      BY <1>1, <3>2, <3>3, RunningIs, Zenon
  <2>2. CASE CloseAwaitIdle
    <3>1. close = "wait2active"
      BY <2>2, Zenon DEF CloseAwaitIdle
    <3>2. \A u \in Threads : dtask[u] = NoTask
      BY <3>1, Zenon DEF IndInv, ReleaseInv, ExecInv
    <3>3. fifo = <<>>
      BY <3>1, Zenon DEF ExecInv
    <3> QED
      BY <1>1, <3>2, <3>3, Zenon DEF Running
  <2> QED
    BY <2>1, <2>2, Zenon
<1>3. Executor!FinishRelease
  BY <1>1, <1>2, ZenonT(40) DEF Executor!FinishRelease, Running
<1> QED
  BY <1>3, Zenon DEF Executor!Next

\* Every step of TaskDrain is a step of the executor or changes nothing of it.
LEMMA StepRefines ==
  IndInv /\ ExecInv /\ [Next]_vars => [Executor!Next]_(Executor!execVars)
<1> SUFFICES ASSUME IndInv, ExecInv, [Next]_vars
             PROVE  Executor!Next \/ Unseen
  BY UnseenStutters, Zenon
<1> USE ConstantsAssumption DEF Phase, sharedVars, queueVars, poolVars, postVars, drainVars, closeVars
<1>1. ASSUME NEW t \in Threads, NEW k \in Tasks, PostEnter(t, k) PROVE Unseen
  BY <1>1, Zenon DEF Unseen, PostEnter
<1>2. ASSUME NEW t \in Threads, PostCheckAccepting(t) PROVE Unseen
  BY <1>2, Zenon DEF Unseen, PostCheckAccepting
<1>3. ASSUME NEW t \in Threads, PostCount(t) PROVE Unseen
  BY <1>3, Zenon DEF Unseen, PostCount
<1>4. ASSUME NEW t \in Threads, PostExchange(t) PROVE Executor!Next
  BY <1>4, ExchangeSubmits, Zenon
<1>5. ASSUME NEW t \in Threads, PostLink(t) PROVE Unseen
  BY <1>5, Zenon DEF Unseen, PostLink, Q!PushLink
<1>6. ASSUME NEW t \in Threads, PostElect(t) PROVE Unseen
  BY <1>6, Zenon DEF Unseen, PostElect
<1>7. ASSUME NEW t \in Threads, PostLeave(t) PROVE Unseen
  BY <1>7, Zenon DEF Unseen, PostLeave
<1>8. ASSUME NEW t \in Threads, PostSchedule(t) PROVE Unseen
  BY <1>8, Zenon DEF Unseen, PostSchedule, ScheduleDrain
<1>9. ASSUME NEW t \in Threads, DrainTop(t) PROVE Unseen
  BY <1>9, Zenon DEF Unseen, DrainTop
<1>10. ASSUME NEW t \in Threads, DrainPop(t) PROVE Executor!Next \/ Unseen
  <2>1. ASSUME NEW k \in Tasks, Q!Pop(k), dtask' = [dtask EXCEPT ![t] = k]
        PROVE  Executor!Next
    BY <1>10, <2>1, PopBegins, Zenon DEF DrainPop
  <2>2. CASE UNCHANGED <<queueVars, dtask>>
    BY <1>10, <2>2, Zenon DEF DrainPop, Unseen
  <2> QED
    BY <1>10, <2>1, <2>2, Zenon DEF DrainPop
<1>11. ASSUME NEW t \in Threads, DrainCount(t) PROVE Unseen
  BY <1>11, Zenon DEF Unseen, DrainCount
<1>12. ASSUME NEW t \in Threads, DrainTaskEnds(t) PROVE Executor!Next
  BY <1>12, TaskEndEnds
<1>13. ASSUME NEW t \in Threads, DrainYield(t) PROVE Unseen
  BY <1>13, Zenon DEF Unseen, DrainYield
<1>14. ASSUME NEW t \in Threads, DrainEmpty(t) PROVE Unseen
  BY <1>14, Zenon DEF Unseen, DrainEmpty
<1>15. ASSUME NEW t \in Threads, DrainRecheck(t) PROVE Unseen
  BY <1>15, Zenon DEF Unseen, DrainRecheck
<1>16. ASSUME NEW t \in Threads, DrainReelect(t) PROVE Unseen
  BY <1>16, Zenon DEF Unseen, DrainReelect
<1>17. ASSUME NEW t \in Threads, DrainClose(t) PROVE Unseen
  BY <1>17, Zenon DEF Unseen, DrainClose
<1>18. ASSUME NEW t \in Threads, DrainRelease(t) PROVE Unseen
  BY <1>18, Zenon DEF Unseen, DrainRelease
<1>19. ASSUME NEW t \in Threads, DrainReturn(t) PROVE Unseen
  BY <1>19, Zenon DEF Unseen, DrainReturn
<1>20. ASSUME NEW t \in Threads, NotifyCheckClosing(t) PROVE Unseen
  BY <1>20, Zenon DEF Unseen, NotifyCheckClosing
<1>21. ASSUME NEW t \in Threads, NotifyLocked(t) PROVE Unseen
  BY <1>21, Zenon DEF Unseen, NotifyLocked
<1>22. ASSUME NEW t \in Threads, FlushPop(t) PROVE Executor!Next \/ Unseen
  <2>1. ASSUME NEW k \in Tasks, Q!Pop(k) PROVE Executor!Next
    BY <1>22, <2>1, FlushDiscards, Zenon
  <2>2. CASE UNCHANGED queueVars
    BY <1>22, <2>2, Zenon DEF FlushPop, Unseen
  <2> QED
    BY <1>22, <2>1, <2>2, Zenon DEF FlushPop
<1>23. ASSUME NEW t \in Threads, FlushCount(t) PROVE Unseen
  BY <1>23, Zenon DEF Unseen, FlushCount
<1>24. ASSUME NEW t \in Threads, FlushRecheck(t) PROVE Unseen
  BY <1>24, Zenon DEF Unseen, FlushRecheck
<1>25. ASSUME NEW t \in Threads, CloseEnter(t) PROVE Executor!Next
  BY <1>25, EnterStartsRelease
<1>26. ASSUME WorkerRunsDrain PROVE Unseen
  BY <1>26, Zenon DEF Unseen, WorkerRunsDrain
<1>27. ASSUME CloseStop PROVE Unseen
  BY <1>27, Zenon DEF Unseen, CloseStop
<1>28. ASSUME CloseAwaitPosts PROVE Unseen
  BY <1>28, Zenon DEF Unseen, CloseAwaitPosts
<1>29. ASSUME CloseChoose PROVE Unseen
  BY <1>29, Zenon DEF Unseen, CloseChoose
<1>30. ASSUME CloseSelf PROVE Executor!Next
  BY <1>30, ReturnFinishesRelease, Zenon DEF CloseSelf
<1>31. ASSUME CloseSchedule PROVE Unseen
  BY <1>31, Zenon DEF Unseen, CloseSchedule, ScheduleDrain
<1>32. ASSUME CloseAwaitIdle PROVE Executor!Next \/ Unseen
  <2>1. CASE close' = "done"
    BY <1>32, <2>1, ReturnFinishesRelease, Zenon DEF CloseAwaitIdle
  <2>2. CASE close' # "done"
    BY <1>32, <2>2, Zenon DEF CloseAwaitIdle, Unseen
  <2> QED
    BY <2>1, <2>2, Zenon
<1>33. ASSUME SpuriousWakeup PROVE Unseen
  BY <1>33, Zenon DEF Unseen, SpuriousWakeup
<1>34. ASSUME WriteBack PROVE Unseen
  BY <1>34, Zenon DEF Unseen, WriteBack
<1>35. ASSUME UNCHANGED vars PROVE Unseen
  BY <1>35, Zenon DEF vars, Unseen
<1> HIDE DEF Phase, sharedVars, queueVars, poolVars, postVars, drainVars, closeVars
<1> QED
  BY <1>1, <1>2, <1>3, <1>4, <1>5, <1>6, <1>7, <1>8, <1>9, <1>10, <1>11, <1>12,
     <1>13, <1>14, <1>15, <1>16, <1>17, <1>18, <1>19, <1>20, <1>21, <1>22,
     <1>23, <1>24, <1>25, <1>26, <1>27, <1>28, <1>29, <1>30, <1>31, <1>32,
     <1>33, <1>34, <1>35, SMTT(30)
     DEF Next, Post, Drain, Sub, CloseFromOwner

\* The task queue of a connection is a serial executor, for any number of threads
\* and tasks: tasks begin in the order of their pushes, one at a time, each once;
\* only a release discards any; and when CloseFromOwner has returned nothing waits,
\* nothing runs but the task that called it, and nothing begins any more.
THEOREM IsSerialExecutor == Spec => ImplementsSerialExecutor
<1>1. Init => Executor!Init
  BY ConstantsAssumption, Zenon DEF Init, Q!Init, Executor!Init
<1> QED
  BY <1>1, StepRefines, IndInvInvariant, ExecInvInvariant, PTL
     DEF Spec, ImplementsSerialExecutor, Executor!Spec
=============================================================================
