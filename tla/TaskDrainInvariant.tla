------------------------- MODULE TaskDrainInvariant -------------------------
(***************************************************************************)
(* The inductive invariant of TaskDrain, for any set of threads and tasks, *)
(* any budget, and with or without the store buffer: types, who has the    *)
(* right to drain, what a release knows, and how calls nest.               *)
(***************************************************************************)
EXTENDS TaskDrain, TLAPS

-----------------------------------------------------------------------------
(* Who is responsible for draining. *)

\* Thread t is in the part of Drain that owns the queue.
Draining(t) == drain[t] \in DrainHolds

\* Nobody has won draining_, except possibly through the pool or CloseFromOwner.
NoThreadHolds == \A t \in Threads : ~Draining(t) /\ ~won[t]

\* At most one thread, pool entry or owner is responsible for draining, and
\* draining_ is set exactly while one is or while the store that resets it is
\* still in the store buffer.
HolderInv ==
  /\ \A t \in Threads : won[t] => post[t] \in {"leaving", "schedule"}
  /\ \A t \in Threads : post[t] = "schedule" => won[t]
  /\ \A t, u \in Threads : Draining(t) /\ Draining(u) => t = u
  /\ \A t, u \in Threads : won[t] /\ won[u] => t = u
  /\ \A t, u \in Threads : ~(Draining(t) /\ won[u])
  /\ poolQueue \in {0, 1}
  /\ poolQueue = 1 => NoThreadHolds /\ close # "schedule" /\ ~bufferedFalse
  /\ close = "schedule" => NoThreadHolds /\ ~bufferedFalse
  /\ bufferedFalse => NoThreadHolds
  /\ draining <=> \/ bufferedFalse
                  \/ poolQueue = 1
                  \/ close = "schedule"
                  \/ \E t \in Threads : Draining(t) \/ won[t]

\* What CloseFromOwner knows about the threads that drain.
ReleaseInv ==
  /\ owner_closing <=> close # "open"
  /\ close = "selfflush" => drain[closer] = "running"
  /\ close \in {"wait2queued", "wait2active"} =>
       \A t \in Threads : drain[t] \notin {"pop", "took", "running", "empty"}
  /\ close = "done" =>
       \A t \in Threads : drain[t] \in {"pop", "took", "running", "empty"} =>
                            t = closer /\ drain[t] = "running"

\* The types of TaskDrain, the two counters aside.
FlagsOK ==
  /\ accepting_tasks \in BOOLEAN
  /\ owner_closing \in BOOLEAN
  /\ draining \in BOOLEAN
  /\ bufferedFalse \in BOOLEAN
  /\ fifo \in Seq(Tasks)
  /\ linking \subseteq Tasks
  /\ setting \in AllSettings
  /\ poolQueue \in Nat

PostOK ==
  /\ unposted \subseteq Tasks
  /\ post \in [Threads -> PostPc]
  /\ ptask \in [Threads -> Tasks \cup {NoTask}]
  /\ won \in [Threads -> BOOLEAN]
  /\ \A t \in Threads : post[t] \in {"entered", "accepted", "counted", "exchanged"} =>
                          ptask[t] \in Tasks

DrainOK ==
  /\ drain \in [Threads -> DrainPc]
  /\ dtask \in [Threads -> Tasks \cup {NoTask}]
  /\ processed \in [Threads -> Nat]
  /\ sub \in [Threads -> SubPc]

CloseOK ==
  /\ close \in ClosePc
  /\ closer \in Threads \cup {NoThread}
  /\ close # "open" => closer \in Threads
  /\ closed \in BOOLEAN

ShapeOK == FlagsOK /\ PostOK /\ DrainOK /\ CloseOK

\* The constructor gives every member a value of its type.
LEMMA ShapeInit == Init => ShapeOK
<1> SUFFICES ASSUME Init PROVE ShapeOK
  BY Zenon
<1> USE ConstantsAssumption DEF Init
<1>1. FlagsOK
  <2>1. setting \in AllSettings
    BY Zenon
  <2>2. fifo \in Seq(Tasks) /\ linking \subseteq Tasks
    BY DEF Q!Init
  <2> QED
    BY <2>1, <2>2, Zenon DEF FlagsOK
<1>2. PostOK
  BY Zenon DEF PostOK, PostPc
<1>3. DrainOK
  BY Zenon DEF DrainOK, DrainPc, SubPc
<1>4. CloseOK
  BY Zenon DEF CloseOK, ClosePc
<1> QED
  BY <1>1, <1>2, <1>3, <1>4, Zenon DEF ShapeOK

\* Taking a node from task_queue_ leaves a sequence of tasks.
LEMMA PopType ==
  ASSUME FlagsOK, NEW k, Q!Pop(k)
  PROVE  fifo' \in Seq(Tasks) /\ linking' \subseteq Tasks
  BY DEF FlagsOK, Q!Pop

\* Every step of Post, Drain, DrainTaskQueue, NotifyIdle and CloseFromOwner
\* keeps the members' types.
LEMMA ShapeStep == ShapeOK /\ [Next]_vars => ShapeOK'
<1> SUFFICES ASSUME ShapeOK, [Next]_vars PROVE ShapeOK'
  BY Zenon
<1> USE ConstantsAssumption
    DEF ShapeOK, FlagsOK, PostOK, DrainOK, CloseOK, PostPc, DrainPc, SubPc, ClosePc,
        Goto, Call, sharedVars, queueVars, poolVars, postVars, drainVars, closeVars
<1>1. ASSUME NEW t \in Threads, NEW k \in Tasks, PostEnter(t, k) PROVE ShapeOK'
  BY <1>1 DEF PostEnter, InUserCode
<1>2. ASSUME NEW t \in Threads, PostCheckAccepting(t) PROVE ShapeOK'
  BY <1>2 DEF PostCheckAccepting
<1>3. ASSUME NEW t \in Threads, PostCount(t) PROVE ShapeOK'
  BY <1>3 DEF PostCount
<1>4. ASSUME NEW t \in Threads, PostExchange(t) PROVE ShapeOK'
  BY <1>4 DEF PostExchange, Q!PushExchange
<1>5. ASSUME NEW t \in Threads, PostLink(t) PROVE ShapeOK'
  BY <1>5 DEF PostLink, Q!PushLink
<1>6. ASSUME NEW t \in Threads, PostElect(t) PROVE ShapeOK'
  BY <1>6 DEF PostElect
<1>7. ASSUME NEW t \in Threads, PostLeave(t) PROVE ShapeOK'
  BY <1>7 DEF PostLeave
<1>8. ASSUME NEW t \in Threads, PostSchedule(t) PROVE ShapeOK'
  <2>1. CASE poolQueue' = poolQueue + 1 /\ UNCHANGED <<setting, drainVars>>
    BY <1>8, <2>1 DEF PostSchedule
  <2>2. CASE /\ Goto(drain, t, "top")
             /\ processed' = [processed EXCEPT ![t] = 0]
             /\ UNCHANGED <<poolVars, dtask>>
    BY <1>8, <2>2 DEF PostSchedule
  <2> QED
    BY <1>8, <2>1, <2>2, Zenon DEF PostSchedule, ScheduleDrain
<1>9. ASSUME NEW t \in Threads, DrainTop(t) PROVE ShapeOK'
  BY <1>9 DEF DrainTop
<1>10. ASSUME NEW t \in Threads, DrainPop(t) PROVE ShapeOK'
  <2>1. ASSUME NEW k \in Tasks, Q!Pop(k),
               dtask' = [dtask EXCEPT ![t] = k], Goto(drain, t, "took")
        PROVE  ShapeOK'
    BY <1>10, <2>1, PopType DEF DrainPop
  <2>2. CASE Goto(drain, t, "empty") /\ UNCHANGED <<queueVars, dtask>>
    BY <1>10, <2>2 DEF DrainPop
  <2> QED
    BY <1>10, <2>1, <2>2, Zenon DEF DrainPop
<1>11. ASSUME NEW t \in Threads, DrainCount(t) PROVE ShapeOK'
  BY <1>11 DEF DrainCount
<1>12. ASSUME NEW t \in Threads, DrainTaskEnds(t) PROVE ShapeOK'
  BY <1>12 DEF DrainTaskEnds, InUserCode, InClose
<1>13. ASSUME NEW t \in Threads, DrainYield(t) PROVE ShapeOK'
  <2>1. CASE Goto(drain, t, "top") /\ UNCHANGED <<poolVars, processed>>
    BY <1>13, <2>1 DEF DrainYield
  <2>2. CASE /\ poolQueue' = poolQueue + 1
             /\ Goto(drain, t, "returning")
             /\ UNCHANGED <<setting, processed>>
    BY <1>13, <2>2 DEF DrainYield
  <2>3. CASE /\ Goto(drain, t, "top")
             /\ processed' = [processed EXCEPT ![t] = 0]
             /\ UNCHANGED poolVars
    BY <1>13, <2>3 DEF DrainYield
  <2> QED
    BY <1>13, <2>1, <2>2, <2>3, Zenon DEF DrainYield
<1>14. ASSUME NEW t \in Threads, DrainEmpty(t) PROVE ShapeOK'
  BY <1>14, ZenonT(40) DEF DrainEmpty, StoreNotDraining
<1>15. ASSUME NEW t \in Threads, DrainRecheck(t) PROVE ShapeOK'
  <2>1. FlagsOK'
    BY <1>15, Zenon DEF DrainRecheck
  <2>2. PostOK'
    BY <1>15, Zenon DEF DrainRecheck
  <2>3. DrainOK'
    BY <1>15, ZenonT(40) DEF DrainRecheck
  <2>4. CloseOK'
    BY <1>15, Zenon DEF DrainRecheck
  <2> QED
    BY <2>1, <2>2, <2>3, <2>4, Zenon
<1>16. ASSUME NEW t \in Threads, DrainReelect(t) PROVE ShapeOK'
  BY <1>16 DEF DrainReelect
<1>17. ASSUME NEW t \in Threads, DrainClose(t) PROVE ShapeOK'
  BY <1>17 DEF DrainClose
<1>18. ASSUME NEW t \in Threads, DrainRelease(t) PROVE ShapeOK'
  BY <1>18, ZenonT(40) DEF DrainRelease, StoreNotDraining
<1>19. ASSUME NEW t \in Threads, DrainReturn(t) PROVE ShapeOK'
  BY <1>19 DEF DrainReturn
<1>20. ASSUME NEW t \in Threads, NotifyCheckClosing(t) PROVE ShapeOK'
  BY <1>20 DEF NotifyCheckClosing
<1>21. ASSUME NEW t \in Threads, NotifyLocked(t) PROVE ShapeOK'
  BY <1>21 DEF NotifyLocked
<1>22. ASSUME NEW t \in Threads, FlushPop(t) PROVE ShapeOK'
  <2>1. ASSUME NEW k \in Tasks, Q!Pop(k), Call(t, "count")
        PROVE  ShapeOK'
    BY <1>22, <2>1, PopType DEF FlushPop
  <2>2. CASE Call(t, "active?") /\ UNCHANGED queueVars
    BY <1>22, <2>2 DEF FlushPop
  <2> QED
    BY <1>22, <2>1, <2>2, Zenon DEF FlushPop
<1>23. ASSUME NEW t \in Threads, FlushCount(t) PROVE ShapeOK'
  BY <1>23 DEF FlushCount
<1>24. ASSUME NEW t \in Threads, FlushRecheck(t) PROVE ShapeOK'
  BY <1>24, ZenonT(40) DEF FlushRecheck
<1>25. ASSUME NEW t \in Threads, CloseEnter(t) PROVE ShapeOK'
  BY <1>25, Zenon DEF CloseEnter, InUserCode, InClose
<1>26. CASE WorkerRunsDrain
  BY <1>26 DEF WorkerRunsDrain, InUserCode
<1>27. CASE CloseStop
  BY <1>27, ZenonT(40) DEF CloseStop
<1>28. CASE CloseAwaitPosts
  BY <1>28, Zenon DEF CloseAwaitPosts
<1>29. CASE CloseChoose
  BY <1>29, ZenonT(40) DEF CloseChoose
<1>30. CASE CloseSelf
  BY <1>30, Zenon DEF CloseSelf
<1>31. CASE CloseSchedule
  BY <1>31 DEF CloseSchedule, ScheduleDrain
<1>32. CASE CloseAwaitIdle
  BY <1>32 DEF CloseAwaitIdle
<1>33. CASE SpuriousWakeup
  BY <1>33 DEF SpuriousWakeup
<1>34. CASE WriteBack
  BY <1>34, ZenonT(40) DEF WriteBack
<1>35. CASE UNCHANGED vars
  BY <1>35 DEF vars
<1> HIDE DEF ShapeOK, FlagsOK, PostOK, DrainOK, CloseOK, PostPc, DrainPc, SubPc, ClosePc,
             Goto, Call, sharedVars, queueVars, poolVars, postVars, drainVars, closeVars
<1> QED
  BY <1>1, <1>2, <1>3, <1>4, <1>5, <1>6, <1>7, <1>8, <1>9, <1>10, <1>11, <1>12,
     <1>13, <1>14, <1>15, <1>16, <1>17, <1>18, <1>19, <1>20, <1>21, <1>22, <1>23,
     <1>24, <1>25, <1>26, <1>27, <1>28, <1>29, <1>30, <1>31, <1>32, <1>33, <1>34,
     <1>35, SMTT(30)
     DEF Next, Post, Drain, Sub, CloseFromOwner

\* Nobody drains a new connection.
LEMMA HolderInit == Init => HolderInv
  BY DEF Init, HolderInv, NoThreadHolds, Draining, DrainHolds

\* Every step hands the right to drain on, or gives it back together with
\* draining_; nobody takes it from a holder.
LEMMA HolderStep == ShapeOK /\ HolderInv /\ [Next]_vars => HolderInv'
<1> SUFFICES ASSUME ShapeOK, HolderInv, [Next]_vars PROVE HolderInv'
  BY Zenon
<1> USE ConstantsAssumption
    DEF ShapeOK, FlagsOK, PostOK, DrainOK, CloseOK, HolderInv, NoThreadHolds, Draining,
        DrainHolds, PostPc, DrainPc, ClosePc,
        Goto, Call, sharedVars, queueVars, poolVars, postVars, drainVars, closeVars
<1>1. ASSUME NEW t \in Threads, NEW k \in Tasks, PostEnter(t, k) PROVE HolderInv'
  BY <1>1 DEF PostEnter, InUserCode
<1>2. ASSUME NEW t \in Threads, PostCheckAccepting(t) PROVE HolderInv'
  BY <1>2 DEF PostCheckAccepting
<1>3. ASSUME NEW t \in Threads, PostCount(t) PROVE HolderInv'
  BY <1>3 DEF PostCount
<1>4. ASSUME NEW t \in Threads, PostExchange(t) PROVE HolderInv'
  BY <1>4, SMTT(30) DEF PostExchange, Q!PushExchange
<1>5. ASSUME NEW t \in Threads, PostLink(t) PROVE HolderInv'
  BY <1>5, SMTT(30) DEF PostLink, Q!PushLink
<1>6. ASSUME NEW t \in Threads, PostElect(t) PROVE HolderInv'
  <2>1. ~won[t]
    BY <1>6, Zenon DEF PostElect
  <2>2. post' = [post EXCEPT ![t] = "leaving"] /\ draining' = TRUE
    BY <1>6, Zenon DEF PostElect
  <2>3. UNCHANGED <<bufferedFalse, poolQueue, drain, close>>
    BY <1>6, Zenon DEF PostElect
  <2>4. CASE draining
    <3>1. \A u \in Threads : won'[u] = won[u]
      BY <1>6, <2>1, <2>4 DEF PostElect
    <3> QED
      BY <2>2, <2>3, <2>4, <3>1, ZenonT(40)
  <2>5. CASE ~draining
    <3>1. won'[t] /\ \A u \in Threads : u # t => won'[u] = won[u]
      BY <1>6, <2>5, ZenonT(40) DEF PostElect
    <3> QED
      BY <2>2, <2>3, <2>5, <3>1, SMTT(30)
  <2> QED
    BY <2>4, <2>5, Zenon
<1>7. ASSUME NEW t \in Threads, PostLeave(t) PROVE HolderInv'
  BY <1>7, SMTT(30) DEF PostLeave
<1>8. ASSUME NEW t \in Threads, PostSchedule(t) PROVE HolderInv'
  BY <1>8 DEF PostSchedule, ScheduleDrain
<1>9. ASSUME NEW t \in Threads, DrainTop(t) PROVE HolderInv'
  BY <1>9, SMTT(30) DEF DrainTop
<1>10. ASSUME NEW t \in Threads, DrainPop(t) PROVE HolderInv'
  <2>1. drain[t] = "pop" /\ drain'[t] \in {"took", "empty"}
    BY <1>10, SMTT(30) DEF DrainPop
  <2>2. \A u \in Threads : u # t => drain'[u] = drain[u]
    BY <1>10, SMTT(30) DEF DrainPop
  <2>3. UNCHANGED <<draining, bufferedFalse, poolQueue, post, won, close>>
    BY <1>10, Zenon DEF DrainPop
  <2> QED
    BY <2>1, <2>2, <2>3, SMTT(30)
<1>11. ASSUME NEW t \in Threads, DrainCount(t) PROVE HolderInv'
  BY <1>11, SMTT(30) DEF DrainCount
<1>12. ASSUME NEW t \in Threads, DrainTaskEnds(t) PROVE HolderInv'
  BY <1>12, SMTT(30) DEF DrainTaskEnds, InUserCode, InClose
<1>13. ASSUME NEW t \in Threads, DrainYield(t) PROVE HolderInv'
  <2>1. CASE Goto(drain, t, "top") /\ UNCHANGED <<poolVars, processed>>
    BY <1>13, <2>1 DEF DrainYield
  <2>2. CASE /\ poolQueue' = poolQueue + 1
             /\ Goto(drain, t, "returning")
             /\ UNCHANGED <<setting, processed>>
    BY <1>13, <2>2, SMTT(30) DEF DrainYield
  <2>3. CASE /\ Goto(drain, t, "top")
             /\ processed' = [processed EXCEPT ![t] = 0]
             /\ UNCHANGED poolVars
    BY <1>13, <2>3, SMTT(30) DEF DrainYield
  <2> QED
    BY <1>13, <2>1, <2>2, <2>3, Zenon DEF DrainYield
<1>14. ASSUME NEW t \in Threads, DrainEmpty(t) PROVE HolderInv'
  BY <1>14, SMTT(30) DEF DrainEmpty, StoreNotDraining
<1>15. ASSUME NEW t \in Threads, DrainRecheck(t) PROVE HolderInv'
  <2>1. /\ ~Draining(t) /\ ~Draining(t)'
        /\ \A u \in Threads : u # t => (Draining(u)' <=> Draining(u))
    BY <1>15 DEF DrainRecheck
  <2>2. UNCHANGED <<draining, bufferedFalse, poolQueue, post, won, close>>
    BY <1>15, ZenonT(40) DEF DrainRecheck
  <2> HIDE DEF Draining
  <2> QED
    BY <2>1, <2>2
<1>16. ASSUME NEW t \in Threads, DrainReelect(t) PROVE HolderInv'
  BY <1>16, SMTT(30) DEF DrainReelect
<1>17. ASSUME NEW t \in Threads, DrainClose(t) PROVE HolderInv'
  BY <1>17, SMTT(30) DEF DrainClose
<1>18. ASSUME NEW t \in Threads, DrainRelease(t) PROVE HolderInv'
  BY <1>18, SMTT(30) DEF DrainRelease, StoreNotDraining
<1>19. ASSUME NEW t \in Threads, DrainReturn(t) PROVE HolderInv'
  BY <1>19, SMTT(30) DEF DrainReturn
<1>20. ASSUME NEW t \in Threads, NotifyCheckClosing(t) PROVE HolderInv'
  BY <1>20 DEF NotifyCheckClosing
<1>21. ASSUME NEW t \in Threads, NotifyLocked(t) PROVE HolderInv'
  BY <1>21 DEF NotifyLocked
<1>22. ASSUME NEW t \in Threads, FlushPop(t) PROVE HolderInv'
  BY <1>22 DEF FlushPop, Q!Pop
<1>23. ASSUME NEW t \in Threads, FlushCount(t) PROVE HolderInv'
  BY <1>23, SMTT(30) DEF FlushCount
<1>24. ASSUME NEW t \in Threads, FlushRecheck(t) PROVE HolderInv'
  BY <1>24, SMTT(30) DEF FlushRecheck
<1>25. ASSUME NEW t \in Threads, CloseEnter(t) PROVE HolderInv'
  BY <1>25 DEF CloseEnter, InUserCode, InClose
<1>26. CASE WorkerRunsDrain
  <2>1. /\ Draining(Worker)'
        /\ \A u \in Threads : u # Worker => (Draining(u)' <=> Draining(u))
    BY <1>26 DEF WorkerRunsDrain, InUserCode
  <2>2. /\ poolQueue = 1 /\ poolQueue' = 0
        /\ UNCHANGED <<draining, bufferedFalse, post, won, close>>
    BY <1>26, SMTT(30) DEF WorkerRunsDrain
  <2> HIDE DEF Draining
  <2> QED
    BY <2>1, <2>2
<1>27. CASE CloseStop
  BY <1>27, SMTT(30) DEF CloseStop
<1>28. CASE CloseAwaitPosts
  BY <1>28, SMTT(30) DEF CloseAwaitPosts
<1>29. CASE CloseChoose
  BY <1>29, SMTT(30) DEF CloseChoose
<1>30. CASE CloseSelf
  BY <1>30, SMTT(30) DEF CloseSelf
<1>31. CASE CloseSchedule
  BY <1>31, SMTT(30) DEF CloseSchedule, ScheduleDrain
<1>32. CASE CloseAwaitIdle
  BY <1>32, SMTT(30) DEF CloseAwaitIdle
<1>33. CASE SpuriousWakeup
  BY <1>33 DEF SpuriousWakeup
<1>34. CASE WriteBack
  BY <1>34, ZenonT(40) DEF WriteBack
<1>35. CASE UNCHANGED vars
  BY <1>35 DEF vars
<1> HIDE DEF ShapeOK, FlagsOK, PostOK, DrainOK, CloseOK, HolderInv, NoThreadHolds, Draining,
             DrainHolds, PostPc, DrainPc, ClosePc,
             Goto, Call, sharedVars, queueVars, poolVars, postVars, drainVars, closeVars
<1> QED
  BY <1>1, <1>2, <1>3, <1>4, <1>5, <1>6, <1>7, <1>8, <1>9, <1>10, <1>11, <1>12,
     <1>13, <1>14, <1>15, <1>16, <1>17, <1>18, <1>19, <1>20, <1>21, <1>22, <1>23,
     <1>24, <1>25, <1>26, <1>27, <1>28, <1>29, <1>30, <1>31, <1>32, <1>33, <1>34,
     <1>35, SMTT(30)
     DEF Next, Post, Drain, Sub, CloseFromOwner

\* A new connection is not being released.
LEMMA ReleaseInit == Init => ReleaseInv
  BY ZenonT(40) DEF Init, ReleaseInv

\* Every step keeps what CloseFromOwner knows about the drains once it has
\* seen draining_ clear under idle_mtx_.
LEMMA ReleaseStep ==
  ShapeOK /\ HolderInv /\ ReleaseInv /\ [Next]_vars => ReleaseInv'
<1> SUFFICES ASSUME ShapeOK, HolderInv, ReleaseInv, [Next]_vars PROVE ReleaseInv'
  BY Zenon
<1> USE ConstantsAssumption
    DEF ShapeOK, FlagsOK, PostOK, DrainOK, CloseOK, ReleaseInv, DrainPc, ClosePc,
        Goto, Call, sharedVars, queueVars, poolVars, postVars, drainVars, closeVars
<1>1. ASSUME NEW t \in Threads, NEW k \in Tasks, PostEnter(t, k) PROVE ReleaseInv'
  BY <1>1, Zenon DEF PostEnter, InUserCode
<1>2. ASSUME NEW t \in Threads, PostCheckAccepting(t) PROVE ReleaseInv'
  BY <1>2, Zenon DEF PostCheckAccepting
<1>3. ASSUME NEW t \in Threads, PostCount(t) PROVE ReleaseInv'
  BY <1>3, Zenon DEF PostCount
<1>4. ASSUME NEW t \in Threads, PostExchange(t) PROVE ReleaseInv'
  BY <1>4, Zenon DEF PostExchange, Q!PushExchange
<1>5. ASSUME NEW t \in Threads, PostLink(t) PROVE ReleaseInv'
  BY <1>5, Zenon DEF PostLink, Q!PushLink
<1>6. ASSUME NEW t \in Threads, PostElect(t) PROVE ReleaseInv'
  BY <1>6, Zenon DEF PostElect
<1>7. ASSUME NEW t \in Threads, PostLeave(t) PROVE ReleaseInv'
  BY <1>7, ZenonT(40) DEF PostLeave
<1>8. ASSUME NEW t \in Threads, PostSchedule(t) PROVE ReleaseInv'
  BY <1>8 DEF PostSchedule, ScheduleDrain, HolderInv, Draining, DrainHolds
<1>9. ASSUME NEW t \in Threads, DrainTop(t) PROVE ReleaseInv'
  BY <1>9 DEF DrainTop
<1>10. ASSUME NEW t \in Threads, DrainPop(t) PROVE ReleaseInv'
  BY <1>10, Zenon DEF DrainPop, Q!Pop
<1>11. ASSUME NEW t \in Threads, DrainCount(t) PROVE ReleaseInv'
  BY <1>11, Zenon DEF DrainCount
<1>12. ASSUME NEW t \in Threads, DrainTaskEnds(t) PROVE ReleaseInv'
  BY <1>12 DEF DrainTaskEnds, InUserCode, InClose
<1>13. ASSUME NEW t \in Threads, DrainYield(t) PROVE ReleaseInv'
  BY <1>13 DEF DrainYield
<1>14. ASSUME NEW t \in Threads, DrainEmpty(t) PROVE ReleaseInv'
  BY <1>14, Zenon DEF DrainEmpty, StoreNotDraining
<1>15. ASSUME NEW t \in Threads, DrainRecheck(t) PROVE ReleaseInv'
  BY <1>15 DEF DrainRecheck
<1>16. ASSUME NEW t \in Threads, DrainReelect(t) PROVE ReleaseInv'
  BY <1>16 DEF DrainReelect
<1>17. ASSUME NEW t \in Threads, DrainClose(t) PROVE ReleaseInv'
  BY <1>17 DEF DrainClose
<1>18. ASSUME NEW t \in Threads, DrainRelease(t) PROVE ReleaseInv'
  BY <1>18 DEF DrainRelease, StoreNotDraining
<1>19. ASSUME NEW t \in Threads, DrainReturn(t) PROVE ReleaseInv'
  BY <1>19 DEF DrainReturn
<1>20. ASSUME NEW t \in Threads, NotifyCheckClosing(t) PROVE ReleaseInv'
  BY <1>20, Zenon DEF NotifyCheckClosing
<1>21. ASSUME NEW t \in Threads, NotifyLocked(t) PROVE ReleaseInv'
  BY <1>21, Zenon DEF NotifyLocked
<1>22. ASSUME NEW t \in Threads, FlushPop(t) PROVE ReleaseInv'
  BY <1>22, Zenon DEF FlushPop, Q!Pop
<1>23. ASSUME NEW t \in Threads, FlushCount(t) PROVE ReleaseInv'
  BY <1>23, Zenon DEF FlushCount
<1>24. ASSUME NEW t \in Threads, FlushRecheck(t) PROVE ReleaseInv'
  BY <1>24, Zenon DEF FlushRecheck
<1>25. ASSUME NEW t \in Threads, CloseEnter(t) PROVE ReleaseInv'
  BY <1>25, Zenon DEF CloseEnter, InUserCode, InClose
<1>26. CASE WorkerRunsDrain
  BY <1>26 DEF WorkerRunsDrain, InUserCode
<1>27. CASE CloseStop
  BY <1>27, Zenon DEF CloseStop
<1>28. CASE CloseAwaitPosts
  BY <1>28, Zenon DEF CloseAwaitPosts
<1>29. CASE CloseChoose
  BY <1>29, Zenon DEF CloseChoose
<1>30. CASE CloseSelf
  BY <1>30 DEF CloseSelf, HolderInv, Draining, DrainHolds
<1>31. CASE CloseSchedule
  BY <1>31, Zenon DEF CloseSchedule, ScheduleDrain
<1>32. CASE CloseAwaitIdle
  BY <1>32, Zenon DEF CloseAwaitIdle, HolderInv, Draining, DrainHolds
<1>33. CASE SpuriousWakeup
  BY <1>33, Zenon DEF SpuriousWakeup
<1>34. CASE WriteBack
  BY <1>34, Zenon DEF WriteBack
<1>35. CASE UNCHANGED vars
  BY <1>35, Zenon DEF vars
<1> HIDE DEF ShapeOK, FlagsOK, PostOK, DrainOK, CloseOK, ReleaseInv, DrainPc, ClosePc,
             Goto, Call, sharedVars, queueVars, poolVars, postVars, drainVars, closeVars
<1> QED
  BY <1>1, <1>2, <1>3, <1>4, <1>5, <1>6, <1>7, <1>8, <1>9, <1>10, <1>11, <1>12,
     <1>13, <1>14, <1>15, <1>16, <1>17, <1>18, <1>19, <1>20, <1>21, <1>22, <1>23,
     <1>24, <1>25, <1>26, <1>27, <1>28, <1>29, <1>30, <1>31, <1>32, <1>33, <1>34,
     <1>35, SMTT(30)
     DEF Next, Post, Drain, Sub, CloseFromOwner

\* The calls of one thread nest: Post is entered from user code only, so a
\* Drain that is not running a task is not inside a Post, and DrainTaskQueue
\* is called by Drain or by a CloseFromOwner inside a task.
FlushPc == {"pop", "count", "active?", "queued?"}

StackInv ==
  /\ \A t \in Threads : drain[t] \notin {"off", "running"} => post[t] = "none"
  /\ close \in {"stop", "wait1", "sleep1", "choose", "schedule", "selfflush"} =>
       post[closer] = "none"
  /\ \A t \in Threads :
       sub[t] \in FlushPc =>
         /\ post[t] = "none"
         /\ \/ drain[t] = "flush"
            \/ drain[t] = "running" /\ closer = t /\ close = "selfflush"

\* No thread is inside the library at first.
LEMMA StackInit == Init => StackInv
  BY ZenonT(40) DEF Init, StackInv, FlushPc

\* Every step keeps the calls of a thread nested.
LEMMA StackStep ==
  ShapeOK /\ HolderInv /\ StackInv /\ [Next]_vars => StackInv'
<1> SUFFICES ASSUME ShapeOK, HolderInv, StackInv, [Next]_vars PROVE StackInv'
  BY Zenon
<1> USE ConstantsAssumption
    DEF ShapeOK, FlagsOK, PostOK, DrainOK, CloseOK, StackInv, FlushPc, PostPc, DrainPc,
        SubPc, ClosePc,
        Goto, Call, sharedVars, queueVars, poolVars, postVars, drainVars, closeVars
<1>1. ASSUME NEW t \in Threads, NEW k \in Tasks, PostEnter(t, k) PROVE StackInv'
  BY <1>1 DEF PostEnter, InUserCode, InClose
<1>2. ASSUME NEW t \in Threads, PostCheckAccepting(t) PROVE StackInv'
  BY <1>2 DEF PostCheckAccepting
<1>3. ASSUME NEW t \in Threads, PostCount(t) PROVE StackInv'
  BY <1>3 DEF PostCount
<1>4. ASSUME NEW t \in Threads, PostExchange(t) PROVE StackInv'
  BY <1>4 DEF PostExchange, Q!PushExchange
<1>5. ASSUME NEW t \in Threads, PostLink(t) PROVE StackInv'
  BY <1>5 DEF PostLink, Q!PushLink
<1>6. ASSUME NEW t \in Threads, PostElect(t) PROVE StackInv'
  BY <1>6 DEF PostElect
<1>7. ASSUME NEW t \in Threads, PostLeave(t) PROVE StackInv'
  BY <1>7, SMTT(30) DEF PostLeave
<1>8. ASSUME NEW t \in Threads, PostSchedule(t) PROVE StackInv'
  BY <1>8, SMTT(30) DEF PostSchedule, ScheduleDrain, HolderInv, Draining, DrainHolds
<1>9. ASSUME NEW t \in Threads, DrainTop(t) PROVE StackInv'
  BY <1>9, SMTT(30) DEF DrainTop
<1>10. ASSUME NEW t \in Threads, DrainPop(t) PROVE StackInv'
  <2>1. drain[t] \in {"pop"} /\ UNCHANGED <<post, sub, close, closer>>
    BY <1>10, Zenon DEF DrainPop
  <2>2. \A u \in Threads : u # t => drain'[u] = drain[u]
    BY <1>10 DEF DrainPop
  <2> QED
    BY <2>1, <2>2, SMTT(30)
<1>11. ASSUME NEW t \in Threads, DrainCount(t) PROVE StackInv'
  BY <1>11 DEF DrainCount
<1>12. ASSUME NEW t \in Threads, DrainTaskEnds(t) PROVE StackInv'
  BY <1>12 DEF DrainTaskEnds, InUserCode, InClose
<1>13. ASSUME NEW t \in Threads, DrainYield(t) PROVE StackInv'
  <2>1. drain[t] \in {"after"} /\ UNCHANGED <<post, sub, close, closer>>
    BY <1>13, Zenon DEF DrainYield
  <2>2. \A u \in Threads : u # t => drain'[u] = drain[u]
    BY <1>13 DEF DrainYield
  <2> QED
    BY <2>1, <2>2, SMTT(30)
<1>14. ASSUME NEW t \in Threads, DrainEmpty(t) PROVE StackInv'
  BY <1>14, SMTT(30) DEF DrainEmpty, StoreNotDraining
<1>15. ASSUME NEW t \in Threads, DrainRecheck(t) PROVE StackInv'
  <2>1. drain[t] \in {"owner?", "queued?", "active?"} /\ UNCHANGED <<post, sub, close, closer>>
    BY <1>15, ZenonT(40) DEF DrainRecheck
  <2>2. \A u \in Threads : u # t => drain'[u] = drain[u]
    BY <1>15, SMTT(30) DEF DrainRecheck
  <2> QED
    BY <2>1, <2>2
<1>16. ASSUME NEW t \in Threads, DrainReelect(t) PROVE StackInv'
  BY <1>16 DEF DrainReelect
<1>17. ASSUME NEW t \in Threads, DrainClose(t) PROVE StackInv'
  BY <1>17, SMTT(30) DEF DrainClose
<1>18. ASSUME NEW t \in Threads, DrainRelease(t) PROVE StackInv'
  BY <1>18 DEF DrainRelease, StoreNotDraining
<1>19. ASSUME NEW t \in Threads, DrainReturn(t) PROVE StackInv'
  BY <1>19, SMTT(30) DEF DrainReturn
<1>20. ASSUME NEW t \in Threads, NotifyCheckClosing(t) PROVE StackInv'
  BY <1>20, SMTT(30) DEF NotifyCheckClosing
<1>21. ASSUME NEW t \in Threads, NotifyLocked(t) PROVE StackInv'
  BY <1>21, SMTT(30) DEF NotifyLocked
<1>22. ASSUME NEW t \in Threads, FlushPop(t) PROVE StackInv'
  BY <1>22, SMTT(30) DEF FlushPop, Q!Pop
<1>23. ASSUME NEW t \in Threads, FlushCount(t) PROVE StackInv'
  BY <1>23, SMTT(30) DEF FlushCount
<1>24. ASSUME NEW t \in Threads, FlushRecheck(t) PROVE StackInv'
  BY <1>24 DEF FlushRecheck
<1>25. ASSUME NEW t \in Threads, CloseEnter(t) PROVE StackInv'
  BY <1>25, ZenonT(40) DEF CloseEnter, InUserCode, InClose
<1>26. CASE WorkerRunsDrain
  BY <1>26 DEF WorkerRunsDrain, InUserCode
<1>27. CASE CloseStop
  BY <1>27, Zenon DEF CloseStop
<1>28. CASE CloseAwaitPosts
  BY <1>28, ZenonT(40) DEF CloseAwaitPosts
<1>29. CASE CloseChoose
  BY <1>29 DEF CloseChoose
<1>30. CASE CloseSelf
  BY <1>30, ZenonT(40) DEF CloseSelf
<1>31. CASE CloseSchedule
  BY <1>31, SMTT(30) DEF CloseSchedule, ScheduleDrain, HolderInv, NoThreadHolds, Draining, DrainHolds
<1>32. CASE CloseAwaitIdle
  BY <1>32, Zenon DEF CloseAwaitIdle
<1>33. CASE SpuriousWakeup
  BY <1>33, Zenon DEF SpuriousWakeup
<1>34. CASE WriteBack
  BY <1>34, Zenon DEF WriteBack
<1>35. CASE UNCHANGED vars
  BY <1>35, Zenon DEF vars
<1> HIDE DEF ShapeOK, FlagsOK, PostOK, DrainOK, CloseOK, StackInv, FlushPc, PostPc, DrainPc,
             SubPc, ClosePc,
             Goto, Call, sharedVars, queueVars, poolVars, postVars, drainVars, closeVars
<1> QED
  BY <1>1, <1>2, <1>3, <1>4, <1>5, <1>6, <1>7, <1>8, <1>9, <1>10, <1>11, <1>12,
     <1>13, <1>14, <1>15, <1>16, <1>17, <1>18, <1>19, <1>20, <1>21, <1>22, <1>23,
     <1>24, <1>25, <1>26, <1>27, <1>28, <1>29, <1>30, <1>31, <1>32, <1>33, <1>34,
     <1>35, SMTT(30)
     DEF Next, Post, Drain, Sub, CloseFromOwner
=============================================================================
