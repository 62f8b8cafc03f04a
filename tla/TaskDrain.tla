----------------------------- MODULE TaskDrain -----------------------------
(***************************************************************************)
(* The task queue of one ClientConnection: Post, Drain and CloseFromOwner  *)
(* (src/src/net/client_connection.cc).  Any thread posts tasks; the        *)
(* draining_ flag elects one thread at a time to run them; the owner       *)
(* closes the connection, from another thread or from inside a task.       *)
(*                                                                         *)
(* One action is one access to shared state (an atomic, the node queue, or *)
(* a critical section of idle_mtx_).  What a task does to the connection   *)
(* is left to ClientLifecycle: here a task only posts further tasks, calls *)
(* CloseFromOwner, asks for a yield, or ends.                              *)
(***************************************************************************)
EXTENDS Naturals, Sequences, FiniteSets

CONSTANTS
  Threads,       \* every thread that may touch the connection
  Worker,        \* the thread of worker_index_
  OwnerThreads,  \* threads that may release the client outside a task of it
  Tasks,         \* tasks, each posted at most once
  TaskBudget,    \* kDrainTaskBudget
  Settings,      \* the surroundings the connection may find, out of AllSettings
  NoThread, NoTask

\* "up": the worker pool takes Drain; "stopped": it does not, and Drain runs
\* inline; "buffered": it does, and draining_.store(false, release) may still be
\* in the store buffer of its thread when that thread's later loads are done, as
\* x86 and the C++ memory model allow.
AllSettings == {"up", "stopped", "buffered"}

ASSUME ConstantsAssumption ==
  /\ IsFiniteSet(Threads)
  /\ Worker \in Threads
  /\ NoThread \notin Threads
  /\ OwnerThreads \subseteq Threads
  /\ NoTask \notin Tasks
  /\ TaskBudget \in Nat \ {0}
  /\ Settings \subseteq AllSettings

VARIABLES
  accepting_tasks, owner_closing, draining, active_posts, queued_tasks,
  bufferedFalse,  \* draining_ = false is in the drainer's store buffer
  fifo, linking,  \* task_queue_, as TaskFifo promises it
  setting,        \* one of Settings, for good
  poolQueue,      \* number of [self] { self->Drain(); } in the pool's queue
  unposted,       \* tasks nobody has posted yet
  post, ptask, won,          \* per thread: Post
  drain, dtask, processed,   \* per thread: Drain
  sub,                       \* per thread: NotifyIdle and DrainTaskQueue
  close, closer,             \* CloseFromOwner and the thread that calls it
  closed                     \* StartClose(kRelease) has run

sharedVars == <<accepting_tasks, owner_closing, draining, active_posts,
                queued_tasks, bufferedFalse>>
queueVars == <<fifo, linking>>
poolVars == <<setting, poolQueue>>
postVars == <<unposted, post, ptask, won>>
drainVars == <<drain, dtask, processed>>
closeVars == <<close, closer, closed>>
vars == <<sharedVars, queueVars, poolVars, postVars, drainVars, sub, closeVars>>

poolUp == setting # "stopped"
relaxed == setting = "buffered"

Q == INSTANCE TaskFifo WITH Nodes <- Tasks

PostPc == {"none", "entered", "accepted", "counted", "exchanged", "linked",
           "leaving", "schedule"}
DrainPc == {"off", "top", "pop", "took", "running", "after", "empty",
            "owner?", "queued?", "active?", "recas", "flush", "release",
            "returning"}
SubPc == {"none", "closing?", "notify", "pop", "count", "active?", "queued?"}
ClosePc == {"open", "stop", "wait1", "sleep1", "choose", "selfflush",
            "schedule", "wait2", "wait2queued", "wait2active", "sleep2",
            "done"}

Init ==
  /\ accepting_tasks = TRUE
  /\ owner_closing = FALSE
  /\ draining = FALSE
  /\ active_posts = 0
  /\ queued_tasks = 0
  /\ bufferedFalse = FALSE
  /\ Q!Init
  /\ setting \in Settings
  /\ poolQueue = 0
  /\ unposted = Tasks
  /\ post = [t \in Threads |-> "none"]
  /\ ptask = [t \in Threads |-> NoTask]
  /\ won = [t \in Threads |-> FALSE]
  /\ drain = [t \in Threads |-> "off"]
  /\ dtask = [t \in Threads |-> NoTask]
  /\ processed = [t \in Threads |-> 0]
  /\ sub = [t \in Threads |-> "none"]
  /\ close = "open"
  /\ closer = NoThread
  /\ closed = FALSE

\* idle_mtx_ is held across steps only by the second wait of CloseFromOwner.
IdleMtxFree == close \notin {"wait2queued", "wait2active"}

\* Thread t is inside CloseFromOwner.
InClose(t) == closer = t /\ close # "done"

\* Thread t runs user code: outside the library, or in a callback of a task.
InUserCode(t) ==
  /\ post[t] = "none"
  /\ sub[t] = "none"
  /\ drain[t] \in {"off", "running"}
  /\ ~InClose(t)

Goto(pc, t, l) == pc' = [pc EXCEPT ![t] = l]

\* NotifyIdle and DrainTaskQueue are called by entering them in sub.
Call(t, l) == sub' = [sub EXCEPT ![t] = l]

-----------------------------------------------------------------------------
(* NotifyIdle *)

NotifyCheckClosing(t) ==
  /\ sub[t] = "closing?"
  /\ Goto(sub, t, IF owner_closing THEN "notify" ELSE "none")
  /\ UNCHANGED <<sharedVars, queueVars, poolVars, postVars, drainVars, closeVars>>

\* Locking idle_mtx_ empties the store buffer of its thread first.
NotifyLocked(t) ==
  /\ sub[t] = "notify"
  /\ IdleMtxFree
  /\ drain[t] \in {"owner?", "returning"} => ~bufferedFalse
  /\ Goto(sub, t, "none")
  /\ close' = IF active_posts # 0 THEN close
              ELSE IF close = "sleep1" THEN "wait1"
              ELSE IF close = "sleep2" THEN "wait2"
              ELSE close
  /\ UNCHANGED <<sharedVars, queueVars, poolVars, postVars, drainVars, closer, closed>>

-----------------------------------------------------------------------------
(* Post *)

PostEnter(t, k) ==
  /\ InUserCode(t)
  /\ ~(closer = t /\ close = "done")
  /\ k \in unposted
  /\ unposted' = unposted \ {k}
  /\ active_posts' = active_posts + 1
  /\ ptask' = [ptask EXCEPT ![t] = k]
  /\ Goto(post, t, "entered")
  /\ UNCHANGED <<accepting_tasks, owner_closing, draining, queued_tasks, bufferedFalse,
                 queueVars, poolVars, won, drainVars, sub, closeVars>>

PostCheckAccepting(t) ==
  /\ post[t] = "entered"
  /\ Goto(post, t, IF accepting_tasks THEN "accepted" ELSE "leaving")
  /\ ptask' = [ptask EXCEPT ![t] = IF accepting_tasks THEN @ ELSE NoTask]
  /\ UNCHANGED <<sharedVars, queueVars, poolVars, unposted, won, drainVars, sub, closeVars>>

PostCount(t) ==
  /\ post[t] = "accepted"
  /\ queued_tasks' = queued_tasks + 1
  /\ Goto(post, t, "counted")
  /\ UNCHANGED <<accepting_tasks, owner_closing, draining, active_posts, bufferedFalse,
                 queueVars, poolVars, unposted, ptask, won, drainVars, sub, closeVars>>

PostExchange(t) ==
  /\ post[t] = "counted"
  /\ Q!PushExchange(ptask[t])
  /\ Goto(post, t, "exchanged")
  /\ UNCHANGED <<sharedVars, poolVars, unposted, ptask, won, drainVars, sub, closeVars>>

PostLink(t) ==
  /\ post[t] = "exchanged"
  /\ Q!PushLink(ptask[t])
  /\ ptask' = [ptask EXCEPT ![t] = NoTask]
  /\ Goto(post, t, "linked")
  /\ UNCHANGED <<sharedVars, poolVars, unposted, won, drainVars, sub, closeVars>>

\* Mutant: a plain store in place of the compare-exchange.
PostElectAlways(t) ==
  /\ post[t] = "linked"
  /\ won' = [won EXCEPT ![t] = TRUE]
  /\ draining' = TRUE
  /\ Goto(post, t, "leaving")
  /\ UNCHANGED <<accepting_tasks, owner_closing, active_posts, queued_tasks, bufferedFalse,
                 queueVars, poolVars, unposted, ptask, drainVars, sub, closeVars>>

PostElect(t) ==
  /\ post[t] = "linked"
  /\ won' = [won EXCEPT ![t] = ~draining]
  /\ draining' = TRUE
  /\ Goto(post, t, "leaving")
  /\ UNCHANGED <<accepting_tasks, owner_closing, active_posts, queued_tasks, bufferedFalse,
                 queueVars, poolVars, unposted, ptask, drainVars, sub, closeVars>>

\* Mutant: only the poster that schedules counts itself out.
PostLeaveEarly(t) ==
  /\ post[t] = "leaving"
  /\ active_posts' = IF won[t] THEN active_posts - 1 ELSE active_posts
  /\ Call(t, IF active_posts = 1 THEN "closing?" ELSE "none")
  /\ Goto(post, t, IF won[t] THEN "schedule" ELSE "none")
  /\ UNCHANGED <<accepting_tasks, owner_closing, draining, queued_tasks, bufferedFalse,
                 queueVars, poolVars, unposted, ptask, won, drainVars, closeVars>>

PostLeave(t) ==
  /\ post[t] = "leaving"
  /\ active_posts' = active_posts - 1
  /\ Call(t, IF active_posts = 1 THEN "closing?" ELSE "none")
  /\ Goto(post, t, IF won[t] THEN "schedule" ELSE "none")
  /\ UNCHANGED <<accepting_tasks, owner_closing, draining, queued_tasks, bufferedFalse,
                 queueVars, poolVars, unposted, ptask, won, drainVars, closeVars>>

\* ScheduleDrain: hand Drain to the worker, or run it inline if the pool
\* refuses it.
ScheduleDrain(t) ==
  \/ /\ poolUp
     /\ poolQueue' = poolQueue + 1
     /\ UNCHANGED <<setting, drainVars>>
  \/ /\ ~poolUp
     /\ Goto(drain, t, "top")
     /\ processed' = [processed EXCEPT ![t] = 0]
     /\ UNCHANGED <<poolVars, dtask>>

PostSchedule(t) ==
  /\ post[t] = "schedule"
  /\ sub[t] = "none"
  /\ won' = [won EXCEPT ![t] = FALSE]
  /\ Goto(post, t, "none")
  /\ ScheduleDrain(t)
  /\ UNCHANGED <<sharedVars, queueVars, unposted, ptask, sub, closeVars>>

Post(t) ==
  \/ PostCheckAccepting(t)
  \/ PostCount(t)
  \/ PostExchange(t)
  \/ PostLink(t)
  \/ PostElect(t)
  \/ PostLeave(t)
  \/ PostSchedule(t)

-----------------------------------------------------------------------------
(* Drain *)

\* A worker thread takes [self] { self->Drain(); } from the pool's queue.
WorkerRunsDrain ==
  /\ poolQueue > 0
  /\ InUserCode(Worker)
  /\ drain[Worker] = "off"
  /\ poolQueue' = poolQueue - 1
  /\ Goto(drain, Worker, "top")
  /\ processed' = [processed EXCEPT ![Worker] = 0]
  /\ UNCHANGED <<sharedVars, queueVars, setting, postVars, dtask, sub, closeVars>>

\* Mutant: what is left after the first task is flushed, not run.
DrainTopFlushes(t) ==
  LET flush == owner_closing \/ processed[t] > 0 IN
  /\ drain[t] = "top"
  /\ Goto(drain, t, IF flush THEN "flush" ELSE "pop")
  /\ Call(t, IF flush THEN "pop" ELSE "none")
  /\ UNCHANGED <<sharedVars, queueVars, poolVars, postVars, dtask, processed, closeVars>>

DrainTop(t) ==
  /\ drain[t] = "top"
  /\ Goto(drain, t, IF owner_closing THEN "flush" ELSE "pop")
  /\ Call(t, IF owner_closing THEN "pop" ELSE "none")
  /\ UNCHANGED <<sharedVars, queueVars, poolVars, postVars, dtask, processed, closeVars>>

\* PopAvailableTaskNode: waits while the node queue is between the two halves
\* of a push, returns the oldest node or nullptr.
DrainPop(t) ==
  /\ drain[t] = "pop"
  /\ \/ \E k \in Tasks :
          /\ Q!Pop(k)
          /\ dtask' = [dtask EXCEPT ![t] = k]
          /\ Goto(drain, t, "took")
     \/ /\ Q!MayReportEmpty
        /\ Goto(drain, t, "empty")
        /\ UNCHANGED <<queueVars, dtask>>
  /\ UNCHANGED <<sharedVars, poolVars, postVars, processed, sub, closeVars>>

DrainCount(t) ==
  /\ drain[t] = "took"
  /\ queued_tasks' = queued_tasks - 1
  /\ Goto(drain, t, "running")
  /\ UNCHANGED <<accepting_tasks, owner_closing, draining, active_posts, bufferedFalse,
                 queueVars, poolVars, postVars, dtask, processed, sub, closeVars>>

\* task() returns, with or without having set drain_yield_requested_.
DrainTaskEnds(t) ==
  /\ drain[t] = "running"
  /\ InUserCode(t)
  /\ dtask' = [dtask EXCEPT ![t] = NoTask]
  /\ processed' = [processed EXCEPT ![t] = @ + 1]
  /\ \E yield \in BOOLEAN :
       Goto(drain, t, IF yield \/ processed[t] + 1 >= TaskBudget THEN "after" ELSE "top")
  /\ UNCHANGED <<sharedVars, queueVars, poolVars, postVars, sub, closeVars>>

\* Mutant: the yielding drain does not repost itself.
DrainYieldForgets(t) ==
  /\ drain[t] = "after"
  /\ \/ /\ owner_closing
        /\ Goto(drain, t, "top")
        /\ UNCHANGED <<poolVars, processed>>
     \/ /\ ~owner_closing
        /\ poolUp
        /\ UNCHANGED poolQueue
        /\ Goto(drain, t, "returning")
        /\ UNCHANGED <<setting, processed>>
     \/ /\ ~owner_closing
        /\ ~poolUp
        /\ Goto(drain, t, "top")
        /\ processed' = [processed EXCEPT ![t] = 0]
        /\ UNCHANGED poolVars
  /\ UNCHANGED <<sharedVars, queueVars, postVars, dtask, sub, closeVars>>

\* RescheduleDrain.  Run inline it is a Drain inside the Drain, whose return
\* is the return of both.
DrainYield(t) ==
  /\ drain[t] = "after"
  /\ \/ /\ owner_closing
        /\ Goto(drain, t, "top")
        /\ UNCHANGED <<poolVars, processed>>
     \/ /\ ~owner_closing
        /\ poolUp
        /\ poolQueue' = poolQueue + 1
        /\ Goto(drain, t, "returning")
        /\ UNCHANGED <<setting, processed>>
     \/ /\ ~owner_closing
        /\ ~poolUp
        /\ Goto(drain, t, "top")
        /\ processed' = [processed EXCEPT ![t] = 0]
        /\ UNCHANGED poolVars
  /\ UNCHANGED <<sharedVars, queueVars, postVars, dtask, sub, closeVars>>

\* draining_.store(false, std::memory_order_release)
StoreNotDraining ==
  IF relaxed THEN /\ bufferedFalse' = TRUE
                  /\ UNCHANGED draining
             ELSE /\ draining' = FALSE
                  /\ UNCHANGED bufferedFalse

\* The processor writes the store buffer back.
WriteBack ==
  /\ bufferedFalse
  /\ draining' = FALSE
  /\ bufferedFalse' = FALSE
  /\ UNCHANGED <<accepting_tasks, owner_closing, active_posts, queued_tasks, queueVars,
                 poolVars, postVars, drainVars, sub, closeVars>>

DrainEmpty(t) ==
  /\ drain[t] = "empty"
  /\ StoreNotDraining
  /\ Call(t, "closing?")
  /\ Goto(drain, t, "owner?")
  /\ UNCHANGED <<accepting_tasks, owner_closing, active_posts, queued_tasks, queueVars,
                 poolVars, postVars, dtask, processed, closeVars>>

\* The three loads that decide whether Drain returns.
DrainRecheck(t) ==
  /\ sub[t] = "none"
  /\ \/ /\ drain[t] = "owner?"
        /\ Goto(drain, t, IF owner_closing THEN "recas" ELSE "queued?")
     \/ /\ drain[t] = "queued?"
        /\ Goto(drain, t, IF queued_tasks # 0 THEN "recas" ELSE "active?")
     \/ /\ drain[t] = "active?"
        /\ Goto(drain, t, IF active_posts # 0 THEN "recas" ELSE "returning")
  /\ UNCHANGED <<sharedVars, queueVars, poolVars, postVars, dtask, processed, sub, closeVars>>

\* Mutant: a drain that was elected again goes back to the end of the loop.
DrainReelectSpins(t) ==
  /\ drain[t] = "recas"
  /\ ~bufferedFalse
  /\ Goto(drain, t, IF draining THEN "returning" ELSE "empty")
  /\ draining' = TRUE
  /\ UNCHANGED <<accepting_tasks, owner_closing, active_posts, queued_tasks, bufferedFalse,
                 queueVars, poolVars, postVars, dtask, processed, sub, closeVars>>

DrainReelect(t) ==
  /\ drain[t] = "recas"
  /\ ~bufferedFalse
  /\ Goto(drain, t, IF draining THEN "returning" ELSE "top")
  /\ draining' = TRUE
  /\ UNCHANGED <<accepting_tasks, owner_closing, active_posts, queued_tasks, bufferedFalse,
                 queueVars, poolVars, postVars, dtask, processed, sub, closeVars>>

\* Mutant: the drain that meets a release discards the tasks and does not close.
DrainCloseForgets(t) ==
  /\ drain[t] = "flush"
  /\ sub[t] = "none"
  /\ Goto(drain, t, "release")
  /\ UNCHANGED <<sharedVars, queueVars, poolVars, postVars, dtask, processed, sub, closeVars>>

\* StartClose(CloseReason::kRelease, "") after DrainTaskQueue.
DrainClose(t) ==
  /\ drain[t] = "flush"
  /\ sub[t] = "none"
  /\ closed' = TRUE
  /\ Goto(drain, t, "release")
  /\ UNCHANGED <<sharedVars, queueVars, poolVars, postVars, dtask, processed, sub, close,
                 closer>>

\* Mutant: no NotifyIdle after the release.
DrainReleaseSilent(t) ==
  /\ drain[t] = "release"
  /\ StoreNotDraining
  /\ UNCHANGED sub
  /\ Goto(drain, t, "returning")
  /\ UNCHANGED <<accepting_tasks, owner_closing, active_posts, queued_tasks, queueVars,
                 poolVars, postVars, dtask, processed, closeVars>>

DrainRelease(t) ==
  /\ drain[t] = "release"
  /\ StoreNotDraining
  /\ Call(t, "closing?")
  /\ Goto(drain, t, "returning")
  /\ UNCHANGED <<accepting_tasks, owner_closing, active_posts, queued_tasks, queueVars,
                 poolVars, postVars, dtask, processed, closeVars>>

\* Drain has returned and the shared_ptr that kept the connection alive for
\* it is dropped, an atomic decrement that empties the store buffer.
DrainReturn(t) ==
  /\ drain[t] = "returning"
  /\ sub[t] = "none"
  /\ ~bufferedFalse
  /\ Goto(drain, t, "off")
  /\ UNCHANGED <<sharedVars, queueVars, poolVars, postVars, dtask, processed, sub, closeVars>>

Drain(t) ==
  \/ DrainTop(t)
  \/ DrainPop(t)
  \/ DrainCount(t)
  \/ DrainTaskEnds(t)
  \/ DrainYield(t)
  \/ DrainEmpty(t)
  \/ DrainRecheck(t)
  \/ DrainReelect(t)
  \/ DrainClose(t)
  \/ DrainRelease(t)
  \/ DrainReturn(t)

-----------------------------------------------------------------------------
(* DrainTaskQueue *)

FlushPop(t) ==
  /\ sub[t] = "pop"
  /\ \/ \E k \in Tasks : Q!Pop(k) /\ Call(t, "count")
     \/ Q!MayReportEmpty /\ Call(t, "active?") /\ UNCHANGED queueVars
  /\ UNCHANGED <<sharedVars, poolVars, postVars, drainVars, closeVars>>

FlushCount(t) ==
  /\ sub[t] = "count"
  /\ queued_tasks' = queued_tasks - 1
  /\ Call(t, "pop")
  /\ UNCHANGED <<accepting_tasks, owner_closing, draining, active_posts, bufferedFalse,
                 queueVars, poolVars, postVars, drainVars, closeVars>>

FlushRecheck(t) ==
  /\ \/ /\ sub[t] = "active?"
        /\ Call(t, IF active_posts # 0 THEN "pop" ELSE "queued?")
     \/ /\ sub[t] = "queued?"
        /\ Call(t, IF queued_tasks # 0 THEN "pop" ELSE "none")
  /\ UNCHANGED <<sharedVars, queueVars, poolVars, postVars, drainVars, closeVars>>

Sub(t) ==
  \/ NotifyCheckClosing(t)
  \/ NotifyLocked(t)
  \/ FlushPop(t)
  \/ FlushCount(t)
  \/ FlushRecheck(t)

-----------------------------------------------------------------------------
(* CloseFromOwner *)

\* From an owner thread, or from a callback that a task of this connection
\* makes (t_draining_connection == this).
CloseEnter(t) ==
  /\ close = "open"
  /\ InUserCode(t)
  /\ t \in OwnerThreads \/ drain[t] = "running"
  /\ closer' = t
  /\ owner_closing' = TRUE
  /\ close' = "stop"
  /\ UNCHANGED <<accepting_tasks, draining, active_posts, queued_tasks, bufferedFalse,
                 queueVars, poolVars, postVars, drainVars, sub, closed>>

CloseStop ==
  /\ close = "stop"
  /\ accepting_tasks' = FALSE
  /\ close' = "wait1"
  /\ UNCHANGED <<owner_closing, draining, active_posts, queued_tasks, bufferedFalse,
                 queueVars, poolVars, postVars, drainVars, sub, closer, closed>>

CloseAwaitPosts ==
  /\ close = "wait1"
  /\ close' = IF active_posts = 0 THEN "choose" ELSE "sleep1"
  /\ UNCHANGED <<sharedVars, queueVars, poolVars, postVars, drainVars, sub, closer, closed>>

\* t_draining_connection == this: flush here; otherwise elect a drainer.
CloseChoose ==
  /\ close = "choose"
  /\ IF drain[closer] = "running"
       THEN /\ close' = "selfflush"
            /\ Call(closer, "pop")
            /\ UNCHANGED draining
       ELSE /\ close' = IF draining THEN "wait2" ELSE "schedule"
            /\ draining' = TRUE
            /\ UNCHANGED sub
  /\ UNCHANGED <<accepting_tasks, owner_closing, active_posts, queued_tasks, bufferedFalse,
                 queueVars, poolVars, postVars, drainVars, closer, closed>>

CloseSelf ==
  /\ close = "selfflush"
  /\ sub[closer] = "none"
  /\ closed' = TRUE
  /\ close' = "done"
  /\ UNCHANGED <<sharedVars, queueVars, poolVars, postVars, drainVars, sub, closer>>

CloseSchedule ==
  /\ close = "schedule"
  /\ ScheduleDrain(closer)
  /\ close' = "wait2"
  /\ UNCHANGED <<sharedVars, queueVars, postVars, sub, closer, closed>>

\* Mutant: the wait ignores draining_.
CloseAwaitIdleNoDraining ==
  /\ close \in {"wait2", "wait2queued", "wait2active"}
  /\ drain[closer] = "off"
  /\ \/ close = "wait2" /\ close' = "wait2queued"
     \/ close = "wait2queued" /\ close' = IF queued_tasks # 0 THEN "sleep2" ELSE "wait2active"
     \/ close = "wait2active" /\ close' = IF active_posts # 0 THEN "sleep2" ELSE "done"
  /\ UNCHANGED <<sharedVars, queueVars, poolVars, postVars, drainVars, sub, closer, closed>>

\* The predicate of the second wait, three loads under idle_mtx_.
CloseAwaitIdle ==
  /\ close \in {"wait2", "wait2queued", "wait2active"}
  /\ drain[closer] = "off"
  /\ \/ close = "wait2" /\ close' = IF draining THEN "sleep2" ELSE "wait2queued"
     \/ close = "wait2queued" /\ close' = IF queued_tasks # 0 THEN "sleep2" ELSE "wait2active"
     \/ close = "wait2active" /\ close' = IF active_posts # 0 THEN "sleep2" ELSE "done"
  /\ UNCHANGED <<sharedVars, queueVars, poolVars, postVars, drainVars, sub, closer, closed>>

\* A condition variable may wake its waiter for no reason.
SpuriousWakeup ==
  /\ \/ close = "sleep1" /\ close' = "wait1"
     \/ close = "sleep2" /\ close' = "wait2"
  /\ UNCHANGED <<sharedVars, queueVars, poolVars, postVars, drainVars, sub, closer, closed>>

CloseFromOwner ==
  \/ CloseStop
  \/ CloseAwaitPosts
  \/ CloseChoose
  \/ CloseSelf
  \/ CloseSchedule
  \/ CloseAwaitIdle

-----------------------------------------------------------------------------
Next ==
  \/ \E t \in Threads :
       \/ \E k \in Tasks : PostEnter(t, k)
       \/ Post(t)
       \/ Drain(t)
       \/ Sub(t)
       \/ CloseEnter(t)
  \/ WorkerRunsDrain
  \/ CloseFromOwner
  \/ SpuriousWakeup
  \/ WriteBack

Spec == Init /\ [][Next]_vars

\* Every thread keeps running: what it has begun it goes on with, and a thread
\* that waits for idle_mtx_ gets it in the end, however often the owner is woken
\* and takes it again.  Nobody has to post, to release the client, or to be woken
\* without reason.
Fairness ==
  /\ \A t \in Threads : WF_vars(Post(t)) /\ WF_vars(Drain(t)) /\ WF_vars(Sub(t))
  /\ \A t \in Threads : SF_vars(NotifyLocked(t))
  /\ WF_vars(WorkerRunsDrain)
  /\ WF_vars(CloseFromOwner)
  /\ WF_vars(WriteBack)

FairSpec == Spec /\ Fairness

-----------------------------------------------------------------------------
(* Properties *)

\* Types of the members of ClientConnection and of the locals of its methods.
TypeOK ==
  /\ accepting_tasks \in BOOLEAN
  /\ owner_closing \in BOOLEAN
  /\ draining \in BOOLEAN
  /\ bufferedFalse \in BOOLEAN
  /\ active_posts \in Nat
  /\ queued_tasks \in Nat
  /\ fifo \in Seq(Tasks)
  /\ linking \subseteq Tasks
  /\ setting \in AllSettings
  /\ poolQueue \in Nat
  /\ unposted \subseteq Tasks
  /\ post \in [Threads -> PostPc]
  /\ ptask \in [Threads -> Tasks \cup {NoTask}]
  /\ won \in [Threads -> BOOLEAN]
  /\ drain \in [Threads -> DrainPc]
  /\ dtask \in [Threads -> Tasks \cup {NoTask}]
  /\ processed \in [Threads -> Nat]
  /\ sub \in [Threads -> SubPc]
  /\ close \in ClosePc
  /\ closer \in Threads \cup {NoThread}
  /\ closed \in BOOLEAN

\* Where Drain has the right to run tasks.
DrainHolds == {"top", "pop", "took", "running", "after", "empty", "flush", "release"}

\* Posts counted in active_posts_.
Posting ==
  {t \in Threads : post[t] \in {"entered", "accepted", "counted", "exchanged", "linked", "leaving"}}

\* Nodes counted in queued_tasks_ but not in task_queue_: about to be pushed
\* by Post, just popped by Drain, just popped by DrainTaskQueue.
Counted == {t \in Threads : post[t] = "counted"}
Took == {t \in Threads : drain[t] = "took"}
Discarding == {t \in Threads : sub[t] = "count"}

\* active_posts_ is the number of threads inside Post, and queued_tasks_ the
\* number of nodes in task_queue_ plus those on their way in or out.  Drain,
\* DrainTaskQueue and CloseFromOwner decide by these counters being zero; an
\* error path that counts twice or not at all would leave them waiting or let
\* them return too early.
CountersExact ==
  /\ active_posts = Cardinality(Posting)
  /\ queued_tasks = Len(fifo) + Cardinality(Counted) + Cardinality(Took)
                               + Cardinality(Discarding)

\* Everyone who won draining_ and has not given it back: a Drain, a Drain
\* waiting in the pool, a Post or a CloseFromOwner about to schedule one.
Holders ==
  {<<"drain", t>> : t \in {u \in Threads : drain[u] \in DrainHolds}}
    \cup {<<"post", t>> : t \in {u \in Threads : won[u] /\ post[u] \in {"leaving", "schedule"}}}
    \cup {<<"close", t>> : t \in {u \in Threads : closer = u /\ close = "schedule"}}
    \cup {<<"pool", i>> : i \in 1 .. poolQueue}

\* Handler callbacks of a connection never overlap: two threads are never both
\* inside the part of Drain that takes and runs tasks, whatever mix of posts,
\* reschedules, inline drains and releases put them there.
SerialTasks ==
  \A t, u \in Threads : drain[t] \in DrainHolds /\ drain[u] \in DrainHolds => t = u

\* draining_ is set exactly while someone is committed to drain; a set flag
\* nobody is responsible for would stop the connection for good.
FlagHasHolder == draining <=> (Holders # {} \/ bufferedFalse)

\* Once CloseFromOwner has returned no task of the connection, hence no handler
\* callback, runs or can begin, except the task that called it.
NoTaskAfterRelease ==
  close = "done" =>
    \A t \in Threads : drain[t] \in {"pop", "took", "running"} => t = closer /\ drain[t] = "running"

\* The connection is a serial executor: tasks begin in push order, each once,
\* one at a time, and nothing but discarding follows the owner's close.
Executor == INSTANCE SerialExecutor WITH
  waiting <- fifo,
  current <- IF \E t \in Threads : dtask[t] # NoTask
               THEN dtask[CHOOSE t \in Threads : dtask[t] # NoTask]
               ELSE NoTask,
  phase <- IF close = "open" THEN "open"
           ELSE IF close = "done" THEN "released"
           ELSE "closing",
  by <- IF closer = NoThread THEN NoTask ELSE dtask[closer]

ImplementsSerialExecutor == Executor!Spec

\* A task that nobody will ever drain, because a release cut the posts off too
\* late (ReleaseReturns): the owner waits, and no drain is left that might elect
\* itself again.
Stranded ==
  /\ close \in {"wait2", "wait2queued", "sleep2"}
  /\ fifo # <<>> /\ ~draining
  /\ \A t \in Threads : drain[t] \in {"off", "returning"}

\* A callback of another client of the same worker releases this one: it waits,
\* in the worker's thread, for a Drain that only this thread would run, since
\* t_draining_connection knows of one connection.
WaitsForItself ==
  closer = Worker /\ close \in {"wait2", "sleep2"} /\ drain[Worker] = "off" /\ poolQueue > 0

\* Every task that was queued is taken out again, run or discarded, unless the
\* release of the client, or a reordered store, strands it, or the releasing
\* callback holds up the worker.
QueuedTasksLeave ==
  \A k \in Tasks :
    (\E i \in DOMAIN fifo : fifo[i] = k)
      ~> (relaxed \/ ~(\E i \in DOMAIN fifo : fifo[i] = k) \/ Stranded \/ WaitsForItself)

\* CloseFromOwner returns: no notification of idle_cv_ is lost and no counter
\* or flag it waits for stays set.
ReleaseReturns == close # "open" ~> close = "done"

\* CloseFromOwner returns unless a task is stranded for good in a queue that
\* nobody drains, or a callback of another client waits for its own worker:
\* without reordered stores there is no other way to lose its wakeup.
ReleaseReturnsOrStrands ==
  close # "open" ~> (relaxed \/ close = "done" \/ Stranded \/ WaitsForItself)

\* After CloseFromOwner has returned the connection gets closed (by StartClose,
\* unless stores are reordered) and everybody lets go of it, so that its
\* destructor runs and deletes the codec.
ReleaseTakesEffect ==
  close = "done" ~> /\ closed \/ relaxed
                    /\ poolQueue = 0
                    /\ \A t \in Threads : drain[t] = "off"
=============================================================================
