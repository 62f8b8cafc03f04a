----------------------------- MODULE WorkerPool -----------------------------
(***************************************************************************)
(* The worker threads of the runtime (src/src/net/worker_pool.cc): posting *)
(* a task to a worker, the loop of a worker, Start and Stop.               *)
(*                                                                         *)
(* A WorkerState is named by the generation of the Start that made it and  *)
(* its index: a post that loaded the list before Stop goes on using the    *)
(* old one.  Its queue is the one MpscQueue describes: push has two halves *)
(* and returns true when it found the stub; a pop may find the oldest node *)
(* not linked yet, and reports an empty queue only in front of the stub.   *)
(*                                                                         *)
(* Start and Stop are called one at a time (LibraryInit and                *)
(* LibraryShutdown hold g_init_mtx), by the application or by a task.      *)
(* Setting wake_pending under the mutex and the notify_one that follows    *)
(* are one step: only the owner of the flag waits for it.                  *)
(***************************************************************************)
EXTENDS Naturals, Sequences, FiniteSets

CONSTANTS
  Tasks,      \* each is posted once, by a thread of its own
  Threads     \* bound: the arguments of the calls of Start, in order

ASSUME PoolAssumption ==
  Threads \in Seq(Nat) /\ Threads # <<>>

\* generation_ grows by one in Start and by one in Stop.
Generations == {2 * k - 1 : k \in 1 .. Len(Threads)}

\* The workers of a Start: one at least.
Count(g) == LET threads == Threads[(g + 1) \div 2] IN IF threads = 0 THEN 1 ELSE threads
Workers == UNION {{g} \X (1 .. Count(g)) : g \in Generations}
Nobody == <<0, 0>>
Main == <<0, 1>>    \* the application, calling Start or Stop

VARIABLES
  stopping, generation,
  list,       \* workers_: the generation it holds, 0 for an empty list
  accepting, active, wake, fifo,  \* per worker: fields of WorkerState
  thread, task,                   \* per worker: the thread and its task
  linking,    \* pushed tasks that are not linked yet
  first,      \* those of them whose push returns true
  post,       \* per task: where its poster is in PostToWorker, and the worker
  ctl,        \* Start or Stop in progress
  closed      \* calls of Stop that have returned: the generation and the caller

queueVars == <<fifo, linking, first>>
stateVars == <<accepting, active, wake>>
poolVars == <<stopping, generation, list>>
vars == <<poolVars, stateVars, queueVars, thread, task, post, ctl, closed>>

NotPosted == [pc |-> "new", at |-> Nobody]
NoControl == [pc |-> "idle", by |-> Nobody, gen |-> 0, i |-> 1]

Init ==
  /\ stopping = TRUE /\ generation = 0 /\ list = 0
  /\ accepting = [w \in Workers |-> FALSE]
  /\ active = [w \in Workers |-> 0]
  /\ wake = [w \in Workers |-> FALSE]
  /\ fifo = [w \in Workers |-> <<>>] /\ linking = {} /\ first = {}
  /\ thread = [w \in Workers |-> "none"] /\ task = [w \in Workers |-> Nobody]
  /\ post = [p \in Tasks |-> NotPosted]
  /\ ctl = NoControl
  /\ closed = {}

-----------------------------------------------------------------------------
(* PostToWorker *)

PostGoes(p, pc) == post' = [post EXCEPT ![p].pc = pc]
PostEnds(p) == post' = [post EXCEPT ![p] = [pc |-> "over", at |-> Nobody]]

\* Who waits on the condition variable of w looks at its predicate again: the
\* worker itself or, when that is gone, Stop.
Notify(w) ==
  /\ thread' = IF thread[w] = "blocked" THEN [thread EXCEPT ![w] = "wait"] ELSE thread
  /\ ctl' = IF ctl.pc = "asleep" /\ <<ctl.gen, ctl.i>> = w THEN [ctl EXCEPT !.pc = "await"] ELSE ctl

PostBegin(p) ==
  /\ post[p].pc = "new"
  /\ IF stopping THEN PostEnds(p) ELSE PostGoes(p, "load")
  /\ UNCHANGED <<poolVars, stateVars, queueVars, thread, task, ctl, closed>>

\* LoadWorkers and the choice of the worker.
PostLoad(p) ==
  /\ post[p].pc = "load"
  /\ IF list = 0
       THEN PostEnds(p)
       ELSE \E i \in 1 .. Count(list) : post' = [post EXCEPT ![p] = [pc |-> "enter", at |-> <<list, i>>]]
  /\ UNCHANGED <<poolVars, stateVars, queueVars, thread, task, ctl, closed>>

PostEnter(p) ==
  /\ post[p].pc = "enter"
  /\ active' = [active EXCEPT ![post[p].at] = @ + 1]
  /\ PostGoes(p, "accepting?")
  /\ UNCHANGED <<poolVars, accepting, wake, queueVars, thread, task, ctl, closed>>

PostAccepting(p) ==
  /\ post[p].pc = "accepting?"
  /\ IF accepting[post[p].at]
       THEN PostGoes(p, "push") /\ UNCHANGED active
       ELSE /\ active' = [active EXCEPT ![post[p].at] = @ - 1]
            /\ IF active[post[p].at] = 1 THEN PostGoes(p, "notify") ELSE PostEnds(p)
  /\ UNCHANGED <<poolVars, accepting, wake, queueVars, thread, task, ctl, closed>>

\* queue.push up to the exchange: it finds the stub when the queue is empty,
\* and sometimes when it is not.
PostExchange(p) ==
  LET w == post[p].at IN
  /\ post[p].pc = "push"
  /\ fifo' = [fifo EXCEPT ![w] = Append(@, p)]
  /\ linking' = linking \cup {p}
  /\ \E stub \in {TRUE, fifo[w] = <<>>} : first' = IF stub THEN first \cup {p} ELSE first
  /\ PostGoes(p, "link")
  /\ UNCHANGED <<poolVars, stateVars, thread, task, ctl, closed>>

PostLink(p) ==
  /\ post[p].pc = "link"
  /\ linking' = linking \ {p}
  /\ first' = first \ {p}
  /\ PostGoes(p, IF p \in first THEN "wake" ELSE "leave")
  /\ UNCHANGED <<poolVars, stateVars, fifo, thread, task, ctl, closed>>

\* Mutant: the worker is notified, but finds no flag.
PostWakeNoFlag(p) ==
  /\ post[p].pc = "wake"
  /\ Notify(post[p].at)
  /\ PostGoes(p, "leave")
  /\ UNCHANGED <<poolVars, stateVars, queueVars, task, closed>>

PostWake(p) ==
  /\ post[p].pc = "wake"
  /\ wake' = [wake EXCEPT ![post[p].at] = TRUE]
  /\ Notify(post[p].at)
  /\ PostGoes(p, "leave")
  /\ UNCHANGED <<poolVars, accepting, active, queueVars, task, closed>>

\* Mutant: the last post does not look whether Stop may be waiting for it.
PostLeaveSilent(p) ==
  /\ post[p].pc = "leave"
  /\ active' = [active EXCEPT ![post[p].at] = @ - 1]
  /\ PostEnds(p)
  /\ UNCHANGED <<poolVars, accepting, wake, queueVars, thread, task, ctl, closed>>

PostLeave(p) ==
  /\ post[p].pc = "leave"
  /\ active' = [active EXCEPT ![post[p].at] = @ - 1]
  /\ IF active[post[p].at] = 1 THEN PostGoes(p, "closed?") ELSE PostEnds(p)
  /\ UNCHANGED <<poolVars, accepting, wake, queueVars, thread, task, ctl, closed>>

PostClosed(p) ==
  /\ post[p].pc = "closed?"
  /\ IF accepting[post[p].at] THEN PostEnds(p) ELSE PostGoes(p, "notify")
  /\ UNCHANGED <<poolVars, stateVars, queueVars, thread, task, ctl, closed>>

PostNotify(p) ==
  /\ post[p].pc = "notify"
  /\ Notify(post[p].at)
  /\ PostEnds(p)
  /\ UNCHANGED <<poolVars, stateVars, queueVars, task, closed>>

PostToWorker(p) ==
  \/ PostLoad(p)
  \/ PostEnter(p)
  \/ PostAccepting(p)
  \/ PostExchange(p)
  \/ PostLink(p)
  \/ PostWake(p)
  \/ PostLeave(p)
  \/ PostClosed(p)
  \/ PostNotify(p)

-----------------------------------------------------------------------------
(* The queue seen by its consumer *)

Available(w) == fifo[w] # <<>> /\ Head(fifo[w]) \notin linking
ReportsEmpty(w) == fifo[w] # <<>> => Head(fifo[w]) \in linking /\ Head(fifo[w]) \in first

(* Run *)

ThreadGoes(w, pc) == thread' = [thread EXCEPT ![w] = pc]

ShouldStop(w) == w[1] # generation \/ stopping

RunWait(w) ==
  /\ thread[w] = "wait"
  /\ wake' = [wake EXCEPT ![w] = FALSE]
  /\ ThreadGoes(w, IF wake[w] THEN "check" ELSE "blocked")
  /\ UNCHANGED <<poolVars, accepting, active, queueVars, task, post, ctl, closed>>

SpuriousWakeup(w) ==
  /\ thread[w] = "blocked"
  /\ ThreadGoes(w, "wait")
  /\ UNCHANGED <<poolVars, stateVars, queueVars, task, post, ctl, closed>>

RunCheck(w) ==
  /\ thread[w] = "check"
  /\ ThreadGoes(w, IF ShouldStop(w) THEN "gone" ELSE "pop")
  /\ UNCHANGED <<poolVars, stateVars, queueVars, task, post, ctl, closed>>

\* PopTask: tries again while the oldest node is not linked.
RunPop(w) ==
  /\ thread[w] = "pop"
  /\ \/ /\ Available(w)
        /\ task' = [task EXCEPT ![w] = Head(fifo[w])]
        /\ fifo' = [fifo EXCEPT ![w] = Tail(@)]
        /\ ThreadGoes(w, "popped")
     \/ /\ ReportsEmpty(w)
        /\ ThreadGoes(w, "drained")
        /\ UNCHANGED <<task, fifo>>
  /\ UNCHANGED <<poolVars, stateVars, linking, first, post, ctl, closed>>

RunPopped(w) ==
  /\ thread[w] = "popped"
  /\ IF ShouldStop(w)
       THEN ThreadGoes(w, "gone") /\ task' = [task EXCEPT ![w] = Nobody]
       ELSE ThreadGoes(w, "run") /\ UNCHANGED task
  /\ UNCHANGED <<poolVars, stateVars, queueVars, post, ctl, closed>>

TaskEnds(w) ==
  /\ thread[w] = "run"
  /\ ctl.by # w
  /\ ThreadGoes(w, "check")
  /\ task' = [task EXCEPT ![w] = Nobody]
  /\ UNCHANGED <<poolVars, stateVars, queueVars, post, ctl, closed>>

RunDrained(w) ==
  /\ thread[w] = "drained"
  /\ ThreadGoes(w, IF ShouldStop(w) THEN "gone" ELSE "wait")
  /\ UNCHANGED <<poolVars, stateVars, queueVars, task, post, ctl, closed>>

Run(w) == RunWait(w) \/ RunCheck(w) \/ RunPop(w) \/ RunPopped(w) \/ TaskEnds(w) \/ RunDrained(w)

-----------------------------------------------------------------------------
(* Start and Stop *)

At == <<ctl.gen, ctl.i>>

\* The loops of Start and Stop over the workers, one after the other.
NextWorker(then) ==
  ctl' = IF ctl.i < Count(ctl.gen) THEN [ctl EXCEPT !.i = @ + 1]
                                   ELSE [ctl EXCEPT !.pc = then, !.i = 1]

StartOpen ==
  /\ ctl.pc = "idle"
  /\ stopping
  /\ generation + 1 \in Generations
  /\ stopping' = FALSE
  /\ generation' = generation + 1
  /\ ctl' = [pc |-> "spawn", by |-> Main, gen |-> generation + 1, i |-> 1]
  /\ UNCHANGED <<list, stateVars, queueVars, thread, task, post, closed>>

StartSpawn ==
  /\ ctl.pc = "spawn"
  /\ accepting' = [accepting EXCEPT ![At] = TRUE]
  /\ ThreadGoes(At, "wait")
  /\ NextWorker("publish")
  /\ UNCHANGED <<poolVars, active, wake, queueVars, task, post, closed>>

StartPublish ==
  /\ ctl.pc = "publish"
  /\ list' = ctl.gen
  /\ ctl' = NoControl
  /\ UNCHANGED <<stopping, generation, stateVars, queueVars, thread, task, post, closed>>

\* A thread cannot be created: those made so far are stopped and joined.
StartFails ==
  /\ ctl.pc = "spawn"
  /\ stopping' = TRUE
  /\ generation' = generation + 1
  /\ accepting' = [w \in Workers |-> IF w[1] = ctl.gen THEN FALSE ELSE accepting[w]]
  /\ list' = 0
  /\ ctl' = [ctl EXCEPT !.pc = "wake", !.i = 1]
  /\ UNCHANGED <<active, wake, queueVars, thread, task, post, closed>>

\* A task may call Stop.
MayStop(w) == thread[w] = "run"

StopBegin(by) ==
  /\ ctl.pc = "idle"
  /\ ~stopping
  /\ stopping' = TRUE
  /\ generation' = generation + 1
  /\ ctl' = [pc |-> "take", by |-> by, gen |-> list, i |-> 1]
  /\ UNCHANGED <<list, stateVars, queueVars, thread, task, post, closed>>

StopTake ==
  /\ ctl.pc = "take"
  /\ list' = 0
  /\ ctl' = [ctl EXCEPT !.pc = "refuse"]
  /\ UNCHANGED <<stopping, generation, stateVars, queueVars, thread, task, post, closed>>

StopRefuse ==
  /\ ctl.pc = "refuse"
  /\ accepting' = [accepting EXCEPT ![At] = FALSE]
  /\ NextWorker("wake")
  /\ UNCHANGED <<poolVars, active, wake, queueVars, thread, task, post, closed>>

StopWake ==
  /\ ctl.pc = "wake"
  /\ wake' = [wake EXCEPT ![At] = TRUE]
  /\ thread' = IF thread[At] = "blocked" THEN [thread EXCEPT ![At] = "wait"] ELSE thread
  /\ NextWorker("join")
  /\ UNCHANGED <<poolVars, accepting, active, queueVars, task, post, closed>>

\* The worker that calls Stop from a task detaches itself.
StopJoin ==
  /\ ctl.pc = "join"
  /\ thread[At] \in {"none", "gone"} \/ At = ctl.by
  /\ NextWorker("await")
  /\ UNCHANGED <<poolVars, stateVars, queueVars, thread, task, post, closed>>

StopAwait ==
  /\ ctl.pc = "await"
  /\ IF active[At] = 0 THEN NextWorker("drain") ELSE ctl' = [ctl EXCEPT !.pc = "asleep"]
  /\ UNCHANGED <<poolVars, stateVars, queueVars, thread, task, post, closed>>

\* Mutant: the queues are left as they are.
StopDrainNothing ==
  /\ ctl.pc = "drain"
  /\ ctl' = NoControl
  /\ closed' = closed \cup {<<ctl.gen, ctl.by>>}
  /\ UNCHANGED <<poolVars, stateVars, queueVars, thread, task, post>>

\* DrainQueue
StopDrain ==
  /\ ctl.pc = "drain"
  /\ \/ /\ Available(At)
        /\ fifo' = [fifo EXCEPT ![At] = Tail(@)]
        /\ UNCHANGED <<ctl, closed>>
     \/ /\ ReportsEmpty(At)
        /\ IF ctl.i < Count(ctl.gen)
             THEN ctl' = [ctl EXCEPT !.i = @ + 1] /\ UNCHANGED closed
             ELSE ctl' = NoControl /\ closed' = closed \cup {<<ctl.gen, ctl.by>>}
        /\ UNCHANGED fifo
  /\ UNCHANGED <<poolVars, stateVars, linking, first, thread, task, post>>

Control ==
  \/ StartSpawn
  \/ StartPublish
  \/ StopTake
  \/ StopRefuse
  \/ StopWake
  \/ StopJoin
  \/ StopAwait
  \/ StopDrain

-----------------------------------------------------------------------------
Next ==
  \/ \E p \in Tasks : PostBegin(p) \/ PostToWorker(p)
  \/ \E w \in Workers : Run(w) \/ SpuriousWakeup(w) \/ (MayStop(w) /\ StopBegin(w))
  \/ StartOpen
  \/ StartFails
  \/ StopBegin(Main)
  \/ Control

Spec == Init /\ [][Next]_vars

\* Posts, workers, and a Start or Stop that has begun go on; tasks end.
Fairness ==
  /\ \A p \in Tasks : WF_vars(PostToWorker(p))
  /\ \A w \in Workers : WF_vars(Run(w))
  /\ WF_vars(Control)

FairSpec == Spec /\ Fairness

-----------------------------------------------------------------------------
(* Properties *)

\* When Stop has returned the pool of that Start is quiet: its threads are gone
\* but for a worker that called Stop itself, and its queues are empty, which
\* ~MultiProducerSingleConsumerQueue asserts.
StoppedIsQuiet ==
  \A c \in closed : \A w \in {c[1]} \X (1 .. Count(c[1])) :
    fifo[w] = <<>> /\ (thread[w] \in {"none", "gone"} \/ w = c[2])

InPool(t) == \E w \in Workers : task[w] = t \/ \E i \in DOMAIN fifo[w] : fifo[w][i] = t

\* A task whose Post returned true is run to its end, or dropped by a Stop.
PostedLeaves ==
  \A t \in Tasks : InPool(t) ~> ~InPool(t)

\* Stop returns, also when a task calls it and when posts are under way; and a
\* worker that stopped its own pool, and was detached, ends too, also when a new
\* Start has cleared stopping_ before it looked.
StopReturns ==
  /\ ctl.pc = "take" ~> ctl.pc = "idle"
  /\ \A w \in Workers : (\E c \in closed : c[1] = w[1]) ~> thread[w] \in {"none", "gone"}
=============================================================================
