------------------------------ MODULE Library ------------------------------
(***************************************************************************)
(* The library's life: the count of users under g_init_mtx (core/init.cc,  *)
(* core/library.cc), the clients that hold it (bridge/client.cc) and the   *)
(* start and stop of the runtime inside the lock (net/runtime.cc).         *)
(*                                                                         *)
(* Threads are the application's and the workers'; a worker calls the      *)
(* library from a callback, and releases only the client the callback is   *)
(* of (TaskDrain has the other case).  Each start of the pool makes new    *)
(* worker threads; one that stopped the pool it belongs to is detached and *)
(* lives on until its callback ends.  The stop of the poll loop and of the *)
(* pool are single steps here (PollLoop, WorkerPool).                      *)
(***************************************************************************)
EXTENDS Naturals, Sequences, FiniteSets

CONSTANTS
  Apps,        \* threads of the application
  MaxClients,  \* bound: clients created, which are numbered in that order
  Asked,       \* bound: the settings of the number of workers, in the order of the calls
  hardware_concurrency,
  Nobody

VARIABLES
  mtx,       \* holder of g_init_mtx
  inits,     \* g_initializations
  running,   \* running_
  poller,    \* what the poller has open: everything it needs, or leftovers
  polling,   \* the poll thread is there
  mode, configured,   \* worker_thread_mode_, configured_worker_threads_
  settings,  \* changes of these so far
  size,      \* worker_count, then the number of workers of the pool
  crew,      \* worker threads of the pool
  starts,    \* pools started so far
  state,     \* per client
  worker,    \* per client: worker_index_
  callback,  \* per worker: the client whose callback it is in
  pc, arg    \* per thread: where it is, for which client or setting

runtimeVars == <<running, poller, polling, crew, starts>>
configVars == <<mode, configured, settings>>
vars == <<mtx, inits, runtimeVars, configVars, size, state, worker, callback, pc, arg>>

Clients == 1 .. MaxClients
kDefaultWorkerThreads == 2
kDefaultMaxWorkerThreads == 8

Larger(m, n) == IF m >= n THEN m ELSE n
Smaller(m, n) == IF m <= n THEN m ELSE n

\* What SetWorkerThreads(n) and SetWorkerThreadsAuto store.
Fixed(n) ==
  IF n = 0 THEN [mode |-> "default", configured |-> kDefaultWorkerThreads]
           ELSE [mode |-> "fixed", configured |-> n]
Automatic == [mode |-> "auto", configured |-> 0]

DefaultWorkerThreads ==
  CASE hardware_concurrency = 0 -> 2
    [] hardware_concurrency \in 1 .. 2 -> 1
    [] hardware_concurrency > 2 ->
         Smaller(Larger(2, hardware_concurrency \div 2), kDefaultMaxWorkerThreads)

\* The numbers of workers that a setting stands for.
Sizes ==
  {kDefaultWorkerThreads, DefaultWorkerThreads} \cup
    {Asked[i].configured : i \in {j \in DOMAIN Asked : Asked[j].mode = "fixed"}}
MaxSize == CHOOSE m \in Sizes : \A n \in Sizes : n <= m
WorkersOf(n) == {n} \X (1 .. MaxSize)
Workers == UNION {WorkersOf(n) : n \in 1 .. MaxClients}
Threads == Apps \cup Workers

ASSUME LibraryAssumption ==
  /\ Asked \in Seq([mode : {"default", "auto", "fixed"}, configured : Nat])
  /\ \A i \in DOMAIN Asked : Asked[i] \in {Automatic, Fixed(0), Fixed(Asked[i].configured)}
  /\ hardware_concurrency \in Nat
  /\ MaxClients \in Nat \ {0}
  /\ Nobody \notin Threads \cup Clients

Init ==
  /\ mtx = Nobody /\ inits = 0
  /\ running = FALSE /\ poller = {} /\ polling = FALSE
  /\ mode = "default" /\ configured = kDefaultWorkerThreads /\ settings = 0
  /\ size = 0
  /\ crew = {} /\ starts = 0
  /\ state = [c \in Clients |-> "none"]
  /\ worker = [c \in Clients |-> 1]
  /\ callback = [w \in Workers |-> Nobody]
  /\ pc = [t \in Threads |-> "idle"]
  /\ arg = [t \in Threads |-> Nobody]

Goto(t, label) == pc' = [pc EXCEPT ![t] = label] /\ UNCHANGED arg
Returns(t) == pc' = [pc EXCEPT ![t] = "idle"] /\ arg' = [arg EXCEPT ![t] = Nobody]
Becomes(t, s) == state' = [state EXCEPT ![arg[t]] = s]
Unlock == mtx' = Nobody

\* A thread that may call the library, outside of a call.
Free(t) == pc[t] = "idle" /\ (t \in Workers => callback[t] # Nobody)

-----------------------------------------------------------------------------
(* SetWorkerThreads, SetWorkerThreadsAuto *)

\* They return false when the runtime is running.
Set(t) ==
  /\ Free(t) /\ t \in Apps
  /\ ~running
  /\ settings < Len(Asked)
  /\ settings' = settings + 1
  /\ pc' = [pc EXCEPT ![t] = "count"]
  /\ arg' = [arg EXCEPT ![t] = Asked[settings']]
  /\ UNCHANGED <<mtx, inits, runtimeVars, mode, configured, size, state, worker, callback>>

SetStores(t) ==
  /\ \/ /\ pc[t] = "count"
        /\ configured' = arg[t].configured
        /\ Goto(t, "mode")
        /\ UNCHANGED mode
     \/ /\ pc[t] = "mode"
        /\ mode' = arg[t].mode
        /\ Returns(t)
        /\ UNCHANGED configured
  /\ UNCHANGED <<mtx, inits, runtimeVars, settings, size, state, worker, callback>>

-----------------------------------------------------------------------------
(* CreateClient *)

\* A user of the library: a client or, as one that never gets a callback, a call
\* of LibraryInit by the application, which LibraryShutdown undoes.
Create(t, c) ==
  /\ Free(t)
  /\ state[c] = "none"
  /\ \A d \in 1 .. c - 1 : state[d] # "none"
  /\ pc' = [pc EXCEPT ![t] = "init"]
  /\ arg' = [arg EXCEPT ![t] = c]
  /\ state' = [state EXCEPT ![c] = "creating"]
  /\ UNCHANGED <<configVars, size, mtx, inits, runtimeVars, worker, callback>>

\* The new ClientConnection picks a worker.
Created(t) ==
  /\ Becomes(t, "live")
  /\ \E i \in 1 .. Larger(1, size) : worker' = [worker EXCEPT ![arg[t]] = i]
  /\ Returns(t)

\* LibraryInit: with the lock, the first user starts the runtime.
LibraryInit(t) ==
  /\ pc[t] = "init"
  /\ mtx = Nobody
  /\ inits' = inits + 1
  /\ IF inits' = 1 /\ ~running
       THEN /\ mtx' = t
            /\ Goto(t, "poller")
            /\ UNCHANGED <<state, worker>>
       ELSE Created(t) /\ UNCHANGED mtx
  /\ UNCHANGED <<configVars, size, runtimeVars, callback>>

\* A failed start: CreateClient returns nullptr.
InitFails(t) ==
  /\ Unlock
  /\ inits' = inits - 1
  /\ Becomes(t, "gone")
  /\ Returns(t)
  /\ UNCHANGED worker

\* What a Poller::Init that fails leaves open on each back end: what it had
\* opened, at each place where it may fail, less what it closes there.
EpollInitFails ==
  {{}, {"epoll"} \ {"epoll"}, {"epoll", "eventfd"} \ {"eventfd", "epoll"}}

KqueueInitFails ==
  {{}, {"kqueue"} \ {"kqueue"},
   {"kqueue", "read", "write"} \ {"read", "write", "kqueue"}}

IocpInitFails == {{}}

PollerInit == poller' = {"poller"}

PollerShutdown == poller' = {}

\* GlobalRuntime::Start, step by step, with what each failure undoes. On Windows
\* winsock_init comes first; its failure is like that of an Init with nothing open.
StartPoller(t) ==
  /\ pc[t] = "poller"
  /\ \/ /\ PollerInit
        /\ Goto(t, "resolve")
        /\ UNCHANGED <<mtx, inits, state, worker>>
     \/ /\ InitFails(t)
        /\ poller' \in EpollInitFails \cup KqueueInitFails \cup IocpInitFails
  /\ UNCHANGED <<configVars, size, running, polling, crew, starts, callback>>

\* Mutant: a number that another mode left behind is taken as it is.
ResolveUnchecked(t) ==
  /\ \/ /\ pc[t] = "resolve"
        /\ Goto(t, IF mode = "auto" THEN "pool" ELSE "configured")
        /\ size' = IF mode = "auto" THEN DefaultWorkerThreads ELSE size
     \/ /\ pc[t] = "configured"
        /\ Goto(t, "pool")
        /\ size' = configured
  /\ UNCHANGED <<mtx, inits, runtimeVars, configVars, state, worker, callback>>

\* ResolveWorkerThreads: the mode and then, unless it is automatic, the number.
ResolveWorkerThreads(t) ==
  /\ \/ /\ pc[t] = "resolve"
        /\ Goto(t, IF mode = "auto" THEN "pool" ELSE "configured")
        /\ size' = IF mode = "auto" THEN DefaultWorkerThreads ELSE size
     \/ /\ pc[t] = "configured"
        /\ Goto(t, "pool")
        /\ size' = IF configured > 0 THEN configured ELSE kDefaultWorkerThreads
  /\ UNCHANGED <<mtx, inits, runtimeVars, configVars, state, worker, callback>>

\* Mutant: the poller stays when the pool did not start.
StartPoolLeavesPoller(t) ==
  /\ pc[t] = "pool"
  /\ \/ /\ starts' = starts + 1
        /\ crew' = {starts'} \X (1 .. Larger(1, size))
        /\ Goto(t, "thread")
        /\ UNCHANGED <<mtx, inits, poller, size, state, worker>>
     \/ /\ InitFails(t)
        /\ size' = 0
        /\ UNCHANGED <<poller, crew, starts>>
  /\ UNCHANGED <<configVars, running, polling, callback>>

StartPool(t) ==
  /\ pc[t] = "pool"
  /\ \/ /\ starts' = starts + 1
        /\ crew' = {starts'} \X (1 .. Larger(1, size))
        /\ Goto(t, "thread")
        /\ UNCHANGED <<mtx, inits, poller, size, state, worker>>
     \/ /\ InitFails(t)
        /\ size' = 0
        /\ PollerShutdown
        /\ UNCHANGED <<crew, starts>>
  /\ UNCHANGED <<configVars, running, polling, callback>>

StartThread(t) ==
  /\ pc[t] = "thread"
  /\ \/ /\ running' = TRUE /\ polling' = TRUE
        /\ Unlock
        /\ Created(t)
        /\ UNCHANGED <<inits, poller, size, crew>>
     \/ /\ InitFails(t)
        /\ crew' = {} /\ size' = 0 /\ PollerShutdown
        /\ UNCHANGED <<running, polling>>
  /\ UNCHANGED <<configVars, starts, callback>>

-----------------------------------------------------------------------------
(* ReleaseClient *)

Release(t, c) ==
  /\ Free(t)
  /\ t \in Workers => callback[t] = c
  /\ state[c] = "live"
  /\ pc' = [pc EXCEPT ![t] = "close"]
  /\ arg' = [arg EXCEPT ![t] = c]
  /\ state' = [state EXCEPT ![c] = "closing"]
  /\ UNCHANGED <<configVars, size, mtx, inits, runtimeVars, worker, callback>>

\* ClientImpl::Stop returns when no other thread is in a callback of the client.
CloseFromOwner(t) ==
  /\ pc[t] = "close"
  /\ \A w \in Workers \ {t} : callback[w] # arg[t]
  /\ Goto(t, "shutdown")
  /\ UNCHANGED <<configVars, size, mtx, inits, runtimeVars, state, worker, callback>>

\* LibraryShutdown: with the lock, the last user stops the runtime. There are as
\* many calls of it as successful ones of LibraryInit.
LibraryShutdown(t) ==
  /\ pc[t] = "shutdown"
  /\ mtx = Nobody
  /\ inits' = IF inits = 0 THEN 0 ELSE inits - 1
  /\ IF inits = 1 /\ running
       THEN /\ mtx' = t
            /\ running' = FALSE
            /\ Goto(t, "join")
            /\ Becomes(t, "stopping")
       ELSE /\ Becomes(t, "gone")
            /\ Returns(t)
            /\ UNCHANGED <<mtx, running>>
  /\ UNCHANGED <<configVars, size, poller, polling, crew, starts, worker, callback>>

StopPolling(t) ==
  /\ pc[t] = "join"
  /\ polling' = FALSE
  /\ Goto(t, "stop")
  /\ UNCHANGED <<configVars, size, mtx, inits, running, poller, crew, starts, state, worker, callback>>

\* Mutant: Stop joins the thread it runs on.
StopPoolJoinsSelf(t) ==
  /\ pc[t] = "stop"
  /\ \A w \in crew : callback[w] = Nobody
  /\ crew' = {} /\ size' = 0
  /\ Goto(t, "clear")
  /\ UNCHANGED <<configVars, mtx, inits, running, poller, polling, starts, state, worker, callback>>

\* WorkerPool::Stop joins every worker but the caller.
StopPool(t) ==
  /\ pc[t] = "stop"
  /\ \A w \in crew \ {t} : callback[w] = Nobody
  /\ crew' = {} /\ size' = 0
  /\ Goto(t, "clear")
  /\ UNCHANGED <<configVars, mtx, inits, running, poller, polling, starts, state, worker, callback>>

StopClear(t) ==
  /\ pc[t] = "clear"
  /\ PollerShutdown
  /\ Unlock
  /\ Becomes(t, "gone")
  /\ Returns(t)
  /\ UNCHANGED <<configVars, size, inits, running, polling, crew, starts, worker, callback>>

-----------------------------------------------------------------------------
(* Callbacks *)

CallbackBegins(w, c) ==
  /\ w \in crew
  /\ callback[w] = Nobody
  /\ state[c] = "live"
  /\ worker[c] = w[2]
  /\ callback' = [callback EXCEPT ![w] = c]
  /\ UNCHANGED <<configVars, size, mtx, inits, runtimeVars, state, worker, pc, arg>>

CallbackEnds(w) ==
  /\ callback[w] # Nobody
  /\ pc[w] = "idle"
  /\ callback' = [callback EXCEPT ![w] = Nobody]
  /\ UNCHANGED <<configVars, size, mtx, inits, runtimeVars, state, worker, pc, arg>>

\* The rest of a call that has begun.
Step(t) ==
  \/ SetStores(t)
  \/ LibraryInit(t) \/ StartPoller(t) \/ ResolveWorkerThreads(t) \/ StartPool(t) \/ StartThread(t)
  \/ CloseFromOwner(t) \/ LibraryShutdown(t)
  \/ StopPolling(t) \/ StopPool(t) \/ StopClear(t)

Next ==
  \/ \E t \in Threads, c \in Clients : Create(t, c) \/ Release(t, c)
  \/ \E t \in Threads : Set(t) \/ Step(t)
  \/ \E w \in Workers, c \in Clients : CallbackBegins(w, c)
  \/ \E w \in Workers : CallbackEnds(w)

Spec == Init /\ [][Next]_vars

\* Threads run, and callbacks return unless a call they made does not.
FairSpec ==
  /\ Spec
  /\ \A t \in Apps : WF_vars(Step(t))
  /\ \A w \in Workers : WF_vars(Step(w) \/ CallbackEnds(w))

-----------------------------------------------------------------------------
(* Properties *)

\* While a client exists the whole runtime is there, whatever other threads
\* create, fail to create and release (LibraryInit, LibraryShutdown), with a number
\* of workers that some setting stands for, although setters and Start write and
\* read mode and number one by one (ResolveWorkerThreads, SetWorkerThreadsAuto).
ClientsHaveRuntime ==
  (\E c \in Clients : state[c] \in {"live", "closing"}) =>
    running /\ poller = {"poller"} /\ polling /\ crew # {} /\ size \in Sizes

\* Without users nothing of the runtime is left, also after a start that failed
\* half way, in the poller or after it (GlobalRuntime::Start, Stop, Poller::Init).
NothingLeftWithoutUsers ==
  inits = 0 /\ mtx = Nobody => ~running /\ poller = {} /\ ~polling /\ crew = {}

\* A callback that creates a client waits for g_init_mtx, whose holder waits for
\* the callback's worker to end: the one deadlock of these calls.
JoinsCreator ==
  \E t \in Threads : pc[t] = "stop" /\ \E w \in crew \ {t} : pc[w] = "init"

\* CreateClient and ReleaseClient return, on application threads and in callbacks,
\* unless a callback creates a client while another thread releases the last one.
CallsReturn == \A t \in Threads : pc[t] # "idle" ~> pc[t] = "idle" \/ JoinsCreator
=============================================================================
