-------------------------- MODULE ClientLifecycle --------------------------
(***************************************************************************)
(* The life of one client: Connect, Disconnect and release called by its   *)
(* users, the tasks of its connection, the poll thread and the network     *)
(* (src/src/net/client_connection.cc and client_connection_posix.cc).      *)
(*                                                                         *)
(* The task queue is the serial FIFO that TaskDrain provides.  A task is   *)
(* one action up to the next callback: between callbacks it works on       *)
(* members only tasks touch, and the one thing another thread can do to    *)
(* state_ is to turn kIdle into kConnecting.  Handler callbacks are steps  *)
(* of their own, in which the handler may call the client again.           *)
(*                                                                         *)
(* Sessions are numbered: session s is the s-th socket the connection      *)
(* opened, with the ConnectionId that Register gave it (ConnectionTable    *)
(* shows that such an id is not given out twice).  Payload, budgets and    *)
(* write interest are the subject of SessionIo.                            *)
(***************************************************************************)
EXTENDS Naturals, Sequences, FiniteSets

CONSTANTS
  Callers,         \* threads of the application
  WorkerThread,    \* the thread that runs the tasks, and so the callbacks
  MaxAttempts,     \* bound: calls of Connect that find the client idle
  MaxDisconnects,  \* bound: calls of Disconnect
  MaxBacklog,      \* bound: queued tasks beyond which nothing is polled
  Timeout          \* connect_timeout_ms > 0

ASSUME LifecycleAssumption ==
  /\ WorkerThread \notin Callers
  /\ MaxAttempts \in Nat /\ MaxDisconnects \in Nat /\ MaxBacklog \in Nat
  /\ Timeout \in BOOLEAN

Attempts == 1 .. MaxAttempts
Sessions == 1 .. MaxAttempts
None == 0

VARIABLES
  state, connected,
  session,    \* fd_ and id_
  deadline,   \* the session connect_deadline_ms_ was set for
  tasks,
  worker,     \* the task in progress: where it is and what remains of it
  api,        \* per thread: the attempt whose Connect it is in
  attempt,    \* the last attempt that was let in
  returned,   \* per attempt: what Connect returned
  outcome,    \* per attempt: what the handler was told last
  disconnects,
  released, destroyed,
  opened,     \* number of sockets opened so far
  open,       \* sockets that are open, registered in the connection table
  for,        \* per session: the attempt whose address it connects to
  net,        \* per session: what the network did
  interest,   \* per session: what the poller watches it for
  timers,     \* per session: a connect timeout is pending
  inflight    \* what the poll thread has in hand: an event it is to post

connVars == <<state, connected, session, deadline>>
userVars == <<api, attempt, returned, disconnects>>
endVars == <<released, destroyed>>
netVars == <<opened, open, for, net, interest, timers>>
vars == <<connVars, tasks, worker, outcome, userVars, endVars, netVars, inflight>>

Threads == Callers \cup {WorkerThread}

\* pc: idle, finish (FinishClose is next), call (a callback runs), or read
\* (HandleReadable is next); call: the callback; of: the attempt it is about;
\* eof: the reason to close that recv found.
AtRest == [pc |-> "idle", call |-> "-", of |-> None, eof |-> "-", readable |-> FALSE]

Init ==
  /\ state = "Idle" /\ connected = FALSE /\ session = None /\ deadline = None
  /\ tasks = <<>> /\ worker = AtRest
  /\ api = [t \in Threads |-> None]
  /\ attempt = 0
  /\ returned = [a \in Attempts |-> "no"]
  /\ outcome = [a \in Attempts |-> "none"]
  /\ disconnects = 0
  /\ released = FALSE /\ destroyed = FALSE
  /\ opened = 0 /\ open = {}
  /\ for = [s \in Sessions |-> None]
  /\ net = [s \in Sessions |-> "none"]
  /\ interest = [s \in Sessions |-> "none"]
  /\ timers = {} /\ inflight = {}

\* PlatformCloseSocket, and before it Unregister and the poller's Remove, of fd_
CloseSocket ==
  /\ session' = None
  /\ open' = open \ {session}
  /\ for' = [s \in Sessions |-> IF s = session THEN None ELSE for[s]]
  /\ net' = [s \in Sessions |-> IF s = session THEN "none" ELSE net[s]]
  /\ interest' = [s \in Sessions |-> IF s = session THEN "none" ELSE interest[s]]

-----------------------------------------------------------------------------
(* Calls of the application, on its own threads or in a callback. *)

MayCall(t) ==
  /\ ~released
  /\ api[t] = None
  /\ t = WorkerThread => worker.pc = "call"

\* Connect, when state_ is kIdle; otherwise it returns false at once.
Connect(t) ==
  /\ MayCall(t)
  /\ attempt < MaxAttempts
  /\ state = "Idle"
  /\ state' = "Connecting"
  /\ connected' = FALSE
  /\ attempt' = attempt + 1
  /\ api' = [api EXCEPT ![t] = attempt + 1]
  /\ UNCHANGED <<session, deadline, tasks, worker, outcome, returned, disconnects,
                 endVars, netVars, inflight>>

\* The rest of Connect, after the blocking resolution of the address.
Resolved(t) ==
  /\ api[t] # None
  /\ \E ok \in BOOLEAN :
       /\ tasks' = Append(tasks, [kind |-> IF ok THEN "resolved" ELSE "unresolved",
                                  of |-> api[t], events |-> {}])
       /\ returned' = [returned EXCEPT ![api[t]] = IF ok THEN "true" ELSE "false"]
  /\ api' = [api EXCEPT ![t] = None]
  /\ UNCHANGED <<connVars, worker, outcome, attempt, disconnects, endVars,
                 netVars, inflight>>

Disconnect(t) ==
  /\ MayCall(t)
  /\ disconnects < MaxDisconnects
  /\ disconnects' = disconnects + 1
  /\ tasks' = Append(tasks, [kind |-> "disconnect", of |-> None, events |-> {}])
  /\ UNCHANGED <<connVars, worker, outcome, api, attempt, returned, endVars, netVars,
                 inflight>>

\* Mutant: the connection is not closed.
ReleaseLeavesOpen(t) ==
  /\ MayCall(t)
  /\ \A u \in Threads : api[u] = None
  /\ worker.pc \in {"idle", "call"}
  /\ worker.pc = "call" => t = WorkerThread
  /\ released' = TRUE
  /\ tasks' = <<>>
  /\ UNCHANGED <<connVars, worker, outcome, userVars, destroyed, netVars, inflight>>

\* CloseFromOwner: pending tasks are dropped, StartClose(kRelease) tells nobody.
\* The client must not be in use by another thread.
Release(t) ==
  /\ MayCall(t)
  /\ \A u \in Threads : api[u] = None
  /\ worker.pc \in {"idle", "call"}
  /\ worker.pc = "call" => t = WorkerThread
  /\ released' = TRUE
  /\ tasks' = <<>>
  /\ IF state \in {"Connecting", "Connected"}
       THEN /\ state' = "Idle" /\ connected' = FALSE
            /\ deadline' = None
            /\ CloseSocket
       ELSE UNCHANGED <<connVars, open, for, net, interest>>
  /\ UNCHANGED <<worker, outcome, userVars, destroyed, opened, timers, inflight>>

-----------------------------------------------------------------------------
(* StartClose and FinishClose *)

\* Mutant: connected_ is left set.
StartCloseKeepsConnected(call, d) ==
  IF state \in {"Idle", "Closing"}
    THEN worker' = AtRest /\ deadline' = d /\ UNCHANGED <<state, connected>>
    ELSE /\ state' = "Closing"
         /\ deadline' = None
         /\ worker' = [AtRest EXCEPT !.pc = "finish", !.call = call, !.of = attempt]
         /\ UNCHANGED connected

\* StartClose(reason): call is the callback that FinishClose will make, "-" for
\* kUser; d is the value connect_deadline_ms_ has by now.
StartCloseAt(call, d) ==
  IF state \in {"Idle", "Closing"}
    THEN worker' = AtRest /\ deadline' = d /\ UNCHANGED <<state, connected>>
    ELSE /\ state' = "Closing"
         /\ connected' = FALSE
         /\ deadline' = None
         /\ worker' = [AtRest EXCEPT !.pc = "finish", !.call = call, !.of = attempt]

StartClose(call) == StartCloseAt(call, deadline)

\* Mutant: the socket is left to the next connect.
FinishCloseKeepsSocket ==
  /\ worker.pc = "finish"
  /\ state' = "Idle"
  /\ worker' = IF worker.call = "-" THEN AtRest ELSE [worker EXCEPT !.pc = "call"]
  /\ outcome' = [outcome EXCEPT ![worker.of] =
       CASE worker.call = "OnConnectFailed" -> "failed"
         [] worker.call = "OnClosed" -> "closed"
         [] OTHER -> "silent"]
  /\ UNCHANGED <<connected, session, deadline, tasks, userVars, endVars, netVars, inflight>>

FinishClose ==
  /\ worker.pc = "finish"
  /\ CloseSocket
  /\ state' = "Idle"
  /\ worker' = IF worker.call = "-" THEN AtRest ELSE [worker EXCEPT !.pc = "call"]
  /\ outcome' = [outcome EXCEPT ![worker.of] =
       CASE worker.call = "OnConnectFailed" -> "failed"
         [] worker.call = "OnClosed" -> "closed"
         [] OTHER -> "silent"]
  /\ UNCHANGED <<connected, deadline, tasks, userVars, endVars, opened, timers, inflight>>

-----------------------------------------------------------------------------
(* Tasks *)

Takes(kind) ==
  /\ worker.pc = "idle"
  /\ tasks # <<>>
  /\ Head(tasks).kind = kind
  /\ tasks' = Tail(tasks)

\* The body of HandleConnected, in which PlatformAfterConnected may fail;
\* readable: the event that led here goes on to HandleReadable afterwards.
HandleConnected(s, readable, d) ==
  IF state # "Connecting"
    THEN worker' = AtRest /\ deadline' = d /\ UNCHANGED <<state, connected, outcome>>
    ELSE \/ StartClose("OnConnectFailed") /\ UNCHANGED outcome
         \/ /\ state' = "Connected"
            /\ connected' = TRUE
            /\ deadline' = None
            /\ outcome' = [outcome EXCEPT ![attempt] = "connected"]
            /\ worker' = [AtRest EXCEPT !.pc = "call", !.call = "OnConnected", !.of = attempt,
                                        !.readable = readable]

\* ConnectResolved, when PlatformOpenSocket fails.
ConnectNoSocket ==
  /\ Takes("resolved")
  /\ StartClose("OnConnectFailed")
  /\ UNCHANGED <<session, outcome, userVars, endVars, netVars, inflight>>

\* What PlatformConnect may find and what it then asks the poller for: rc = 1, -1
\* (also when the poller refuses the socket) and 0.
PlatformConnect ==
  {[net |-> "pending", interest |-> "connect"],
   [net |-> "refused", interest |-> "none"],
   [net |-> "up", interest |-> "read"]}

\* ConnectResolved with a new socket: Register, the timer, and the three
\* outcomes of PlatformConnect.
ConnectResolved ==
  LET s == opened + 1
      d == IF Timeout THEN s ELSE deadline
  IN
  /\ Takes("resolved")
  /\ opened' = s
  /\ session' = s
  /\ open' = open \cup {s}
  /\ for' = [for EXCEPT ![s] = Head(tasks).of]
  /\ timers' = IF Timeout THEN timers \cup {s} ELSE timers
  /\ \E r \in PlatformConnect :
       /\ net' = [net EXCEPT ![s] = r.net]
       /\ interest' = [interest EXCEPT ![s] = r.interest]
       /\ \/ /\ r.net = "pending"
             /\ deadline' = d
             /\ worker' = AtRest
             /\ UNCHANGED <<state, connected, outcome>>
          \/ r.net = "refused" /\ StartCloseAt("OnConnectFailed", d) /\ UNCHANGED outcome
          \/ r.net = "up" /\ HandleConnected(s, FALSE, d)
  /\ UNCHANGED <<userVars, endVars, inflight>>

\* The task of a Connect whose address did not resolve, and of Disconnect.
CloseTask ==
  /\ \/ Takes("unresolved") /\ StartClose("OnConnectFailed")
     \/ Takes("disconnect") /\ StartClose("-")
  /\ UNCHANGED <<session, outcome, userVars, endVars, netVars, inflight>>

\* SO_ERROR of the socket
PlatformFinishConnect(s) == net[s] # "refused"

\* PlatformAfterConnected: the poller takes the change of interest, or the
\* connection is about to close.
PlatformAfterConnected(s) ==
  interest' = [interest EXCEPT ![s] = IF state' = "Connected" THEN "read" ELSE @]

\* Mutant: every error is reported as a failure to connect.
PollEventFails(s, events) ==
  IF s # session \/ state \in {"Idle", "Closing"}
    THEN worker' = AtRest /\ UNCHANGED <<state, connected, deadline, interest, outcome>>
  ELSE IF "error" \in events \/ (state = "Connecting" /\ ~PlatformFinishConnect(s))
    THEN /\ StartClose("OnConnectFailed")
         /\ UNCHANGED <<interest, outcome>>
  ELSE IF state = "Connecting"
    THEN /\ HandleConnected(s, "readable" \in events, deadline)
         /\ PlatformAfterConnected(s)
  ELSE /\ worker' = IF "readable" \in events THEN [AtRest EXCEPT !.pc = "read"] ELSE AtRest
       /\ UNCHANGED <<state, connected, deadline, interest, outcome>>

\* HandlePollEvent up to HandleReadable: events of another session or of a
\* closed one are ignored.
PollEventOn(s, events) ==
  IF s # session \/ state \in {"Idle", "Closing"}
    THEN worker' = AtRest /\ UNCHANGED <<state, connected, deadline, interest, outcome>>
  ELSE IF "error" \in events \/ (state = "Connecting" /\ ~PlatformFinishConnect(s))
    THEN /\ StartClose(IF state = "Connected" THEN "OnClosed" ELSE "OnConnectFailed")
         /\ UNCHANGED <<interest, outcome>>
  ELSE IF state = "Connecting"
    THEN /\ HandleConnected(s, "readable" \in events, deadline)
         /\ PlatformAfterConnected(s)
  ELSE /\ worker' = IF "readable" \in events THEN [AtRest EXCEPT !.pc = "read"] ELSE AtRest
       /\ UNCHANGED <<state, connected, deadline, interest, outcome>>

\* Mutant: the id of the event is not compared with id_.
HandlePollEventAnyId ==
  /\ Takes("event")
  /\ PollEventOn(IF session = None THEN Head(tasks).of ELSE session, Head(tasks).events)
  /\ UNCHANGED <<session, userVars, endVars, opened, open, for, net, timers, inflight>>

HandlePollEvent ==
  /\ Takes("event")
  /\ PollEventOn(Head(tasks).of, Head(tasks).events)
  /\ UNCHANGED <<session, userVars, endVars, opened, open, for, net, timers, inflight>>

\* HandleReadable: what recv saw of the peer is kept while the messages it
\* brought are handed to OnMessage; a message may also fail to decode.
HandleReadable ==
  /\ worker.pc = "read"
  /\ LET close == IF net[session] \in {"closed", "reset"} THEN "OnClosed" ELSE "-" IN
     \/ /\ worker' = [AtRest EXCEPT !.pc = "call", !.call = "OnMessage", !.of = attempt,
                                    !.eof = close]
        /\ UNCHANGED <<state, connected, deadline>>
     \/ StartClose("OnClosed")
     \/ close = "-" /\ worker' = AtRest /\ UNCHANGED <<state, connected, deadline>>
  /\ UNCHANGED <<session, tasks, outcome, userVars, endVars, netVars, inflight>>

\* Mutant: the deadline of the event is compared with a cleared one.
HandleTimerEventNever ==
  /\ Takes("timer")
  /\ worker' = AtRest
  /\ UNCHANGED <<connVars, outcome, userVars, endVars, netVars, inflight>>

HandleTimerEvent ==
  /\ Takes("timer")
  /\ IF Head(tasks).of = session /\ state = "Connecting" /\ deadline = session
       THEN StartClose("OnConnectFailed")
       ELSE worker' = AtRest /\ UNCHANGED <<state, connected, deadline>>
  /\ UNCHANGED <<session, outcome, userVars, endVars, netVars, inflight>>

\* The callback returns and the task goes on: OnConnected and OnMessage are
\* followed by a look at IsConnected.
CallbackReturns ==
  /\ worker.pc = "call"
  /\ api[WorkerThread] = None
  /\ IF connected /\ worker.call = "OnConnected" /\ worker.readable
       THEN /\ worker' = [AtRest EXCEPT !.pc = "read"]
            /\ UNCHANGED <<state, connected, deadline>>
     ELSE IF connected /\ worker.call = "OnMessage" /\ worker.eof # "-"
       THEN StartClose(worker.eof)
       ELSE worker' = AtRest /\ UNCHANGED <<state, connected, deadline>>
  /\ UNCHANGED <<session, tasks, outcome, userVars, endVars, netVars, inflight>>

\* ~ClientConnection, when worker and poll thread hold no reference any more.
Destroy ==
  /\ released /\ ~destroyed
  /\ worker.pc = "idle"
  /\ \A e \in inflight : ~e.held
  /\ destroyed' = TRUE
  /\ CloseSocket
  /\ UNCHANGED <<state, connected, deadline, tasks, worker, outcome, userVars, released,
                 opened, timers, inflight>>

Worker ==
  \/ FinishClose
  \/ ConnectNoSocket
  \/ ConnectResolved
  \/ CloseTask
  \/ HandlePollEvent
  \/ HandleReadable
  \/ HandleTimerEvent
  \/ CallbackReturns
  \/ Destroy

-----------------------------------------------------------------------------
(* The poll thread and the network *)

\* What epoll_wait, level triggered, may report of session s.
Ready(s) ==
  CASE net[s] = "up" /\ interest[s] = "connect" -> {{"writable"}, {"readable", "writable"}}
    [] net[s] \in {"up", "closed"} /\ interest[s] = "read" -> {{"readable"}}
    [] net[s] = "closed" /\ interest[s] = "connect" -> {{"readable", "writable"}}
    [] net[s] = "refused" /\ interest[s] # "none" -> {{"error", "readable", "writable"}}
    [] net[s] = "reset" /\ interest[s] # "none" -> {{"error", "readable"}}
    [] OTHER -> {}

PollWait ==
  /\ inflight = {}
  /\ Len(tasks) < MaxBacklog
  /\ \E s \in open : \E events \in Ready(s) :
       inflight' = {[kind |-> "event", of |-> s, events |-> events, held |-> FALSE]}
  /\ UNCHANGED <<connVars, tasks, worker, outcome, userVars, endVars, netVars>>

\* PopExpired
TimerExpires ==
  /\ inflight = {}
  /\ \E s \in timers :
       /\ timers' = timers \ {s}
       /\ inflight' = {[kind |-> "timer", of |-> s, events |-> {}, held |-> FALSE]}
  /\ UNCHANGED <<connVars, tasks, worker, outcome, userVars, endVars, opened, open, for, net,
                 interest>>

\* connections_.Acquire: events of sessions that are not registered are dropped.
PollAcquire ==
  /\ \E e \in inflight :
       /\ ~e.held
       /\ inflight' = IF e.of \in open THEN {[e EXCEPT !.held = TRUE]} ELSE {}
  /\ UNCHANGED <<connVars, tasks, worker, outcome, userVars, endVars, netVars>>

\* PostPollEvent or PostTimerEvent, and the end of the reference Acquire gave
PollPost ==
  /\ \E e \in inflight :
       /\ e.held
       /\ tasks' = IF released
                     THEN tasks
                     ELSE Append(tasks, [kind |-> e.kind, of |-> e.of, events |-> e.events])
  /\ inflight' = {}
  /\ UNCHANGED <<connVars, worker, outcome, userVars, endVars, netVars>>

Network ==
  /\ \E s \in open :
       \/ net[s] = "pending" /\ \E n \in {"up", "refused"} : net' = [net EXCEPT ![s] = n]
       \/ net[s] = "up" /\ \E n \in {"closed", "reset"} : net' = [net EXCEPT ![s] = n]
  /\ UNCHANGED <<connVars, tasks, worker, outcome, userVars, endVars, opened, open, for,
                 interest, timers, inflight>>

-----------------------------------------------------------------------------
Next ==
  \/ \E t \in Threads : Connect(t) \/ Resolved(t) \/ Disconnect(t) \/ Release(t)
  \/ Worker
  \/ PollWait
  \/ TimerExpires
  \/ PollAcquire
  \/ PollPost
  \/ Network

Spec == Init /\ [][Next]_vars

\* Resolution ends, the worker runs its tasks and callbacks return, the poll
\* thread polls and time passes.  The network owes nothing.
Fairness ==
  /\ \A t \in Threads : WF_vars(Resolved(t))
  /\ WF_vars(Worker)
  /\ WF_vars(PollAcquire) /\ WF_vars(PollPost)
  /\ WF_vars(PollWait) /\ SF_vars(TimerExpires)

FairSpec == Spec /\ Fairness

-----------------------------------------------------------------------------
(* Properties *)

\* A client that is connected is connected to what its latest Connect asked
\* for, not to the address of an earlier attempt.
ConnectedToRequested == connected /\ ~destroyed => for[session] = attempt

\* IsConnected tells the truth although connected_ is stored outside state_mtx_
\* and read without it: the client is in kConnected with an open socket, to the
\* address asked for unless a Disconnect overtook the Connect.  A task that goes
\* on to read after a callback has a socket to read from.
ConnectedAgrees ==
  /\ connected /\ ~destroyed => state = "Connected" /\ session \in open
  /\ disconnects = 0 => ConnectedToRequested
  /\ worker.pc = "read" => session \in open

\* Until Disconnect is called a client at rest in kIdle holds no socket, and no
\* socket is open that the connection has lost track of.
NoOrphanSocket ==
  disconnects = 0 =>
    /\ open \subseteq {session}
    /\ state = "Idle" /\ worker.pc = "idle" => session = None

\* The end of an attempt is reported once: after OnConnectFailed, OnClosed or a
\* silent close the handler hears no more of that attempt, and OnClosed comes only
\* after OnConnected.  Until Disconnect is called it also never hears that an
\* attempt failed after it heard that it is connected, and every close is reported.
\* No callback begins after the client was released, also when it is released in
\* the middle of a task that would have gone on to call the handler.
CallbackOrder ==
  /\ [][worker'.pc = "call" /\ worker.pc # "call" => ~released]_vars
  /\ [][\A a \in Attempts :
          outcome'[a] # outcome[a] =>
            /\ outcome[a] \in {"none", "connected"}
            /\ outcome'[a] = "closed" => outcome[a] = "connected"
            /\ \/ outcome[a] = "none" /\ outcome'[a] \in {"connected", "failed"}
               \/ outcome[a] = "connected" /\ outcome'[a] = "closed"
               \/ disconnects > 0]_vars

\* A connect timeout or a poll event closes only the session it was meant for:
\* a session that is up is closed by what happened to it, or on request.
OnlyItsOwnEvents ==
  [][state = "Connected" /\ state' = "Closing" =>
       \/ net[session] \in {"closed", "reset"}
       \/ worker.pc \in {"read", "call"}
       \/ disconnects > 0]_vars

\* Unless the application disconnects or releases, an attempt whose Connect
\* returned true is reported to the handler.
ConnectAnswered ==
  \A a \in Attempts :
    returned[a] = "true" ~> outcome[a] # "none" \/ disconnects > 0 \/ released
=============================================================================
