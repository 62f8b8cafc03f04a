----------------------- MODULE ClientLifecycleProofs -----------------------
(***************************************************************************)
(* One client, for any threads of the application and any number of        *)
(* attempts: IsConnected and the socket agree, no socket is lost, and the  *)
(* handler hears of an attempt in order.                                   *)
(*                                                                         *)
(* StateInv and OutcomeInv hold whatever the application does.  CalmInv    *)
(* holds until Disconnect is first called: Connect, its task and the       *)
(* socket of an attempt are then never there at the same time, which is    *)
(* what a Disconnect that overtakes a Connect destroys.                    *)
(***************************************************************************)
EXTENDS ClientLifecycle, TLAPS

States == {"Idle", "Connecting", "Connected", "Closing"}
Calls == {"-", "OnConnectFailed", "OnClosed", "OnConnected", "OnMessage"}
Outcomes == {"none", "connected", "failed", "closed", "silent"}
Nets == {"none", "pending", "up", "refused", "closed", "reset"}
Events == {"readable", "writable", "error"}

Tasks == [kind : {"resolved", "unresolved", "disconnect", "event", "timer"},
          of : Nat, events : SUBSET Events]

Workers == [pc : {"idle", "finish", "call", "read"}, call : Calls, of : Nat,
            eof : {"-", "OnClosed"}, readable : BOOLEAN]

TypeInv ==
  /\ state \in States /\ connected \in BOOLEAN /\ session \in Nat
  /\ tasks \in Seq(Tasks) /\ worker \in Workers
  /\ api \in [Threads -> Nat] /\ attempt \in Nat /\ attempt <= MaxAttempts
  /\ outcome \in [Attempts -> Outcomes] /\ disconnects \in Nat
  /\ released \in BOOLEAN /\ destroyed \in BOOLEAN
  /\ opened \in Nat /\ open \subseteq 1 .. opened /\ timers \subseteq 1 .. opened
  /\ for \in [Sessions -> Nat] /\ net \in [Sessions -> Nets]
  /\ inflight \subseteq [kind : {"event", "timer"}, of : Nat, events : SUBSET Events, held : BOOLEAN]

\* What an event or a timer is about is a socket that was opened.
SourceInv ==
  /\ \A i \in 1 .. Len(tasks) : tasks[i].kind \in {"event", "timer"} => tasks[i].of \in 1 .. opened
  /\ \A e \in inflight : e.of \in 1 .. opened

\* state_, connected_, fd_ and where the task in progress is.
StateInv ==
  /\ connected <=> state = "Connected"
  /\ worker.pc = "finish" <=> state = "Closing"
  /\ worker.pc = "finish" => worker.of = attempt
  /\ worker.pc = "read" => state = "Connected"
  /\ state = "Connected" => session # None
  /\ session # None => session \in open
  /\ state # "Idle" => attempt > 0
  /\ released => /\ tasks = <<>> /\ state = "Idle" /\ worker.pc \in {"idle", "call"}
                 /\ \A t \in Threads : api[t] = None
  /\ destroyed => released

\* What the handler was told, and what it is about to be told.
OutcomeInv ==
  /\ \A a \in Attempts : a > attempt => outcome[a] = "none"
  /\ state = "Connecting" => outcome[attempt] = "none"
  /\ state = "Connected" => outcome[attempt] = "connected"
  /\ worker.pc = "finish" => /\ outcome[attempt] \in {"none", "connected"}
                             /\ worker.call \in {"-", "OnConnectFailed", "OnClosed"}
                             /\ worker.call = "OnClosed" => outcome[attempt] = "connected"

\* The latest attempt has no socket yet.
AttemptPending == state = "Connecting" /\ session = None /\ opened < attempt

\* Task i is that of a Connect.
ConnectTask(i) == tasks[i].kind \in {"resolved", "unresolved"}

\* An event of the session in use has seen what the network did to it.
EventSeen(e) ==
  e.kind = "event" /\ e.of = session =>
    /\ net[session] \in {"up", "refused", "closed", "reset"}
    /\ "error" \in e.events => net[session] \in {"refused", "reset"}

\* The session is the one socket there is, and that of the latest attempt.
CalmSocket ==
  /\ opened <= attempt
  /\ open \subseteq {session}
  /\ state = "Idle" => session = None
  /\ session # None => for[session] = attempt
  /\ state = "Connected" => net[session] \in {"up", "closed", "reset"}

\* One Connect or its task is under way, or none, and if so nothing else is.
CalmConnect ==
  /\ \A t \in Threads : api[t] # None =>
       /\ AttemptPending /\ api[t] = attempt
       /\ \A u \in Threads : api[u] # None => u = t
       /\ \A i \in 1 .. Len(tasks) : ~ConnectTask(i)
  /\ \A i \in 1 .. Len(tasks) : ConnectTask(i) =>
       /\ AttemptPending /\ tasks[i].of = attempt
       /\ \A j \in 1 .. Len(tasks) : ConnectTask(j) => j = i

CalmEvents ==
  /\ \A i \in 1 .. Len(tasks) : tasks[i].kind # "disconnect" /\ EventSeen(tasks[i])
  /\ \A e \in inflight : EventSeen(e)

\* Every close is told to the handler, as a failure only when it was told nothing.
CalmClose ==
  worker.pc = "finish" => /\ worker.call # "-"
                          /\ worker.call = "OnConnectFailed" => outcome[attempt] = "none"

CalmInv == CalmSocket /\ CalmConnect /\ CalmEvents /\ CalmClose

IndInv ==
  /\ TypeInv /\ SourceInv /\ StateInv /\ OutcomeInv
  /\ disconnects = 0 => CalmInv

-----------------------------------------------------------------------------
(* The task queue. *)

LEMMA TakeTask ==
  ASSUME tasks \in Seq(Tasks), tasks # <<>>, tasks' = Tail(tasks)
  PROVE  /\ tasks' \in Seq(Tasks) /\ 1 \in 1 .. Len(tasks)
         /\ Head(tasks) = tasks[1] /\ Head(tasks) \in Tasks
         /\ \A i \in 1 .. Len(tasks') : i + 1 \in 1 .. Len(tasks) /\ i + 1 # 1 /\ tasks'[i] = tasks[i + 1]
  OBVIOUS

LEMMA AddTask ==
  ASSUME tasks \in Seq(Tasks), NEW k \in Tasks, tasks' = Append(tasks, k)
  PROVE  /\ tasks' \in Seq(Tasks) /\ Len(tasks') = Len(tasks) + 1 /\ Len(tasks) \in Nat
         /\ \A i \in 1 .. Len(tasks') : \/ i \in 1 .. Len(tasks) /\ tasks'[i] = tasks[i]
                                        \/ i = Len(tasks') /\ tasks'[i] = k
  OBVIOUS

-----------------------------------------------------------------------------
(* What a task does to state_ and to the rest of itself. *)

\* It starts to close.
LEMMA StartCloseStep ==
  ASSUME TypeInv, StateInv, OutcomeInv,
         NEW call \in {"-", "OnConnectFailed", "OnClosed"}, NEW d, StartCloseAt(call, d),
         worker.pc # "finish", ~released, call = "OnClosed" => state = "Connected",
         session' # None => session' \in open', state = "Connected" => session' # None,
         UNCHANGED <<attempt, api, outcome, released, destroyed>>
  PROVE  /\ state' \in States /\ connected' \in BOOLEAN /\ worker' \in Workers
         /\ StateInv' /\ OutcomeInv'
<1>1. CASE state \in {"Idle", "Closing"}
  <2>1. state = "Idle" /\ state' = "Idle" /\ connected' = connected /\ worker' = AtRest
    BY <1>1, Zenon DEF StartCloseAt, StateInv
  <2>2. worker' \in Workers /\ worker'.pc = "idle"
    BY <2>1, Zenon DEF AtRest, Workers, Calls, None
  <2> QED
    BY <2>1, <2>2, Zenon DEF TypeInv, StateInv, OutcomeInv, States
<1>2. CASE state \notin {"Idle", "Closing"}
  <2>1. /\ state' = "Closing" /\ connected' = FALSE
        /\ worker' = [AtRest EXCEPT !.pc = "finish", !.call = call, !.of = attempt]
    BY <1>2, Zenon DEF StartCloseAt
  <2>2. worker' \in Workers /\ worker'.pc = "finish" /\ worker'.call = call /\ worker'.of = attempt
    BY <2>1, ZenonT(40) DEF AtRest, Workers, Calls, TypeInv, None
  <2>3. state = "Connecting" \/ state = "Connected"
    BY <1>2, Zenon DEF TypeInv, States
  <2>4. StateInv'
    BY <2>1, <2>2, <2>3, Zenon DEF TypeInv, StateInv
  <2>5. OutcomeInv'
    BY <2>1, <2>2, <2>3, Zenon DEF TypeInv, OutcomeInv
  <2> QED
    BY <2>1, <2>2, <2>4, <2>5, ZenonT(40) DEF States
<1> QED
  BY <1>1, <1>2, Zenon

\* It leaves state_ as it is, and rests, or goes on to read or to a callback.
LEMMA GoOnStep ==
  ASSUME TypeInv, StateInv, OutcomeInv, worker.pc # "finish", ~released,
         worker' \in Workers, worker'.pc # "finish", worker'.pc = "read" => state = "Connected",
         session' # None => session' \in open', state = "Connected" => session' # None,
         UNCHANGED <<state, connected, attempt, api, outcome, released, destroyed>>
  PROVE  StateInv' /\ OutcomeInv'
  BY Zenon DEF TypeInv, StateInv, OutcomeInv

\* The attempt is connected.
LEMMA ConnectedStep ==
  ASSUME TypeInv, StateInv, OutcomeInv, worker.pc # "finish", ~released,
         state = "Connecting", state' = "Connected", connected' = TRUE,
         outcome' = [outcome EXCEPT ![attempt] = "connected"],
         worker' \in Workers, worker'.pc = "call",
         session' # None, session' \in open',
         UNCHANGED <<attempt, api, released, destroyed>>
  PROVE  StateInv' /\ OutcomeInv' /\ outcome' \in [Attempts -> Outcomes]
<1>1. attempt \in Attempts
  BY DEF TypeInv, StateInv, Attempts
<1>2. /\ outcome' \in [Attempts -> Outcomes] /\ outcome'[attempt] = "connected"
      /\ \A a \in Attempts : a # attempt => outcome'[a] = outcome[a]
  BY <1>1, Zenon DEF TypeInv, Outcomes
<1>3. StateInv'
  BY Zenon DEF StateInv
<1>4. OutcomeInv'
  BY <1>2 DEF OutcomeInv, TypeInv, Attempts
<1> QED
  BY <1>2, <1>3, <1>4, Zenon

-----------------------------------------------------------------------------
(* What a step leaves of the task queue. *)

\* The queue stays, its first task is taken, or it is dropped.
Shrinks ==
  \/ tasks' = tasks
  \/ tasks # <<>> /\ tasks' = Tail(tasks)
  \/ tasks' = <<>>

\* What is queued then was queued before.
LEMMA StillQueued ==
  ASSUME tasks \in Seq(Tasks), Shrinks
  PROVE  /\ tasks' \in Seq(Tasks)
         /\ \E n \in Nat : \A i \in 1 .. Len(tasks') : i + n \in 1 .. Len(tasks) /\ tasks'[i] = tasks[i + n]
<1>1. CASE tasks' = tasks
  <2>1. \A i \in 1 .. Len(tasks') : i + 0 \in 1 .. Len(tasks) /\ tasks'[i] = tasks[i + 0]
    BY <1>1
  <2> QED
    BY <1>1, <2>1, Zenon
<1>2. CASE tasks # <<>> /\ tasks' = Tail(tasks)
  BY <1>2, TakeTask, ZenonT(40)
<1>3. CASE tasks' = <<>>
  BY <1>3
<1> QED
  BY <1>1, <1>2, <1>3, Zenon DEF Shrinks

LEMMA SourceStays ==
  ASSUME TypeInv, SourceInv, Shrinks, inflight' = inflight, opened' \in Nat, opened <= opened'
  PROVE  SourceInv'
<1>1. PICK n \in Nat : \A i \in 1 .. Len(tasks') : i + n \in 1 .. Len(tasks) /\ tasks'[i] = tasks[i + n]
  BY StillQueued, ZenonT(40) DEF TypeInv
<1>2. \A k : k \in 1 .. opened => k \in 1 .. opened'
  BY DEF TypeInv
<1> QED
  BY <1>1, <1>2, Zenon DEF SourceInv

\* Events stay what they are as long as the session and its network state do, or
\* when the session they are of is no more in use.
LEMMA EventsStay ==
  ASSUME TypeInv, SourceInv, CalmEvents, Shrinks, inflight' = inflight,
         \/ session' = session /\ net'[session] = net[session]
         \/ session' \notin 1 .. opened
  PROVE  CalmEvents'
<1>1. PICK n \in Nat : \A i \in 1 .. Len(tasks') : i + n \in 1 .. Len(tasks) /\ tasks'[i] = tasks[i + n]
  BY StillQueued, Zenon DEF TypeInv
<1>2. \A i \in 1 .. Len(tasks) : tasks[i].kind # "disconnect"
  BY Zenon DEF CalmEvents
<1>3. CASE session' = session /\ net'[session] = net[session]
  BY <1>1, <1>3 DEF CalmEvents, EventSeen
<1>4. CASE session' \notin 1 .. opened
  <2>1. \A i \in 1 .. Len(tasks') : tasks'[i].kind = "event" => tasks'[i].of # session'
    BY <1>1, <1>4, Zenon DEF SourceInv
  <2>2. \A e \in inflight : e.of # session'
    BY <1>4, Zenon DEF SourceInv
  <2> QED
    BY <1>1, <1>2, <2>1, <2>2, Zenon DEF CalmEvents, EventSeen
<1> QED
  BY <1>3, <1>4, Zenon

\* A Connect that is under way stays so while the attempt has no socket.
LEMMA ConnectStays ==
  ASSUME TypeInv, CalmConnect, Shrinks, UNCHANGED <<api, attempt>>,
         AttemptPending => AttemptPending'
  PROVE  CalmConnect'
<1>1. PICK n \in Nat : \A i \in 1 .. Len(tasks') : i + n \in 1 .. Len(tasks) /\ tasks'[i] = tasks[i + n]
  BY StillQueued, ZenonT(40) DEF TypeInv
<1>2. \A i \in 1 .. Len(tasks') : ConnectTask(i)' => ConnectTask(i + n)
  BY <1>1, Zenon DEF ConnectTask
<1>3. ASSUME NEW t \in Threads, api'[t] # None
      PROVE  /\ AttemptPending' /\ api'[t] = attempt'
             /\ \A u \in Threads : api'[u] # None => u = t
             /\ \A i \in 1 .. Len(tasks') : ~ConnectTask(i)'
  BY <1>1, <1>2, <1>3, Zenon DEF CalmConnect
<1>4. ASSUME NEW i \in 1 .. Len(tasks'), ConnectTask(i)'
      PROVE  /\ AttemptPending' /\ tasks'[i].of = attempt'
             /\ \A j \in 1 .. Len(tasks') : ConnectTask(j)' => j = i
  <2>1. AttemptPending' /\ tasks'[i].of = attempt'
    BY <1>1, <1>2, <1>4 DEF CalmConnect
  <2>2. ASSUME NEW j \in 1 .. Len(tasks'), ConnectTask(j)' PROVE j = i
    <3>1. i + n = j + n
      BY <1>1, <1>2, <1>4, <2>2, Zenon DEF CalmConnect
    <3> QED
      BY <3>1
  <2> QED
    BY <2>1, <2>2, Zenon
<1> QED
  BY <1>3, <1>4, Zenon DEF CalmConnect

\* When its task is taken, no Connect and no task of one is left.
LEMMA ConnectGone ==
  ASSUME TypeInv, CalmConnect, tasks # <<>>, tasks' = Tail(tasks),
         ConnectTask(1), UNCHANGED api
  PROVE  CalmConnect' /\ AttemptPending /\ Head(tasks).of = attempt
<1>1. /\ 1 \in 1 .. Len(tasks) /\ Head(tasks) = tasks[1]
      /\ \A i \in 1 .. Len(tasks') : i + 1 \in 1 .. Len(tasks) /\ i + 1 # 1 /\ tasks'[i] = tasks[i + 1]
  BY TakeTask, Zenon DEF TypeInv
<1>2. \A i \in 1 .. Len(tasks') : ~ConnectTask(i)'
  <2> SUFFICES ASSUME NEW i \in 1 .. Len(tasks'), ConnectTask(i)' PROVE FALSE
    BY Zenon
  <2>1. ConnectTask(i + 1)
    BY <1>1, Zenon DEF ConnectTask
  <2> QED
    BY <1>1, <2>1, Zenon DEF CalmConnect
<1>3. \A t \in Threads : api[t] = None
  BY <1>1, Zenon DEF CalmConnect
<1>4. AttemptPending /\ tasks[1].of = attempt
  BY <1>1, Zenon DEF CalmConnect
<1> QED
  BY <1>1, <1>2, <1>3, <1>4, Zenon DEF CalmConnect

-----------------------------------------------------------------------------
(* The actions. *)

LEMMA InvInit == Init => IndInv
<1> SUFFICES ASSUME Init PROVE IndInv
  BY Zenon
<1> USE LifecycleAssumption DEF Init
<1>1. worker \in Workers /\ worker.pc = "idle"
  BY Zenon DEF AtRest, Workers, Calls, None
<1>2. TypeInv
  <2>1. tasks \in Seq(Tasks) /\ attempt <= MaxAttempts
    OBVIOUS
  <2>2. for \in [Sessions -> Nat] /\ api \in [Threads -> Nat]
    BY Zenon DEF None
  <2>3. net \in [Sessions -> Nets] /\ outcome \in [Attempts -> Outcomes]
    BY Zenon DEF Nets, Outcomes
  <2>4. open \subseteq 1 .. opened /\ timers \subseteq 1 .. opened
    BY Zenon
  <2> QED
    BY <1>1, <2>1, <2>2, <2>3, <2>4, ZenonT(40) DEF TypeInv, States, None
<1>3. SourceInv /\ StateInv /\ OutcomeInv
  BY <1>1 DEF SourceInv, StateInv, OutcomeInv, None
<1>4. CalmInv
  BY <1>1 DEF CalmInv, CalmSocket, CalmConnect, CalmEvents, CalmClose, None
<1> QED
  BY <1>2, <1>3, <1>4, Zenon DEF IndInv

\* Connect finds kIdle: it is the only one under way.
LEMMA ConnectKeeps ==
  ASSUME IndInv, NEW t \in Threads, Connect(t)
  PROVE  IndInv'
<1> USE LifecycleAssumption
<1>1. TypeInv /\ SourceInv /\ StateInv /\ OutcomeInv
  BY Zenon DEF IndInv
<1>2. /\ ~released /\ api[t] = None /\ state = "Idle" /\ state' = "Connecting" /\ connected' = FALSE
      /\ attempt < MaxAttempts /\ attempt' = attempt + 1 /\ api' = [api EXCEPT ![t] = attempt + 1]
      /\ UNCHANGED <<session, tasks, worker, outcome, disconnects, released, destroyed,
                     opened, open, for, net, timers, inflight>>
  BY Zenon DEF Connect, MayCall, endVars, netVars
<1>3. api' \in [Threads -> Nat] /\ api'[t] = attempt' /\ \A u \in Threads : u # t => api'[u] = api[u]
  BY <1>1, <1>2 DEF TypeInv
<1>4. TypeInv'
  <2>1. attempt' \in Nat /\ attempt' <= MaxAttempts
    BY <1>1, <1>2 DEF TypeInv
  <2>2. state' \in States /\ connected' \in BOOLEAN
    BY <1>2, ZenonT(40) DEF States
  <2> QED
    BY <1>1, <1>2, <1>3, <2>1, <2>2, Zenon DEF TypeInv
<1>5. SourceInv'
  BY <1>1, <1>2, Zenon DEF SourceInv
<1>6. StateInv'
  BY <1>1, <1>2 DEF TypeInv, StateInv
<1>7. OutcomeInv'
  BY <1>1, <1>2 DEF TypeInv, OutcomeInv, StateInv, Attempts
<1>8. ASSUME disconnects = 0 PROVE CalmInv'
  <2>1. CalmSocket /\ CalmConnect /\ CalmEvents
    BY <1>8, Zenon DEF IndInv, CalmInv
  <2>2. session = None /\ ~AttemptPending
    BY <1>2, <2>1, Zenon DEF CalmSocket, AttemptPending
  <2>3. CalmSocket'
    BY <1>1, <1>2, <2>1, <2>2 DEF CalmSocket, TypeInv
  <2>4. (\A u \in Threads : api[u] = None) /\ \A i \in 1 .. Len(tasks) : ~ConnectTask(i)
    BY <2>1, <2>2, Zenon DEF CalmConnect
  <2>5. AttemptPending'
    BY <1>1, <1>2, <2>1, <2>2 DEF AttemptPending, CalmSocket, TypeInv
  <2>6. CalmConnect'
    BY <1>2, <1>3, <2>4, <2>5, Zenon DEF CalmConnect, ConnectTask
  <2>7. CalmEvents'
    BY <1>2, <2>1, Zenon DEF CalmEvents, EventSeen
  <2>8. CalmClose'
    BY <1>1, <1>2, Zenon DEF CalmClose, StateInv
  <2> QED
    BY <2>3, <2>6, <2>7, <2>8, Zenon DEF CalmInv
<1> QED
  BY <1>2, <1>4, <1>5, <1>6, <1>7, <1>8, Zenon DEF IndInv

\* Its task takes its place.
LEMMA ResolvedKeeps ==
  ASSUME IndInv, NEW t \in Threads, Resolved(t)
  PROVE  IndInv'
<1>1. TypeInv /\ SourceInv /\ StateInv /\ OutcomeInv
  BY Zenon DEF IndInv
<1>2. PICK ok \in BOOLEAN :
        tasks' = Append(tasks, [kind |-> IF ok THEN "resolved" ELSE "unresolved",
                                of |-> api[t], events |-> {}])
  BY ZenonT(40) DEF Resolved
<1> DEFINE k == [kind |-> IF ok THEN "resolved" ELSE "unresolved", of |-> api[t], events |-> {}]
<1>3. /\ api[t] # None /\ api' = [api EXCEPT ![t] = None]
      /\ UNCHANGED <<state, connected, session, worker, outcome, attempt, disconnects, released, destroyed,
                     opened, open, for, net, timers, inflight>>
  BY Zenon DEF Resolved, connVars, endVars, netVars
<1>4. k \in Tasks /\ k.kind \in {"resolved", "unresolved"} /\ k.of = api[t]
  BY <1>1, Zenon DEF Tasks, TypeInv
<1> HIDE DEF k
<1>5. /\ tasks' \in Seq(Tasks) /\ Len(tasks') = Len(tasks) + 1 /\ Len(tasks) \in Nat
      /\ \A i \in 1 .. Len(tasks') : \/ i \in 1 .. Len(tasks) /\ tasks'[i] = tasks[i]
                                     \/ i = Len(tasks') /\ tasks'[i] = k
  BY <1>1, <1>2, <1>4, AddTask, Zenon DEF k, TypeInv
<1>6. api' \in [Threads -> Nat] /\ api'[t] = None /\ \A u \in Threads : u # t => api'[u] = api[u]
  BY <1>1, <1>3, Zenon DEF TypeInv, None
<1>7. TypeInv'
  BY <1>1, <1>3, <1>5, <1>6, Zenon DEF TypeInv
<1>8. SourceInv'
  BY <1>1, <1>3, <1>4, <1>5, Zenon DEF SourceInv
<1>9. ~released
  BY <1>1, <1>3, Zenon DEF StateInv
<1>10. StateInv' /\ OutcomeInv'
  BY <1>1, <1>3, <1>9, Zenon DEF StateInv, OutcomeInv
<1>11. ASSUME disconnects = 0 PROVE CalmInv'
  <2>1. CalmSocket /\ CalmConnect /\ CalmEvents /\ CalmClose
    BY <1>11, Zenon DEF IndInv, CalmInv
  <2>2. CalmSocket' /\ CalmClose'
    BY <1>3, <2>1, Zenon DEF CalmSocket, CalmClose
  <2>3. /\ AttemptPending /\ api[t] = attempt
        /\ \A u \in Threads : api[u] # None => u = t
        /\ \A i \in 1 .. Len(tasks) : ~ConnectTask(i)
    BY <1>3, <2>1, Zenon DEF CalmConnect
  <2>4. AttemptPending'
    BY <1>3, <2>3, Zenon DEF AttemptPending
  <2>5. \A u \in Threads : api'[u] = None
    BY <1>6, <2>3
  <2>6. \A i \in 1 .. Len(tasks') : ConnectTask(i)' => i = Len(tasks')
    BY <1>5, <2>3, Zenon DEF ConnectTask
  <2>7. CalmConnect'
    BY <1>3, <1>4, <1>5, <2>3, <2>4, <2>5, <2>6 DEF CalmConnect
  <2>8. CalmEvents'
    BY <1>3, <1>4, <1>5, <2>1, Zenon DEF CalmEvents, EventSeen
  <2> QED
    BY <2>2, <2>7, <2>8, Zenon DEF CalmInv
<1> QED
  BY <1>3, <1>7, <1>8, <1>10, <1>11, Zenon DEF IndInv

\* After Disconnect only what holds anyway is left to show.
LEMMA DisconnectKeeps ==
  ASSUME IndInv, NEW t \in Threads, Disconnect(t)
  PROVE  IndInv'
<1>1. TypeInv /\ SourceInv /\ StateInv /\ OutcomeInv
  BY DEF IndInv
<1> DEFINE k == [kind |-> "disconnect", of |-> None, events |-> {}]
<1>2. /\ ~released /\ tasks' = Append(tasks, k) /\ disconnects' = disconnects + 1
      /\ UNCHANGED <<state, connected, session, worker, outcome, api, attempt, released, destroyed,
                     opened, open, for, net, timers, inflight>>
  BY Zenon DEF Disconnect, MayCall, connVars, endVars, netVars
<1>3. k \in Tasks /\ k.kind = "disconnect"
  BY Zenon DEF Tasks, None
<1> HIDE DEF k
<1>4. /\ tasks' \in Seq(Tasks)
      /\ \A i \in 1 .. Len(tasks') : \/ i \in 1 .. Len(tasks) /\ tasks'[i] = tasks[i]
                                     \/ i = Len(tasks') /\ tasks'[i] = k
  BY <1>1, <1>2, <1>3, AddTask, Zenon DEF TypeInv
<1>5. TypeInv' /\ disconnects' # 0
  BY <1>1, <1>2, <1>4 DEF TypeInv
<1>6. SourceInv'
  BY <1>1, <1>2, <1>3, <1>4, Zenon DEF SourceInv
<1>7. StateInv' /\ OutcomeInv'
  BY <1>1, <1>2, Zenon DEF StateInv, OutcomeInv
<1> QED
  BY <1>5, <1>6, <1>7, Zenon DEF IndInv

\* A closed socket leaves the connection without one.
LEMMA SocketClosed ==
  ASSUME TypeInv, CloseSocket
  PROVE  /\ session' = None /\ session' \in Nat /\ session' \notin 1 .. opened
         /\ open' = open \ {session} /\ open' \subseteq 1 .. opened
         /\ for' \in [Sessions -> Nat] /\ net' \in [Sessions -> Nets]
<1>1. for' \in [Sessions -> Nat]
  BY Zenon DEF CloseSocket, TypeInv, None
<1>2. net' \in [Sessions -> Nets]
  BY Zenon DEF CloseSocket, TypeInv, Nets
<1> QED
  BY <1>1, <1>2 DEF CloseSocket, TypeInv, None

LEMMA ReleaseKeeps ==
  ASSUME IndInv, NEW t \in Threads, Release(t)
  PROVE  IndInv'
<1>1. TypeInv /\ SourceInv /\ StateInv /\ OutcomeInv
  BY DEF IndInv
<1>2. /\ \A u \in Threads : api[u] = None
      /\ worker.pc \in {"idle", "call"} /\ released' = TRUE /\ tasks' = <<>>
      /\ UNCHANGED <<worker, outcome, api, attempt, disconnects, destroyed, opened, timers, inflight>>
  BY Zenon DEF Release, userVars
<1>3. \/ /\ state' = "Idle" /\ connected' = FALSE /\ CloseSocket
      \/ /\ state = "Idle" /\ UNCHANGED <<state, connected, session, open, for, net>>
  BY <1>1, <1>2, Zenon DEF Release, connVars, TypeInv, States, StateInv
<1>4. state' = "Idle" /\ (connected' <=> FALSE)
  BY <1>1, <1>3 DEF StateInv
<1>5. /\ state' \in States /\ connected' \in BOOLEAN /\ session' \in Nat
      /\ open' \subseteq 1 .. opened /\ for' \in [Sessions -> Nat] /\ net' \in [Sessions -> Nets]
      /\ session' # None => session' \in open'
  BY <1>1, <1>3, <1>4, SocketClosed, ZenonT(40) DEF TypeInv, States, StateInv
<1>6. tasks' \in Seq(Tasks) /\ Len(tasks') = 0 /\ Shrinks
  BY <1>2 DEF Shrinks
<1>7. TypeInv'
  BY <1>1, <1>2, <1>5, <1>6, Zenon DEF TypeInv
<1>8. SourceInv'
  BY <1>1, <1>2, <1>6, SourceStays DEF TypeInv
<1>9. StateInv'
  BY <1>1, <1>2, <1>4, <1>5, Zenon DEF StateInv
<1>10. OutcomeInv'
  BY <1>1, <1>2, <1>4, Zenon DEF OutcomeInv
<1>11. ASSUME disconnects = 0 PROVE CalmInv'
  <2>1. CalmSocket /\ CalmEvents
    BY <1>11, Zenon DEF IndInv, CalmInv
  <2>2. session' = None /\ open' = {}
    <3>1. CASE CloseSocket
      BY <1>1, <2>1, <3>1, SocketClosed, Zenon DEF CalmSocket
    <3>2. CASE state = "Idle" /\ UNCHANGED <<session, open>>
      BY <1>1, <2>1, <3>2 DEF CalmSocket, TypeInv, None
    <3> QED
      BY <1>3, <3>1, <3>2, Zenon
  <2>3. CalmSocket'
    BY <1>2, <1>4, <2>1, <2>2, Zenon DEF CalmSocket
  <2>4. CalmConnect'
    BY <1>2, <1>6 DEF CalmConnect
  <2>5. CalmEvents'
    BY <1>1, <1>2, <1>6, <2>1, <2>2, EventsStay DEF None
  <2>6. CalmClose'
    BY <1>2, Zenon DEF CalmClose
  <2> QED
    BY <2>3, <2>4, <2>5, <2>6, Zenon DEF CalmInv
<1> QED
  BY <1>2, <1>7, <1>8, <1>9, <1>10, <1>11, Zenon DEF IndInv

LEMMA FinishCloseKeeps ==
  ASSUME IndInv, FinishClose
  PROVE  /\ IndInv'
         /\ ~released /\ attempt \in Attempts
         /\ \A a \in Attempts : a # attempt => outcome'[a] = outcome[a]
         /\ outcome[attempt] \in {"none", "connected"}
         /\ outcome'[attempt] = "closed" => outcome[attempt] = "connected"
         /\ disconnects = 0 => \/ outcome[attempt] = "none" /\ outcome'[attempt] = "failed"
                               \/ outcome[attempt] = "connected" /\ outcome'[attempt] = "closed"
<1>1. TypeInv /\ SourceInv /\ StateInv /\ OutcomeInv
  BY Zenon DEF IndInv
<1>2. /\ worker.pc = "finish" /\ CloseSocket /\ state' = "Idle"
      /\ UNCHANGED <<connected, tasks, api, attempt, disconnects, released, destroyed, opened, timers, inflight>>
  BY Zenon DEF FinishClose, userVars, endVars
<1>3. worker' = IF worker.call = "-" THEN AtRest ELSE [worker EXCEPT !.pc = "call"]
  BY Zenon DEF FinishClose
<1>4. worker' \in Workers /\ worker'.pc \in {"idle", "call"}
  BY <1>1, <1>3, ZenonT(40) DEF TypeInv, AtRest, Workers, Calls, None
<1>5. state = "Closing" /\ worker.of = attempt /\ attempt \in Attempts /\ ~released /\ (connected <=> FALSE)
  BY <1>1, <1>2 DEF StateInv, TypeInv, Attempts
<1> DEFINE told == CASE worker.call = "OnConnectFailed" -> "failed"
                     [] worker.call = "OnClosed" -> "closed"
                     [] OTHER -> "silent"
<1>6. outcome' = [outcome EXCEPT ![attempt] = told]
  BY <1>5, Zenon DEF FinishClose
<1>7. /\ told \in Outcomes
      /\ told = "closed" => worker.call = "OnClosed"
      /\ worker.call = "OnClosed" => told = "closed"
      /\ worker.call = "OnConnectFailed" => told = "failed"
  BY Zenon DEF Outcomes
<1> HIDE DEF told
<1>8. /\ outcome' \in [Attempts -> Outcomes] /\ outcome'[attempt] = told
      /\ \A a \in Attempts : a # attempt => outcome'[a] = outcome[a]
  BY <1>1, <1>5, <1>6, <1>7, Zenon DEF TypeInv
<1>9. /\ outcome[attempt] \in {"none", "connected"}
      /\ worker.call \in {"-", "OnConnectFailed", "OnClosed"}
      /\ worker.call = "OnClosed" => outcome[attempt] = "connected"
  BY <1>1, <1>2, Zenon DEF OutcomeInv
<1>10. ASSUME disconnects = 0
       PROVE  \/ outcome[attempt] = "none" /\ outcome'[attempt] = "failed"
              \/ outcome[attempt] = "connected" /\ outcome'[attempt] = "closed"
  <2>1. worker.call # "-" /\ (worker.call = "OnConnectFailed" => outcome[attempt] = "none")
    BY <1>2, <1>10, Zenon DEF IndInv, CalmInv, CalmClose
  <2> QED
    BY <1>7, <1>8, <1>9, <2>1, Zenon
<1>11. TypeInv'
  BY <1>1, <1>2, <1>4, <1>8, SocketClosed, Zenon DEF TypeInv, States
<1>12. Shrinks
  BY <1>2, Zenon DEF Shrinks
<1>13. SourceInv'
  BY <1>1, <1>2, <1>12, SourceStays DEF TypeInv
<1>14. StateInv'
  BY <1>1, <1>2, <1>4, <1>5, SocketClosed, Zenon DEF StateInv
<1>15. OutcomeInv'
  BY <1>1, <1>2, <1>4, <1>8 DEF OutcomeInv, TypeInv, Attempts
<1>16. ASSUME disconnects = 0 PROVE CalmInv'
  <2>1. CalmSocket /\ CalmConnect /\ CalmEvents
    BY <1>16, Zenon DEF IndInv, CalmInv
  <2>2. session' = None /\ open' = {} /\ session' \notin 1 .. opened
    BY <1>1, <1>2, <2>1, SocketClosed, Zenon DEF CalmSocket
  <2>3. CalmSocket'
    BY <1>2, <2>1, <2>2, Zenon DEF CalmSocket
  <2>4. CalmConnect'
    BY <1>1, <1>2, <1>5, <1>12, <2>1, ConnectStays, Zenon DEF AttemptPending
  <2>5. CalmEvents'
    BY <1>1, <1>2, <1>12, <2>1, <2>2, EventsStay, Zenon
  <2>6. CalmClose'
    BY <1>4, Zenon DEF CalmClose
  <2> QED
    BY <2>3, <2>4, <2>5, <2>6, Zenon DEF CalmInv
<1>17. IndInv'
  BY <1>2, <1>11, <1>13, <1>14, <1>15, <1>16, Zenon DEF IndInv
<1> QED
  BY <1>5, <1>7, <1>8, <1>9, <1>10, <1>17, Zenon

\* A task is taken: the client is not released, and nothing else is in progress.
LEMMA TaskTaken ==
  ASSUME IndInv, NEW kind, Takes(kind)
  PROVE  /\ worker.pc = "idle" /\ ~released /\ Shrinks
         /\ tasks # <<>> /\ tasks' = Tail(tasks) /\ tasks' \in Seq(Tasks)
         /\ Head(tasks) = tasks[1] /\ Head(tasks).kind = kind /\ Head(tasks) \in Tasks
         /\ kind \in {"resolved", "unresolved"} => ConnectTask(1)
         /\ kind \in {"event", "timer"} => Head(tasks).of \in 1 .. opened
         /\ disconnects = 0 => kind # "disconnect" /\ EventSeen(Head(tasks))
<1>1. worker.pc = "idle" /\ tasks # <<>> /\ tasks' = Tail(tasks) /\ Head(tasks).kind = kind
  BY Zenon DEF Takes
<1>2. tasks' \in Seq(Tasks) /\ 1 \in 1 .. Len(tasks) /\ Head(tasks) = tasks[1] /\ Head(tasks) \in Tasks
  BY <1>1, TakeTask, Zenon DEF IndInv, TypeInv
<1>3. ~released /\ Shrinks
  BY <1>1, Zenon DEF IndInv, StateInv, Shrinks
<1>4. kind \in {"event", "timer"} => Head(tasks).of \in 1 .. opened
  BY <1>1, <1>2, Zenon DEF IndInv, SourceInv
<1>5. disconnects = 0 => kind # "disconnect" /\ EventSeen(Head(tasks))
  BY <1>1, <1>2, Zenon DEF IndInv, CalmInv, CalmEvents
<1> QED
  BY <1>1, <1>2, <1>3, <1>4, <1>5, Zenon DEF ConnectTask

\* The task of a Connect that failed, or that finds no socket, and of a
\* Disconnect: the connection starts to close.
LEMMA CloseTaskKeeps ==
  ASSUME IndInv, NEW kind \in {"resolved", "unresolved", "disconnect"}, Takes(kind),
         NEW call, call = IF kind = "disconnect" THEN "-" ELSE "OnConnectFailed", StartClose(call),
         UNCHANGED <<session, outcome, userVars, endVars, netVars, inflight>>
  PROVE  IndInv' /\ (disconnects = 0 => state # "Connected")
<1>1. TypeInv /\ SourceInv /\ StateInv /\ OutcomeInv
  BY Zenon DEF IndInv
<1>2. /\ worker.pc = "idle" /\ ~released /\ Shrinks
      /\ tasks # <<>> /\ tasks' = Tail(tasks) /\ tasks' \in Seq(Tasks)
      /\ kind \in {"resolved", "unresolved"} => ConnectTask(1)
      /\ disconnects = 0 => kind # "disconnect"
  BY TaskTaken, Zenon
<1>3. UNCHANGED <<session, outcome, api, attempt, disconnects, released, destroyed, opened, open, for, net,
                  timers, inflight>>
  BY Zenon DEF userVars, endVars, netVars
<1>4. StartCloseAt(call, deadline) /\ call \in {"-", "OnConnectFailed", "OnClosed"} /\ call # "OnClosed"
  BY Zenon DEF StartClose
<1>5. /\ state' \in States /\ connected' \in BOOLEAN /\ worker' \in Workers
      /\ StateInv' /\ OutcomeInv'
  BY <1>1, <1>2, <1>3, <1>4, StartCloseStep, Zenon DEF StateInv
<1>6. TypeInv'
  BY <1>1, <1>2, <1>3, <1>5, Zenon DEF TypeInv
<1>7. SourceInv'
  BY <1>1, <1>2, <1>3, SourceStays DEF TypeInv
<1>8. ASSUME disconnects = 0 PROVE CalmInv' /\ state # "Connected"
  <2>1. CalmSocket /\ CalmConnect /\ CalmEvents
    BY <1>8, Zenon DEF IndInv, CalmInv
  <2>2. CalmConnect' /\ AttemptPending /\ call = "OnConnectFailed"
    BY <1>1, <1>2, <1>3, <1>8, <2>1, ConnectGone, Zenon
  <2>3. state = "Connecting" /\ state' = "Closing" /\ worker'.call = call
    BY <1>4, <2>2, ZenonT(40) DEF AttemptPending, StartCloseAt, AtRest
  <2>4. CalmSocket'
    BY <1>3, <2>1, <2>3, Zenon DEF CalmSocket
  <2>5. CalmEvents'
    BY <1>1, <1>2, <1>3, <2>1, EventsStay, Zenon
  <2>6. CalmClose'
    BY <1>1, <1>3, <2>2, <2>3, Zenon DEF CalmClose, OutcomeInv
  <2> QED
    BY <2>2, <2>3, <2>4, <2>5, <2>6, Zenon DEF CalmInv
<1> QED
  BY <1>3, <1>5, <1>6, <1>7, <1>8, Zenon DEF IndInv

\* What HandleConnected does, on the session it leaves in use.
LEMMA HandleConnectedStep ==
  ASSUME TypeInv, StateInv, OutcomeInv, NEW s, NEW readable \in BOOLEAN, NEW d,
         HandleConnected(s, readable, d), worker.pc # "finish", ~released,
         session' # None, session' \in open', UNCHANGED <<attempt, api, released, destroyed>>
  PROVE  /\ state' \in States /\ connected' \in BOOLEAN /\ worker' \in Workers
         /\ outcome' \in [Attempts -> Outcomes] /\ StateInv' /\ OutcomeInv'
         /\ \A a \in Attempts : outcome'[a] # outcome[a] => outcome[a] = "none" /\ outcome'[a] = "connected"
         /\ state = "Connecting" =>
              \/ state' = "Closing" /\ worker'.call = "OnConnectFailed" /\ outcome' = outcome
              \/ state' = "Connected"
         /\ state # "Connecting" => state' = state
<1>1. CASE state # "Connecting"
  <2>1. worker' = AtRest /\ UNCHANGED <<state, connected, outcome>>
    BY <1>1, Zenon DEF HandleConnected
  <2>2. worker' \in Workers /\ worker'.pc = "idle"
    BY <2>1, Zenon DEF AtRest, Workers, Calls, None
  <2>3. StateInv' /\ OutcomeInv'
    BY <2>1, <2>2, GoOnStep, Zenon
  <2> QED
    BY <1>1, <2>1, <2>2, <2>3, Zenon DEF TypeInv
<1>2. CASE state = "Connecting" /\ StartClose("OnConnectFailed") /\ UNCHANGED outcome
  <2>1. StartCloseAt("OnConnectFailed", deadline)
    BY <1>2, Zenon DEF StartClose
  <2>2. state' \in States /\ connected' \in BOOLEAN /\ worker' \in Workers /\ StateInv' /\ OutcomeInv'
    BY <1>2, <2>1, StartCloseStep, Zenon
  <2>3. state' = "Closing" /\ worker'.call = "OnConnectFailed"
    BY <1>2, <2>1, ZenonT(40) DEF StartCloseAt, AtRest
  <2> QED
    BY <1>2, <2>2, <2>3, Zenon DEF TypeInv
<1>3. CASE /\ state = "Connecting" /\ state' = "Connected" /\ connected' = TRUE
           /\ outcome' = [outcome EXCEPT ![attempt] = "connected"]
           /\ worker' = [AtRest EXCEPT !.pc = "call", !.call = "OnConnected", !.of = attempt,
                                       !.readable = readable]
  <2>1. worker' \in Workers /\ worker'.pc = "call"
    BY <1>3, ZenonT(40) DEF AtRest, Workers, Calls, None, TypeInv
  <2>2. StateInv' /\ OutcomeInv' /\ outcome' \in [Attempts -> Outcomes]
    BY <1>3, <2>1, ConnectedStep, Zenon
  <2>3. \A a \in Attempts : outcome'[a] # outcome[a] => outcome[a] = "none" /\ outcome'[a] = "connected"
    BY <1>3, Zenon DEF TypeInv, OutcomeInv
  <2> QED
    BY <1>3, <2>1, <2>2, <2>3, Zenon DEF States
<1> QED
  BY <1>1, <1>2, <1>3, ZenonT(40) DEF HandleConnected

\* A new socket becomes the session.
LEMMA ConnectResolvedKeeps ==
  ASSUME IndInv, ConnectResolved
  PROVE  /\ IndInv' /\ ~released
         /\ \A a \in Attempts : outcome'[a] # outcome[a] => outcome[a] = "none" /\ outcome'[a] = "connected"
         /\ disconnects = 0 => state # "Connected"
<1> USE LifecycleAssumption
<1> DEFINE s == opened + 1
           d == IF Timeout THEN s ELSE deadline
<1>1. TypeInv /\ SourceInv /\ StateInv /\ OutcomeInv
  BY Zenon DEF IndInv
<1>2. /\ worker.pc = "idle" /\ ~released /\ Shrinks
      /\ tasks # <<>> /\ tasks' = Tail(tasks) /\ tasks' \in Seq(Tasks)
      /\ ConnectTask(1) /\ Head(tasks) \in Tasks
  BY TaskTaken, Zenon DEF ConnectResolved
<1>3. /\ opened' = s /\ session' = s /\ open' = open \cup {s}
      /\ for' = [for EXCEPT ![s] = Head(tasks).of]
      /\ timers' = IF Timeout THEN timers \cup {s} ELSE timers
      /\ UNCHANGED <<api, attempt, disconnects, released, destroyed, inflight>>
  BY Zenon DEF ConnectResolved, userVars, endVars
<1>4. PICK r \in PlatformConnect :
        /\ net' = [net EXCEPT ![s] = r.net]
        /\ \/ r.net = "pending" /\ worker' = AtRest /\ UNCHANGED <<state, connected, outcome>>
           \/ r.net = "refused" /\ StartCloseAt("OnConnectFailed", d) /\ UNCHANGED outcome
           \/ r.net = "up" /\ HandleConnected(s, FALSE, d)
  BY ZenonT(40) DEF ConnectResolved
<1>5. s \in Nat /\ opened < s /\ s # None /\ s \notin 1 .. opened /\ opened <= s /\ opened \in Nat
  BY <1>1 DEF TypeInv, None
<1>6. r.net \in Nets /\ Head(tasks).of \in Nat
  BY <1>2 DEF PlatformConnect, Nets, Tasks
<1> HIDE DEF s, d
<1>7. for' \in [Sessions -> Nat] /\ net' \in [Sessions -> Nets]
  BY <1>1, <1>3, <1>4, <1>6, ZenonT(40) DEF TypeInv
<1>8. open' \subseteq 1 .. s /\ timers' \subseteq 1 .. s
  BY <1>1, <1>3, <1>5 DEF TypeInv
<1>9. /\ state' \in States /\ connected' \in BOOLEAN /\ worker' \in Workers
      /\ outcome' \in [Attempts -> Outcomes] /\ StateInv' /\ OutcomeInv'
      /\ \A a \in Attempts : outcome'[a] # outcome[a] => outcome[a] = "none" /\ outcome'[a] = "connected"
      /\ state = "Connecting" =>
           \/ state' = "Connecting" /\ worker'.pc = "idle"
           \/ state' = "Closing" /\ worker'.call = "OnConnectFailed" /\ outcome' = outcome
           \/ state' = "Connected" /\ r.net = "up"
  <2>1. session' # None /\ session' \in open'
    BY <1>3, <1>5, Zenon
  <2>2. CASE worker' = AtRest /\ UNCHANGED <<state, connected, outcome>>
    <3>1. worker' \in Workers /\ worker'.pc = "idle"
      BY <2>2, Zenon DEF AtRest, Workers, Calls, None
    <3>2. StateInv' /\ OutcomeInv'
      BY <1>1, <1>2, <1>3, <2>1, <2>2, <3>1, GoOnStep, Zenon
    <3> QED
      BY <1>1, <2>2, <3>1, <3>2, Zenon DEF TypeInv
  <2>3. CASE StartCloseAt("OnConnectFailed", d) /\ UNCHANGED outcome
    <3>1. state' \in States /\ connected' \in BOOLEAN /\ worker' \in Workers /\ StateInv' /\ OutcomeInv'
      BY <1>1, <1>2, <1>3, <2>1, <2>3, StartCloseStep, Zenon
    <3>2. state = "Connecting" => state' = "Closing" /\ worker'.call = "OnConnectFailed"
      BY <2>3, ZenonT(40) DEF StartCloseAt, AtRest
    <3> QED
      BY <1>1, <2>3, <3>1, <3>2, Zenon DEF TypeInv
  <2>4. CASE r.net = "up" /\ HandleConnected(s, FALSE, d)
    BY <1>1, <1>2, <1>3, <2>1, <2>4, HandleConnectedStep, ZenonT(40)
  <2> QED
    BY <1>4, <2>2, <2>3, <2>4, ZenonT(40)
<1>10. TypeInv'
  BY <1>1, <1>2, <1>3, <1>5, <1>7, <1>8, <1>9, Zenon DEF TypeInv
<1>11. SourceInv'
  BY <1>1, <1>2, <1>3, <1>5, SourceStays, Zenon
<1>12. ASSUME disconnects = 0 PROVE CalmInv' /\ state # "Connected"
  <2>1. CalmSocket /\ CalmConnect /\ CalmEvents
    BY <1>12, Zenon DEF IndInv, CalmInv
  <2>2. CalmConnect' /\ AttemptPending /\ Head(tasks).of = attempt
    BY <1>1, <1>2, <1>3, <2>1, ConnectGone, Zenon
  <2>3. state = "Connecting" /\ session = None /\ opened < attempt
    BY <2>2, Zenon DEF AttemptPending
  <2>4. s <= attempt /\ s \in Sessions
    BY <1>1, <1>5, <2>3 DEF TypeInv, Sessions, s
  <2>5. for'[s] = attempt /\ net'[s] = r.net
    BY <1>1, <1>3, <1>4, <2>2, <2>4, Zenon DEF TypeInv
  <2>6. open = {}
    BY <1>1, <2>1, <2>3 DEF TypeInv, CalmSocket, None
  <2>7. state' # "Idle" /\ (state' = "Connected" => net'[s] = "up")
    BY <1>9, <2>3, <2>5, Zenon
  <2>8. CalmSocket'
    BY <1>3, <2>4, <2>5, <2>6, <2>7, Zenon DEF CalmSocket
  <2>9. CalmEvents'
    BY <1>1, <1>2, <1>3, <1>5, <2>1, EventsStay, Zenon
  <2>10. outcome[attempt] = "none"
    BY <1>1, <2>3, Zenon DEF OutcomeInv
  <2>11. CalmClose'
    <3>1. worker'.pc = "finish" => state' = "Closing"
      BY <1>9, Zenon DEF StateInv
    <3> QED
      BY <1>3, <1>9, <2>3, <2>10, <3>1, Zenon DEF CalmClose
  <2> QED
    BY <2>2, <2>3, <2>8, <2>9, <2>11, Zenon DEF CalmInv
<1> QED
  BY <1>2, <1>3, <1>9, <1>10, <1>11, <1>12, Zenon DEF IndInv

\* A step of a task that opens and closes no socket, as far as sockets and the
\* Connect under way are concerned.
LEMMA SocketStays ==
  ASSUME TypeInv, SourceInv, CalmInv, Shrinks, AttemptPending => state' = "Connecting",
         state' = "Idle" => state = "Idle",
         state' = "Connected" => state = "Connected" \/ net[session] \in {"up", "closed", "reset"},
         UNCHANGED <<session, api, attempt, opened, open, for, net, inflight>>
  PROVE  CalmSocket' /\ CalmConnect' /\ CalmEvents'
<1>1. CalmSocket'
  BY Zenon DEF CalmInv, CalmSocket
<1>2. CalmConnect'
  BY ConnectStays, Zenon DEF CalmInv, AttemptPending
<1>3. CalmEvents'
  BY EventsStay, Zenon DEF CalmInv
<1> QED
  BY <1>1, <1>2, <1>3, Zenon

\* An event of the session, or one that comes too late.
LEMMA HandlePollEventKeeps ==
  ASSUME IndInv, HandlePollEvent
  PROVE  /\ IndInv' /\ ~released
         /\ \A a \in Attempts : outcome'[a] # outcome[a] => outcome[a] = "none" /\ outcome'[a] = "connected"
         /\ disconnects = 0 /\ state = "Connected" /\ state' = "Closing" => net[session] \in {"closed", "reset"}
<1> DEFINE s == Head(tasks).of
           events == Head(tasks).events
<1>1. TypeInv /\ SourceInv /\ StateInv /\ OutcomeInv
  BY DEF IndInv
<1>2. /\ worker.pc = "idle" /\ ~released /\ Shrinks /\ tasks' \in Seq(Tasks)
      /\ Head(tasks).kind = "event" /\ s \in 1 .. opened
      /\ disconnects = 0 => EventSeen(Head(tasks))
  BY TaskTaken, Zenon DEF HandlePollEvent
<1>3. /\ PollEventOn(s, events)
      /\ UNCHANGED <<session, api, attempt, disconnects, released, destroyed,
                     opened, open, for, net, timers, inflight>>
  BY Zenon DEF HandlePollEvent, userVars, endVars
<1>4. disconnects = 0 /\ s = session =>
        /\ net[session] \in {"up", "refused", "closed", "reset"}
        /\ "error" \in events => net[session] \in {"refused", "reset"}
  BY <1>2, Zenon DEF EventSeen
<1>5. s # None
  BY <1>1, <1>2 DEF TypeInv, None
<1>6. ("readable" \in events) \in BOOLEAN
  OBVIOUS
<1> HIDE DEF s, events
<1> DEFINE Told == \A a \in Attempts :
                     outcome'[a] # outcome[a] => outcome[a] = "none" /\ outcome'[a] = "connected"
           Effect ==
             \/ state' = state /\ worker'.pc # "finish"
             \/ /\ s = session /\ state \in {"Connecting", "Connected"} /\ state' = "Closing"
                /\ state = "Connected" => "error" \in events /\ worker'.call = "OnClosed"
                /\ worker'.call # "-" /\ outcome' = outcome
             \/ s = session /\ state = "Connecting" /\ state' = "Connected" /\ net[session] # "refused"
<1>7. /\ state' \in States /\ connected' \in BOOLEAN /\ worker' \in Workers
      /\ outcome' \in [Attempts -> Outcomes] /\ StateInv' /\ OutcomeInv' /\ Told /\ Effect
  <2>1. session' # None => session' \in open'
    BY <1>1, <1>3, Zenon DEF StateInv
  <2>2. state = "Connected" => session' # None
    BY <1>1, <1>3, Zenon DEF StateInv
  <2>3. CASE worker' = AtRest /\ UNCHANGED <<state, connected, outcome>>
    <3>1. worker' \in Workers /\ worker'.pc = "idle"
      BY <2>3, Zenon DEF AtRest, Workers, Calls, None
    <3>2. StateInv' /\ OutcomeInv'
      BY <1>1, <1>2, <1>3, <2>1, <2>2, <2>3, <3>1, GoOnStep, Zenon
    <3> QED
      BY <1>1, <2>3, <3>1, <3>2, Zenon DEF TypeInv
  <2>4. CASE /\ s = session /\ state \in {"Connecting", "Connected"}
             /\ "error" \in events \/ state = "Connecting"
             /\ StartClose(IF state = "Connected" THEN "OnClosed" ELSE "OnConnectFailed")
             /\ UNCHANGED outcome
    <3> DEFINE call == IF state = "Connected" THEN "OnClosed" ELSE "OnConnectFailed"
    <3>1. StartCloseAt(call, deadline) /\ call \in {"-", "OnConnectFailed", "OnClosed"} /\ call # "-"
      BY <2>4, Zenon DEF StartClose
    <3>2. call = "OnClosed" <=> state = "Connected"
      BY Zenon
    <3> HIDE DEF call
    <3>3. state' \in States /\ connected' \in BOOLEAN /\ worker' \in Workers /\ StateInv' /\ OutcomeInv'
      BY <1>1, <1>2, <1>3, <2>1, <2>2, <2>4, <3>1, <3>2, StartCloseStep, Zenon
    <3>4. state' = "Closing" /\ worker'.call = call
      BY <2>4, <3>1, ZenonT(40) DEF StartCloseAt, AtRest
    <3> QED
      BY <1>1, <2>4, <3>1, <3>2, <3>3, <3>4, Zenon DEF TypeInv
  <2>5. CASE /\ s = session /\ state = "Connecting" /\ net[s] # "refused"
             /\ HandleConnected(s, "readable" \in events, deadline)
    <3>1. session' # None /\ session' \in open'
      BY <1>3, <1>5, <2>1, <2>5, Zenon
    <3>2. /\ state' \in States /\ connected' \in BOOLEAN /\ worker' \in Workers
          /\ outcome' \in [Attempts -> Outcomes] /\ StateInv' /\ OutcomeInv' /\ Told
          /\ \/ state' = "Closing" /\ worker'.call = "OnConnectFailed" /\ outcome' = outcome
             \/ state' = "Connected"
      BY <1>1, <1>2, <1>3, <1>6, <2>5, <3>1, HandleConnectedStep, ZenonT(40)
    <3> QED
      BY <2>5, <3>2, Zenon
  <2>6. CASE /\ state = "Connected" /\ UNCHANGED <<state, connected, outcome>>
             /\ worker' = IF "readable" \in events THEN [AtRest EXCEPT !.pc = "read"] ELSE AtRest
    <3>1. worker' \in Workers /\ worker'.pc # "finish"
      BY <2>6, ZenonT(40) DEF AtRest, Workers, Calls, None
    <3>2. StateInv' /\ OutcomeInv'
      BY <1>1, <1>2, <1>3, <2>1, <2>2, <2>6, <3>1, GoOnStep, Zenon
    <3> QED
      BY <1>1, <2>6, <3>1, <3>2, Zenon DEF TypeInv
  <2> QED
    BY <1>1, <1>3, <2>3, <2>4, <2>5, <2>6, Zenon DEF PollEventOn, PlatformFinishConnect, TypeInv, States
<1> HIDE DEF Told
<1>8. TypeInv'
  BY <1>1, <1>2, <1>3, <1>7, Zenon DEF TypeInv
<1>9. SourceInv'
  BY <1>1, <1>2, <1>3, SourceStays DEF TypeInv
<1>10. ASSUME disconnects = 0
       PROVE  CalmInv' /\ (state = "Connected" /\ state' = "Closing" => net[session] \in {"closed", "reset"})
  <2>1. CalmInv
    BY <1>10, Zenon DEF IndInv
  <2>2. AttemptPending => state' = "Connecting"
    BY <1>5, <1>7, Zenon DEF AttemptPending
  <2>3. state' = "Connected" => state = "Connected" \/ net[session] \in {"up", "closed", "reset"}
    BY <1>4, <1>7, <1>10, Zenon
  <2>4. state' = "Idle" => state = "Idle"
    BY <1>7, Zenon
  <2>5. CalmSocket' /\ CalmConnect' /\ CalmEvents'
    BY <1>1, <1>2, <1>3, <2>1, <2>2, <2>3, <2>4, SocketStays, Zenon
  <2>6. state = "Connected" /\ state' = "Closing" => net[session] \in {"closed", "reset"}
    BY <1>4, <1>7, <1>10, <2>1, Zenon DEF CalmInv, CalmSocket
  <2>7. CalmClose'
    <3>1. worker'.pc = "finish" => state' = "Closing"
      BY <1>7, Zenon DEF StateInv
    <3> SUFFICES ASSUME worker'.pc = "finish"
                 PROVE  worker'.call # "-" /\ (worker'.call = "OnConnectFailed" => outcome'[attempt] = "none")
      BY <1>3, Zenon DEF CalmClose
    <3>2. worker'.call # "-" /\ state \in {"Connecting", "Connected"}
      BY <1>1, <1>2, <1>7, <3>1, Zenon DEF StateInv
    <3>3. ASSUME worker'.call = "OnConnectFailed" PROVE outcome'[attempt] = "none"
      <4>1. state = "Connecting"
        BY <1>7, <3>1, <3>2, <3>3, Zenon
      <4>2. outcome[attempt] = "none"
        BY <1>1, <4>1, Zenon DEF OutcomeInv
      <4>3. outcome' = outcome
        BY <1>7, <3>1, <4>1, Zenon
      <4> QED
        BY <4>2, <4>3, Zenon
    <3> QED
      BY <3>2, <3>3, Zenon
  <2> QED
    BY <2>5, <2>6, <2>7, Zenon DEF CalmInv
<1> QED
  BY <1>2, <1>3, <1>7, <1>8, <1>9, <1>10, Zenon DEF IndInv, Told

\* A task that goes on without a socket being opened or closed: it rests, reads,
\* calls the handler, or starts to close a connection that is up or times out.
LEMMA TaskGoesOn ==
  ASSUME IndInv, worker.pc \notin {"finish"}, ~released, Shrinks,
         UNCHANGED <<session, outcome, api, attempt, disconnects, released, destroyed,
                     opened, open, for, net, timers, inflight>>,
         \/ /\ UNCHANGED <<state, connected>> /\ worker' \in Workers /\ worker'.pc # "finish"
            /\ worker'.pc = "read" => state = "Connected"
         \/ StartClose("OnClosed") /\ state = "Connected"
         \/ StartClose("OnConnectFailed") /\ state = "Connecting" /\ session # None
  PROVE  IndInv'
<1>1. TypeInv /\ SourceInv /\ StateInv /\ OutcomeInv
  BY Zenon DEF IndInv
<1>2. /\ session' # None => session' \in open'
      /\ state = "Connected" => session' # None
  BY <1>1, Zenon DEF StateInv
<1>3. tasks' \in Seq(Tasks)
  BY <1>1, StillQueued, Zenon DEF TypeInv
<1>4. SourceInv'
  BY <1>1, SourceStays DEF TypeInv
<1>5. CASE /\ UNCHANGED <<state, connected>> /\ worker' \in Workers /\ worker'.pc # "finish"
           /\ worker'.pc = "read" => state = "Connected"
  <2>1. StateInv' /\ OutcomeInv'
    BY <1>1, <1>2, <1>5, GoOnStep, Zenon
  <2>2. TypeInv'
    BY <1>1, <1>3, <1>5, Zenon DEF TypeInv
  <2>3. ASSUME disconnects = 0 PROVE CalmInv'
    <3>1. CalmInv
      BY <2>3, Zenon DEF IndInv
    <3>2. CalmSocket' /\ CalmConnect' /\ CalmEvents'
      BY <1>1, <1>5, <3>1, SocketStays, Zenon DEF AttemptPending
    <3>3. CalmClose'
      BY <1>5, Zenon DEF CalmClose
    <3> QED
      BY <3>2, <3>3, Zenon DEF CalmInv
  <2> QED
    BY <1>4, <2>1, <2>2, <2>3, Zenon DEF IndInv
<1>6. ASSUME NEW call \in {"OnClosed", "OnConnectFailed"}, StartClose(call),
             state = IF call = "OnClosed" THEN "Connected" ELSE "Connecting", session # None
      PROVE  IndInv'
  <2>1. /\ StartCloseAt(call, deadline) /\ call \in {"-", "OnConnectFailed", "OnClosed"}
        /\ call = "OnClosed" => state = "Connected"
    BY <1>6, Zenon DEF StartClose
  <2>2. state' \in States /\ connected' \in BOOLEAN /\ worker' \in Workers /\ StateInv' /\ OutcomeInv'
    BY <1>1, <1>2, <2>1, StartCloseStep, Zenon
  <2>3. state' = "Closing" /\ worker'.call = call
    BY <1>6, <2>1, ZenonT(40) DEF StartCloseAt, AtRest
  <2>4. TypeInv'
    BY <1>1, <1>3, <2>2, Zenon DEF TypeInv
  <2>5. ASSUME disconnects = 0 PROVE CalmInv'
    <3>1. CalmInv
      BY <2>5, Zenon DEF IndInv
    <3>2. CalmSocket' /\ CalmConnect' /\ CalmEvents'
      BY <1>1, <1>6, <2>3, <3>1, SocketStays, Zenon DEF AttemptPending
    <3>3. CalmClose'
      BY <1>1, <1>6, <2>3, Zenon DEF CalmClose, OutcomeInv
    <3> QED
      BY <3>2, <3>3, Zenon DEF CalmInv
  <2> QED
    BY <1>4, <2>2, <2>4, <2>5, Zenon DEF IndInv
<1> QED
  BY <1>2, <1>5, <1>6, Zenon

LEMMA HandleReadableKeeps ==
  ASSUME IndInv, HandleReadable
  PROVE  IndInv' /\ ~released
<1>1. TypeInv /\ StateInv
  BY Zenon DEF IndInv
<1>2. /\ worker.pc = "read"
      /\ UNCHANGED <<session, tasks, outcome, api, attempt, disconnects, released, destroyed,
                     opened, open, for, net, timers, inflight>>
  BY Zenon DEF HandleReadable, userVars, endVars, netVars
<1>3. state = "Connected" /\ ~released /\ Shrinks
  BY <1>1, <1>2, Zenon DEF StateInv, Shrinks
<1> DEFINE close == IF net[session] \in {"closed", "reset"} THEN "OnClosed" ELSE "-"
<1>4. CASE /\ worker' = [AtRest EXCEPT !.pc = "call", !.call = "OnMessage", !.of = attempt, !.eof = close]
           /\ UNCHANGED <<state, connected>>
  <2>1. worker' \in Workers /\ worker'.pc = "call"
    BY <1>1, <1>4, ZenonT(40) DEF AtRest, Workers, Calls, None, TypeInv
  <2> QED
    BY <1>2, <1>3, <1>4, <2>1, TaskGoesOn, Zenon
<1>5. CASE worker' = AtRest /\ UNCHANGED <<state, connected>>
  <2>1. worker' \in Workers /\ worker'.pc = "idle"
    BY <1>5, Zenon DEF AtRest, Workers, Calls, None
  <2> QED
    BY <1>2, <1>3, <1>5, <2>1, TaskGoesOn, Zenon
<1>6. CASE StartClose("OnClosed")
  BY <1>2, <1>3, <1>6, TaskGoesOn, Zenon
<1> QED
  BY <1>3, <1>4, <1>5, <1>6, Zenon DEF HandleReadable

LEMMA HandleTimerEventKeeps ==
  ASSUME IndInv, HandleTimerEvent
  PROVE  /\ IndInv' /\ (worker'.pc # "call")
         /\ state = "Connected" => state' = "Connected"
<1>1. /\ worker.pc = "idle" /\ ~released /\ Shrinks /\ Head(tasks).of \in 1 .. opened
  BY TaskTaken, Zenon DEF HandleTimerEvent
<1>2. UNCHANGED <<session, outcome, api, attempt, disconnects, released, destroyed,
                  opened, open, for, net, timers, inflight>>
  BY Zenon DEF HandleTimerEvent, userVars, endVars, netVars
<1>3. Head(tasks).of # None
  BY <1>1 DEF IndInv, TypeInv, None
<1>4. CASE worker' = AtRest /\ UNCHANGED <<state, connected>>
  <2>1. worker' \in Workers /\ worker'.pc = "idle"
    BY <1>4 DEF AtRest, Workers, Calls, None
  <2> QED
    BY <1>1, <1>2, <1>4, <2>1, TaskGoesOn, Zenon
<1>5. CASE StartClose("OnConnectFailed") /\ state = "Connecting" /\ session # None
  <2>1. worker'.pc = "finish"
    BY <1>5, ZenonT(40) DEF StartClose, StartCloseAt, AtRest
  <2> QED
    BY <1>1, <1>2, <1>5, <2>1, TaskGoesOn, Zenon
<1> QED
  BY <1>3, <1>4, <1>5, Zenon DEF HandleTimerEvent

LEMMA CallbackReturnsKeeps ==
  ASSUME IndInv, CallbackReturns
  PROVE  IndInv'
<1>1. TypeInv /\ SourceInv /\ StateInv /\ OutcomeInv
  BY DEF IndInv
<1>2. /\ worker.pc = "call"
      /\ UNCHANGED <<session, tasks, outcome, api, attempt, disconnects, released, destroyed,
                     opened, open, for, net, timers, inflight>>
  BY Zenon DEF CallbackReturns, userVars, endVars, netVars
<1>3. Shrinks
  BY <1>2, Zenon DEF Shrinks
<1>4. CASE connected /\ worker' = [AtRest EXCEPT !.pc = "read"] /\ UNCHANGED <<state, connected>>
  <2>1. worker' \in Workers /\ worker'.pc = "read"
    BY <1>4, ZenonT(40) DEF AtRest, Workers, Calls, None
  <2>2. state = "Connected" /\ ~released
    BY <1>1, <1>4, Zenon DEF StateInv
  <2> QED
    BY <1>2, <1>3, <1>4, <2>1, <2>2, TaskGoesOn, Zenon
<1>5. CASE connected /\ worker.eof # "-" /\ StartClose(worker.eof)
  <2>1. worker.eof = "OnClosed"
    BY <1>1, <1>5, Zenon DEF TypeInv, Workers
  <2>2. state = "Connected" /\ ~released
    BY <1>1, <1>5, Zenon DEF StateInv
  <2> QED
    BY <1>2, <1>3, <1>5, <2>1, <2>2, TaskGoesOn, Zenon
<1>6. CASE worker' = AtRest /\ UNCHANGED <<state, connected>>
  <2>1. worker' \in Workers /\ worker'.pc = "idle"
    BY <1>6 DEF AtRest, Workers, Calls, None
  <2>2. CASE ~released
    BY <1>2, <1>3, <1>6, <2>1, <2>2, TaskGoesOn, Zenon
  <2>3. CASE released
    <3>1. TypeInv'
      BY <1>1, <1>2, <1>6, <2>1, Zenon DEF TypeInv
    <3>2. SourceInv' /\ StateInv' /\ OutcomeInv'
      BY <1>1, <1>2, <1>6, <2>1, Zenon DEF SourceInv, StateInv, OutcomeInv
    <3>3. ASSUME disconnects = 0 PROVE CalmInv'
      <4>1. CalmInv
        BY <3>3 DEF IndInv
      <4>2. CalmSocket' /\ CalmConnect' /\ CalmEvents'
        BY <1>1, <1>2, <1>3, <1>6, <4>1, SocketStays, Zenon DEF AttemptPending
      <4> QED
        BY <2>1, <4>2, Zenon DEF CalmInv, CalmClose
    <3> QED
      BY <1>2, <3>1, <3>2, <3>3, Zenon DEF IndInv
  <2> QED
    BY <2>2, <2>3, Zenon
<1> QED
  BY <1>4, <1>5, <1>6, Zenon DEF CallbackReturns

LEMMA DestroyKeeps ==
  ASSUME IndInv, Destroy
  PROVE  IndInv'
<1>1. TypeInv /\ SourceInv /\ StateInv /\ OutcomeInv
  BY DEF IndInv
<1>2. /\ released /\ destroyed' = TRUE /\ CloseSocket
      /\ UNCHANGED <<state, connected, tasks, worker, outcome, api, attempt, disconnects, released,
                     opened, timers, inflight>>
  BY Zenon DEF Destroy, userVars
<1>3. state = "Idle" /\ Shrinks
  BY <1>1, <1>2, Zenon DEF StateInv, Shrinks
<1>4. TypeInv'
  BY <1>1, <1>2, SocketClosed, Zenon DEF TypeInv
<1>5. SourceInv'
  BY <1>1, <1>2, Zenon DEF SourceInv
<1>6. StateInv' /\ OutcomeInv'
  BY <1>1, <1>2, <1>3, SocketClosed, Zenon DEF StateInv, OutcomeInv
<1>7. ASSUME disconnects = 0 PROVE CalmInv'
  <2>1. CalmSocket /\ CalmConnect /\ CalmEvents /\ CalmClose
    BY <1>7, Zenon DEF IndInv, CalmInv
  <2>2. session' = None /\ open' = {} /\ session' \notin 1 .. opened
    BY <1>1, <1>2, <2>1, SocketClosed, Zenon DEF CalmSocket
  <2>3. CalmSocket' /\ CalmClose'
    BY <1>2, <1>3, <2>1, <2>2, Zenon DEF CalmSocket, CalmClose
  <2>4. CalmConnect'
    BY <1>1, <1>2, <1>3, <2>1, ConnectStays, Zenon DEF AttemptPending
  <2>5. CalmEvents'
    BY <1>1, <1>2, <1>3, <2>1, <2>2, EventsStay, Zenon
  <2> QED
    BY <2>3, <2>4, <2>5, Zenon DEF CalmInv
<1> QED
  BY <1>2, <1>4, <1>5, <1>6, <1>7, Zenon DEF IndInv

-----------------------------------------------------------------------------
(* The poll thread and the network *)

\* What the poll thread has in hand is of a socket that was opened, and has seen
\* what the network did to it.
LEMMA PollKeeps ==
  ASSUME IndInv, inflight' \subseteq [kind : {"event", "timer"}, of : Nat, events : SUBSET Events, held : BOOLEAN],
         \A e \in inflight' : e.of \in 1 .. opened,
         disconnects = 0 => \A e \in inflight' : EventSeen(e),
         timers' \subseteq timers,
         UNCHANGED <<state, connected, session, tasks, worker, outcome, api, attempt, disconnects,
                     released, destroyed, opened, open, for, net>>
  PROVE  IndInv'
<1>1. TypeInv /\ SourceInv /\ StateInv /\ OutcomeInv
  BY Zenon DEF IndInv
<1>2. TypeInv'
  BY <1>1, Zenon DEF TypeInv
<1>3. SourceInv'
  BY <1>1, Zenon DEF SourceInv
<1>4. StateInv' /\ OutcomeInv'
  BY <1>1, Zenon DEF StateInv, OutcomeInv
<1>5. ASSUME disconnects = 0 PROVE CalmInv'
  <2>1. CalmSocket /\ CalmConnect /\ CalmEvents /\ CalmClose
    BY <1>5, Zenon DEF IndInv, CalmInv
  <2>2. CalmSocket' /\ CalmClose'
    BY <2>1, ZenonT(40) DEF CalmSocket, CalmClose
  <2>3. CalmConnect'
    BY <2>1, ZenonT(40) DEF CalmConnect, ConnectTask, AttemptPending
  <2>4. CalmEvents'
    BY <1>5, <2>1, Zenon DEF CalmEvents, EventSeen
  <2> QED
    BY <2>2, <2>3, <2>4, Zenon DEF CalmInv
<1> QED
  BY <1>2, <1>3, <1>4, <1>5, Zenon DEF IndInv

LEMMA PollWaitKeeps ==
  ASSUME IndInv, PollWait
  PROVE  IndInv'
<1>1. TypeInv
  BY Zenon DEF IndInv
<1>2. PICK s \in open : \E events \in Ready(s) :
        inflight' = {[kind |-> "event", of |-> s, events |-> events, held |-> FALSE]}
  BY Zenon DEF PollWait
<1>3. PICK events \in Ready(s) :
        inflight' = {[kind |-> "event", of |-> s, events |-> events, held |-> FALSE]}
  BY <1>2, Zenon
<1> DEFINE e == [kind |-> "event", of |-> s, events |-> events, held |-> FALSE]
<1>4. /\ events \subseteq Events
      /\ net[s] \in {"up", "refused", "closed", "reset"}
      /\ "error" \in events => net[s] \in {"refused", "reset"}
  BY <1>3 DEF Ready, Events
<1>5. e \in [kind : {"event", "timer"}, of : Nat, events : SUBSET Events, held : BOOLEAN]
  BY <1>1, <1>4 DEF TypeInv
<1>6. e.of \in 1 .. opened /\ EventSeen(e)
  BY <1>1, <1>4, Zenon DEF TypeInv, EventSeen
<1>7. UNCHANGED <<state, connected, session, tasks, worker, outcome, api, attempt, disconnects,
                  released, destroyed, opened, open, for, net, timers>>
  BY Zenon DEF PollWait, connVars, userVars, endVars, netVars
<1> QED
  BY <1>3, <1>5, <1>6, <1>7, PollKeeps, Zenon

LEMMA TimerExpiresKeeps ==
  ASSUME IndInv, TimerExpires
  PROVE  IndInv'
<1>1. TypeInv
  BY DEF IndInv
<1>2. PICK s \in timers :
        /\ timers' = timers \ {s}
        /\ inflight' = {[kind |-> "timer", of |-> s, events |-> {}, held |-> FALSE]}
  BY Zenon DEF TimerExpires
<1> DEFINE e == [kind |-> "timer", of |-> s, events |-> {}, held |-> FALSE]
<1>3. /\ e \in [kind : {"event", "timer"}, of : Nat, events : SUBSET Events, held : BOOLEAN]
      /\ e.of \in 1 .. opened /\ EventSeen(e)
  BY <1>1, SMTT(30) DEF TypeInv, EventSeen
<1>4. UNCHANGED <<state, connected, session, tasks, worker, outcome, api, attempt, disconnects,
                  released, destroyed, opened, open, for, net>>
  BY Zenon DEF TimerExpires, connVars, userVars, endVars
<1> QED
  BY <1>2, <1>3, <1>4, PollKeeps, ZenonT(40)

LEMMA PollAcquireKeeps ==
  ASSUME IndInv, PollAcquire
  PROVE  IndInv'
<1>1. TypeInv /\ SourceInv
  BY Zenon DEF IndInv
<1>2. PICK e \in inflight : inflight' = IF e.of \in open THEN {[e EXCEPT !.held = TRUE]} ELSE {}
  BY ZenonT(40) DEF PollAcquire
<1> DEFINE h == [e EXCEPT !.held = TRUE]
<1>3. e \in [kind : {"event", "timer"}, of : Nat, events : SUBSET Events, held : BOOLEAN]
  BY <1>1, Zenon DEF TypeInv
<1>4. /\ h \in [kind : {"event", "timer"}, of : Nat, events : SUBSET Events, held : BOOLEAN]
      /\ h.kind = e.kind /\ h.of = e.of /\ h.events = e.events
  BY <1>3, ZenonT(40)
<1> HIDE DEF h
<1>5. h.of \in 1 .. opened
  BY <1>1, <1>4, Zenon DEF SourceInv
<1>6. disconnects = 0 => EventSeen(h)
  BY <1>4, ZenonT(40) DEF IndInv, CalmInv, CalmEvents, EventSeen
<1>7. UNCHANGED <<state, connected, session, tasks, worker, outcome, api, attempt, disconnects,
                  released, destroyed, opened, open, for, net, timers>>
  BY Zenon DEF PollAcquire, connVars, userVars, endVars, netVars
<1>8. inflight' \subseteq {h}
  BY <1>2, Zenon DEF h
<1> QED
  BY <1>4, <1>5, <1>6, <1>7, <1>8, PollKeeps, Zenon

LEMMA PollPostKeeps ==
  ASSUME IndInv, PollPost
  PROVE  IndInv'
<1>1. TypeInv /\ SourceInv /\ StateInv /\ OutcomeInv
  BY DEF IndInv
<1>2. PICK e \in inflight :
        tasks' = IF released THEN tasks
                 ELSE Append(tasks, [kind |-> e.kind, of |-> e.of, events |-> e.events])
  BY Zenon DEF PollPost
<1>3. /\ inflight' = {}
      /\ UNCHANGED <<state, connected, session, worker, outcome, api, attempt, disconnects,
                     released, destroyed, opened, open, for, net, timers>>
  BY Zenon DEF PollPost, connVars, userVars, endVars, netVars
<1>4. CASE released
  BY <1>2, <1>3, <1>4, PollKeeps, Zenon
<1>5. CASE ~released
  <2> DEFINE k == [kind |-> e.kind, of |-> e.of, events |-> e.events]
  <2>1. k \in Tasks /\ k.kind \in {"event", "timer"} /\ k.of \in 1 .. opened
    BY <1>1, Zenon DEF TypeInv, SourceInv, Tasks
  <2>2. k.kind = e.kind /\ k.of = e.of /\ k.events = e.events
    BY Zenon
  <2>3. tasks' = Append(tasks, k)
    BY <1>2, <1>5, Zenon
  <2> HIDE DEF k
  <2>4. /\ tasks' \in Seq(Tasks) /\ Len(tasks') = Len(tasks) + 1 /\ Len(tasks) \in Nat
        /\ \A i \in 1 .. Len(tasks') : \/ i \in 1 .. Len(tasks) /\ tasks'[i] = tasks[i]
                                       \/ i = Len(tasks') /\ tasks'[i] = k
    BY <1>1, <2>1, <2>3, AddTask, ZenonT(40) DEF TypeInv
  <2>5. TypeInv'
    BY <1>1, <1>3, <2>4, ZenonT(40) DEF TypeInv
  <2>6. SourceInv'
    BY <1>1, <1>3, <2>1, <2>4, ZenonT(40) DEF SourceInv
  <2>7. StateInv' /\ OutcomeInv'
    BY <1>1, <1>3, <1>5, Zenon DEF StateInv, OutcomeInv
  <2>8. ASSUME disconnects = 0 PROVE CalmInv'
    <3>1. CalmSocket /\ CalmConnect /\ CalmEvents /\ CalmClose
      BY <2>8, Zenon DEF IndInv, CalmInv
    <3>2. CalmSocket' /\ CalmClose'
      BY <1>3, <3>1, Zenon DEF CalmSocket, CalmClose
    <3>3. \A i \in 1 .. Len(tasks') : ConnectTask(i)' =>
            i \in 1 .. Len(tasks) /\ tasks'[i] = tasks[i] /\ ConnectTask(i)
      BY <2>1, <2>4, Zenon DEF ConnectTask
    <3>4. AttemptPending' <=> AttemptPending
      BY <1>3, Zenon DEF AttemptPending
    <3>5. CalmConnect'
      BY <1>3, <3>1, <3>3, <3>4, ZenonT(40) DEF CalmConnect
    <3>6. EventSeen(k)
      BY <2>2, <3>1, ZenonT(40) DEF CalmEvents, EventSeen
    <3>7. CalmEvents'
      BY <1>3, <2>1, <2>4, <3>1, <3>6, Zenon DEF CalmEvents, EventSeen
    <3> QED
      BY <3>2, <3>5, <3>7, Zenon DEF CalmInv
  <2> QED
    BY <1>3, <2>5, <2>6, <2>7, <2>8, Zenon DEF IndInv
<1> QED
  BY <1>4, <1>5, Zenon

LEMMA NetworkKeeps ==
  ASSUME IndInv, Network
  PROVE  IndInv'
<1>1. TypeInv /\ SourceInv /\ StateInv /\ OutcomeInv
  BY DEF IndInv
<1>2. PICK s \in open, n \in {"up", "refused", "closed", "reset"} :
        /\ net' = [net EXCEPT ![s] = n]
        /\ \/ net[s] = "pending" /\ n \in {"up", "refused"}
           \/ net[s] = "up" /\ n \in {"closed", "reset"}
  BY Zenon DEF Network
<1>3. UNCHANGED <<state, connected, session, tasks, worker, outcome, api, attempt, disconnects,
                  released, destroyed, opened, open, for, timers, inflight>>
  BY Zenon DEF Network, connVars, userVars, endVars
<1>4. net' \in [Sessions -> Nets]
  BY <1>1, <1>2, ZenonT(40) DEF TypeInv, Nets
<1>5. TypeInv'
  BY <1>1, <1>3, <1>4, Zenon DEF TypeInv
<1>6. SourceInv' /\ StateInv' /\ OutcomeInv'
  BY <1>1, <1>3, Zenon DEF SourceInv, StateInv, OutcomeInv
<1>7. ASSUME disconnects = 0 PROVE CalmInv'
  <2>1. CalmSocket /\ CalmConnect /\ CalmEvents /\ CalmClose
    BY <1>7, Zenon DEF IndInv, CalmInv
  <2>2. s = session /\ s \in Sessions
    BY <1>1, <2>1, LifecycleAssumption DEF CalmSocket, TypeInv, Sessions
  <2>3. net'[session] = n
    BY <1>1, <1>2, <2>2, Zenon DEF TypeInv
  <2>4. CalmSocket'
    BY <1>2, <1>3, <2>1, <2>2, <2>3, ZenonT(40) DEF CalmSocket
  <2>5. CalmConnect' /\ CalmClose'
    BY <1>3, <2>1, Zenon DEF CalmConnect, ConnectTask, AttemptPending, CalmClose
  <2>6. CalmEvents'
    BY <1>2, <1>3, <2>1, <2>2, <2>3, Zenon DEF CalmEvents, EventSeen
  <2> QED
    BY <2>4, <2>5, <2>6, Zenon DEF CalmInv
<1> QED
  BY <1>3, <1>5, <1>6, <1>7, Zenon DEF IndInv

-----------------------------------------------------------------------------
(* The theorems. *)

\* A task of Connect or Disconnect that starts to close.
ClosingTask ==
  ConnectNoSocket \/ CloseTask

LEMMA ClosingTaskKeeps ==
  ASSUME IndInv, ClosingTask
  PROVE  IndInv' /\ outcome' = outcome /\ worker'.pc # "call" /\ (disconnects = 0 => state # "Connected")
<1>1. ASSUME NEW kind \in {"resolved", "unresolved", "disconnect"}, Takes(kind),
             NEW call, call = IF kind = "disconnect" THEN "-" ELSE "OnConnectFailed", StartClose(call),
             UNCHANGED <<session, outcome, userVars, endVars, netVars, inflight>>
      PROVE  IndInv' /\ outcome' = outcome /\ worker'.pc # "call" /\ (disconnects = 0 => state # "Connected")
  <2>1. \/ worker' = AtRest
        \/ worker' = [AtRest EXCEPT !.pc = "finish", !.call = call, !.of = attempt]
    BY <1>1, Zenon DEF StartClose, StartCloseAt
  <2>2. worker'.pc # "call"
    <3>1. CASE worker' = AtRest
      BY <3>1, Zenon DEF AtRest
    <3>2. CASE worker' = [AtRest EXCEPT !.pc = "finish", !.call = call, !.of = attempt]
      <4>1. worker'.pc = "finish"
        BY <3>2, Zenon DEF AtRest
      <4> QED
        BY <4>1, Zenon
    <3> QED
      BY <2>1, <3>1, <3>2, Zenon
  <2> QED
    BY <1>1, <2>2, CloseTaskKeeps, Zenon
<1>2. CASE ConnectNoSocket
  BY <1>1, <1>2, Zenon DEF ConnectNoSocket
<1>3. CASE CloseTask
  BY <1>1, <1>3, Zenon DEF CloseTask
<1> QED
  BY <1>2, <1>3, Zenon DEF ClosingTask

\* A step that changes nothing keeps everything.
LEMMA StutterKeeps ==
  ASSUME IndInv, UNCHANGED vars
  PROVE  IndInv'
<1>1. UNCHANGED <<state, connected, session, tasks, worker, outcome, api, attempt, disconnects,
                  released, destroyed, opened, open, for, net, timers, inflight>>
  BY Zenon DEF vars, connVars, userVars, endVars, netVars
<1>2. /\ inflight' \subseteq [kind : {"event", "timer"}, of : Nat, events : SUBSET Events, held : BOOLEAN]
      /\ \A e \in inflight' : e.of \in 1 .. opened
      /\ disconnects = 0 => \A e \in inflight' : EventSeen(e)
  BY <1>1, Zenon DEF IndInv, TypeInv, SourceInv, CalmInv, CalmEvents
<1> QED
  BY <1>1, <1>2, PollKeeps, Zenon

LEMMA InvStep == IndInv /\ [Next]_vars => IndInv'
<1> SUFFICES ASSUME IndInv, [Next]_vars PROVE IndInv'
  BY Zenon
<1>1. CASE \E t \in Threads : Connect(t) \/ Resolved(t) \/ Disconnect(t) \/ Release(t)
  BY <1>1, ConnectKeeps, ResolvedKeeps, DisconnectKeeps, ReleaseKeeps, Zenon
<1>2. CASE Worker
  BY <1>2, FinishCloseKeeps, ClosingTaskKeeps, ConnectResolvedKeeps, HandlePollEventKeeps, HandleReadableKeeps,
     HandleTimerEventKeeps, CallbackReturnsKeeps, DestroyKeeps, Zenon DEF Worker, ClosingTask
<1>3. CASE PollWait \/ TimerExpires \/ PollAcquire \/ PollPost \/ Network
  BY <1>3, PollWaitKeeps, TimerExpiresKeeps, PollAcquireKeeps, PollPostKeeps, NetworkKeeps, Zenon
<1> QED
  BY <1>1, <1>2, <1>3, StutterKeeps, Zenon DEF Next

LEMMA Invariance == Spec => []IndInv
  BY InvInit, InvStep, PTL DEF Spec

\* IsConnected tells the truth although connected_ is stored outside state_mtx_,
\* for every interleaving of callers, tasks, poll thread and network.
THEOREM IsConnectedTellsTheTruth == Spec => []ConnectedAgrees
<1>1. IndInv => ConnectedAgrees
  <2> SUFFICES ASSUME IndInv PROVE ConnectedAgrees
    BY Zenon
  <2>1. connected => state = "Connected" /\ session \in open
    BY Zenon DEF IndInv, StateInv
  <2>2. worker.pc = "read" => session \in open
    BY Zenon DEF IndInv, StateInv
  <2>3. disconnects = 0 => ConnectedToRequested
    BY Zenon DEF IndInv, StateInv, CalmInv, CalmSocket, ConnectedToRequested
  <2> QED
    BY <2>1, <2>2, <2>3, Zenon DEF ConnectedAgrees
<1> QED
  BY <1>1, Invariance, PTL

\* The connection loses no socket as long as nobody calls Disconnect.
THEOREM NoSocketIsOrphaned == Spec => []NoOrphanSocket
<1>1. IndInv => NoOrphanSocket
  BY Zenon DEF IndInv, CalmInv, CalmSocket, NoOrphanSocket
<1> QED
  BY <1>1, Invariance, PTL

\* What a step tells the handler: only FinishClose and HandleConnected tell it
\* anything, and a callback begins only in a client that is not released.
LEMMA StepTells ==
  ASSUME IndInv, [Next]_vars
  PROVE  /\ worker'.pc = "call" /\ worker.pc # "call" => ~released
         /\ \A a \in Attempts :
              outcome'[a] # outcome[a] =>
                /\ outcome[a] \in {"none", "connected"}
                /\ outcome'[a] = "closed" => outcome[a] = "connected"
                /\ \/ outcome[a] = "none" /\ outcome'[a] \in {"connected", "failed"}
                   \/ outcome[a] = "connected" /\ outcome'[a] = "closed"
                   \/ disconnects > 0
<1>1. disconnects # 0 => disconnects > 0
  BY DEF IndInv, TypeInv
<1>2. CASE UNCHANGED <<worker, outcome>>
  BY <1>2, Zenon
<1>3. CASE FinishClose
  BY <1>1, <1>3, FinishCloseKeeps, SMTT(30)
<1>4. CASE ConnectResolved
  BY <1>4, ConnectResolvedKeeps, Zenon
<1>5. CASE HandlePollEvent
  BY <1>5, HandlePollEventKeeps, Zenon
<1>6. CASE HandleReadable
  BY <1>6, HandleReadableKeeps, Zenon DEF HandleReadable
<1>7. CASE ClosingTask
  BY <1>7, ClosingTaskKeeps, Zenon
<1>8. CASE HandleTimerEvent
  BY <1>8, HandleTimerEventKeeps, Zenon DEF HandleTimerEvent
<1>9. CASE CallbackReturns
  BY <1>9, Zenon DEF CallbackReturns
<1>10. CASE \E t \in Threads : Connect(t) \/ Resolved(t) \/ Disconnect(t) \/ Release(t)
  BY <1>2, <1>10, Zenon DEF Connect, Resolved, Disconnect, Release
<1>11. CASE Destroy \/ PollWait \/ TimerExpires \/ PollAcquire \/ PollPost \/ Network
  BY <1>2, <1>11, Zenon DEF Destroy, PollWait, TimerExpires, PollAcquire, PollPost, Network
<1>12. CASE UNCHANGED vars
  BY <1>2, <1>12, Zenon DEF vars
<1> QED
  BY <1>3, <1>4, <1>5, <1>6, <1>7, <1>8, <1>9, <1>10, <1>11, <1>12, ZenonT(40) DEF Next, Worker, ClosingTask

\* The handler hears of every attempt in order and of its end once, and hears
\* nothing after the client was released.
THEOREM CallbacksAreOrdered == Spec => CallbackOrder
<1>1. IndInv /\ [Next]_vars =>
        [worker'.pc = "call" /\ worker.pc # "call" => ~released]_vars
  BY StepTells, Zenon
<1>2. IndInv /\ [Next]_vars =>
        [\A a \in Attempts :
           outcome'[a] # outcome[a] =>
             /\ outcome[a] \in {"none", "connected"}
             /\ outcome'[a] = "closed" => outcome[a] = "connected"
             /\ \/ outcome[a] = "none" /\ outcome'[a] \in {"connected", "failed"}
                \/ outcome[a] = "connected" /\ outcome'[a] = "closed"
                \/ disconnects > 0]_vars
  BY StepTells, Zenon
<1> QED
  BY <1>1, <1>2, Invariance, PTL DEF Spec, CallbackOrder

\* A timeout or an event of an earlier session never closes one that is up.
THEOREM SessionsEndByTheirOwnEvents == Spec => OnlyItsOwnEvents
<1>1. ASSUME IndInv, [Next]_vars, state = "Connected", state' = "Closing"
      PROVE  \/ net[session] \in {"closed", "reset"}
             \/ worker.pc \in {"read", "call"}
             \/ disconnects > 0
  <2>1. disconnects # 0 => disconnects > 0
    BY <1>1 DEF IndInv, TypeInv
  <2>2. CASE state' = state
    BY <1>1, <2>2, Zenon
  <2>3. CASE FinishClose
    BY <1>1, <2>3, Zenon DEF FinishClose
  <2>4. CASE ConnectResolved
    BY <1>1, <2>1, <2>4, ConnectResolvedKeeps, Zenon
  <2>5. CASE HandlePollEvent
    BY <1>1, <2>1, <2>5, HandlePollEventKeeps, Zenon
  <2>6. CASE HandleReadable
    BY <2>6, Zenon DEF HandleReadable
  <2>7. CASE ClosingTask
    BY <1>1, <2>1, <2>7, ClosingTaskKeeps, Zenon
  <2>8. CASE HandleTimerEvent
    BY <1>1, <2>8, HandleTimerEventKeeps, Zenon
  <2>9. CASE CallbackReturns
    BY <2>9, Zenon DEF CallbackReturns
  <2>10. CASE \E t \in Threads : Connect(t) \/ Release(t)
    BY <1>1, <2>10, Zenon DEF Connect, Release
  <2>11. CASE (\E t \in Threads : Resolved(t) \/ Disconnect(t)) \/ Destroy \/ PollWait \/ TimerExpires
              \/ PollAcquire \/ PollPost \/ Network
    BY <2>2, <2>11, Zenon DEF Resolved, Disconnect, Destroy, PollWait, TimerExpires, PollAcquire, PollPost, Network,
       connVars
  <2>12. CASE UNCHANGED vars
    BY <2>2, <2>12, Zenon DEF vars, connVars
  <2> QED
    BY <1>1, <2>3, <2>4, <2>5, <2>6, <2>7, <2>8, <2>9, <2>10, <2>11, <2>12, Zenon DEF Next, Worker, ClosingTask
<1>2. IndInv /\ [Next]_vars =>
        [state = "Connected" /\ state' = "Closing" =>
           \/ net[session] \in {"closed", "reset"}
           \/ worker.pc \in {"read", "call"}
           \/ disconnects > 0]_vars
  BY <1>1, Zenon
<1> QED
  BY <1>2, Invariance, PTL DEF Spec, OnlyItsOwnEvents
=============================================================================
