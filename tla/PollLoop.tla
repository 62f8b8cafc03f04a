------------------------------ MODULE PollLoop ------------------------------
(***************************************************************************)
(* The poll thread and its timers: GlobalRuntime::PollLoop and Stop        *)
(* (src/src/net/runtime.cc), TimerQueue (timer_queue.cc), and Wake and     *)
(* Wait of the three pollers (poller_linux.cc, poller_kqueue.cc and        *)
(* poller_win32.cc).                                                       *)
(*                                                                         *)
(* Time is discrete.  The clock moves while the poll thread sleeps in Wait *)
(* with no reason to return, and by at most MaxLag while it goes through   *)
(* the rest of its loop; it does not move between adding a timer and       *)
(* waking the poller.  A timer that is later than that is late because of  *)
(* the algorithm.                                                          *)
(***************************************************************************)
EXTENDS Integers, FiniteSets

CONSTANTS
  Backends,          \* the builds: "epoll", "kqueue", "iocp"
  PipeSize,          \* what the wake pipe of the kqueue poller holds
  Connectors,        \* threads that arm a connect timeout
  Timeouts,          \* values of connect_timeout_ms, positive
  kMaxPollTimeoutMs, \* 1000 in the code
  MaxLag,            \* what one turn of the loop takes
  MaxTime            \* bound: the last instant at which a timer is armed

ASSUME LoopAssumption ==
  /\ Backends \subseteq {"epoll", "kqueue", "iocp"} /\ PipeSize \in Nat \ {0}
  /\ Timeouts \subseteq Nat \ {0}
  /\ kMaxPollTimeoutMs \in Nat \ {0} /\ MaxLag \in Nat /\ MaxTime \in Nat

\* Beyond every instant that is reached.
Never == 1000000

VARIABLES
  backend,   \* which of the Backends this build has
  now, running,
  timers,    \* pending: the thread that armed each, and its deadline
  wakeups,   \* the eventfd is readable (1); bytes in the pipe; packets without a request
  poll,      \* where the poll thread is
  timeout,   \* the timeout it computed
  until,     \* when the wait times out
  lag,       \* how far the clock has moved in this turn of the loop
  arm,       \* per connector: idle, added (the timer, not yet the wake), done
  stop       \* Stop: idle, asked, woken, joined

pollVars == <<poll, timeout, until, lag>>
loopVars == <<backend, now, running, timers, wakeups, pollVars, arm, stop>>

LoopInit ==
  /\ backend \in Backends
  /\ now = 0 /\ running = TRUE
  /\ timers = {} /\ wakeups = 0
  /\ poll = "top" /\ timeout = 0 /\ until = 0 /\ lag = 0
  /\ arm = [c \in Connectors |-> "idle"]
  /\ stop = "idle"

-----------------------------------------------------------------------------
(* TimerQueue *)

Add(c, deadline) == timers' = timers \cup {[of |-> c, deadline |-> deadline]}

NextTimeoutMs ==
  LET diffs == {t.deadline - now : t \in timers}
      diff == CHOOSE d \in diffs : \A e \in diffs : d <= e
  IN  IF timers = {} THEN kMaxPollTimeoutMs
      ELSE IF diff <= 0 THEN 0
      ELSE IF diff > kMaxPollTimeoutMs THEN kMaxPollTimeoutMs ELSE diff

PopExpired == timers' = {t \in timers : t.deadline > now}

-----------------------------------------------------------------------------
(* PollLoop *)

LoopTop ==
  /\ poll = "top"
  /\ IF running
       THEN poll' = "enter" /\ timeout' = NextTimeoutMs
       ELSE poll' = "gone" /\ UNCHANGED timeout
  /\ UNCHANGED <<backend, now, running, timers, wakeups, until, lag, arm, stop>>

\* The wait begins; a negative timeout would be none.
WaitEnter ==
  /\ poll = "enter"
  /\ poll' = "wait"
  /\ until' = IF timeout < 0 THEN Never ELSE now + timeout
  /\ UNCHANGED <<backend, now, running, timers, wakeups, timeout, lag, arm, stop>>

MustReturn == wakeups > 0 \/ now >= until

\* What Wait leaves of the wakeups it finds: epoll_wait and kevent report the
\* descriptor once and it is read empty; PollOne takes one packet.
WaitEventfd == 0
WaitPipe == 0
WaitPort == IF wakeups > 0 THEN wakeups - 1 ELSE 0

WaitTakes ==
  CASE backend = "epoll" -> WaitEventfd
    [] backend = "kqueue" -> WaitPipe
    [] backend = "iocp" -> WaitPort

\* Wait returns because of a wakeup or the timeout.
Wait ==
  /\ poll = "wait"
  /\ MustReturn
  /\ wakeups' = WaitTakes
  /\ poll' = "dispatch"
  /\ lag' = 0
  /\ UNCHANGED <<backend, now, running, timers, timeout, until, arm, stop>>

\* Wait returns for a socket, or is interrupted.  A wakeup may be among what it
\* reports; on Windows it ends the report.
WaitSocket ==
  /\ poll = "wait"
  /\ wakeups' \in {wakeups, WaitTakes}
  /\ poll' = "dispatch"
  /\ lag' = 0
  /\ UNCHANGED <<backend, now, running, timers, timeout, until, arm, stop>>

\* The events are posted, then the expired timers.
Dispatch ==
  /\ poll = "dispatch"
  /\ PopExpired
  /\ poll' = "top"
  /\ UNCHANGED <<backend, now, running, wakeups, timeout, until, lag, arm, stop>>

-----------------------------------------------------------------------------
(* Poller::Wake: an eventfd counts in one word, a full pipe refuses the byte, *)
(* a completion port queues a packet.                                         *)

WakeEventfd == 1
WakePipe == IF wakeups < PipeSize THEN wakeups + 1 ELSE wakeups
WakePort == wakeups + 1

Wake ==
  wakeups' = CASE backend = "epoll" -> WakeEventfd
               [] backend = "kqueue" -> WakePipe
               [] backend = "iocp" -> WakePort

-----------------------------------------------------------------------------
(* ConnectResolved: timers().Add, then poller().Wake *)

ArmAdd(c) ==
  /\ arm[c] = "idle"
  /\ stop = "idle"
  /\ now <= MaxTime
  /\ \E t \in Timeouts : Add(c, now + t)
  /\ arm' = [arm EXCEPT ![c] = "added"]
  /\ UNCHANGED <<backend, now, running, wakeups, pollVars, stop>>

\* Mutant: the poller is not woken.
ArmWakeForgotten(c) ==
  /\ arm[c] = "added"
  /\ arm' = [arm EXCEPT ![c] = "done"]
  /\ UNCHANGED <<backend, now, running, timers, wakeups, pollVars, stop>>

ArmWake(c) ==
  /\ arm[c] = "added"
  /\ Wake
  /\ arm' = [arm EXCEPT ![c] = "done"]
  /\ UNCHANGED <<backend, now, running, timers, pollVars, stop>>

-----------------------------------------------------------------------------
(* GlobalRuntime::Stop *)

StopAsk ==
  /\ stop = "idle"
  /\ \A c \in Connectors : arm[c] # "added"
  /\ running' = FALSE
  /\ stop' = "asked"
  /\ UNCHANGED <<backend, now, timers, wakeups, pollVars, arm>>

\* Mutant: the poll thread finds out when its wait times out.
StopWakeForgotten ==
  /\ stop = "asked"
  /\ stop' = "woken"
  /\ UNCHANGED <<backend, now, running, timers, wakeups, pollVars, arm>>

StopWake ==
  /\ stop = "asked"
  /\ Wake
  /\ stop' = "woken"
  /\ UNCHANGED <<backend, now, running, timers, pollVars, arm>>

\* join, then timers_.Clear.
StopJoin ==
  /\ stop = "woken"
  /\ poll = "gone"
  /\ timers' = {}
  /\ stop' = "joined"
  /\ UNCHANGED <<backend, now, running, wakeups, pollVars, arm>>

ClockMayMove ==
  /\ \A c \in Connectors : arm[c] # "added"
  /\ stop # "asked"
  /\ now <= MaxTime \/ timers # {}

Tick ==
  /\ ClockMayMove
  /\ \/ poll = "wait" /\ ~MustReturn /\ UNCHANGED lag
     \/ poll \in {"top", "enter", "dispatch"} /\ lag < MaxLag /\ lag' = lag + 1
  /\ now' = now + 1
  /\ UNCHANGED <<backend, running, timers, wakeups, poll, timeout, until, arm, stop>>

Loop == LoopTop \/ WaitEnter \/ Wait \/ Dispatch

LoopNext ==
  \/ Loop
  \/ WaitSocket
  \/ \E c \in Connectors : ArmAdd(c) \/ ArmWake(c)
  \/ StopAsk
  \/ StopWake
  \/ StopJoin
  \/ Tick

LoopSpec == LoopInit /\ [][LoopNext]_loopVars

\* The poll thread runs and Stop goes on; the clock owes nothing.
Fairness ==
  WF_loopVars(Loop) /\ WF_loopVars(StopWake) /\ WF_loopVars(StopJoin)

FairSpec == LoopSpec /\ Fairness

-----------------------------------------------------------------------------
(* Properties *)

\* A connect timeout is never later than the two turns of the loop that may be
\* under way when it is due: whether it was armed before the poll thread
\* computed its timeout, between that and the wait, or while it slept, and
\* whatever a wakeup is on the back end: a flag, a byte or a packet.
Punctual == running => \A t \in timers : t.deadline + 2 * MaxLag >= now

\* Stop joins the poll thread without waiting for the poll timeout: it returns
\* although the clock stands still.
StopReturns == stop = "asked" ~> stop = "joined"
=============================================================================
