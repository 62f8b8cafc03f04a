----------------------------- MODULE SessionIo -----------------------------
(***************************************************************************)
(* What a connected client does with its data: the read and parse budgets, *)
(* the parse continuation and the close deferred by it, the send buffer    *)
(* and what resumes reading and writing on each of the three back ends     *)
(* (src/src/net/client_connection.cc, client_connection_posix.cc with the  *)
(* epoll and kqueue pollers, client_connection_win32.cc with the           *)
(* completion port of poller_win32.cc).                                    *)
(*                                                                         *)
(* Tasks run one at a time in the order they were posted (TaskDrain), each *)
(* as one step: what a task works on only tasks touch.  A task on Windows  *)
(* also starts requests; a request is tracked before it is started, so     *)
(* nothing the poll thread does can come in between.                       *)
(* How a session is opened, and closed by a timeout, by Disconnect or by   *)
(* release, is the subject of ClientLifecycle; here a new session begins   *)
(* with a task.  Data is counted: input in bytes, FrameSize of which the   *)
(* codec takes for a message; output in units, SendSize of which are one   *)
(* SendBuffer and one slice of the send buffer.                            *)
(***************************************************************************)
EXTENDS Integers, Sequences, FiniteSets

CONSTANTS
  Senders,              \* threads that call SendBuffer
  Backends,             \* the builds: "epoll", "kqueue", "iocp"
  FrameSize,            \* bytes of a message
  kParseMessageBudget,  \* messages parsed in one go; 64 in the code
  ReadMax, WriteMax,    \* kMaxReadBytesPerEvent, kMaxWriteBytesPerEvent
  CacheSize,            \* sizeof(recv_cache_), the size of a receive request
  SendSize,             \* units of a SendBuffer
  MaxInput,             \* bound: bytes the peer sends in a session, for each build
  MaxSends,             \* bound: calls of SendBuffer
  MaxSessions,          \* bound: sessions
  MaxBacklog            \* bound: queued tasks beyond which nothing is polled

ASSUME SessionAssumption ==
  /\ Backends \subseteq {"epoll", "kqueue", "iocp"}
  /\ {FrameSize, kParseMessageBudget, ReadMax, WriteMax, CacheSize, SendSize} \subseteq Nat \ {0}
  /\ MaxInput \in [{"epoll", "kqueue", "iocp"} -> Nat]
  /\ {MaxSends, MaxSessions, MaxBacklog} \subseteq Nat

VARIABLES
  backend,    \* which of the Backends this build has
  connected, session,
  closed,     \* the CloseReason the session ended with
  tasks,
  todo,       \* what the task in progress has still to do: "write", "recv" or nothing
  recv,       \* bytes in recv_buffer_
  continuing, \* parse_continuation_pending_
  deferred,   \* deferred_close_pending_, with its reason
  send,       \* units in send_buffer_
  pending,    \* pending_bytes_
  writable,   \* poll_interest_ has kPollWritable
  receiving,  \* recv_pending_
  sending,    \* send_pending_
  requests,   \* PollerState::requests: the requests the kernel works on, or has
              \* completed without PollOne having taken the packet
  api,        \* senders that saw IsConnected and have still to post
  sends,      \* calls of SendBuffer so far
  peer        \* sent, received: bytes; frames: messages handed to OnMessage;
              \* fin, reset: it closed; heard: units it got

inputVars == <<recv, continuing, deferred>>
outputVars == <<send, pending, writable>>
requestVars == <<receiving, sending, requests>>
bufferVars == <<connected, closed, inputVars, outputVars, requestVars>>
vars == <<backend, session, tasks, todo, bufferVars, api, sends, peer>>

Smaller(m, n) == IF m <= n THEN m ELSE n

NoClose == "-"
Nothing == "-"
FreshPeer == [sent |-> 0, received |-> 0, frames |-> 0, heard |-> 0, fin |-> FALSE, reset |-> FALSE]

\* A request of the completion port and what became of it.
InKernel == -2
Failed == -1
Request(op, of, size) == [op |-> op, of |-> of, size |-> size, bytes |-> InKernel]

Init ==
  /\ backend \in Backends
  /\ connected = TRUE /\ session = 1 /\ closed = NoClose
  /\ tasks = <<>> /\ todo = Nothing
  /\ recv = 0 /\ continuing = FALSE /\ deferred = NoClose
  /\ send = 0 /\ pending = 0 /\ writable = FALSE
  /\ receiving = (backend = "iocp") /\ sending = FALSE
  /\ requests = IF backend = "iocp" THEN {Request("recv", 1, CacheSize)} ELSE {}
  /\ api = {}
  /\ sends = 0
  /\ peer = FreshPeer

Task(kind) == [kind |-> kind, of |-> 0]

-----------------------------------------------------------------------------
(* SendBuffer *)

SendCheck(t) ==
  /\ t \notin api
  /\ sends < MaxSends
  /\ connected
  /\ sends' = sends + 1
  /\ api' = api \cup {t}
  /\ UNCHANGED <<backend, session, tasks, todo, bufferVars, peer>>

SendPost(t) ==
  /\ t \in api
  /\ tasks' = Append(tasks, Task("send"))
  /\ api' = api \ {t}
  /\ UNCHANGED <<backend, session, todo, bufferVars, sends, peer>>

-----------------------------------------------------------------------------
(* Closing, and what resumes input and output *)

PlatformResetIoState == receiving' = FALSE /\ sending' = FALSE

ResetAfterClose ==
  /\ recv' = 0 /\ continuing' = FALSE /\ deferred' = NoClose
  /\ send' = 0 /\ pending' = 0 /\ writable' = FALSE
  /\ PlatformResetIoState

\* StartClose and FinishClose.  Requests the kernel still has are cancelled,
\* which is seen when their packets are taken.
StartClose(reason) ==
  /\ connected' = FALSE /\ closed' = reason
  /\ ResetAfterClose

\* The Windows poller's StartRecv and StartSend, when they succeed; one that
\* fails takes its request off again.
StartRecv(of) == requests' = requests \cup {Request("recv", of, CacheSize)}
StartSend(of, size) == requests' = requests \cup {Request("send", of, size)}

\* PlatformStartRecv on Windows, where nothing is being received.
PlatformStartRecv(of) == receiving' = TRUE /\ StartRecv(of)

\* The slice at the front of the send buffer, of which a part may have been sent.
Front(rest) == IF rest % SendSize = 0 THEN SendSize ELSE rest % SendSize

\* Mutant: interest in writability is not renewed while there is output left.
PlatformStartSendLate(rest, busy) ==
  /\ writable' = (writable /\ rest > 0)
  /\ UNCHANGED <<sending, requests>>

\* PlatformStartSend with rest in the send buffer.  On POSIX it asks the poller
\* for writability.
PlatformStartSendPosix(rest) ==
  /\ writable' = (rest > 0)
  /\ UNCHANGED <<sending, requests>>

\* On Windows it starts sending the front slice unless one is being sent.
PlatformStartSendWin32(rest, busy) ==
  /\ sending' = (busy \/ rest > 0)
  /\ IF busy \/ rest = 0 THEN UNCHANGED requests ELSE StartSend(session, Front(rest))
  /\ UNCHANGED writable

PlatformStartSend(rest, busy) ==
  IF backend = "iocp" THEN PlatformStartSendWin32(rest, busy) ELSE PlatformStartSendPosix(rest)

\* The poller is asked, and may refuse, only when the interest changes; a
\* request may be refused whenever one is started.
PlatformStartSendMayFail(rest, busy) ==
  IF backend = "iocp" THEN ~busy /\ rest > 0 ELSE writable # (rest > 0)

UpdateWriteInterest(rest, bytes, busy) ==
  \/ /\ send' = rest /\ pending' = bytes
     /\ PlatformStartSend(rest, busy)
     /\ UNCHANGED <<connected, closed, inputVars, receiving>>
  \/ PlatformStartSendMayFail(rest, busy) /\ StartClose("Error") /\ UNCHANGED requests

-----------------------------------------------------------------------------
(* Tasks *)

Takes(kind) ==
  /\ todo = Nothing
  /\ tasks # <<>>
  /\ Head(tasks).kind = kind

Done == tasks' = Tail(tasks)

\* The task of SendBuffer.
SendTask ==
  /\ Takes("send")
  /\ Done
  /\ IF connected
       THEN UpdateWriteInterest(send + SendSize, pending + SendSize, sending)
       ELSE UNCHANGED bufferVars
  /\ UNCHANGED <<backend, session, todo, api, sends, peer>>

\* PlatformHandleWritable: the kernel takes n units, or refuses with an error.  The
\* last slice may exceed the budget.
HandleWritable ==
  \/ \E n \in 0 .. Smaller(send, WriteMax + SendSize - 1) :
       /\ UpdateWriteInterest(send - n, pending - n, sending)
       /\ peer' = [peer EXCEPT !.heard = @ + n]
  \/ peer.reset /\ send > 0 /\ StartClose("Error") /\ UNCHANGED <<requests, peer>>

\* ParseInput with total bytes buffered, after recv found a reason to close or
\* not.  What it leaves behind is parsed by a continuation, and a close waits
\* for that.
Messages(total) == Smaller(total \div FrameSize, kParseMessageBudget)
Rest(total) == total - Messages(total) * FrameSize

\* Mutant: the parser yields only beyond its budget.
YieldsLate(total) == Messages(total) > kParseMessageBudget /\ Rest(total) > 0

Yields(total) == Messages(total) >= kParseMessageBudget /\ Rest(total) > 0

\* What FinishDeferredClose or, without a deferred close, HandleReadable closes with.
Reason(close) == IF deferred # NoClose THEN deferred ELSE close

\* Mutant: a parser that yields does not hold back the close.
ClosesAtOnce(total, close) == close # NoClose \/ (deferred # NoClose /\ ~Yields(total))

Closes(total, close) == Reason(close) # NoClose /\ ~Yields(total)

\* ScheduleParseContinuation, at the end of a task; ParseInput has reset
\* parse_continuation_pending_, so that it posts.
ScheduleParseContinuation == Append(Tail(tasks), Task("continue"))

\* Called with read more bytes taken from the socket and recv_pending_ = busy.
ParseInput(total, close, read, busy) ==
  /\ \/ /\ IF Closes(total, close)
             THEN StartClose(Reason(close))
             ELSE /\ recv' = Rest(total)
                  /\ continuing' = Yields(total)
                  /\ deferred' = IF close # NoClose THEN close ELSE deferred
                  /\ receiving' = busy
                  /\ UNCHANGED <<connected, closed, outputVars, sending>>
        /\ tasks' = IF Yields(total) /\ ~Closes(total, close)
                      THEN ScheduleParseContinuation
                      ELSE Tail(tasks)
        /\ peer' = [peer EXCEPT !.received = @ + read, !.frames = @ + Messages(total)]
     \/ /\ \E k \in 0 .. kParseMessageBudget - 1 :   \* Decode fails
             /\ k * FrameSize < total
             /\ peer' = [peer EXCEPT !.received = @ + read, !.frames = @ + k]
        /\ StartClose("Error")
        /\ Done
  /\ UNCHANGED requests

\* The task of ScheduleParseContinuation.
ContinueTask ==
  /\ Takes("continue")
  /\ IF connected
       THEN ParseInput(recv, NoClose, 0, receiving)
       ELSE Done /\ UNCHANGED <<bufferVars, peer>>
  /\ UNCHANGED <<backend, session, todo, api, sends>>

-----------------------------------------------------------------------------
(* Events of the POSIX pollers *)

\* How much the loop of recv reads: what is there or, until the budget is used
\* up, a part of it; the last recv may exceed the budget by less than its buffer.
Reads ==
  LET there == peer.sent - peer.received IN
  IF there < ReadMax THEN {there} ELSE ReadMax .. Smaller(there, ReadMax + CacheSize - 1)

\* How recv ends, having read so much: a used-up budget hides the end.
RecvEnds(read) ==
  CASE read >= ReadMax -> NoClose
    [] read < ReadMax /\ peer.reset -> "Error"
    [] read < ReadMax /\ peer.fin /\ ~peer.reset -> "RemoteClosed"
    [] OTHER -> NoClose

\* Mutant: the end of the stream counts only when nothing is buffered.
HandleReadableIgnoresEnd ==
  \E read \in Reads :
    ParseInput(recv + read, IF recv + read = 0 THEN RecvEnds(read) ELSE NoClose, read, FALSE)

\* HandleReadable: recv up to the budget, then ParseInput.
HandleReadable ==
  \E read \in Reads : ParseInput(recv + read, RecvEnds(read), read, FALSE)

\* Whether HandlePollEvent turns the event away.
Stale(ev) == ev.of # session \/ ~connected

\* HandlePollEvent: an error closes at once; then input, then output.  Handler
\* callbacks come in between, so the output part is a step of its own.
HandlePollEvent ==
  /\ Takes("event")
  /\ LET ev == Head(tasks) IN
     IF Stale(ev)
       THEN Done /\ UNCHANGED <<todo, bufferVars, peer>>
     ELSE IF "error" \in ev.events
       THEN Done /\ StartClose("Error") /\ UNCHANGED <<todo, requests, peer>>
     ELSE IF "readable" \in ev.events
       THEN HandleReadable /\ todo' = IF connected' /\ "writable" \in ev.events THEN "write" ELSE Nothing
       ELSE Done /\ HandleWritable /\ UNCHANGED todo
  /\ UNCHANGED <<backend, session, api, sends>>

HandlePollEventWrites ==
  /\ todo = "write"
  /\ todo' = Nothing
  /\ HandleWritable
  /\ UNCHANGED <<backend, session, tasks, api, sends>>

-----------------------------------------------------------------------------
(* Completions of the Windows back end *)

CompletionTask(op) == Takes("completion") /\ Head(tasks).op = op

\* HandleRecvCompletion: the bytes are parsed and the next request is started,
\* after the handler callbacks and hence as a step of its own.
HandleRecvCompletion ==
  /\ CompletionTask("recv")
  /\ LET ev == Head(tasks) IN
     IF Stale(ev)
       THEN Done /\ UNCHANGED <<todo, bufferVars, peer>>
     ELSE IF ev.bytes = Failed
       THEN Done /\ StartClose("Error") /\ UNCHANGED <<todo, requests, peer>>
     ELSE IF ev.bytes = 0 /\ recv > 0 /\ continuing
       THEN /\ Done
            /\ deferred' = "RemoteClosed" /\ receiving' = FALSE
            /\ UNCHANGED <<todo, connected, closed, recv, continuing, outputVars, sending, requests, peer>>
     ELSE IF ev.bytes = 0
       THEN ParseInput(recv, "RemoteClosed", 0, FALSE) /\ UNCHANGED todo
       ELSE ParseInput(recv + ev.bytes, NoClose, 0, FALSE) /\ todo' = IF connected' THEN "recv" ELSE Nothing
  /\ UNCHANGED <<backend, session, api, sends>>

HandleRecvCompletionReceives ==
  /\ todo = "recv"
  /\ todo' = Nothing
  /\ \/ PlatformStartRecv(session) /\ UNCHANGED <<connected, closed, inputVars, outputVars, sending>>
     \/ StartClose("Error") /\ UNCHANGED requests
  /\ UNCHANGED <<backend, session, tasks, api, sends, peer>>

\* Mutant: what has been sent of the front slice is not taken off.
HandleSendCompletionRepeats ==
  /\ CompletionTask("send")
  /\ Done
  /\ LET ev == Head(tasks) IN
     CASE Stale(ev) -> UNCHANGED bufferVars
       [] ~Stale(ev) /\ ev.bytes = Failed -> StartClose("Error") /\ UNCHANGED requests
       [] OTHER -> LET sent == IF ev.bytes < SendSize THEN 0 ELSE ev.bytes IN
                   UpdateWriteInterest(send - sent, pending - sent, FALSE)
  /\ UNCHANGED <<backend, session, todo, api, sends, peer>>

HandleSendCompletion ==
  /\ CompletionTask("send")
  /\ Done
  /\ LET ev == Head(tasks) IN
     CASE Stale(ev) -> UNCHANGED bufferVars
       [] ~Stale(ev) /\ ev.bytes = Failed -> StartClose("Error") /\ UNCHANGED requests
       [] OTHER -> UpdateWriteInterest(send - ev.bytes, pending - ev.bytes, FALSE)
  /\ UNCHANGED <<backend, session, todo, api, sends, peer>>

-----------------------------------------------------------------------------
(* The next session *)

\* On Windows the first receive request.
PlatformAfterConnected ==
  IF backend = "iocp" THEN PlatformStartRecv(session') ELSE UNCHANGED <<receiving, requests>>

\* HandleConnected.  PlatformAfterConnected may fail, when the poller refuses the
\* interest in input or the request, and the session then ends before OnConnected.
OpenTask ==
  /\ Takes("open")
  /\ Done
  /\ session' = session + 1
  /\ peer' = FreshPeer
  /\ \/ /\ connected' = TRUE /\ closed' = NoClose
        /\ PlatformAfterConnected
     \/ /\ closed' = "ConnectFailed"
        /\ UNCHANGED <<connected, receiving, requests>>
  /\ UNCHANGED <<backend, todo, inputVars, outputVars, sending, api, sends>>

Drain ==
  \/ SendTask \/ ContinueTask \/ OpenTask
  \/ HandlePollEvent \/ HandlePollEventWrites
  \/ HandleRecvCompletion \/ HandleRecvCompletionReceives \/ HandleSendCompletion

\* The application calls Connect after the close, and that is successful.
Reconnect ==
  /\ ~connected
  /\ session < MaxSessions
  /\ \A i \in DOMAIN tasks : tasks[i].kind # "open"
  /\ tasks' = Append(tasks, Task("open"))
  /\ UNCHANGED <<backend, session, todo, bufferVars, api, sends, peer>>

-----------------------------------------------------------------------------
(* The poll thread and the kernel *)

Readable == IF peer.sent > peer.received \/ peer.fin \/ peer.reset THEN {"readable"} ELSE {}
Writable == IF writable THEN {"writable"} ELSE {}
Broken == IF peer.reset THEN {"error"} ELSE {}

\* The entry of a report, if there is something to report.
Entry(events) == IF events = {} THEN <<>> ELSE <<events>>

\* What epoll_wait reports of the connection: one entry.
EpollReports == {Entry(Readable \cup Writable \cup Broken)}

\* What kevent reports: an entry for each filter, in either order; that the
\* connection is broken shows with the write filter.
KqueueReports ==
  LET write == IF writable THEN Writable \cup Broken ELSE {} IN
  {Entry(Readable) \o Entry(write), Entry(write) \o Entry(Readable)}

\* A turn of the poll thread: what the poller reports is posted, entry by entry.
Poll ==
  /\ backend # "iocp"
  /\ connected
  /\ Len(tasks) < MaxBacklog
  /\ \E report \in (IF backend = "epoll" THEN EpollReports ELSE KqueueReports) :
       /\ report # <<>>
       /\ tasks' = tasks \o [i \in DOMAIN report |->
                               [kind |-> "event", of |-> session, events |-> report[i]]]
  /\ UNCHANGED <<backend, session, todo, bufferVars, api, sends, peer>>

UntrackRequest(r) == requests' = requests \ {r}

\* PollOne and the look for the connection: the packet of a request of a session
\* that is over finds none.
PollOne ==
  /\ Len(tasks) < MaxBacklog
  /\ \E r \in requests :
       /\ r.bytes # InKernel
       /\ UntrackRequest(r)
       /\ tasks' = IF Stale(r) THEN tasks
                   ELSE Append(tasks, [kind |-> "completion", of |-> r.of, op |-> r.op, bytes |-> r.bytes])
  /\ UNCHANGED <<backend, session, todo, connected, closed, inputVars, outputVars, receiving, sending,
                 api, sends, peer>>

Complete(r, bytes) == requests' = (requests \ {r}) \cup {[r EXCEPT !.bytes = bytes]}

\* The kernel completes a request.
Kernel ==
  /\ \E r \in requests :
       /\ r.bytes = InKernel
       /\ \/ /\ Stale(r) \/ peer.reset
             /\ Complete(r, Failed)
             /\ UNCHANGED peer
          \/ /\ ~Stale(r) /\ ~peer.reset /\ r.op = "recv"
             /\ LET read == Smaller(peer.sent - peer.received, CacheSize) IN
                /\ read > 0 \/ peer.fin
                /\ Complete(r, read)
                /\ peer' = [peer EXCEPT !.received = @ + read]
          \/ /\ ~Stale(r) /\ ~peer.reset /\ r.op = "send"
             /\ \E n \in 1 .. r.size :
                  /\ Complete(r, n)
                  /\ peer' = [peer EXCEPT !.heard = @ + n]
  /\ UNCHANGED <<backend, session, tasks, todo, connected, closed, inputVars, outputVars, receiving, sending,
                 api, sends>>

Peer ==
  /\ connected
  /\ ~peer.reset
  /\ \/ /\ ~peer.fin
        /\ \E n \in 1 .. MaxInput[backend] - peer.sent : peer' = [peer EXCEPT !.sent = @ + n]
     \/ /\ ~peer.fin
        /\ peer' = [peer EXCEPT !.fin = TRUE]
     \/ peer' = [peer EXCEPT !.reset = TRUE]
  /\ UNCHANGED <<backend, session, tasks, todo, bufferVars, api, sends>>

Next ==
  \/ \E t \in Senders : SendCheck(t) \/ SendPost(t)
  \/ Drain
  \/ Reconnect
  \/ Poll
  \/ PollOne
  \/ Kernel
  \/ Peer

Spec == Init /\ [][Next]_vars

\* The worker, the poll thread and the kernel do not all stop while one of them
\* can go on: the worker drains the queue, the poll thread polls, and the kernel
\* completes the requests it can.  None needs to be fair to the others, since each
\* runs out of things to do.
FairSpec == Spec /\ WF_vars(Drain \/ Poll \/ PollOne \/ Kernel)

-----------------------------------------------------------------------------
(* Properties *)

\* The completions of this session that its tasks have still to see.
UnderWay(op) ==
  {r \in requests : r.op = op /\ r.of = session}
    \cup {tasks[i] : i \in {j \in DOMAIN tasks : tasks[j].kind = "completion" /\ tasks[j].op = op
                                                   /\ tasks[j].of = session}}

\* Output never stalls: while there is some, the poller watches the socket for
\* writability or, on Windows, exactly one send request is under way.  And
\* pending_bytes_, which GetMetrics reports, is what there is, through partial
\* writes, budgets, closes and new sessions.
NoStalledOutput ==
  /\ pending = send
  /\ connected /\ send > 0 => IF backend = "iocp" THEN Cardinality(UnderWay("send")) = 1 ELSE writable

\* Input never stalls: while a whole message is buffered, or a close waits for
\* the buffer, a continuation is queued that no event of the peer is needed for;
\* and on Windows exactly one receive request is under way until the peer's
\* close has been seen, also after sessions that ended with theirs still open.
NoForgottenInput ==
  connected =>
    /\ recv >= FrameSize \/ deferred # NoClose => \E i \in DOMAIN tasks : tasks[i].kind = "continue"
    /\ backend = "iocp" /\ deferred = NoClose /\ todo # "recv" => Cardinality(UnderWay("recv")) = 1

\* Units the peer got whose completion no task has seen; one send is under way.
Unhandled == UNION {IF r.bytes > 0 THEN 1 .. r.bytes ELSE {} : r \in UnderWay("send")}

\* A peer gets whole messages: what it heard and what is still buffered for it
\* make up whole SendBuffers, through partial writes and completions and when
\* the task of a SendBuffer runs in a later session than its caller looked at.
WholeMessages == connected => (peer.heard - Cardinality(Unhandled) + send) % SendSize = 0

\* When the client closes because the peer did (kRemoteClosed), every message the
\* peer sent has been handed to OnMessage, wherever the budgets cut its input.
FramesBeforeClose ==
  [][connected /\ closed' = "RemoteClosed" => peer'.frames = peer.sent \div FrameSize]_vars

\* When the peer has closed the connection, orderly or with a reset, the client
\* closes, whatever was deferred.
PeerCloseIsNoticed == peer.fin \/ peer.reset ~> ~connected
=============================================================================
