-------------------------- MODULE SessionIoProofs --------------------------
(***************************************************************************)
(* A session's data, for any senders, sizes, budgets and numbers of        *)
(* sessions, on the three back ends: neither input nor output stalls,      *)
(* pending_bytes_ is exact, peers get whole messages, and a close by the   *)
(* peer is seen after its messages.                                        *)
(*                                                                         *)
(* On Windows the argument is about the one completion of a session that   *)
(* is under way for each direction, as a request or as a task, and what it *)
(* will bring: bytes that have left the socket and are in no book yet.     *)
(***************************************************************************)
EXTENDS SessionIo, TLAPS

-----------------------------------------------------------------------------
(* The invariant. *)

Ops == {"recv", "send"}

TaskRecords ==
  [kind : {"send", "continue", "open"}, of : {0}]
  \cup [kind : {"event"}, of : Nat, events : SUBSET {"readable", "writable", "error"}]
  \cup [kind : {"completion"}, of : Nat, op : Ops, bytes : Int]

RequestRecords == [op : Ops, of : Nat, size : Nat, bytes : Int]

TypeInv ==
  /\ backend \in {"epoll", "kqueue", "iocp"} /\ connected \in BOOLEAN /\ session \in Nat
  /\ tasks \in Seq(TaskRecords) /\ todo \in {Nothing, "write", "recv"}
  /\ recv \in Nat /\ continuing \in BOOLEAN /\ send \in Nat
  /\ writable \in BOOLEAN /\ receiving \in BOOLEAN /\ sending \in BOOLEAN
  /\ requests \subseteq RequestRecords
  /\ peer \in [sent : Nat, received : Nat, frames : Nat, heard : Nat, fin : BOOLEAN, reset : BOOLEAN]

\* What may be queued or requested: nothing of a session to come, one open and
\* only while closed, events on POSIX and completions on Windows.
QueueInv ==
  /\ \A i \in 1 .. Len(tasks) : tasks[i].of <= session
  /\ \A i \in 1 .. Len(tasks) : tasks[i].kind = "open" => ~connected
  /\ \A i, j \in 1 .. Len(tasks) : tasks[i].kind = "open" /\ tasks[j].kind = "open" => i = j
  /\ \A i \in 1 .. Len(tasks) : tasks[i].kind = "event" => backend # "iocp"
  /\ \A i \in 1 .. Len(tasks) : tasks[i].kind = "completion" => backend = "iocp"

RequestInv ==
  /\ \A r \in requests : r.of <= session
  /\ backend # "iocp" => requests = {} /\ ~receiving /\ ~sending

\* What a task has left to do is for an open session.
TodoInv ==
  /\ todo # Nothing => connected
  /\ todo = "write" => backend # "iocp"
  /\ todo = "recv" => backend = "iocp"

\* ResetAfterClose leaves nothing to the next session.
ClosedInv ==
  IF connected THEN closed = NoClose
  ELSE /\ recv = 0 /\ ~continuing /\ deferred = NoClose
       /\ send = 0 /\ ~writable /\ ~receiving /\ ~sending

OutputInv ==
  /\ pending = send
  /\ connected => ((send > 0) <=> IF backend = "iocp" THEN sending ELSE writable)

Continues == \E i \in 1 .. Len(tasks) : tasks[i].kind = "continue"

InputInv ==
  connected =>
    /\ recv >= FrameSize \/ deferred # NoClose \/ continuing => Continues
    /\ backend = "iocp" => (receiving <=> deferred = NoClose /\ todo # "recv")
    /\ todo = "recv" => deferred = NoClose

\* When the end of the stream has been seen, all of it has been received.
AllReceived == peer.fin /\ peer.received = peer.sent

EndInv ==
  /\ peer.received <= peer.sent
  /\ connected /\ deferred = "RemoteClosed" => AllReceived

\* The completions of this session: the queued ones and the requests.
IsQueued(i, op) == tasks[i].kind = "completion" /\ tasks[i].op = op /\ tasks[i].of = session
NoneQueued(op) == \A i \in 1 .. Len(tasks) : ~IsQueued(i, op)
OneQueued(op, b) ==
  \E i \in 1 .. Len(tasks) : /\ IsQueued(i, op) /\ tasks[i].bytes = b
                             /\ \A j \in 1 .. Len(tasks) : IsQueued(j, op) => j = i

IsRequested(r, op) == r.op = op /\ r.of = session
NoneRequested(op) == \A r \in requests : ~IsRequested(r, op)
OneRequested(op, b) ==
  \E r \in requests : /\ IsRequested(r, op) /\ r.bytes = b
                      /\ \A q \in requests : IsRequested(q, op) => q = r

\* One completion is under way and will bring b, or none is.
OneFlies(op, b) ==
  \/ OneRequested(op, b) /\ NoneQueued(op)
  \/ NoneRequested(op) /\ OneQueued(op, b) /\ b # InKernel
NoneFlies(op) == NoneRequested(op) /\ NoneQueued(op)

Results == {InKernel, Failed} \cup Nat
Moved(b) == IF b > 0 THEN b ELSE 0

\* What was received is in a message, in recv_buffer_ or in a completion, and a
\* completion without bytes means the end of the stream.
RecvBooks(b) ==
  /\ peer.received = peer.frames * FrameSize + recv + Moved(b)
  /\ b = 0 => AllReceived

Whole(n) == n % SendSize = 0

\* What was sent and is known to be so, and what is buffered, are whole SendBuffers.
SendBooks(b) ==
  /\ Moved(b) <= peer.heard /\ b <= send
  /\ Whole(peer.heard - Moved(b) + send)

RecvInv ==
  connected => IF receiving THEN \E b \in Results : OneFlies("recv", b) /\ RecvBooks(b)
               ELSE NoneFlies("recv") /\ RecvBooks(InKernel)

SendInv ==
  connected => /\ IF sending THEN \E b \in Results : OneFlies("send", b) /\ SendBooks(b)
                  ELSE NoneFlies("send") /\ SendBooks(InKernel)
               /\ \A r \in requests : IsRequested(r, "send") => r.size <= send

IndInv ==
  /\ TypeInv /\ QueueInv /\ RequestInv /\ TodoInv /\ ClosedInv
  /\ OutputInv /\ InputInv /\ EndInv /\ RecvInv /\ SendInv

-----------------------------------------------------------------------------
(* Arithmetic. *)

\* Quotient and remainder.
LEMMA Division ==
  ASSUME NEW a \in Nat, NEW n \in Nat \ {0}
  PROVE  \E q \in Nat : \E r \in 0 .. n - 1 : q = a \div n /\ r = a % n /\ a = q * n + r
<1>1. a \div n \in Nat
  OBVIOUS
<1>2. a % n \in 0 .. n - 1
  OBVIOUS
<1>3. PICK q \in Nat : q = a \div n
  BY <1>1, Zenon
<1>4. PICK r \in 0 .. n - 1 : r = a % n
  BY <1>2, Zenon
<1>5. a = q * n + r
  BY <1>3, <1>4
<1> QED
  BY <1>3, <1>4, <1>5, Zenon

LEMMA QuotientIs ==
  ASSUME NEW q \in Nat, NEW r \in Nat, NEW n \in Nat \ {0}, r < n
  PROVE  (q * n + r) \div n = q
  OBVIOUS

LEMMA Multiple ==
  ASSUME NEW q \in Nat, NEW n \in Nat \ {0}
  PROVE  (q * n) % n = 0
  OBVIOUS

\* A SendBuffer more keeps the sum whole.
LEMMA OneMore ==
  ASSUME NEW a \in Nat, NEW n \in Nat \ {0}, a % n = 0
  PROVE  (a + n) % n = 0
<1>1. PICK q \in Nat : a = q * n
  BY Division
<1>2. a + n = (q + 1) * n /\ q + 1 \in Nat
  BY <1>1
<1>3. ((q + 1) * n) % n = 0
  BY <1>2, Multiple, Zenon
<1> QED
  BY <1>2, <1>3, Zenon

LEMMA Distributes ==
  ASSUME NEW a \in Nat, NEW b \in Nat, NEW c \in Nat
  PROVE  (a + b) * c = a * c + b * c
  OBVIOUS

LEMMA Product == ASSUME NEW a \in Nat, NEW b \in Nat PROVE a * b \in Nat
  OBVIOUS

LEMMA ZeroIsWhole == ASSUME NEW n \in Nat \ {0} PROVE 0 % n = 0
  OBVIOUS

LEMMA Sizes ==
  /\ FrameSize \in Nat \ {0} /\ kParseMessageBudget \in Nat \ {0} /\ ReadMax \in Nat \ {0}
  /\ WriteMax \in Nat \ {0} /\ CacheSize \in Nat \ {0} /\ SendSize \in Nat \ {0}
  BY SessionAssumption, Zenon

LEMMA OneMoreIsWhole == ASSUME NEW a \in Nat, Whole(a) PROVE Whole(a + SendSize)
  BY Sizes, OneMore, ZenonT(40) DEF Whole

LEMMA NothingIsWhole == Whole(0)
  BY Sizes, ZeroIsWhole, Zenon DEF Whole

\* A request is for a part of what is buffered.
LEMMA FrontFits ==
  ASSUME NEW rest \in Nat, rest > 0
  PROVE  Front(rest) \in Nat /\ Front(rest) <= rest
<1>1. SendSize \in Nat \ {0}
  BY Sizes, Zenon
<1>2. rest % SendSize \in 0 .. SendSize - 1 /\ rest % SendSize <= rest
  BY <1>1
<1>3. rest < SendSize => rest % SendSize = rest
  BY <1>1
<1> QED
  BY <1>1, <1>2, <1>3 DEF Front

\* What ParseInput makes of total bytes: messages and a rest, which is less than
\* a message unless it yields.
LEMMA Parsed ==
  ASSUME NEW total \in Nat
  PROVE  /\ Messages(total) \in Nat /\ Rest(total) \in Nat /\ Rest(total) <= total
         /\ total = Messages(total) * FrameSize + Rest(total)
         /\ ~Yields(total) => Rest(total) < FrameSize
<1>1. FrameSize \in Nat \ {0} /\ kParseMessageBudget \in Nat \ {0}
  BY Sizes, Zenon
<1>2. PICK q \in Nat : q = total \div FrameSize
  BY <1>1, Division, Zenon
<1>3. PICK r \in 0 .. FrameSize - 1 : total = q * FrameSize + r
  BY <1>1, <1>2, Division
<1>4. Messages(total) = IF q <= kParseMessageBudget THEN q ELSE kParseMessageBudget
  BY <1>1, <1>2, Zenon DEF Messages, Smaller
<1>5. PICK m \in Nat : m = Messages(total) /\ m <= q
  BY <1>1, <1>4
<1>6. m * FrameSize \in Nat /\ m * FrameSize <= q * FrameSize
  BY <1>1, <1>5
<1>7. /\ Rest(total) = total - m * FrameSize /\ Rest(total) \in Nat /\ Rest(total) <= total
      /\ total = m * FrameSize + Rest(total)
  BY <1>1, <1>3, <1>5, <1>6 DEF Rest
<1>8. ASSUME ~Yields(total) PROVE Rest(total) < FrameSize
  <2>1. CASE m >= kParseMessageBudget
    BY <1>1, <1>5, <1>7, <1>8, <2>1 DEF Yields
  <2>2. CASE m < kParseMessageBudget
    <3>1. m = q
      BY <1>1, <1>4, <1>5, <2>2
    <3> QED
      BY <1>1, <1>3, <1>7, <3>1
  <2> QED
    BY <1>1, <2>1, <2>2
<1> QED
  BY <1>5, <1>7, <1>8, Zenon

-----------------------------------------------------------------------------
(* The queue.  Every step drops at most the task at its head, d, and appends *)
(* new ones. *)

Requeued(d, new) ==
  /\ d \in {0, 1} /\ d <= Len(tasks)
  /\ tasks' \in Seq(TaskRecords) /\ Len(tasks') >= Len(tasks) - d
  /\ \A i \in 1 .. Len(tasks') :
       IF i + d <= Len(tasks) THEN tasks'[i] = tasks[i + d] ELSE tasks'[i] \in new

LEMMA TaskTypes ==
  \A x \in TaskRecords : /\ x.of \in Nat
                         /\ x.kind = "completion" => x.op \in Ops /\ x.bytes \in Int
  BY DEF TaskRecords

LEMMA PlainTasks ==
  \A kind \in {"send", "continue", "open"} :
    Task(kind) \in TaskRecords /\ Task(kind).kind = kind /\ Task(kind).of = 0
  BY Zenon DEF TaskRecords, Task

LEMMA Unqueued ==
  ASSUME TypeInv, UNCHANGED tasks
  PROVE  Requeued(0, {})
  BY DEF TypeInv, Requeued

LEMMA Dequeued ==
  ASSUME TypeInv, tasks # <<>>, Done
  PROVE  Requeued(1, {})
<1>1. tasks \in Seq(TaskRecords) /\ Len(tasks) \in Nat /\ Len(tasks) >= 1
  BY DEF TypeInv
<1>2. /\ tasks' \in Seq(TaskRecords) /\ Len(tasks') = Len(tasks) - 1
      /\ \A i \in 1 .. Len(tasks') : tasks'[i] = tasks[i + 1]
  BY <1>1 DEF Done
<1> QED
  BY <1>1, <1>2 DEF Requeued

LEMMA Enqueued ==
  ASSUME TypeInv, NEW x \in TaskRecords, tasks' = Append(tasks, x)
  PROVE  Requeued(0, {x}) /\ Len(tasks') = Len(tasks) + 1 /\ tasks'[Len(tasks) + 1] = x
<1>1. tasks \in Seq(TaskRecords) /\ Len(tasks) \in Nat
  BY DEF TypeInv
<1>2. /\ tasks' \in Seq(TaskRecords) /\ Len(tasks') = Len(tasks) + 1
      /\ \A i \in 1 .. Len(tasks) : tasks'[i] = tasks[i]
      /\ tasks'[Len(tasks) + 1] = x
  BY <1>1
<1> QED
  BY <1>1, <1>2 DEF Requeued

LEMMA Rescheduled ==
  ASSUME TypeInv, tasks # <<>>, tasks' = ScheduleParseContinuation
  PROVE  Requeued(1, {Task("continue")}) /\ Continues'
<1>1. tasks \in Seq(TaskRecords) /\ Len(tasks) \in Nat /\ Len(tasks) >= 1
  BY DEF TypeInv
<1>2. Task("continue") \in TaskRecords /\ Task("continue").kind = "continue"
  BY PlainTasks, Zenon
<1> DEFINE tail == Tail(tasks)
<1>3. tail \in Seq(TaskRecords)
  BY <1>1
<1>4. Len(tail) = Len(tasks) - 1 /\ \A i \in 1 .. Len(tail) : tail[i] = tasks[i + 1]
  BY <1>1
<1>5. tasks' = Append(tail, Task("continue"))
  BY Zenon DEF ScheduleParseContinuation
<1> HIDE DEF tail
<1>6. /\ tasks' \in Seq(TaskRecords) /\ Len(tasks') = Len(tasks)
      /\ \A i \in 1 .. Len(tail) : tasks'[i] = tail[i]
      /\ tasks'[Len(tasks)] = Task("continue")
  BY <1>1, <1>2, <1>3, <1>4, <1>5
<1> QED
  BY <1>1, <1>2, <1>4, <1>6 DEF Requeued, Continues

\* What the poll thread posts.
LEMMA Reported ==
  ASSUME TypeInv, Poll
  PROVE  Requeued(0, [kind : {"event"}, of : {session}, events : SUBSET {"readable", "writable", "error"}])
<1> DEFINE Kinds == SUBSET {"readable", "writable", "error"}
           New == [kind : {"event"}, of : {session}, events : Kinds]
<1>1. tasks \in Seq(TaskRecords) /\ Len(tasks) \in Nat /\ session \in Nat
  BY DEF TypeInv
<1>2. PICK report \in (IF backend = "epoll" THEN EpollReports ELSE KqueueReports) :
        tasks' = tasks \o [i \in DOMAIN report |->
                             [kind |-> "event", of |-> session, events |-> report[i]]]
  BY ZenonT(40) DEF Poll
<1> DEFINE posted == [i \in DOMAIN report |-> [kind |-> "event", of |-> session, events |-> report[i]]]
<1>3. report \in Seq(Kinds)
  <2>1. Readable \in Kinds /\ Writable \in Kinds /\ Broken \in Kinds
    BY Zenon DEF Readable, Writable, Broken
  <2>2. ASSUME NEW events \in Kinds PROVE Entry(events) \in Seq(Kinds)
    <3> HIDE DEF Kinds
    <3>1. <<>> \in Seq(Kinds) /\ <<events>> \in Seq(Kinds)
      OBVIOUS
    <3> QED
      BY <3>1, Zenon DEF Entry
  <2>3. CASE backend = "epoll"
    <3>1. Readable \cup Writable \cup Broken \in Kinds
      BY <2>1, Zenon
    <3> QED
      BY <1>2, <2>2, <2>3, <3>1, Zenon DEF EpollReports
  <2>4. CASE backend # "epoll"
    <3> DEFINE write == IF writable THEN Writable \cup Broken ELSE {}
    <3>1. write \in Kinds
      BY <2>1, Zenon
    <3>2. PICK r \in Seq(Kinds), w \in Seq(Kinds) : r = Entry(Readable) /\ w = Entry(write)
      BY <2>1, <2>2, <3>1, Zenon
    <3>3. report \in {r \o w, w \o r}
      BY <1>2, <2>4, <3>2, Zenon DEF KqueueReports
    <3> HIDE DEF Kinds
    <3>4. r \o w \in Seq(Kinds) /\ w \o r \in Seq(Kinds)
      OBVIOUS
    <3> QED
      BY <3>3, <3>4, Zenon
  <2> QED
    BY <2>3, <2>4, Zenon
<1>4. Len(report) \in Nat /\ DOMAIN report = 1 .. Len(report) /\ \A i \in DOMAIN report : report[i] \in Kinds
  BY <1>3
<1>5. posted \in Seq(New)
  <2>1. \A i \in 1 .. Len(report) : [kind |-> "event", of |-> session, events |-> report[i]] \in New
    BY <1>4, Zenon
  <2> HIDE DEF New
  <2> QED
    BY <1>4, <2>1
<1>6. New \subseteq TaskRecords
  BY <1>1, Zenon DEF TaskRecords
<1>7. tasks' = tasks \o posted
  BY <1>2, Zenon
<1> HIDE DEF posted, New
<1>8. posted \in Seq(TaskRecords) /\ Len(posted) \in Nat
  BY <1>5, <1>6
<1>9. /\ tasks' \in Seq(TaskRecords) /\ Len(tasks') = Len(tasks) + Len(posted)
      /\ \A i \in 1 .. Len(tasks') : tasks'[i] = IF i <= Len(tasks) THEN tasks[i] ELSE posted[i - Len(tasks)]
  BY <1>1, <1>7, <1>8
<1>10. Requeued(0, New)
  BY <1>1, <1>5, <1>8, <1>9 DEF Requeued
<1> QED
  BY <1>10, Zenon DEF New

\* The tasks kept are as good as before.
LEMMA QueueKept ==
  ASSUME TypeInv, QueueInv, NEW d, NEW new, Requeued(d, new),
         UNCHANGED backend, session' \in Nat, session <= session',
         connected' => \A i \in 1 .. Len(tasks) : i > d => tasks[i].kind # "open",
         \A x \in new : /\ x.of <= session' /\ x.kind # "open"
                        /\ x.kind = "event" => backend # "iocp"
                        /\ x.kind = "completion" => backend = "iocp"
  PROVE  QueueInv'
<1>1. /\ Len(tasks) \in Nat /\ Len(tasks') \in Nat /\ d \in {0, 1} /\ session \in Nat
      /\ \A i \in 1 .. Len(tasks) : tasks[i].of \in Nat
  BY TaskTypes DEF TypeInv, Requeued
<1>2. \A i \in 1 .. Len(tasks') :
        \/ i + d \in 1 .. Len(tasks) /\ tasks'[i] = tasks[i + d] /\ i + d > d
        \/ tasks'[i] \in new
  BY <1>1 DEF Requeued
<1>3. \A i \in 1 .. Len(tasks') : tasks'[i].of <= session'
  BY <1>1, <1>2 DEF QueueInv
<1>4. \A i \in 1 .. Len(tasks') : tasks'[i].kind = "open" => ~connected'
  BY <1>1, <1>2, Zenon DEF QueueInv
<1>5. \A i, j \in 1 .. Len(tasks') : tasks'[i].kind = "open" /\ tasks'[j].kind = "open" => i = j
  <2>1. \A i \in 1 .. Len(tasks') :
          tasks'[i].kind = "open" => i + d \in 1 .. Len(tasks) /\ tasks[i + d].kind = "open"
    BY <1>2, Zenon
  <2>2. ASSUME NEW i \in 1 .. Len(tasks'), NEW j \in 1 .. Len(tasks'),
               tasks'[i].kind = "open", tasks'[j].kind = "open"
        PROVE  i = j
    <3>1. i + d = j + d
      BY <2>1, <2>2, Zenon DEF QueueInv
    <3> QED
      BY <1>1, <3>1
  <2> QED
    BY <2>2, Zenon
<1>6. \A i \in 1 .. Len(tasks') : /\ tasks'[i].kind = "event" => backend # "iocp"
                                  /\ tasks'[i].kind = "completion" => backend = "iocp"
  BY <1>1, <1>2, Zenon DEF QueueInv
<1> QED
  BY <1>3, <1>4, <1>5, <1>6, Zenon DEF QueueInv

\* While a session is open no open task is queued.
LEMMA NoOpenQueued ==
  ASSUME QueueInv, connected
  PROVE  \A i \in 1 .. Len(tasks) : tasks[i].kind # "open"
  BY Zenon DEF QueueInv

\* What is under way stays under way unless the head of the queue is it.
LEMMA QueuedKept ==
  ASSUME TypeInv, UNCHANGED session, NEW d, NEW new, Requeued(d, new), NEW op,
         \A x \in new : x.kind # "completion",
         d = 1 => ~IsQueued(1, op)
  PROVE  /\ NoneQueued(op) => NoneQueued(op)'
         /\ \A b : OneQueued(op, b) => OneQueued(op, b)'
<1>1. Len(tasks) \in Nat /\ Len(tasks') \in Nat /\ d \in {0, 1} /\ Len(tasks') >= Len(tasks) - d
  BY DEF TypeInv, Requeued
<1>2. \A i \in 1 .. Len(tasks') :
        IsQueued(i, op)' => i + d \in 1 .. Len(tasks) /\ IsQueued(i + d, op) /\ tasks'[i] = tasks[i + d]
  BY <1>1 DEF Requeued, IsQueued
<1>3. NoneQueued(op) => NoneQueued(op)'
  BY <1>2, Zenon DEF NoneQueued
<1>4. ASSUME NEW b, OneQueued(op, b) PROVE OneQueued(op, b)'
  <2>1. PICK i \in 1 .. Len(tasks) :
          /\ IsQueued(i, op) /\ tasks[i].bytes = b
          /\ \A j \in 1 .. Len(tasks) : IsQueued(j, op) => j = i
    BY <1>4, Zenon DEF OneQueued
  <2>2. i - d \in 1 .. Len(tasks')
    BY <1>1, <2>1
  <2>3. tasks'[i - d] = tasks[i]
    BY <1>1, <2>2 DEF Requeued
  <2>4. IsQueued(i - d, op)' /\ tasks'[i - d].bytes = b
    BY <2>1, <2>3, Zenon DEF IsQueued
  <2>5. \A j \in 1 .. Len(tasks') : IsQueued(j, op)' => j + d = i
    BY <1>2, <2>1, Zenon
  <2>6. \A j \in 1 .. Len(tasks') : IsQueued(j, op)' => j = i - d
    BY <1>1, <2>5
  <2> QED
    BY <2>2, <2>4, <2>6, Zenon DEF OneQueued
<1> QED
  BY <1>3, <1>4, Zenon

\* The head of the queue is what was under way; it is not any more.
LEMMA QueuedTaken ==
  ASSUME TypeInv, UNCHANGED session, NEW new, Requeued(1, new), NEW op, NEW b,
         \A x \in new : x.kind # "completion",
         IsQueued(1, op), OneQueued(op, b)
  PROVE  NoneQueued(op)' /\ tasks[1].bytes = b
<1>1. Len(tasks) \in Nat /\ Len(tasks') \in Nat /\ 1 \in 1 .. Len(tasks)
  BY DEF TypeInv, Requeued
<1>2. tasks[1].bytes = b /\ \A j \in 1 .. Len(tasks) : IsQueued(j, op) => j = 1
  BY <1>1, Zenon DEF OneQueued
<1>3. \A i \in 1 .. Len(tasks') :
        IsQueued(i, op)' => i + 1 \in 1 .. Len(tasks) /\ IsQueued(i + 1, op)
  BY <1>1 DEF Requeued, IsQueued
<1>4. NoneQueued(op)'
  BY <1>1, <1>2, <1>3 DEF NoneQueued
<1> QED
  BY <1>2, <1>4, Zenon

\* A continuation stays queued until it is taken.
LEMMA ContinuesKept ==
  ASSUME TypeInv, NEW d, NEW new, Requeued(d, new), Continues,
         d = 1 => tasks[1].kind # "continue"
  PROVE  Continues'
<1>1. Len(tasks) \in Nat /\ Len(tasks') \in Nat /\ d \in {0, 1} /\ Len(tasks') >= Len(tasks) - d
  BY DEF TypeInv, Requeued
<1>2. PICK i \in 1 .. Len(tasks) : tasks[i].kind = "continue"
  BY Zenon DEF Continues
<1>3. i - d \in 1 .. Len(tasks') /\ tasks'[i - d] = tasks[i]
  BY <1>1, <1>2 DEF Requeued
<1> QED
  BY <1>2, <1>3, Zenon DEF Continues

\* Flights: requests and queue together.
LEMMA FlightsKept ==
  ASSUME TypeInv, UNCHANGED <<session, requests>>, NEW d, NEW new, Requeued(d, new), NEW op,
         \A x \in new : x.kind # "completion",
         d = 1 => ~IsQueued(1, op)
  PROVE  /\ NoneFlies(op) => NoneFlies(op)'
         /\ \A b : OneFlies(op, b) => OneFlies(op, b)'
<1>1. NoneRequested(op) <=> NoneRequested(op)'
  BY Zenon DEF NoneRequested, IsRequested
<1>2. \A b : OneRequested(op, b) <=> OneRequested(op, b)'
  BY Zenon DEF OneRequested, IsRequested
<1>3. /\ NoneQueued(op) => NoneQueued(op)'
      /\ \A b : OneQueued(op, b) => OneQueued(op, b)'
  BY QueuedKept, Zenon
<1> QED
  BY <1>1, <1>2, <1>3, Zenon DEF NoneFlies, OneFlies, InKernel

\* A request is started where none is under way; the other direction's flights
\* are none of its business.
LEMMA FlightStarted ==
  ASSUME UNCHANGED session, NEW op, NEW size, NoneRequested(op), NoneQueued(op)',
         requests' = requests \cup {Request(op, session, size)}
  PROVE  OneFlies(op, InKernel)'
<1>1. PICK r : r = Request(op, session, size)
  BY Zenon
<1>2. r.op = op /\ r.of = session /\ r.bytes = InKernel
  BY <1>1, Zenon DEF Request
<1>3. r \in requests' /\ IsRequested(r, op)'
  BY <1>1, <1>2, Zenon DEF IsRequested
<1>4. \A q \in requests' : IsRequested(q, op)' => q = r
  BY <1>1, Zenon DEF NoneRequested, IsRequested
<1> QED
  BY <1>2, <1>3, <1>4, Zenon DEF OneFlies, OneRequested

LEMMA OtherRequest ==
  ASSUME UNCHANGED session, NEW op, NEW other, op # other, NEW size,
         requests' = requests \cup {Request(other, session, size)}
  PROVE  /\ NoneRequested(op) <=> NoneRequested(op)'
         /\ \A b : OneRequested(op, b) <=> OneRequested(op, b)'
<1>1. Request(other, session, size).op = other
  BY Zenon DEF Request
<1>2. \A q : q \in requests' /\ IsRequested(q, op)' <=> q \in requests /\ IsRequested(q, op)
  BY <1>1, Zenon DEF IsRequested
<1> QED
  BY <1>2, Zenon DEF NoneRequested, OneRequested

-----------------------------------------------------------------------------
(* The steps that change nothing but the queue, and the close. *)

LEMMA Names == Nothing \notin {"write", "recv"} /\ NoClose \notin {"Error", "RemoteClosed"}
  BY Zenon DEF Nothing, NoClose

LEMMA RecvKept ==
  ASSUME RecvInv, connected' => connected, UNCHANGED <<receiving, recv>>,
         peer'.received = peer.received, peer'.frames = peer.frames, AllReceived => AllReceived',
         NoneFlies("recv") => NoneFlies("recv")',
         \A b : OneFlies("recv", b) => OneFlies("recv", b)'
  PROVE  RecvInv'
<1>1. \A b : RecvBooks(b) => RecvBooks(b)'
  BY Zenon DEF RecvBooks, Moved
<1> QED
  BY <1>1, Zenon DEF RecvInv, InKernel

LEMMA SendKept ==
  ASSUME SendInv, connected' => connected, UNCHANGED <<sending, send>>,
         peer'.heard = peer.heard,
         NoneFlies("send") => NoneFlies("send")',
         \A b : OneFlies("send", b) => OneFlies("send", b)',
         \A r \in requests' : IsRequested(r, "send")' => r \in requests /\ IsRequested(r, "send")
  PROVE  SendInv'
<1>1. \A b : SendBooks(b) => SendBooks(b)'
  BY Zenon DEF SendBooks, Moved
<1>2. connected' => \A r \in requests' : IsRequested(r, "send")' => r.size <= send'
  BY Zenon DEF SendInv
<1> QED
  BY <1>1, <1>2, Zenon DEF SendInv, InKernel

LEMMA QueueOnly ==
  ASSUME IndInv, UNCHANGED <<backend, session, bufferVars, peer, todo>>,
         NEW d, NEW new, Requeued(d, new), QueueInv',
         \A x \in new : x.kind # "completion",
         d = 1 /\ connected => /\ tasks[1].kind # "continue"
                               /\ ~(tasks[1].kind = "completion" /\ tasks[1].of = session)
  PROVE  IndInv'
<1> USE DEF bufferVars, inputVars, outputVars, requestVars
<1>1. TypeInv'
  BY DEF IndInv, TypeInv, Requeued
<1>2. RequestInv' /\ TodoInv' /\ ClosedInv' /\ OutputInv' /\ EndInv'
  BY Zenon DEF IndInv, RequestInv, TodoInv, ClosedInv, OutputInv, EndInv, AllReceived
<1>3. InputInv'
  <2>1. connected /\ Continues => Continues'
    BY ContinuesKept, Zenon DEF IndInv
  <2> QED
    BY <2>1, Zenon DEF IndInv, InputInv
<1>4. ASSUME NEW op, connected
      PROVE  (NoneFlies(op) => NoneFlies(op)') /\ \A b : OneFlies(op, b) => OneFlies(op, b)'
  <2>1. d = 1 => ~IsQueued(1, op)
    BY <1>4, Zenon DEF IsQueued
  <2> QED
    BY <2>1, FlightsKept, Zenon DEF IndInv
<1>5. RecvInv' /\ SendInv'
  <2>1. CASE ~connected
    BY <2>1, Zenon DEF RecvInv, SendInv
  <2>2. CASE connected
    <3>1. RecvInv'
      BY <1>4, <2>2, RecvKept, Zenon DEF IndInv, AllReceived
    <3>2. \A r \in requests' : IsRequested(r, "send")' => r \in requests /\ IsRequested(r, "send")
      BY Zenon DEF IsRequested
    <3>3. SendInv'
      BY <1>4, <2>2, <3>2, SendKept, Zenon DEF IndInv
    <3> QED
      BY <3>1, <3>3, Zenon
  <2> QED
    BY <2>1, <2>2, Zenon
<1> QED
  BY <1>1, <1>2, <1>3, <1>5, Zenon DEF IndInv

\* A close leaves nothing to keep but what is queued and requested.
LEMMA CloseKeeps ==
  ASSUME IndInv, NEW reason, StartClose(reason), UNCHANGED <<backend, session, requests>>,
         todo' = Nothing, NEW d, NEW new, Requeued(d, new), QueueInv',
         peer' \in [sent : Nat, received : Nat, frames : Nat, heard : Nat, fin : BOOLEAN, reset : BOOLEAN],
         peer'.received <= peer'.sent
  PROVE  IndInv'
<1> USE DEF StartClose, ResetAfterClose, PlatformResetIoState
<1>1. TypeInv'
  BY ZenonT(40) DEF IndInv, TypeInv, Requeued
<1>2. RequestInv' /\ TodoInv'
  BY Names, Zenon DEF IndInv, RequestInv, TodoInv
<1>3. ClosedInv'
  BY Zenon DEF ClosedInv
<1>4. OutputInv' /\ InputInv' /\ EndInv' /\ RecvInv' /\ SendInv'
  BY Zenon DEF OutputInv, InputInv, EndInv, RecvInv, SendInv
<1> QED
  BY <1>1, <1>2, <1>3, <1>4, Zenon DEF IndInv

\* A task that closes.
LEMMA TaskCloses ==
  ASSUME IndInv, tasks # <<>>, Done, NEW reason, StartClose(reason),
         UNCHANGED <<backend, session, requests>>, todo' = Nothing,
         peer' \in [sent : Nat, received : Nat, frames : Nat, heard : Nat, fin : BOOLEAN, reset : BOOLEAN],
         peer'.received <= peer'.sent
  PROVE  IndInv'
<1>1. Requeued(1, {})
  BY Dequeued, Zenon DEF IndInv
<1>2. ~connected' /\ session \in Nat /\ session' \in Nat /\ session <= session'
  BY DEF StartClose, IndInv, TypeInv
<1>3. QueueInv'
  BY <1>1, <1>2, QueueKept DEF IndInv
<1> QED
  BY <1>1, <1>3, CloseKeeps, Zenon

\* A task that finds its session over.
LEMMA TaskSkipped ==
  ASSUME IndInv, tasks # <<>>, Done, UNCHANGED <<backend, session, bufferVars, peer, todo>>,
         connected => /\ tasks[1].kind # "continue"
                      /\ ~(tasks[1].kind = "completion" /\ tasks[1].of = session)
  PROVE  IndInv'
<1>1. Requeued(1, {})
  BY Dequeued, Zenon DEF IndInv
<1>2. session \in Nat /\ session' \in Nat /\ session <= session' /\ connected' = connected
  BY DEF IndInv, TypeInv, bufferVars
<1>3. QueueInv'
  BY <1>1, <1>2, QueueKept, NoOpenQueued DEF IndInv
<1> QED
  BY <1>1, <1>3, QueueOnly

-----------------------------------------------------------------------------
(* Input. *)

PeerRecords == [sent : Nat, received : Nat, frames : Nat, heard : Nat, fin : BOOLEAN, reset : BOOLEAN]

LEMMA PeerGives ==
  ASSUME TypeInv, NEW read \in Nat, NEW m \in Nat,
         peer' = [peer EXCEPT !.received = @ + read, !.frames = @ + m]
  PROVE  /\ peer' \in PeerRecords /\ peer \in PeerRecords
         /\ peer'.received = peer.received + read /\ peer'.frames = peer.frames + m
         /\ peer'.sent = peer.sent /\ peer'.heard = peer.heard /\ peer'.fin = peer.fin
<1>1. peer \in PeerRecords
  BY Zenon DEF TypeInv, PeerRecords
<1>2. /\ peer'.received = peer.received + read /\ peer'.frames = peer.frames + m
      /\ peer'.sent = peer.sent /\ peer'.heard = peer.heard /\ peer'.fin = peer.fin
  BY <1>1, Zenon DEF PeerRecords
<1>3. peer.received + read \in Nat /\ peer.frames + m \in Nat
  BY <1>1 DEF PeerRecords
<1>4. peer' \in PeerRecords
  BY <1>1, <1>3, ZenonT(40) DEF PeerRecords
<1> QED
  BY <1>1, <1>2, <1>4, Zenon

LEMMA ParseRequeues ==
  ASSUME TypeInv, tasks # <<>>, NEW total, NEW close, NEW read, NEW busy,
         ParseInput(total, close, read, busy)
  PROVE  Requeued(1, {Task("continue")})
<1>1. CASE tasks' = ScheduleParseContinuation
  BY <1>1, Rescheduled, Zenon
<1>2. CASE Done
  BY <1>2, Dequeued, Zenon DEF Requeued
<1> QED
  BY <1>1, <1>2, Zenon DEF ParseInput, Done

\* ParseInput with total bytes, whatever it was called for, keeps the invariant:
\* what it takes are whole messages, what it leaves is less than one or has a
\* continuation queued, and a close waits for that.
LEMMA ParseInputKeeps ==
  ASSUME IndInv, connected, tasks # <<>>, ~IsQueued(1, "send"),
         NEW total \in Nat, NEW close \in {NoClose, "Error", "RemoteClosed"},
         NEW read \in Nat, NEW busy \in BOOLEAN,
         ParseInput(total, close, read, busy), UNCHANGED <<backend, session>>,
         todo' \in {Nothing, "write", "recv"}, todo' # Nothing => connected',
         todo' = "write" => backend # "iocp",
         todo' = "recv" => backend = "iocp" /\ close = NoClose /\ deferred = NoClose,
         backend # "iocp" => ~busy,
         backend = "iocp" /\ connected' => (busy <=> close = NoClose /\ deferred = NoClose /\ todo' # "recv"),
         peer.received + read <= peer.sent,
         close = "RemoteClosed" => peer.fin /\ peer.received + read = peer.sent,
         busy => \E b \in Results : /\ OneFlies("recv", b)'
                                    /\ peer.received + read = peer.frames * FrameSize + total + Moved(b)
                                    /\ b = 0 => peer.fin /\ peer.received + read = peer.sent,
         ~busy => /\ NoneFlies("recv")'
                  /\ peer.received + read = peer.frames * FrameSize + total
  PROVE  IndInv'
<1>1. TypeInv /\ FrameSize \in Nat /\ peer \in PeerRecords
  BY Sizes, Zenon DEF IndInv, TypeInv, PeerRecords
<1>2. PICK m \in Nat, rest \in Nat :
        /\ m = Messages(total) /\ rest = Rest(total) /\ total = m * FrameSize + rest
        /\ ~Yields(total) => rest < FrameSize
  BY Parsed, Zenon
<1>3. requests' = requests
  BY ZenonT(40) DEF ParseInput
<1>4. CASE /\ Closes(total, close) /\ StartClose(Reason(close)) /\ Done
           /\ peer' = [peer EXCEPT !.received = @ + read, !.frames = @ + m]
  <2>1. peer' \in PeerRecords /\ peer'.received <= peer'.sent
    BY <1>1, <1>4, PeerGives, ZenonT(40)
  <2>2. ~connected' /\ todo' = Nothing
    BY <1>4, Zenon DEF StartClose
  <2> QED
    BY <1>3, <1>4, <2>1, <2>2, TaskCloses, Zenon DEF PeerRecords
<1>5. ASSUME NEW k \in 0 .. kParseMessageBudget - 1, StartClose("Error"), Done,
             peer' = [peer EXCEPT !.received = @ + read, !.frames = @ + k]
      PROVE  IndInv'
  <2>1. k \in Nat
    BY Sizes
  <2>2. peer' \in PeerRecords /\ peer'.received <= peer'.sent
    BY <1>1, <1>5, <2>1, PeerGives, ZenonT(40)
  <2>3. ~connected' /\ todo' = Nothing
    BY <1>5, Zenon DEF StartClose
  <2> QED
    BY <1>3, <1>5, <2>2, <2>3, TaskCloses, Zenon DEF PeerRecords
<1>6. ASSUME ~Closes(total, close), recv' = rest, continuing' = Yields(total),
             deferred' = IF close # NoClose THEN close ELSE deferred, receiving' = busy,
             UNCHANGED <<connected, closed, outputVars, sending>>,
             tasks' = IF Yields(total) THEN ScheduleParseContinuation ELSE Tail(tasks),
             peer' = [peer EXCEPT !.received = @ + read, !.frames = @ + m]
      PROVE  IndInv'
  <2>1. /\ peer' \in PeerRecords /\ peer'.received = peer.received + read /\ peer'.frames = peer.frames + m
        /\ peer'.sent = peer.sent /\ peer'.heard = peer.heard /\ peer'.fin = peer.fin
    BY <1>1, <1>6, PeerGives, ZenonT(40)
  <2>2. Requeued(1, {Task("continue")})
    BY <1>1, ParseRequeues, Zenon
  <2>3. Yields(total) => Continues'
    BY <1>1, <1>6, Rescheduled, Zenon
  <2>4. ~Yields(total) => close = NoClose /\ deferred = NoClose /\ deferred' = NoClose
    BY <1>6, Zenon DEF Closes, Reason
  <2>5. Yields(total) \in BOOLEAN
    BY Zenon DEF Yields
  <2>6. TypeInv'
    BY <1>1, <1>3, <1>6, <2>1, <2>2, <2>5, Zenon DEF TypeInv, Requeued, outputVars, PeerRecords
  <2>7. QueueInv'
    <3>1. \A i \in 1 .. Len(tasks) : tasks[i].kind # "open"
      BY NoOpenQueued, Zenon DEF IndInv
    <3>2. session \in Nat /\ session' \in Nat /\ session <= session'
      BY <1>1 DEF TypeInv
    <3>3. Task("continue").of <= session' /\ Task("continue").kind = "continue"
      BY <3>2, PlainTasks
    <3> QED
      BY <1>1, <2>2, <3>1, <3>2, <3>3, QueueKept DEF IndInv
  <2>8. RequestInv' /\ TodoInv'
    BY <1>3, <1>6, Names, Zenon DEF IndInv, RequestInv, TodoInv
  <2>9. ClosedInv' /\ OutputInv'
    BY <1>6, Zenon DEF IndInv, ClosedInv, OutputInv, outputVars
  <2>10. InputInv'
    <3>1. recv' >= FrameSize \/ deferred' # NoClose \/ continuing' => Continues'
      <4>1. CASE Yields(total)
        BY <2>3, <4>1, Zenon
      <4>2. CASE ~Yields(total)
        <5>1. ~continuing' /\ deferred' = NoClose
          BY <1>6, <2>4, <4>2, Zenon
        <5>2. recv' < FrameSize /\ recv' \in Nat
          BY <1>2, <1>6, <4>2, Zenon
        <5>3. ~(recv' >= FrameSize)
          BY <1>1, <5>2
        <5> QED
          BY <5>1, <5>3, Zenon
      <4> QED
        BY <4>1, <4>2, Zenon
    <3>2. deferred' = NoClose <=> close = NoClose /\ deferred = NoClose
      BY <1>6, Zenon
    <3> QED
      BY <1>6, <3>1, <3>2, Zenon DEF InputInv
  <2>11. EndInv'
    <3>1. peer'.received <= peer'.sent
      BY <1>1, <2>1, Zenon DEF PeerRecords
    <3>2. deferred' = "RemoteClosed" => AllReceived'
      <4>1. CASE close = "RemoteClosed"
        BY <2>1, <4>1, Zenon DEF AllReceived
      <4>2. CASE deferred = "RemoteClosed"
        <5>1. peer.fin /\ peer.received = peer.sent
          BY <4>2, Zenon DEF IndInv, EndInv, AllReceived
        <5> QED
          BY <1>1, <2>1, <5>1 DEF AllReceived, PeerRecords
      <4> QED
        BY <1>6, <4>1, <4>2, Names, Zenon
    <3> QED
      BY <3>1, <3>2, Zenon DEF EndInv
  <2>12. RecvInv'
    <3>1. PICK before \in Nat, now \in Nat : before = peer.frames * FrameSize /\ now = m * FrameSize
      BY <1>1, Product, Zenon DEF PeerRecords
    <3>2. peer'.frames * FrameSize = before + now
      BY <1>1, <2>1, <3>1, Distributes DEF PeerRecords
    <3>3. total = now + recv' /\ recv' \in Nat
      BY <1>2, <1>6, <3>1, Zenon
    <3>4. CASE busy
      <4>1. PICK b \in Results : /\ OneFlies("recv", b)'
                                 /\ peer.received + read = peer.frames * FrameSize + total + Moved(b)
                                 /\ b = 0 => peer.fin /\ peer.received + read = peer.sent
        BY <3>4, Zenon
      <4>2. Moved(b) \in Nat
        BY DEF Moved, Results, InKernel, Failed
      <4>3. peer.received + read = before + total + Moved(b)
        BY <3>1, <4>1, Zenon
      <4>4. peer'.received = peer'.frames * FrameSize + recv' + Moved(b)
        BY <2>1, <3>2, <3>3, <4>2, <4>3, SMTT(30)
      <4>5. RecvBooks(b)'
        BY <2>1, <4>1, <4>4, Zenon DEF RecvBooks, AllReceived, Moved
      <4> QED
        BY <1>6, <3>4, <4>1, <4>5, Zenon DEF RecvInv
    <3>5. CASE ~busy
      <4>1. peer.received + read = before + total
        BY <3>1, <3>5, Zenon
      <4>2. peer'.received = peer'.frames * FrameSize + recv' + 0
        BY <2>1, <3>2, <3>3, <4>1, SMTT(30)
      <4>3. RecvBooks(InKernel)'
        BY <4>2 DEF RecvBooks, Moved, InKernel
      <4> QED
        BY <1>6, <3>5, <4>3, Zenon DEF RecvInv
    <3> QED
      BY <3>4, <3>5, Zenon
  <2>13. SendInv'
    <3>1. \A x \in {Task("continue")} : x.kind # "completion"
      BY PlainTasks, Zenon
    <3>2. (NoneFlies("send") => NoneFlies("send")') /\ \A b : OneFlies("send", b) => OneFlies("send", b)'
      BY <1>1, <1>3, <2>2, <3>1, FlightsKept
    <3>3. \A r \in requests' : IsRequested(r, "send")' => r \in requests /\ IsRequested(r, "send")
      BY <1>3, Zenon DEF IsRequested
    <3> QED
      BY <1>6, <2>1, <3>2, <3>3, SendKept, Zenon DEF IndInv, outputVars
  <2> QED
    BY <2>6, <2>7, <2>8, <2>9, <2>10, <2>11, <2>12, <2>13, Zenon DEF IndInv
<1> QED
  BY <1>2, <1>4, <1>5, <1>6, Zenon DEF ParseInput, Done

-----------------------------------------------------------------------------
(* Output. *)

\* The one request of a session that is sending, or that there is none, when rest
\* is left to send.
StillBusy(rest) ==
  \E b \in Results : /\ OneFlies("send", b) /\ Moved(b) <= peer'.heard /\ b <= rest
                     /\ Whole(peer'.heard - Moved(b) + rest)
Idle(rest) == NoneRequested("send") /\ NoneQueued("send")' /\ Whole(peer'.heard + rest)
AllFit(rest) == \A r \in requests : IsRequested(r, "send") => r.size <= rest

\* UpdateWriteInterest with rest left to send keeps the invariant, whatever it
\* was called for: either the poller watches for writability, or one request is
\* under way, or nothing is left, or the session ends.
LEMMA UpdateKeeps ==
  ASSUME IndInv, connected, NEW d, Requeued(d, {}), QueueInv',
         d = 1 => tasks[1].kind # "continue" /\ ~IsQueued(1, "recv"),
         NEW rest \in Nat, NEW busy \in BOOLEAN, UpdateWriteInterest(rest, rest, busy),
         UNCHANGED <<backend, session>>, todo' = Nothing, todo # "recv",
         peer' \in PeerRecords, peer'.received = peer.received, peer'.frames = peer.frames,
         peer'.sent = peer.sent, peer'.fin = peer.fin,
         backend # "iocp" => ~busy,
         busy => rest > 0 /\ (d = 1 => ~IsQueued(1, "send")) /\ sending /\ StillBusy(rest),
         ~busy => Idle(rest),
         AllFit(rest)
  PROVE  IndInv'
<1>1. TypeInv /\ peer \in PeerRecords /\ peer'.heard \in Nat
  BY Zenon DEF IndInv, TypeInv, PeerRecords
<1>2. ASSUME StartClose("Error"), UNCHANGED requests PROVE IndInv'
  <2>1. peer'.received <= peer'.sent
    BY Zenon DEF IndInv, EndInv
  <2> QED
    BY <1>2, <2>1, CloseKeeps, Zenon DEF PeerRecords
<1>3. ASSUME send' = rest, pending' = rest, PlatformStartSend(rest, busy),
             UNCHANGED <<connected, closed, inputVars, receiving>>
      PROVE  IndInv'
  <2> DEFINE Started == requests' = requests \cup {Request("send", session, Front(rest))}
  <2>1. /\ sending' \in BOOLEAN /\ writable' \in BOOLEAN
        /\ sending' <=> backend = "iocp" /\ rest > 0
        /\ (rest > 0) <=> IF backend = "iocp" THEN sending' ELSE writable'
    <3>1. CASE backend # "iocp"
      <4>1. ~sending
        BY <3>1, Zenon DEF IndInv, RequestInv
      <4>2. writable' = (rest > 0) /\ sending' = sending
        BY <1>3, <3>1, Zenon DEF PlatformStartSend, PlatformStartSendPosix
      <4>3. sending' = FALSE
        BY <1>1, <4>1, <4>2, Zenon DEF TypeInv
      <4>4. (rest > 0) \in BOOLEAN
        OBVIOUS
      <4>5. writable' \in BOOLEAN
        BY <4>2, <4>4, Zenon
      <4>6. rest > 0 <=> writable'
        BY <4>2, Zenon
      <4> QED
        BY <3>1, <4>3, <4>5, <4>6, Zenon
    <3>2. CASE backend = "iocp"
      BY <1>1, <1>3, <3>2, ZenonT(40) DEF PlatformStartSend, PlatformStartSendWin32, TypeInv
    <3> QED
      BY <3>1, <3>2, Zenon
  <2>2. \/ requests' = requests /\ (busy \/ ~sending')
        \/ backend = "iocp" /\ ~busy /\ rest > 0 /\ Started
    <3>1. CASE backend # "iocp"
      BY <1>3, <2>1, <3>1, ZenonT(40) DEF PlatformStartSend, PlatformStartSendPosix
    <3>2. CASE backend = "iocp"
      BY <1>3, <2>1, <3>2, SMTT(30) DEF PlatformStartSend, PlatformStartSendWin32, StartSend
    <3> QED
      BY <3>1, <3>2, ZenonT(40)
  <2>3. Started => /\ rest > 0 => Request("send", session, Front(rest)) \in RequestRecords
                   /\ Request("send", session, Front(rest)).of = session
                   /\ Request("send", session, Front(rest)).size = Front(rest)
    BY <1>1, FrontFits DEF Request, RequestRecords, Ops, TypeInv, InKernel
  <2>4. TypeInv'
    BY <1>1, <1>3, <2>1, <2>2, <2>3, Zenon DEF TypeInv, Requeued, inputVars, PeerRecords
  <2>5. RequestInv' /\ TodoInv'
    <3>1. \A r \in requests' : r.of <= session'
      BY <1>1, <2>2, <2>3 DEF IndInv, RequestInv, TypeInv
    <3>2. backend' # "iocp" => requests' = {} /\ ~receiving' /\ ~sending'
      BY <1>3, <2>1, <2>2, Zenon DEF IndInv, RequestInv
    <3> QED
      BY <3>1, <3>2, Names, Zenon DEF RequestInv, TodoInv
  <2>6. ClosedInv' /\ OutputInv'
    BY <1>3, <2>1, Zenon DEF IndInv, ClosedInv, OutputInv
  <2>7. InputInv' /\ EndInv'
    <3>1. Continues => Continues'
      BY <1>1, ContinuesKept, Zenon
    <3>2. InputInv'
      BY <1>3, <3>1, Names, Zenon DEF IndInv, InputInv, inputVars
    <3>3. EndInv'
      BY <1>3, Zenon DEF IndInv, EndInv, AllReceived, inputVars
    <3> QED
      BY <3>2, <3>3, Zenon
  <2>8. RecvInv'
    <3>1. /\ NoneQueued("recv") => NoneQueued("recv")'
          /\ \A b : OneQueued("recv", b) => OneQueued("recv", b)'
      BY <1>1, QueuedKept
    <3>2. /\ NoneRequested("recv") => NoneRequested("recv")'
          /\ \A b : OneRequested("recv", b) => OneRequested("recv", b)'
      <4>1. CASE requests' = requests
        BY <4>1, Zenon DEF NoneRequested, OneRequested, IsRequested
      <4>2. CASE Started
        BY <4>2, OtherRequest, Zenon
      <4> QED
        BY <2>2, <4>1, <4>2, Zenon
    <3>3. /\ NoneFlies("recv") => NoneFlies("recv")'
          /\ \A b : OneFlies("recv", b) => OneFlies("recv", b)'
      BY <3>1, <3>2, Zenon DEF NoneFlies, OneFlies, InKernel
    <3> QED
      BY <1>3, <3>3, RecvKept, Zenon DEF IndInv, AllReceived, inputVars
  <2>9. \A r \in requests' : IsRequested(r, "send")' => r.size <= send'
    <3>1. CASE requests' = requests
      BY <1>3, <3>1, Zenon DEF IsRequested, AllFit
    <3>2. CASE Started /\ rest > 0
      BY <1>3, <2>3, <3>2, FrontFits, Zenon DEF IsRequested, AllFit
    <3> QED
      BY <2>2, <3>1, <3>2, Zenon
  <2>10. ~busy => SendBooks(InKernel)'
    <3>1. ASSUME ~busy PROVE Whole(peer'.heard - 0 + rest)
      <4>1. peer'.heard - 0 + rest = peer'.heard + rest
        BY <1>1
      <4> QED
        BY <3>1, <4>1, Zenon DEF Idle
    <3> QED
      BY <1>1, <1>3, <3>1 DEF SendBooks, Moved, InKernel
  <2>11. SendInv'
    <3>1. CASE busy
      <4>1. PICK b \in Results : /\ OneFlies("send", b)
                                 /\ Moved(b) <= peer'.heard /\ b <= rest
                                 /\ Whole(peer'.heard - Moved(b) + rest)
        BY <3>1, Zenon DEF StillBusy
      <4>2. OneFlies("send", b)'
        BY <1>1, <2>2, <3>1, <4>1, FlightsKept
      <4>3. SendBooks(b)'
        BY <1>3, <4>1, Zenon DEF SendBooks, Moved
      <4>4. sending'
        BY <2>1, <3>1, Zenon
      <4> QED
        BY <2>9, <4>2, <4>3, <4>4, Zenon DEF SendInv
    <3>2. CASE ~busy /\ sending'
      <4>1. OneFlies("send", InKernel)'
        BY <2>2, <3>2, FlightStarted, Zenon DEF Idle
      <4>2. InKernel \in Results
        BY Zenon DEF Results
      <4> QED
        BY <2>9, <2>10, <3>2, <4>1, <4>2, Zenon DEF SendInv
    <3>3. CASE ~busy /\ ~sending'
      <4>1. NoneFlies("send")'
        BY <2>1, <2>2, <3>3, Zenon DEF Idle, NoneFlies, NoneRequested, IsRequested
      <4> QED
        BY <2>9, <2>10, <3>3, <4>1, Zenon DEF SendInv
    <3> QED
      BY <3>1, <3>2, <3>3, Zenon
  <2> QED
    BY <2>4, <2>5, <2>6, <2>7, <2>8, <2>11, Zenon DEF IndInv
<1> QED
  BY <1>2, <1>3, Zenon DEF UpdateWriteInterest

\* What the books say when nothing is being sent.
LEMMA NothingFlies ==
  ASSUME IndInv, connected, ~sending
  PROVE  NoneFlies("send") /\ Whole(peer.heard + send)
<1>1. NoneFlies("send") /\ SendBooks(InKernel)
  BY Zenon DEF IndInv, SendInv
<1>2. Moved(InKernel) = 0
  BY DEF Moved, InKernel
<1>3. Whole(peer.heard - 0 + send)
  BY <1>1, <1>2, Zenon DEF SendBooks
<1>4. peer.heard - 0 + send = peer.heard + send
  BY DEF IndInv, TypeInv
<1> QED
  BY <1>1, <1>3, <1>4, Zenon

LEMMA HeadIs ==
  ASSUME TypeInv, tasks # <<>>
  PROVE  Head(tasks) = tasks[1] /\ 1 \in 1 .. Len(tasks) /\ tasks[1] \in TaskRecords
<1>1. tasks \in Seq(TaskRecords)
  BY Zenon DEF TypeInv
<1> QED
  BY <1>1

\* A task of an open session leaves the queue in order.
LEMMA TaskDone ==
  ASSUME IndInv, connected, tasks # <<>>, Done, UNCHANGED <<backend, session>>
  PROVE  Requeued(1, {}) /\ QueueInv'
<1>1. Requeued(1, {})
  BY Dequeued, Zenon DEF IndInv
<1>2. session \in Nat /\ session' \in Nat /\ session <= session'
  BY DEF IndInv, TypeInv
<1>3. QueueInv'
  BY <1>1, <1>2, QueueKept, NoOpenQueued DEF IndInv
<1> QED
  BY <1>1, <1>3, Zenon

LEMMA SendTaskKeeps == ASSUME IndInv, SendTask PROVE IndInv'
<1>1. /\ tasks # <<>> /\ tasks[1].kind = "send" /\ Done /\ todo = Nothing
      /\ UNCHANGED <<backend, session, todo, peer>>
  BY HeadIs, Zenon DEF SendTask, Takes, IndInv
<1>2. CASE ~connected
  BY <1>1, <1>2, TaskSkipped, Zenon DEF SendTask
<1>3. CASE connected
  <2>1. PICK rest \in Nat : rest = send + SendSize /\ rest > 0 /\ rest >= send
    BY Sizes DEF IndInv, TypeInv
  <2>2. pending = send /\ sending \in BOOLEAN /\ peer \in PeerRecords
    BY Zenon DEF IndInv, OutputInv, TypeInv, PeerRecords
  <2>3. UpdateWriteInterest(rest, rest, sending)
    BY <1>3, <2>1, <2>2, Zenon DEF SendTask
  <2>4. Requeued(1, {}) /\ QueueInv'
    BY <1>1, <1>3, TaskDone, Zenon
  <2>5. ~IsQueued(1, "recv") /\ ~IsQueued(1, "send") /\ tasks[1].kind # "continue"
    BY <1>1, Zenon DEF IsQueued
  <2>6. AllFit(rest)
    BY <1>3, <2>1 DEF AllFit, IndInv, SendInv, TypeInv, RequestRecords
  <2>7. backend # "iocp" => ~sending
    BY Zenon DEF IndInv, RequestInv
  <2>8. ASSUME sending PROVE StillBusy(rest)
    <3>1. PICK b \in Results : OneFlies("send", b) /\ SendBooks(b)
      BY <1>3, <2>8, Zenon DEF IndInv, SendInv
    <3>2. b \in Int /\ Moved(b) \in Nat /\ send \in Nat /\ peer.heard \in Nat
      BY DEF Moved, Results, InKernel, Failed, IndInv, TypeInv
    <3>3. PICK a \in Nat : a = peer.heard - Moved(b) + send
      BY <3>1, <3>2 DEF SendBooks
    <3>4. Whole(a + SendSize)
      BY <3>1, <3>3, OneMoreIsWhole, Zenon DEF SendBooks
    <3>5. peer'.heard - Moved(b) + rest = a + SendSize
      BY <1>1, <2>1, <3>2, <3>3, Sizes, SMTT(30)
    <3>6. Whole(peer'.heard - Moved(b) + rest)
      BY <3>4, <3>5, Zenon
    <3>7. Moved(b) <= peer'.heard /\ b <= rest
      BY <1>1, <2>1, <3>1, <3>2 DEF SendBooks
    <3> QED
      BY <3>1, <3>6, <3>7, Zenon DEF StillBusy
  <2>9. ASSUME ~sending PROVE Idle(rest)
    <3>1. NoneFlies("send") /\ Whole(peer.heard + send)
      BY <1>3, <2>9, NothingFlies, Zenon
    <3>2. NoneQueued("send")'
      BY <1>1, <2>4, <2>5, <3>1, QueuedKept DEF IndInv, NoneFlies
    <3>3. PICK a \in Nat : a = peer.heard + send
      BY DEF IndInv, TypeInv
    <3>4. Whole(a + SendSize)
      BY <3>1, <3>3, OneMoreIsWhole, Zenon
    <3>5. peer'.heard + rest = a + SendSize
      BY <1>1, <2>1, <3>3, Sizes DEF IndInv, TypeInv
    <3> QED
      BY <3>1, <3>2, <3>4, <3>5, Zenon DEF Idle, NoneFlies
  <2> QED
    BY <1>1, <1>3, <2>1, <2>2, <2>3, <2>4, <2>5, <2>6, <2>7, <2>8, <2>9, UpdateKeeps, Names, Zenon
<1> QED
  BY <1>2, <1>3, Zenon

\* PlatformHandleWritable, in either place it is called from.
LEMMA WritableKeeps ==
  ASSUME IndInv, connected, backend # "iocp", NEW d, Requeued(d, {}), QueueInv',
         d = 1 => tasks[1].kind \notin {"continue", "completion"},
         HandleWritable, UNCHANGED <<backend, session>>, todo' = Nothing, todo # "recv"
  PROVE  IndInv'
<1>1. /\ TypeInv /\ peer \in PeerRecords /\ send \in Nat /\ pending = send
      /\ requests = {} /\ sending = FALSE
  BY Zenon DEF IndInv, OutputInv, RequestInv, TypeInv, PeerRecords
<1>2. d = 1 => tasks[1].kind # "continue" /\ ~IsQueued(1, "recv") /\ ~IsQueued(1, "send")
  BY Zenon DEF IsQueued
<1>3. NoneFlies("send") /\ Whole(peer.heard + send)
  BY <1>1, NothingFlies, Zenon
<1>4. ASSUME NEW n \in 0 .. Smaller(send, WriteMax + SendSize - 1),
             UpdateWriteInterest(send - n, pending - n, sending),
             peer' = [peer EXCEPT !.heard = @ + n]
      PROVE  IndInv'
  <2>1. n \in Nat /\ n <= send
    BY <1>1, <1>4, Sizes DEF Smaller
  <2>2. PICK rest \in Nat : rest = send - n
    BY <1>1, <2>1
  <2>3. UpdateWriteInterest(rest, rest, FALSE)
    BY <1>1, <1>4, <2>2, Zenon
  <2>4. /\ peer'.received = peer.received /\ peer'.frames = peer.frames
        /\ peer'.sent = peer.sent /\ peer'.fin = peer.fin /\ peer'.heard = peer.heard + n
    BY <1>1, <1>4, Zenon DEF PeerRecords
  <2>5. peer.heard + n \in Nat
    BY <1>1, <2>1 DEF PeerRecords
  <2>6. peer' \in PeerRecords
    BY <1>1, <1>4, <2>5, Zenon DEF PeerRecords
  <2>7. peer'.heard + rest = peer.heard + send
    BY <1>1, <2>1, <2>2, <2>4 DEF PeerRecords
  <2>8. Whole(peer'.heard + rest)
    BY <1>3, <2>7, Zenon
  <2>9. NoneRequested("send") /\ NoneQueued("send")'
    BY <1>1, <1>2, <1>3, QueuedKept DEF NoneFlies
  <2>10. Idle(rest) /\ AllFit(rest)
    BY <1>1, <2>8, <2>9, ZenonT(40) DEF Idle, AllFit
  <2> QED
    BY <1>1, <1>2, <2>3, <2>4, <2>6, <2>10, UpdateKeeps, ZenonT(40)
<1>5. ASSUME StartClose("Error"), UNCHANGED <<requests, peer>> PROVE IndInv'
  <2>1. peer'.received <= peer'.sent
    BY <1>5, Zenon DEF IndInv, EndInv
  <2> QED
    BY <1>1, <1>5, <2>1, CloseKeeps, Zenon DEF PeerRecords
<1> QED
  BY <1>4, <1>5, Zenon DEF HandleWritable

LEMMA HandlePollEventWritesKeeps == ASSUME IndInv, HandlePollEventWrites PROVE IndInv'
<1>1. connected /\ backend # "iocp" /\ todo = "write" /\ todo # "recv"
  BY Names, Zenon DEF IndInv, TodoInv, HandlePollEventWrites
<1>2. todo' = Nothing /\ UNCHANGED <<backend, session, tasks>> /\ HandleWritable
  BY Zenon DEF HandlePollEventWrites
<1>3. Requeued(0, {})
  BY <1>2, Unqueued, Zenon DEF IndInv
<1>4. session \in Nat /\ session' \in Nat /\ session <= session'
  BY <1>2 DEF IndInv, TypeInv
<1>5. QueueInv'
  BY <1>1, <1>2, <1>3, <1>4, QueueKept, NoOpenQueued DEF IndInv
<1> QED
  BY <1>1, <1>2, <1>3, <1>5, WritableKeeps

-----------------------------------------------------------------------------
(* The tasks that read and parse. *)

LEMMA ContinueOnly == \A x \in {Task("continue")} : x.kind # "completion"
  BY PlainTasks, Zenon

\* What the books say when nothing is being received.
LEMMA NothingComes ==
  ASSUME IndInv, connected, ~receiving
  PROVE  NoneFlies("recv") /\ peer.received = peer.frames * FrameSize + recv
<1>1. NoneFlies("recv") /\ RecvBooks(InKernel)
  BY Zenon DEF IndInv, RecvInv
<1>2. Moved(InKernel) = 0
  BY DEF Moved, InKernel
<1>3. PICK f \in Nat : f = peer.frames * FrameSize
  BY Product, Sizes, Zenon DEF IndInv, TypeInv
<1>4. peer.received = f + recv + 0
  BY <1>1, <1>2, <1>3, Zenon DEF RecvBooks
<1>5. peer.received = f + recv
  BY <1>4 DEF IndInv, TypeInv
<1> QED
  BY <1>1, <1>3, <1>5, Zenon

\* The loop of recv ends before the budget only when it has read all there is.
LEMMA WhatIsRead ==
  ASSUME peer \in PeerRecords, peer.received <= peer.sent, HandleReadable
  PROVE  \E read \in Nat : /\ ParseInput(recv + read, RecvEnds(read), read, FALSE)
                           /\ read <= peer.sent - peer.received
                           /\ read < ReadMax => read = peer.sent - peer.received
<1>1. PICK read \in Reads : ParseInput(recv + read, RecvEnds(read), read, FALSE)
  BY Zenon DEF HandleReadable
<1>2. PICK there \in Nat : there = peer.sent - peer.received
  BY DEF PeerRecords
<1>3. PICK most \in Nat : most = ReadMax + CacheSize - 1
  BY Sizes
<1>4. read \in IF there < ReadMax THEN {there} ELSE ReadMax .. Smaller(there, most)
  BY <1>1, <1>2, <1>3, Zenon DEF Reads
<1>5. read \in Nat /\ read <= there /\ (read < ReadMax => read = there)
  BY <1>3, <1>4, Sizes DEF Smaller
<1> QED
  BY <1>1, <1>2, <1>5, Zenon

LEMMA HandleReadableKeeps ==
  ASSUME IndInv, connected, backend # "iocp", tasks # <<>>, tasks[1].kind = "event", HandleReadable,
         UNCHANGED <<backend, session>>, todo' \in {Nothing, "write"}, todo' # Nothing => connected'
  PROVE  IndInv'
<1>1. /\ TypeInv /\ peer \in PeerRecords /\ recv \in Nat /\ peer.received <= peer.sent
      /\ receiving = FALSE /\ ReadMax \in Nat \ {0}
  BY Sizes, Zenon DEF IndInv, EndInv, RequestInv, TypeInv, PeerRecords
<1>2. PICK read \in Nat : /\ ParseInput(recv + read, RecvEnds(read), read, FALSE)
                          /\ read <= peer.sent - peer.received
                          /\ read < ReadMax => read = peer.sent - peer.received
  BY <1>1, WhatIsRead, Zenon
<1>3. PICK total \in Nat : total = recv + read
  BY <1>1
<1>4. PICK close \in {NoClose, "Error", "RemoteClosed"} :
        close = RecvEnds(read) /\ (close = "RemoteClosed" => peer.fin /\ read < ReadMax)
  <2>1. RecvEnds(read) \in {NoClose, "Error", "RemoteClosed"}
    BY Zenon DEF RecvEnds
  <2>2. RecvEnds(read) = "RemoteClosed" => peer.fin /\ read < ReadMax
    BY Names, Zenon DEF RecvEnds
  <2> QED
    BY <2>1, <2>2, Zenon
<1>5. ParseInput(total, close, read, FALSE)
  BY <1>2, <1>3, <1>4, Zenon
<1>6. ~IsQueued(1, "send") /\ ~IsQueued(1, "recv")
  BY Zenon DEF IsQueued
<1>7. NoneFlies("recv") /\ peer.received = peer.frames * FrameSize + recv
  BY <1>1, NothingComes, Zenon
<1>8. NoneFlies("recv")'
  <2>1. Requeued(1, {Task("continue")})
    BY <1>1, <1>5, ParseRequeues, ZenonT(40)
  <2>2. UNCHANGED requests
    BY <1>5, ZenonT(40) DEF ParseInput
  <2> QED
    BY <1>1, <1>6, <1>7, <2>1, <2>2, ContinueOnly, FlightsKept
<1>9. peer.received + read = peer.frames * FrameSize + total
  <2>1. PICK f \in Nat : f = peer.frames * FrameSize
    BY <1>1, Product, Sizes, Zenon DEF PeerRecords
  <2>2. peer.received = f + recv
    BY <1>7, <2>1, Zenon
  <2>3. peer.received + read = f + total
    BY <1>1, <1>3, <2>2
  <2> QED
    BY <2>1, <2>3, Zenon
<1>10. /\ peer.received + read <= peer.sent
       /\ close = "RemoteClosed" => peer.fin /\ peer.received + read = peer.sent
  BY <1>1, <1>2, <1>4 DEF PeerRecords
<1>11. todo' # "recv" /\ todo' \in {Nothing, "write", "recv"} /\ FALSE \in BOOLEAN
  BY Names, Zenon
<1> QED
  BY <1>5, <1>6, <1>8, <1>9, <1>10, <1>11, ParseInputKeeps, ZenonT(40)

LEMMA HandlePollEventKeeps == ASSUME IndInv, HandlePollEvent PROVE IndInv'
<1>1. /\ tasks # <<>> /\ tasks[1].kind = "event" /\ Head(tasks) = tasks[1] /\ backend # "iocp"
      /\ todo = Nothing /\ UNCHANGED <<backend, session>>
  BY HeadIs, Zenon DEF HandlePollEvent, Takes, IndInv, QueueInv
<1>2. CASE Stale(tasks[1])
  <2>1. Done /\ UNCHANGED <<todo, bufferVars, peer>>
    BY <1>1, <1>2, Zenon DEF HandlePollEvent
  <2> QED
    BY <1>1, <2>1, TaskSkipped, Zenon
<1>3. CASE ~Stale(tasks[1]) /\ "error" \in tasks[1].events
  <2>1. Done /\ StartClose("Error") /\ UNCHANGED <<todo, requests, peer>>
    BY <1>1, <1>3, Zenon DEF HandlePollEvent
  <2>2. peer'.received <= peer'.sent /\ peer' \in PeerRecords
    BY <2>1, Zenon DEF IndInv, EndInv, TypeInv, PeerRecords
  <2> QED
    BY <1>1, <2>1, <2>2, TaskCloses, Zenon DEF PeerRecords
<1>4. CASE ~Stale(tasks[1]) /\ "error" \notin tasks[1].events /\ "readable" \in tasks[1].events
  <2>1. /\ HandleReadable
        /\ todo' = IF connected' /\ "writable" \in tasks[1].events THEN "write" ELSE Nothing
    BY <1>1, <1>4, Zenon DEF HandlePollEvent
  <2>2. connected
    BY <1>4, Zenon DEF Stale
  <2> QED
    BY <1>1, <2>1, <2>2, HandleReadableKeeps, Names, Zenon
<1>5. CASE ~Stale(tasks[1]) /\ "error" \notin tasks[1].events /\ "readable" \notin tasks[1].events
  <2>1. Done /\ HandleWritable /\ UNCHANGED todo
    BY <1>1, <1>5, Zenon DEF HandlePollEvent
  <2>2. connected
    BY <1>5, Zenon DEF Stale
  <2>3. Requeued(1, {}) /\ QueueInv'
    BY <1>1, <2>1, <2>2, TaskDone, Zenon
  <2> QED
    BY <1>1, <2>1, <2>2, <2>3, WritableKeeps, Names, Zenon
<1> QED
  BY <1>2, <1>3, <1>4, <1>5, Zenon

LEMMA ContinueTaskKeeps == ASSUME IndInv, ContinueTask PROVE IndInv'
<1>1. /\ tasks # <<>> /\ tasks[1].kind = "continue" /\ todo = Nothing
      /\ UNCHANGED <<backend, session, todo>>
  BY HeadIs, Zenon DEF ContinueTask, Takes, IndInv
<1>2. CASE ~connected
  BY <1>1, <1>2, TaskSkipped, Zenon DEF ContinueTask
<1>3. CASE connected
  <2>1. /\ TypeInv /\ peer \in PeerRecords /\ recv \in Nat /\ receiving \in BOOLEAN
        /\ peer.received <= peer.sent
    BY Zenon DEF IndInv, EndInv, TypeInv, PeerRecords
  <2>2. ParseInput(recv, NoClose, 0, receiving)
    BY <1>3, Zenon DEF ContinueTask
  <2>3. ~IsQueued(1, "send") /\ ~IsQueued(1, "recv")
    BY <1>1, Zenon DEF IsQueued
  <2>4. /\ NoneFlies("recv") => NoneFlies("recv")'
        /\ \A b : OneFlies("recv", b) => OneFlies("recv", b)'
    <3>1. Requeued(1, {Task("continue")})
      BY <1>1, <2>1, <2>2, ParseRequeues, Zenon
    <3>2. UNCHANGED requests
      BY <2>2, ZenonT(40) DEF ParseInput
    <3> QED
      BY <1>1, <2>1, <2>3, <3>1, <3>2, ContinueOnly, FlightsKept
  <2>5. peer.received + 0 = peer.received
    BY <2>1 DEF PeerRecords
  <2>6. ASSUME receiving
        PROVE  \E b \in Results : /\ OneFlies("recv", b)'
                                  /\ peer.received + 0 = peer.frames * FrameSize + recv + Moved(b)
                                  /\ b = 0 => peer.fin /\ peer.received + 0 = peer.sent
    <3>1. PICK b \in Results : OneFlies("recv", b) /\ RecvBooks(b)
      BY <1>3, <2>6, Zenon DEF IndInv, RecvInv
    <3> QED
      BY <2>4, <2>5, <3>1, Zenon DEF RecvBooks, AllReceived
  <2>7. ASSUME ~receiving
        PROVE  NoneFlies("recv")' /\ peer.received + 0 = peer.frames * FrameSize + recv
    BY <1>3, <2>4, <2>5, <2>7, NothingComes, Zenon
  <2>8. /\ backend # "iocp" => ~receiving
        /\ backend = "iocp" => (receiving <=> NoClose = NoClose /\ deferred = NoClose /\ todo' # "recv")
    BY <1>1, <1>3, Zenon DEF IndInv, RequestInv, InputInv
  <2>9. peer.received + 0 <= peer.sent /\ 0 \in Nat
    BY <2>1 DEF PeerRecords
  <2> QED
    BY <1>1, <1>3, <2>1, <2>2, <2>3, <2>6, <2>7, <2>8, <2>9, ParseInputKeeps, Names
<1> QED
  BY <1>2, <1>3

-----------------------------------------------------------------------------
(* The completions. *)

\* A completion of this session that a task sees was the one under way.
LEMMA RecvArrives ==
  ASSUME IndInv, connected, IsQueued(1, "recv"), NEW new, Requeued(1, new),
         \A x \in new : x.kind # "completion", UNCHANGED <<session, requests>>
  PROVE  /\ receiving /\ deferred = NoClose /\ backend = "iocp"
         /\ tasks[1].bytes \in {Failed} \cup Nat
         /\ NoneFlies("recv")'
         /\ RecvBooks(tasks[1].bytes)
<1>1. TypeInv /\ 1 \in 1 .. Len(tasks)
  BY DEF IndInv, TypeInv, Requeued
<1>2. ~NoneQueued("recv")
  BY <1>1, Zenon DEF NoneQueued
<1>3. receiving
  BY <1>2, Zenon DEF IndInv, RecvInv, NoneFlies
<1>4. PICK b \in Results : OneFlies("recv", b) /\ RecvBooks(b)
  BY <1>3, Zenon DEF IndInv, RecvInv
<1>5. NoneRequested("recv") /\ OneQueued("recv", b) /\ b # InKernel
  BY <1>2, <1>4, Zenon DEF OneFlies
<1>6. NoneQueued("recv")' /\ tasks[1].bytes = b
  BY <1>1, <1>5, QueuedTaken, Zenon
<1>7. NoneRequested("recv")'
  BY <1>5, Zenon DEF NoneRequested, IsRequested
<1>8. backend = "iocp"
  BY <1>3, Zenon DEF IndInv, RequestInv
<1>9. deferred = NoClose
  BY <1>3, <1>8, Zenon DEF IndInv, InputInv
<1> QED
  BY <1>3, <1>4, <1>5, <1>6, <1>7, <1>8, <1>9, ZenonT(40) DEF NoneFlies, Results

LEMMA SendArrives ==
  ASSUME IndInv, connected, IsQueued(1, "send"), Requeued(1, {}), UNCHANGED session
  PROVE  /\ sending /\ NoneRequested("send") /\ NoneQueued("send")'
         /\ tasks[1].bytes \in {Failed} \cup Nat
         /\ SendBooks(tasks[1].bytes)
<1>1. TypeInv /\ 1 \in 1 .. Len(tasks)
  BY DEF IndInv, TypeInv, Requeued
<1>2. ~NoneQueued("send")
  BY <1>1, Zenon DEF NoneQueued
<1>3. sending
  BY <1>2, Zenon DEF IndInv, SendInv, NoneFlies
<1>4. PICK b \in Results : OneFlies("send", b) /\ SendBooks(b)
  BY <1>3, Zenon DEF IndInv, SendInv
<1>5. NoneRequested("send") /\ OneQueued("send", b) /\ b # InKernel
  BY <1>2, <1>4, Zenon DEF OneFlies
<1>6. NoneQueued("send")' /\ tasks[1].bytes = b
  BY <1>1, <1>5, QueuedTaken
<1> QED
  BY <1>3, <1>4, <1>5, <1>6, Zenon DEF Results

\* The peer's close, with messages still buffered: it waits for them.
LEMMA CloseIsDeferred ==
  ASSUME IndInv, connected, tasks # <<>>, tasks[1].kind = "completion", IsQueued(1, "recv"),
         tasks[1].bytes = 0, continuing, Done, deferred' = "RemoteClosed", receiving' = FALSE, todo = Nothing,
         UNCHANGED <<backend, session, todo, connected, closed, recv, continuing, outputVars, sending,
                     requests, peer>>
  PROVE  IndInv'
<1>1. Requeued(1, {}) /\ QueueInv'
  BY TaskDone, Zenon
<1>2. /\ receiving /\ deferred = NoClose /\ backend = "iocp" /\ NoneFlies("recv")' /\ RecvBooks(0)
  BY <1>1, RecvArrives
<1>3. TypeInv'
  BY <1>1, Zenon DEF IndInv, TypeInv, Requeued, outputVars
<1>4. RequestInv' /\ TodoInv' /\ ClosedInv' /\ OutputInv'
  BY <1>2, Zenon DEF IndInv, RequestInv, TodoInv, ClosedInv, OutputInv, outputVars
<1>5. AllReceived
  BY <1>2, Zenon DEF RecvBooks
<1>6. InputInv' /\ EndInv'
  <2>1. Continues
    BY Zenon DEF IndInv, InputInv
  <2>2. Continues'
    BY <1>1, <2>1, ContinuesKept, Zenon DEF IndInv
  <2> QED
    BY <1>5, <2>2, Names, Zenon DEF IndInv, InputInv, EndInv, AllReceived
<1>7. RecvInv'
  <2>1. RecvBooks(InKernel)'
    BY <1>2 DEF RecvBooks, Moved, InKernel
  <2> QED
    BY <1>2, <2>1, Zenon DEF RecvInv
<1>8. SendInv'
  <2>1. ~IsQueued(1, "send")
    BY Zenon DEF IsQueued
  <2>2. (NoneFlies("send") => NoneFlies("send")') /\ \A b : OneFlies("send", b) => OneFlies("send", b)'
    BY <1>1, <2>1, FlightsKept DEF IndInv
  <2>3. \A r \in requests' : IsRequested(r, "send")' => r \in requests /\ IsRequested(r, "send")
    BY Zenon DEF IsRequested
  <2> QED
    BY <2>2, <2>3, SendKept, Zenon DEF IndInv, outputVars
<1> QED
  BY <1>1, <1>3, <1>4, <1>6, <1>7, <1>8, Zenon DEF IndInv

LEMMA HandleRecvCompletionKeeps == ASSUME IndInv, HandleRecvCompletion PROVE IndInv'
<1>1. /\ TypeInv /\ tasks # <<>> /\ tasks[1].kind = "completion" /\ tasks[1].op = "recv"
      /\ Head(tasks) = tasks[1] /\ todo = Nothing /\ UNCHANGED <<backend, session>>
      /\ recv \in Nat /\ peer \in PeerRecords /\ peer.received <= peer.sent
  BY HeadIs, Zenon DEF HandleRecvCompletion, CompletionTask, Takes, IndInv, EndInv, TypeInv, PeerRecords
<1>2. CASE Stale(tasks[1])
  <2>1. Done /\ UNCHANGED <<todo, bufferVars, peer>>
    BY <1>1, <1>2, Zenon DEF HandleRecvCompletion
  <2>2. connected => tasks[1].of # session
    BY <1>2, Zenon DEF Stale
  <2> QED
    BY <1>1, <2>1, <2>2, TaskSkipped, Zenon
<1>3. ASSUME ~Stale(tasks[1]) PROVE connected /\ IsQueued(1, "recv") /\ ~IsQueued(1, "send")
  BY <1>1, <1>3, Zenon DEF Stale, IsQueued
<1>4. CASE ~Stale(tasks[1]) /\ tasks[1].bytes = Failed
  <2>1. Done /\ StartClose("Error") /\ UNCHANGED <<todo, requests, peer>>
    BY <1>1, <1>4, Zenon DEF HandleRecvCompletion
  <2> QED
    BY <1>1, <2>1, TaskCloses, Zenon DEF PeerRecords
<1>5. CASE ~Stale(tasks[1]) /\ tasks[1].bytes # Failed /\ tasks[1].bytes = 0 /\ recv > 0 /\ continuing
  <2>1. /\ Done /\ deferred' = "RemoteClosed" /\ receiving' = FALSE
        /\ UNCHANGED <<todo, connected, closed, recv, continuing, outputVars, sending, requests, peer>>
    BY <1>1, <1>5, Zenon DEF HandleRecvCompletion
  <2> QED
    BY <1>1, <1>3, <1>5, <2>1, CloseIsDeferred, ZenonT(40)
<1>6. CASE ~Stale(tasks[1]) /\ tasks[1].bytes # Failed /\ tasks[1].bytes = 0 /\ ~(recv > 0 /\ continuing)
  <2>1. ParseInput(recv, "RemoteClosed", 0, FALSE) /\ UNCHANGED todo
    BY <1>1, <1>6, Zenon DEF HandleRecvCompletion
  <2>2. UNCHANGED requests /\ Requeued(1, {Task("continue")})
    <3>1. Requeued(1, {Task("continue")})
      BY <1>1, <2>1, ParseRequeues, ZenonT(40)
    <3>2. UNCHANGED requests
      BY <2>1, Zenon DEF ParseInput
    <3> QED
      BY <3>1, <3>2, Zenon
  <2>3. /\ deferred = NoClose /\ backend = "iocp" /\ NoneFlies("recv")' /\ RecvBooks(0)
    BY <1>1, <1>3, <1>6, <2>2, RecvArrives, ContinueOnly
  <2>4. PICK f \in Nat : f = peer.frames * FrameSize
    BY <1>1, Product, Sizes, Zenon DEF PeerRecords
  <2>5. Moved(0) = 0
    BY Zenon DEF Moved
  <2>6. peer.received = f + recv + 0
    BY <2>3, <2>4, <2>5, Zenon DEF RecvBooks
  <2>7. peer.received + 0 = f + recv
    BY <1>1, <2>6 DEF PeerRecords
  <2>8. peer.fin /\ peer.received + 0 = peer.sent /\ peer.received + 0 <= peer.sent /\ 0 \in Nat
    BY <1>1, <2>3 DEF RecvBooks, AllReceived, PeerRecords
  <2>9. peer.received + 0 = peer.frames * FrameSize + recv
    BY <2>4, <2>7, Zenon
  <2> QED
    BY <1>1, <1>3, <1>6, <2>1, <2>3, <2>8, <2>9, ParseInputKeeps, Names, ZenonT(40)
<1>7. CASE ~Stale(tasks[1]) /\ tasks[1].bytes # Failed /\ tasks[1].bytes # 0
  <2>1. /\ ParseInput(recv + tasks[1].bytes, NoClose, 0, FALSE)
        /\ todo' = IF connected' THEN "recv" ELSE Nothing
    BY <1>1, <1>7, Zenon DEF HandleRecvCompletion
  <2>2. UNCHANGED requests /\ Requeued(1, {Task("continue")})
    <3>1. Requeued(1, {Task("continue")})
      BY <1>1, <2>1, ParseRequeues, Zenon
    <3>2. UNCHANGED requests
      BY <2>1, Zenon DEF ParseInput
    <3> QED
      BY <3>1, <3>2
  <2>3. /\ deferred = NoClose /\ backend = "iocp" /\ NoneFlies("recv")' /\ RecvBooks(tasks[1].bytes)
        /\ tasks[1].bytes \in Nat
    BY <1>1, <1>3, <1>7, <2>2, RecvArrives, ContinueOnly
  <2>4. PICK f \in Nat : f = peer.frames * FrameSize
    BY <1>1, Product, Sizes, Zenon DEF PeerRecords
  <2>5. Moved(tasks[1].bytes) = tasks[1].bytes
    BY <1>7, <2>3 DEF Moved
  <2>6. peer.received = f + recv + tasks[1].bytes
    BY <2>3, <2>4, <2>5, Zenon DEF RecvBooks
  <2>7. PICK total \in Nat : total = recv + tasks[1].bytes
    BY <1>1, <2>3
  <2>8. peer.received + 0 = f + total
    <3>1. \A n \in Nat : peer.received = f + recv + n /\ total = recv + n => peer.received + 0 = f + total
      BY <1>1 DEF PeerRecords
    <3> QED
      BY <2>3, <2>6, <2>7, <3>1, Zenon
  <2>9. peer.received + 0 = peer.frames * FrameSize + total
    BY <2>4, <2>8, Zenon
  <2>10. ParseInput(total, NoClose, 0, FALSE)
    BY <2>1, <2>7, Zenon
  <2>11. peer.received + 0 <= peer.sent /\ 0 \in Nat
    BY <1>1 DEF PeerRecords
  <2> QED
    BY <1>1, <1>3, <1>7, <2>1, <2>3, <2>9, <2>10, <2>11, ParseInputKeeps, Names, ZenonT(40)
<1> QED
  BY <1>2, <1>4, <1>5, <1>6, <1>7, Zenon

LEMMA HandleSendCompletionKeeps == ASSUME IndInv, HandleSendCompletion PROVE IndInv'
<1>1. /\ TypeInv /\ tasks # <<>> /\ tasks[1].kind = "completion" /\ tasks[1].op = "send"
      /\ Head(tasks) = tasks[1] /\ todo = Nothing /\ Done /\ UNCHANGED <<backend, session, todo, peer>>
      /\ send \in Nat /\ pending = send /\ peer \in PeerRecords /\ peer.received <= peer.sent
  BY HeadIs, Zenon DEF HandleSendCompletion, CompletionTask, Takes, IndInv, EndInv, OutputInv, TypeInv, PeerRecords
<1>2. CASE Stale(tasks[1])
  <2>1. UNCHANGED bufferVars
    BY <1>1, <1>2, ZenonT(40) DEF HandleSendCompletion
  <2>2. connected => tasks[1].of # session
    BY <1>2 DEF Stale
  <2> QED
    BY <1>1, <2>1, <2>2, TaskSkipped, Zenon
<1>3. CASE ~Stale(tasks[1]) /\ tasks[1].bytes = Failed
  <2>1. StartClose("Error") /\ UNCHANGED requests
    BY <1>1, <1>3, ZenonT(40) DEF HandleSendCompletion
  <2> QED
    BY <1>1, <2>1, TaskCloses, Zenon DEF PeerRecords
<1>4. CASE ~Stale(tasks[1]) /\ tasks[1].bytes # Failed
  <2>1. UpdateWriteInterest(send - tasks[1].bytes, pending - tasks[1].bytes, FALSE)
    BY <1>1, <1>4, Zenon DEF HandleSendCompletion
  <2>2. connected /\ IsQueued(1, "send") /\ ~IsQueued(1, "recv")
    BY <1>1, <1>4, Zenon DEF Stale, IsQueued
  <2>3. Requeued(1, {}) /\ QueueInv'
    BY <1>1, <2>2, TaskDone, Zenon
  <2>4. /\ NoneRequested("send") /\ NoneQueued("send")' /\ tasks[1].bytes \in Nat
        /\ SendBooks(tasks[1].bytes)
    BY <1>1, <1>4, <2>2, <2>3, SendArrives, Zenon
  <2>5. Moved(tasks[1].bytes) = tasks[1].bytes
    BY <2>4 DEF Moved
  <2>6. PICK rest \in Nat : rest = send - tasks[1].bytes
    BY <1>1, <2>4 DEF SendBooks
  <2>7. UpdateWriteInterest(rest, rest, FALSE)
    BY <1>1, <2>1, <2>6, Zenon
  <2>8. Whole(peer.heard - tasks[1].bytes + send)
    BY <2>4, <2>5, Zenon DEF SendBooks
  <2>9. peer'.heard + rest = peer.heard - tasks[1].bytes + send
    BY <1>1, <2>4, <2>6, SMTT(30) DEF PeerRecords
  <2>10. Whole(peer'.heard + rest)
    BY <2>8, <2>9, Zenon
  <2>11. Idle(rest) /\ AllFit(rest)
    BY <2>4, <2>10, ZenonT(40) DEF Idle, AllFit, NoneRequested
  <2> QED
    BY <1>1, <2>2, <2>3, <2>4, <2>7, <2>11, UpdateKeeps, Names, ZenonT(40)
<1> QED
  BY <1>2, <1>3, <1>4, Zenon

\* After the handler's callbacks the next receive request is started.
LEMMA HandleRecvCompletionReceivesKeeps == ASSUME IndInv, HandleRecvCompletionReceives PROVE IndInv'
<1>1. /\ TypeInv /\ todo = "recv" /\ connected /\ backend = "iocp" /\ todo' = Nothing
      /\ UNCHANGED <<backend, session, tasks, peer>>
  BY Names, Zenon DEF HandleRecvCompletionReceives, IndInv, TodoInv
<1>2. deferred = NoClose /\ ~receiving
  BY <1>1, Names, Zenon DEF IndInv, InputInv
<1>3. Requeued(0, {})
  BY <1>1, Unqueued, Zenon
<1>4. QueueInv'
  <2>1. session \in Nat /\ session' \in Nat /\ session <= session'
    BY <1>1 DEF TypeInv
  <2> QED
    BY <1>1, <1>3, <2>1, QueueKept, NoOpenQueued DEF IndInv
<1>5. ASSUME StartClose("Error"), UNCHANGED requests PROVE IndInv'
  <2>1. peer' \in PeerRecords /\ peer'.received <= peer'.sent
    BY <1>1, Zenon DEF TypeInv, PeerRecords, IndInv, EndInv
  <2> QED
    BY <1>1, <1>3, <1>4, <1>5, <2>1, CloseKeeps, Zenon DEF PeerRecords
<1>6. ASSUME receiving' = TRUE, requests' = requests \cup {Request("recv", session, CacheSize)},
             UNCHANGED <<connected, closed, inputVars, outputVars, sending>>
      PROVE  IndInv'
  <2>1. /\ Request("recv", session, CacheSize) \in RequestRecords
        /\ Request("recv", session, CacheSize).of = session
        /\ Request("recv", session, CacheSize).op = "recv"
    BY <1>1, Sizes DEF TypeInv, Request, RequestRecords, Ops, InKernel
  <2>2. TypeInv'
    BY <1>1, <1>6, <2>1, Zenon DEF TypeInv, inputVars, outputVars
  <2>3. RequestInv'
    BY <1>1, <1>6, <2>1 DEF IndInv, TypeInv, RequestInv
  <2>4. TodoInv' /\ ClosedInv' /\ OutputInv' /\ InputInv' /\ EndInv'
    BY <1>1, <1>2, <1>6, Names, Zenon
       DEF IndInv, TodoInv, ClosedInv, OutputInv, InputInv, EndInv, AllReceived, Continues, inputVars, outputVars
  <2>5. RecvInv'
    <3>1. NoneFlies("recv") /\ RecvBooks(InKernel)
      BY <1>1, <1>2, Zenon DEF IndInv, RecvInv
    <3>2. NoneQueued("recv")'
      BY <1>1, <3>1, Zenon DEF NoneFlies, NoneQueued, IsQueued
    <3>3. OneFlies("recv", InKernel)'
      BY <1>1, <1>6, <3>1, <3>2, FlightStarted, Zenon DEF NoneFlies
    <3>4. RecvBooks(InKernel)' /\ InKernel \in Results
      BY <1>1, <1>6, <3>1, Zenon DEF RecvBooks, Moved, InKernel, Results, AllReceived, inputVars
    <3> QED
      BY <1>6, <3>3, <3>4, Zenon DEF RecvInv
  <2>6. SendInv'
    <3>1. /\ NoneRequested("send") <=> NoneRequested("send")'
          /\ \A b : OneRequested("send", b) <=> OneRequested("send", b)'
      BY <1>1, <1>6, OtherRequest, Zenon
    <3>2. /\ NoneQueued("send") => NoneQueued("send")'
          /\ \A b : OneQueued("send", b) => OneQueued("send", b)'
      BY <1>1, <1>3, QueuedKept
    <3>3. (NoneFlies("send") => NoneFlies("send")') /\ \A b : OneFlies("send", b) => OneFlies("send", b)'
      BY <3>1, <3>2, Zenon DEF NoneFlies, OneFlies, InKernel
    <3>4. \A r \in requests' : IsRequested(r, "send")' => r \in requests /\ IsRequested(r, "send")
      BY <1>1, <1>6, <2>1, Zenon DEF IsRequested
    <3> QED
      BY <1>1, <1>6, <3>3, <3>4, SendKept, Zenon DEF IndInv, outputVars
  <2> QED
    BY <1>4, <2>2, <2>3, <2>4, <2>5, <2>6, Zenon DEF IndInv
<1> QED
  BY <1>5, <1>6, Zenon DEF HandleRecvCompletionReceives, PlatformStartRecv, StartRecv

-----------------------------------------------------------------------------
(* A new session. *)

\* Nothing is under way for a session that is only now opened.
LEMMA NothingOfNewSession ==
  ASSUME IndInv, session' = session + 1, Requeued(1, {}), NEW op
  PROVE  /\ NoneQueued(op)'
         /\ \A r \in requests : r.of # session'
<1>1. /\ TypeInv /\ session \in Nat /\ Len(tasks) \in Nat /\ Len(tasks') \in Nat
      /\ \A i \in 1 .. Len(tasks) : tasks[i].of \in Nat
      /\ \A r \in requests : r.of \in Nat
  BY TaskTypes DEF IndInv, TypeInv, Requeued, RequestRecords
<1>2. \A r \in requests : r.of # session'
  BY <1>1 DEF IndInv, RequestInv
<1>3. \A i \in 1 .. Len(tasks') : i + 1 \in 1 .. Len(tasks) /\ tasks'[i] = tasks[i + 1]
  BY <1>1 DEF Requeued
<1>4. \A i \in 1 .. Len(tasks) : tasks[i].of # session'
  BY <1>1 DEF IndInv, QueueInv
<1>5. NoneQueued(op)'
  BY <1>3, <1>4, Zenon DEF NoneQueued, IsQueued
<1> QED
  BY <1>2, <1>5, Zenon

LEMMA OpenTaskKeeps == ASSUME IndInv, OpenTask PROVE IndInv'
<1>1. /\ TypeInv /\ tasks # <<>> /\ tasks[1].kind = "open" /\ 1 \in 1 .. Len(tasks) /\ todo = Nothing
      /\ Done /\ session \in Nat /\ session' = session + 1 /\ peer' = FreshPeer
      /\ UNCHANGED <<backend, todo, inputVars, outputVars, sending>>
  BY HeadIs, Zenon DEF OpenTask, Takes, IndInv, TypeInv
<1>2. connected = FALSE
  BY <1>1, Zenon DEF IndInv, QueueInv, TypeInv
<1>3. /\ recv = 0 /\ ~continuing /\ deferred = NoClose
      /\ send = 0 /\ ~writable /\ ~receiving /\ ~sending /\ pending = send
  BY <1>2, Zenon DEF IndInv, ClosedInv, OutputInv
<1>4. Requeued(1, {})
  BY <1>1, Dequeued, Zenon
<1>5. QueueInv'
  <2>1. \A i \in 1 .. Len(tasks) : i > 1 => tasks[i].kind # "open"
    BY <1>1 DEF IndInv, QueueInv
  <2>2. session' \in Nat /\ session <= session'
    BY <1>1
  <2> QED
    BY <1>1, <1>4, <2>1, <2>2, QueueKept DEF IndInv
<1>6. NoneQueued("recv")' /\ NoneQueued("send")' /\ \A r \in requests : r.of # session'
  BY <1>1, <1>4, NothingOfNewSession, Zenon
<1>7. FreshPeer \in PeerRecords
  BY Zenon DEF FreshPeer, PeerRecords
<1>8. /\ peer'.sent = 0 /\ peer'.received = 0 /\ peer'.frames = 0 /\ peer'.heard = 0
      /\ peer' \in PeerRecords /\ session' \in Nat /\ tasks' \in Seq(TaskRecords)
  BY <1>1, <1>4, <1>7 DEF FreshPeer, Requeued
<1>9. CASE connected' = FALSE /\ UNCHANGED <<receiving, requests>>
  <2>1. TypeInv'
    BY <1>1, <1>8, <1>9, ZenonT(40) DEF TypeInv, inputVars, outputVars, PeerRecords
  <2>2. RequestInv' /\ TodoInv' /\ ClosedInv' /\ OutputInv'
    BY <1>1, <1>2, <1>3, <1>9, SMTT(30)
       DEF IndInv, TypeInv, RequestRecords, RequestInv, TodoInv, ClosedInv, OutputInv, inputVars, outputVars
  <2>3. InputInv' /\ EndInv' /\ RecvInv' /\ SendInv'
    BY <1>8, <1>9 DEF InputInv, EndInv, RecvInv, SendInv
  <2> QED
    BY <1>5, <2>1, <2>2, <2>3, Zenon DEF IndInv
<1>10. ASSUME connected' = TRUE, closed' = NoClose, PlatformAfterConnected PROVE IndInv'
  <2>0. PICK first : first = Request("recv", session', CacheSize)
    BY Zenon
  <2>1. IF backend = "iocp" THEN receiving' = TRUE /\ requests' = requests \cup {first}
        ELSE UNCHANGED <<receiving, requests>>
    BY <1>10, <2>0, Zenon DEF PlatformAfterConnected, PlatformStartRecv, StartRecv
  <2>2. /\ first \in RequestRecords /\ first.of = session' /\ first.op = "recv" /\ first.bytes = InKernel
    BY <1>1, <2>0, Sizes DEF Request, RequestRecords, Ops, InKernel
  <2>3. TypeInv'
    <3>1. requests' \subseteq RequestRecords /\ receiving' \in BOOLEAN
      BY <1>1, <2>1, <2>2, Zenon DEF TypeInv
    <3> QED
      BY <1>1, <1>8, <1>10, <3>1, Zenon DEF TypeInv, inputVars, outputVars, PeerRecords
  <2>4. RequestInv'
    <3>1. \A r \in requests' : r.of <= session'
      BY <1>1, <2>1, <2>2, SMTT(30) DEF IndInv, TypeInv, RequestRecords, RequestInv
    <3>2. backend' # "iocp" => requests' = {} /\ ~receiving' /\ ~sending'
      BY <1>1, <1>3, <2>1, Zenon DEF IndInv, RequestInv
    <3> QED
      BY <3>1, <3>2, Zenon DEF RequestInv
  <2>5. TodoInv' /\ ClosedInv' /\ OutputInv'
    <3>1. ~sending' /\ ~writable' /\ send' = 0 /\ pending' = send'
      BY <1>1, <1>3, Zenon DEF outputVars
    <3>2. TodoInv' /\ ClosedInv'
      BY <1>1, <1>10, Names, Zenon DEF TodoInv, ClosedInv
    <3>3. OutputInv'
      BY <3>1 DEF OutputInv
    <3> QED
      BY <3>2, <3>3, Zenon
  <2>6. InputInv' /\ EndInv'
    <3>1. recv' = 0 /\ deferred' = NoClose /\ ~continuing' /\ todo' # "recv" /\ FrameSize \in Nat \ {0}
      BY <1>1, <1>3, Names, Sizes, Zenon DEF inputVars
    <3>2. backend' = "iocp" => receiving'
      BY <1>1, <2>1, Zenon
    <3>3. InputInv'
      BY <3>1, <3>2 DEF InputInv
    <3>4. EndInv'
      BY <1>8, <3>1, Names DEF EndInv
    <3> QED
      BY <3>3, <3>4, Zenon
  <2>7. RecvInv'
    <3>1. RecvBooks(InKernel)' /\ InKernel \in Results
      <4>1. PICK f : f = FrameSize /\ f \in Nat
        BY Sizes, Zenon
      <4>2. 0 = 0 * f + 0 + 0
        BY <4>1
      <4>3. recv' = 0 /\ Moved(InKernel) = 0 /\ InKernel # 0 /\ InKernel \in Results
        BY <1>1, <1>3 DEF Moved, InKernel, Results, inputVars
      <4>4. peer'.received = peer'.frames * FrameSize + recv' + Moved(InKernel)
        BY <1>8, <4>1, <4>2, <4>3, Zenon
      <4> QED
        BY <4>3, <4>4, Zenon DEF RecvBooks, Moved, InKernel
    <3>2. CASE backend = "iocp"
      <4>1. first \in requests' /\ IsRequested(first, "recv")'
        BY <2>1, <2>2, <3>2, Zenon DEF IsRequested
      <4>2. \A q \in requests' : IsRequested(q, "recv")' => q = first
        BY <1>6, <2>1, <3>2, Zenon DEF IsRequested
      <4>3. OneFlies("recv", InKernel)'
        BY <1>6, <2>2, <4>1, <4>2, Zenon DEF OneFlies, OneRequested
      <4> QED
        BY <2>1, <3>1, <3>2, <4>3, Zenon DEF RecvInv
    <3>3. CASE backend # "iocp"
      <4>1. NoneFlies("recv")'
        BY <1>6, <2>1, <3>3, Zenon DEF NoneFlies, NoneRequested, IsRequested
      <4> QED
        BY <1>3, <2>1, <3>1, <3>3, <4>1, Zenon DEF RecvInv
    <3> QED
      BY <3>2, <3>3, Zenon
  <2>8. SendInv'
    <3>1. \A r \in requests' : ~IsRequested(r, "send")'
      BY <1>6, <2>1, <2>2, Zenon DEF IsRequested
    <3>2. NoneFlies("send")'
      BY <1>6, <3>1, Zenon DEF NoneFlies, NoneRequested
    <3>3. SendBooks(InKernel)'
      <4>1. send' = 0 /\ Moved(InKernel) = 0 /\ InKernel <= 0 /\ 0 <= 0
        BY <1>1, <1>3 DEF outputVars, Moved, InKernel
      <4>2. Whole(0 - 0 + 0)
        BY NothingIsWhole
      <4> QED
        BY <1>8, <4>1, <4>2, Zenon DEF SendBooks, Moved, InKernel
    <3> QED
      BY <1>1, <1>3, <3>1, <3>2, <3>3, Zenon DEF SendInv
  <2> QED
    BY <1>5, <2>3, <2>4, <2>5, <2>6, <2>7, <2>8, Zenon DEF IndInv
<1> QED
  BY <1>2, <1>9, <1>10, Zenon DEF OpenTask

-----------------------------------------------------------------------------
(* The senders, the application, the poll thread, the kernel and the peer. *)

\* A step that appends tasks to the queue and does nothing else that matters.
LEMMA AppendKeeps ==
  ASSUME IndInv, NEW x \in TaskRecords, tasks' = Append(tasks, x), x.of <= session,
         x.kind \in {"send", "open"},
         x.kind = "open" => ~connected /\ \A i \in DOMAIN tasks : tasks[i].kind # "open",
         UNCHANGED <<backend, session, bufferVars, peer, todo>>
  PROVE  IndInv'
<1>1. Requeued(0, {x}) /\ Len(tasks') = Len(tasks) + 1
  BY Enqueued, Zenon DEF IndInv
<1>2. /\ TypeInv /\ Len(tasks) \in Nat /\ connected' = connected /\ DOMAIN tasks = 1 .. Len(tasks)
      /\ session \in Nat
  BY DEF IndInv, TypeInv, bufferVars
<1>3. QueueInv'
  <2>1. CASE x.kind # "open"
    <3>1. connected => \A i \in 1 .. Len(tasks) : tasks[i].kind # "open"
      BY NoOpenQueued, Zenon DEF IndInv
    <3>2. x.kind = "send" /\ session' \in Nat /\ session <= session' /\ x.of <= session'
      BY <1>2, <2>1
    <3> QED
      BY <1>1, <1>2, <3>1, <3>2, QueueKept, Zenon DEF IndInv
  <2>2. CASE x.kind = "open"
    <3>1. \A i \in 1 .. Len(tasks') : \/ i \in 1 .. Len(tasks) /\ tasks'[i] = tasks[i] /\ tasks'[i].kind # "open"
                                      \/ i = Len(tasks) + 1 /\ tasks'[i] = x
      BY <1>1, <1>2, <2>2 DEF Requeued
    <3> QED
      BY <1>2, <2>2, <3>1, ZenonT(40) DEF IndInv, QueueInv
  <2> QED
    BY <2>1, <2>2, Zenon
<1>4. \A y \in {x} : y.kind # "completion"
  BY Zenon
<1> QED
  BY <1>1, <1>3, <1>4, QueueOnly

LEMMA StutterKeeps ==
  ASSUME IndInv, UNCHANGED <<backend, session, tasks, todo, bufferVars, peer>>
  PROVE  IndInv'
<1>1. Requeued(0, {})
  BY Unqueued, Zenon DEF IndInv
<1>2. QueueInv'
  BY Zenon DEF IndInv, QueueInv, bufferVars
<1> QED
  BY <1>1, <1>2, QueueOnly

LEMMA SendPostKeeps == ASSUME IndInv, NEW t \in Senders, SendPost(t) PROVE IndInv'
<1>1. Task("send") \in TaskRecords /\ Task("send").kind = "send" /\ Task("send").of <= session
  BY PlainTasks DEF IndInv, TypeInv
<1> QED
  BY <1>1, AppendKeeps, Zenon DEF SendPost

LEMMA ReconnectKeeps == ASSUME IndInv, Reconnect PROVE IndInv'
<1>1. Task("open") \in TaskRecords /\ Task("open").kind = "open" /\ Task("open").of <= session
  BY PlainTasks DEF IndInv, TypeInv
<1> QED
  BY <1>1, AppendKeeps, Zenon DEF Reconnect

LEMMA PollKeeps == ASSUME IndInv, Poll PROVE IndInv'
<1> DEFINE New == [kind : {"event"}, of : {session}, events : SUBSET {"readable", "writable", "error"}]
<1>1. Requeued(0, New)
  BY Reported, Zenon DEF IndInv
<1>2. /\ connected /\ backend # "iocp" /\ session \in Nat
      /\ UNCHANGED <<backend, session, todo, bufferVars, peer>>
  BY Zenon DEF Poll, IndInv, TypeInv
<1>3. \A x \in New : x.of = session /\ x.kind = "event"
  BY Zenon
<1> HIDE DEF New
<1>4. session' \in Nat /\ session <= session' /\ \A x \in New : x.of <= session' /\ x.kind = "event"
  BY <1>2, <1>3
<1>5. QueueInv'
  BY <1>1, <1>2, <1>4, QueueKept, NoOpenQueued, Zenon DEF IndInv
<1>6. \A x \in New : x.kind # "completion"
  BY <1>3, Zenon
<1> QED
  BY <1>1, <1>2, <1>5, <1>6, QueueOnly

\* Requests of other sessions come and go.
LEMMA OthersGo ==
  ASSUME UNCHANGED <<session, tasks>>, NEW r, ~(r.of = session /\ connected), NEW more,
         requests' = (requests \ {r}) \cup more, \A q \in more : q.of = r.of, NEW op, connected
  PROVE  /\ NoneFlies(op) => NoneFlies(op)'
         /\ \A b : OneFlies(op, b) => OneFlies(op, b)'
         /\ \A q \in requests' : IsRequested(q, op)' => q \in requests /\ IsRequested(q, op)
<1>1. \A q : q \in requests' /\ IsRequested(q, op)' <=> q \in requests /\ IsRequested(q, op)
  BY Zenon DEF IsRequested
<1>2. NoneRequested(op) <=> NoneRequested(op)'
  BY <1>1, Zenon DEF NoneRequested
<1>3. \A b : OneRequested(op, b) <=> OneRequested(op, b)'
  BY <1>1, Zenon DEF OneRequested
<1>4. NoneQueued(op) <=> NoneQueued(op)'
  BY Zenon DEF NoneQueued, IsQueued
<1>5. \A b : OneQueued(op, b) <=> OneQueued(op, b)'
  BY DEF OneQueued, IsQueued
<1> QED
  BY <1>1, <1>2, <1>3, <1>4, <1>5, Zenon DEF NoneFlies, OneFlies, InKernel

\* What keeps the invariant when a request goes or changes: the books.
LEMMA RequestsKeep ==
  ASSUME IndInv, UNCHANGED <<backend, session, todo, connected, closed, inputVars, outputVars, receiving, sending>>,
         tasks' \in Seq(TaskRecords), QueueInv', Continues => Continues',
         requests' \subseteq RequestRecords, \A q \in requests' : q.of <= session,
         backend # "iocp" => requests' = {},
         peer' \in PeerRecords, EndInv', RecvInv', SendInv'
  PROVE  IndInv'
<1>1. TypeInv'
  BY DEF IndInv, TypeInv, inputVars, outputVars, PeerRecords
<1>2. RequestInv' /\ TodoInv' /\ ClosedInv' /\ OutputInv' /\ InputInv'
  BY Zenon DEF IndInv, RequestInv, TodoInv, ClosedInv, OutputInv, InputInv, inputVars, outputVars
<1> QED
  BY <1>1, <1>2, Zenon DEF IndInv

\* A request of this session is the one that is under way.
LEMMA RequestFlies ==
  ASSUME IndInv, connected, NEW r \in requests, r.of = session
  PROVE  /\ r.op \in Ops /\ backend = "iocp"
         /\ \A q \in requests : IsRequested(q, r.op) => q = r
         /\ r.op = "recv" => receiving /\ RecvBooks(r.bytes) /\ r.bytes \in Results /\ NoneQueued("recv")
         /\ r.op = "send" => sending /\ SendBooks(r.bytes) /\ r.bytes \in Results /\ NoneQueued("send")
<1>1. r.op \in Ops /\ backend = "iocp" /\ IsRequested(r, r.op) /\ ~NoneRequested(r.op)
  BY Zenon DEF IndInv, TypeInv, RequestRecords, RequestInv, IsRequested, NoneRequested
<1>2. ASSUME r.op = "recv"
      PROVE  /\ receiving /\ RecvBooks(r.bytes) /\ r.bytes \in Results /\ NoneQueued("recv")
             /\ \A q \in requests : IsRequested(q, r.op) => q = r
  <2>1. receiving
    BY <1>1, <1>2, Zenon DEF IndInv, RecvInv, NoneFlies
  <2>2. PICK b \in Results : OneFlies("recv", b) /\ RecvBooks(b)
    BY <2>1, Zenon DEF IndInv, RecvInv
  <2>3. OneRequested("recv", b) /\ NoneQueued("recv")
    BY <1>1, <1>2, <2>2, Zenon DEF OneFlies
  <2>4. r.bytes = b /\ \A q \in requests : IsRequested(q, "recv") => q = r
    BY <1>1, <1>2, <2>3, Zenon DEF OneRequested
  <2> QED
    BY <1>2, <2>1, <2>2, <2>3, <2>4, Zenon
<1>3. ASSUME r.op = "send"
      PROVE  /\ sending /\ SendBooks(r.bytes) /\ r.bytes \in Results /\ NoneQueued("send")
             /\ \A q \in requests : IsRequested(q, r.op) => q = r
  <2>1. sending
    BY <1>1, <1>3, Zenon DEF IndInv, SendInv, NoneFlies
  <2>2. PICK b \in Results : OneFlies("send", b) /\ SendBooks(b)
    BY <2>1, Zenon DEF IndInv, SendInv
  <2>3. OneRequested("send", b) /\ NoneQueued("send")
    BY <1>1, <1>3, <2>2, Zenon DEF OneFlies
  <2>4. r.bytes = b /\ \A q \in requests : IsRequested(q, "send") => q = r
    BY <1>1, <1>3, <2>3, Zenon DEF OneRequested
  <2> QED
    BY <1>3, <2>1, <2>2, <2>3, <2>4, Zenon
<1> QED
  BY <1>1, <1>2, <1>3, Zenon DEF Ops

\* PollOne turns the request under way into the queued completion.
LEMMA Delivered ==
  ASSUME IndInv, connected, NEW r \in requests, r.of = session, r.bytes # InKernel,
         requests' = requests \ {r}, UNCHANGED session, NEW x \in TaskRecords,
         x.kind = "completion", x.of = session, x.op = r.op, x.bytes = r.bytes,
         tasks' = Append(tasks, x)
  PROVE  /\ OneFlies(r.op, r.bytes)'
         /\ \A op : op # r.op => /\ NoneFlies(op) => NoneFlies(op)'
                                 /\ \A b : OneFlies(op, b) => OneFlies(op, b)'
<1>1. /\ r.op \in Ops /\ NoneQueued(r.op)
      /\ \A q \in requests : IsRequested(q, r.op) => q = r
  BY RequestFlies, Zenon DEF Ops
<1>2. /\ Requeued(0, {x}) /\ Len(tasks') = Len(tasks) + 1 /\ tasks'[Len(tasks) + 1] = x
      /\ Len(tasks) \in Nat
  BY Enqueued, SMTT(30) DEF IndInv, TypeInv
<1>3. PICK last \in 1 .. Len(tasks') : last = Len(tasks) + 1 /\ tasks'[last] = x
  BY <1>2
<1>4. \A i \in 1 .. Len(tasks') : i = last \/ (i \in 1 .. Len(tasks) /\ tasks'[i] = tasks[i])
  BY <1>2, <1>3 DEF Requeued
<1>5. \A i \in 1 .. Len(tasks) : i \in 1 .. Len(tasks') /\ tasks'[i] = tasks[i]
  BY <1>2 DEF Requeued
<1>6. OneFlies(r.op, r.bytes)'
  <2> DEFINE op == r.op
             b == r.bytes
  <2>1. NoneRequested(op)'
    BY <1>1, Zenon DEF NoneRequested, IsRequested
  <2>2. IsQueued(last, op)' /\ tasks'[last].bytes = b
    BY <1>3, Zenon DEF IsQueued
  <2>3. \A j \in 1 .. Len(tasks') : IsQueued(j, op)' => j = last
    BY <1>1, <1>4, Zenon DEF IsQueued, NoneQueued
  <2>4. OneQueued(op, b)'
    BY <2>2, <2>3, Zenon DEF OneQueued
  <2> QED
    BY <2>1, <2>4, Zenon DEF OneFlies
<1>7. ASSUME NEW op, op # r.op
      PROVE  (NoneFlies(op) => NoneFlies(op)') /\ \A b : OneFlies(op, b) => OneFlies(op, b)'
  <2>1. \A q : q \in requests' /\ IsRequested(q, op)' <=> q \in requests /\ IsRequested(q, op)
    BY <1>7, Zenon DEF IsRequested
  <2>2. (NoneRequested(op) <=> NoneRequested(op)') /\ \A b : OneRequested(op, b) <=> OneRequested(op, b)'
    BY <2>1, Zenon DEF NoneRequested, OneRequested
  <2>3. ~IsQueued(last, op)'
    BY <1>3, <1>7, Zenon DEF IsQueued
  <2>4. \A i \in 1 .. Len(tasks') : IsQueued(i, op)' => i \in 1 .. Len(tasks) /\ IsQueued(i, op)
    BY <1>4, <2>3, Zenon DEF IsQueued
  <2>5. \A i \in 1 .. Len(tasks) : IsQueued(i, op) => IsQueued(i, op)'
    BY <1>5, Zenon DEF IsQueued
  <2>6. NoneQueued(op) => NoneQueued(op)'
    BY <2>4, ZenonT(40) DEF NoneQueued
  <2>7. \A b : OneQueued(op, b) => OneQueued(op, b)'
    BY <1>5, <2>4, <2>5 DEF OneQueued
  <2> QED
    BY <2>2, <2>6, <2>7, Zenon DEF NoneFlies, OneFlies, InKernel
<1> QED
  BY <1>6, <1>7, Zenon

LEMMA PollOneKeeps == ASSUME IndInv, PollOne PROVE IndInv'
<1>1. PICK r \in requests :
        /\ r.bytes # InKernel /\ requests' = requests \ {r}
        /\ tasks' = IF Stale(r) THEN tasks
                    ELSE Append(tasks, [kind |-> "completion", of |-> r.of, op |-> r.op, bytes |-> r.bytes])
  BY Zenon DEF PollOne, UntrackRequest
<1>2. UNCHANGED <<backend, session, todo, connected, closed, inputVars, outputVars, receiving, sending, peer>>
  BY Zenon DEF PollOne
<1>3. /\ TypeInv /\ session \in Nat /\ peer \in PeerRecords /\ r \in RequestRecords
      /\ requests' \subseteq RequestRecords /\ \A q \in requests' : q.of <= session
      /\ backend # "iocp" => requests' = {}
  BY <1>1, Zenon DEF IndInv, TypeInv, RequestInv, PeerRecords
<1>4. EndInv' /\ (AllReceived => AllReceived')
  BY <1>2, Zenon DEF IndInv, EndInv, AllReceived, inputVars
<1>5. UNCHANGED <<recv, send>>
  BY <1>2, Zenon DEF inputVars, outputVars
<1>6. \A q \in requests' : IsRequested(q, "send")' => q \in requests /\ IsRequested(q, "send")
  BY <1>1, <1>2, Zenon DEF IsRequested
<1>7. CASE Stale(r)
  <2>1. tasks' = tasks /\ QueueInv' /\ (Continues => Continues') /\ tasks' \in Seq(TaskRecords)
    BY <1>1, <1>2, <1>3, <1>7, ZenonT(40) DEF IndInv, QueueInv, Continues, TypeInv
  <2>2. RecvInv' /\ SendInv'
    <3>1. CASE ~connected
      BY <1>2, <3>1, Zenon DEF RecvInv, SendInv
    <3>2. CASE connected
      <4>1. ~(r.of = session /\ connected) /\ requests' = (requests \ {r}) \cup {}
        BY <1>1, <1>7, Zenon DEF Stale
      <4>2. ASSUME NEW op
            PROVE  (NoneFlies(op) => NoneFlies(op)') /\ \A b : OneFlies(op, b) => OneFlies(op, b)'
        <5>1. PICK more : more = {}
          BY Zenon
        <5>2. requests' = (requests \ {r}) \cup more /\ \A q \in more : q.of = r.of
          BY <4>1, <5>1, Zenon
        <5>3. UNCHANGED <<session, tasks>>
          BY <1>2, <2>1, Zenon
        <5> QED
          BY <3>2, <4>1, <5>2, <5>3, OthersGo, Zenon
      <4>3. RecvInv'
        BY <1>2, <1>4, <1>5, <4>2, RecvKept, Zenon DEF IndInv
      <4>4. SendInv'
        BY <1>2, <1>5, <1>6, <4>2, SendKept, Zenon DEF IndInv
      <4> QED
        BY <4>3, <4>4, Zenon
    <3> QED
      BY <3>1, <3>2, Zenon
  <2> QED
    BY <1>2, <1>3, <1>4, <2>1, <2>2, RequestsKeep, Zenon
<1>8. CASE ~Stale(r)
  <2>1. PICK x : x = [kind |-> "completion", of |-> r.of, op |-> r.op, bytes |-> r.bytes]
    BY Zenon
  <2>2. connected /\ r.of = session
    BY <1>8, Zenon DEF Stale
  <2>3. x \in TaskRecords /\ x.kind = "completion" /\ x.of = session /\ x.op = r.op /\ x.bytes = r.bytes
    BY <1>3, <2>1, <2>2, Zenon DEF TaskRecords, RequestRecords
  <2>4. tasks' = Append(tasks, x)
    BY <1>1, <1>8, <2>1, Zenon
  <2>5. Requeued(0, {x})
    BY <1>3, <2>3, <2>4, Enqueued, Zenon
  <2>6. backend = "iocp"
    BY <2>2, RequestFlies, Zenon
  <2>7. QueueInv'
    <3>1. session' \in Nat /\ session <= session' /\ x.of <= session'
      BY <1>2, <1>3, <2>3
    <3> QED
      BY <1>2, <1>3, <2>2, <2>3, <2>5, <2>6, <3>1, QueueKept, NoOpenQueued, ZenonT(40) DEF IndInv
  <2>8. Continues => Continues'
    BY <1>3, <2>5, ContinuesKept
  <2>9. /\ OneFlies(r.op, r.bytes)'
        /\ \A op : op # r.op => /\ NoneFlies(op) => NoneFlies(op)'
                                /\ \A b : OneFlies(op, b) => OneFlies(op, b)'
    BY <1>1, <1>2, <2>2, <2>3, <2>4, Delivered, Zenon
  <2>10. RecvInv'
    <3>1. CASE r.op = "recv"
      <4>1. receiving /\ RecvBooks(r.bytes) /\ r.bytes \in Results
        BY <2>2, <3>1, RequestFlies, Zenon
      <4>2. RecvBooks(r.bytes)'
        BY <1>2, <1>5, <4>1, Zenon DEF RecvBooks, Moved, AllReceived
      <4> QED
        BY <1>2, <2>9, <3>1, <4>1, <4>2, Zenon DEF RecvInv
    <3>2. CASE r.op # "recv"
      BY <1>2, <1>4, <1>5, <2>9, <3>2, RecvKept, Zenon DEF IndInv
    <3> QED
      BY <3>1, <3>2, Zenon
  <2>11. SendInv'
    <3>1. CASE r.op = "send"
      <4>1. sending /\ SendBooks(r.bytes) /\ r.bytes \in Results
        BY <2>2, <3>1, RequestFlies, Zenon
      <4>2. SendBooks(r.bytes)'
        BY <1>2, <1>5, <4>1, Zenon DEF SendBooks, Moved
      <4>3. \A q \in requests' : IsRequested(q, "send")' => q.size <= send'
        BY <1>5, <1>6, <2>2, Zenon DEF IndInv, SendInv
      <4> QED
        BY <1>2, <2>9, <3>1, <4>1, <4>2, <4>3, Zenon DEF SendInv
    <3>2. CASE r.op # "send"
      BY <1>2, <1>5, <1>6, <2>9, <3>2, SendKept, Zenon DEF IndInv
    <3> QED
      BY <3>1, <3>2, Zenon
  <2>12. tasks' \in Seq(TaskRecords)
    BY <2>5, Zenon DEF Requeued
  <2> QED
    BY <1>2, <1>3, <1>4, <2>7, <2>8, <2>10, <2>11, <2>12, RequestsKeep, Zenon
<1> QED
  BY <1>7, <1>8, Zenon

\* The kernel completes a request of this session: s for r.
LEMMA Completed ==
  ASSUME IndInv, connected, UNCHANGED <<session, tasks>>, NEW r \in requests, r.of = session,
         NEW s, s.op = r.op, s.of = r.of, s.size = r.size, requests' = (requests \ {r}) \cup {s}
  PROVE  /\ r.bytes = InKernel => OneFlies(r.op, s.bytes)'
         /\ \A op : op # r.op => /\ NoneFlies(op) => NoneFlies(op)'
                                 /\ \A b : OneFlies(op, b) => OneFlies(op, b)'
                                 /\ \A q \in requests' : IsRequested(q, op)' => q \in requests /\ IsRequested(q, op)
<1>1. /\ r.op \in Ops /\ NoneQueued(r.op)
      /\ \A q \in requests : IsRequested(q, r.op) => q = r
  BY RequestFlies, Zenon DEF Ops
<1>2. \A op : /\ NoneQueued(op) <=> NoneQueued(op)'
              /\ \A b : OneQueued(op, b) <=> OneQueued(op, b)'
  BY DEF NoneQueued, OneQueued, IsQueued
<1>3. OneFlies(r.op, s.bytes)'
  <2>1. s \in requests' /\ IsRequested(s, r.op)'
    BY Zenon DEF IsRequested
  <2>2. \A q \in requests' : IsRequested(q, r.op)' => q = s
    BY <1>1, Zenon DEF IsRequested
  <2>3. OneRequested(r.op, s.bytes)'
    BY <2>1, <2>2, Zenon DEF OneRequested
  <2>4. NoneQueued(r.op)'
    BY <1>1, <1>2, Zenon
  <2> QED
    BY <2>3, <2>4, Zenon DEF OneFlies
<1>4. ASSUME NEW op, op # r.op
      PROVE  /\ NoneFlies(op) => NoneFlies(op)'
             /\ \A b : OneFlies(op, b) => OneFlies(op, b)'
             /\ \A q \in requests' : IsRequested(q, op)' => q \in requests /\ IsRequested(q, op)
  <2>1. \A q : q \in requests' /\ IsRequested(q, op)' <=> q \in requests /\ IsRequested(q, op)
    BY <1>4, Zenon DEF IsRequested
  <2>2. (NoneRequested(op) <=> NoneRequested(op)') /\ \A b : OneRequested(op, b) <=> OneRequested(op, b)'
    BY <2>1, Zenon DEF NoneRequested, OneRequested
  <2> QED
    BY <1>2, <2>1, <2>2, Zenon DEF NoneFlies, OneFlies, InKernel
<1> QED
  BY <1>3, <1>4, Zenon

LEMMA KernelKeeps == ASSUME IndInv, Kernel PROVE IndInv'
<1>1. PICK r \in requests :
        /\ r.bytes = InKernel
        /\ \/ (Stale(r) \/ peer.reset) /\ Complete(r, Failed) /\ UNCHANGED peer
           \/ /\ ~Stale(r) /\ r.op = "recv"
              /\ \E read \in {Smaller(peer.sent - peer.received, CacheSize)} :
                   (read > 0 \/ peer.fin) /\ Complete(r, read) /\ peer' = [peer EXCEPT !.received = @ + read]
           \/ /\ ~Stale(r) /\ r.op = "send"
              /\ \E n \in 1 .. r.size : Complete(r, n) /\ peer' = [peer EXCEPT !.heard = @ + n]
  BY Zenon DEF Kernel
<1>2. UNCHANGED <<backend, session, tasks, todo, connected, closed, inputVars, outputVars, receiving, sending>>
  BY Zenon DEF Kernel
<1>3. UNCHANGED <<recv, send, deferred, session, tasks, connected, receiving, sending>>
  BY <1>2, Zenon DEF inputVars, outputVars
<1>4. /\ TypeInv /\ session \in Nat /\ peer \in PeerRecords /\ r \in RequestRecords /\ r.of <= session
      /\ backend = "iocp" /\ CacheSize \in Nat \ {0} /\ send \in Nat /\ recv \in Nat /\ peer.received <= peer.sent
  BY SessionAssumption, ZenonT(40) DEF IndInv, TypeInv, RequestInv, EndInv, PeerRecords
<1>5. tasks' \in Seq(TaskRecords) /\ QueueInv' /\ (Continues => Continues')
  BY <1>2 DEF IndInv, TypeInv, QueueInv, Continues
<1>6. ASSUME NEW b \in Int, Complete(r, b)
      PROVE  \E s \in RequestRecords :
               /\ s.op = r.op /\ s.of = r.of /\ s.size = r.size /\ s.bytes = b
               /\ requests' = (requests \ {r}) \cup {s}
               /\ requests' \subseteq RequestRecords /\ \A q \in requests' : q.of <= session
  <2>1. PICK s : s = [r EXCEPT !.bytes = b]
    BY Zenon
  <2>2. s \in RequestRecords /\ s.op = r.op /\ s.of = r.of /\ s.size = r.size /\ s.bytes = b
    BY <1>4, <2>1, Zenon DEF RequestRecords
  <2>3. requests' = (requests \ {r}) \cup {s}
    BY <1>6, <2>1, Zenon DEF Complete
  <2>4. requests' \subseteq RequestRecords /\ \A q \in requests' : q.of <= session
    BY <1>4, <2>2, <2>3, Zenon DEF IndInv, TypeInv, RequestInv
  <2> QED
    BY <2>2, <2>3, <2>4, Zenon
<1>7. ASSUME Stale(r) \/ peer.reset, Complete(r, Failed), UNCHANGED peer
      PROVE  IndInv'
  <2>1. PICK s \in RequestRecords :
          /\ s.op = r.op /\ s.of = r.of /\ s.size = r.size /\ s.bytes = Failed
          /\ requests' = (requests \ {r}) \cup {s}
          /\ requests' \subseteq RequestRecords /\ \A q \in requests' : q.of <= session
    BY <1>6, <1>7 DEF Failed
  <2>2. EndInv' /\ (AllReceived => AllReceived')
    BY <1>3, <1>7, Zenon DEF IndInv, EndInv, AllReceived
  <2>3. CASE ~connected
    <3>1. RecvInv' /\ SendInv'
      BY <1>3, <2>3, Zenon DEF RecvInv, SendInv
    <3> QED
      BY <1>2, <1>4, <1>5, <1>7, <2>1, <2>2, <3>1, RequestsKeep, ZenonT(40)
  <2>4. CASE connected /\ r.of # session
    <3>1. PICK more : more = {s}
      BY Zenon
    <3>2. requests' = (requests \ {r}) \cup more /\ \A q \in more : q.of = r.of
      BY <2>1, <3>1, Zenon
    <3>3. ~(r.of = session /\ connected) /\ UNCHANGED <<session, tasks>> /\ connected
      BY <1>3, <2>4, Zenon
    <3>4. ASSUME NEW op
          PROVE  /\ NoneFlies(op) => NoneFlies(op)'
                 /\ \A b : OneFlies(op, b) => OneFlies(op, b)'
                 /\ \A q \in requests' : IsRequested(q, op)' => q \in requests /\ IsRequested(q, op)
      BY <3>2, <3>3, OthersGo, SMTT(30)
    <3>5. RecvInv'
      BY <1>3, <1>7, <2>2, <3>4, RecvKept, Zenon DEF IndInv
    <3>6. SendInv'
      BY <1>3, <1>7, <3>4, SendKept, SMTT(30) DEF IndInv
    <3> QED
      BY <1>2, <1>4, <1>5, <1>7, <2>1, <2>2, <3>5, <3>6, RequestsKeep, ZenonT(40)
  <2>5. CASE connected /\ r.of = session
    <3>1. /\ OneFlies(r.op, Failed)'
          /\ \A op : op # r.op => /\ NoneFlies(op) => NoneFlies(op)'
                                  /\ \A b : OneFlies(op, b) => OneFlies(op, b)'
                                  /\ \A q \in requests' : IsRequested(q, op)' => q \in requests /\ IsRequested(q, op)
      BY <1>1, <1>3, <2>1, <2>5, Completed, Zenon
    <3>2. RecvInv'
      <4>1. CASE r.op = "recv"
        <5>1. receiving /\ RecvBooks(InKernel)
          BY <1>1, <2>5, <4>1, RequestFlies, Zenon
        <5>2. RecvBooks(Failed)' /\ Failed \in Results
          BY <1>3, <1>7, <5>1 DEF RecvBooks, Moved, AllReceived, Failed, InKernel, Results
        <5> QED
          BY <1>3, <3>1, <4>1, <5>1, <5>2, Zenon DEF RecvInv
      <4>2. CASE r.op # "recv"
        BY <1>3, <1>7, <2>2, <3>1, <4>2, RecvKept, ZenonT(40) DEF IndInv
      <4> QED
        BY <4>1, <4>2, Zenon
    <3>3. SendInv'
      <4>1. CASE r.op = "send"
        <5>1. sending /\ SendBooks(InKernel)
          BY <1>1, <2>5, <4>1, RequestFlies, ZenonT(40)
        <5>2. SendBooks(Failed)' /\ Failed \in Results
          BY <1>3, <1>4, <1>7, <5>1, SMTT(30) DEF SendBooks, Moved, Failed, InKernel, Results
        <5>3. \A q \in requests' : IsRequested(q, "send")' => q.size <= send'
          BY <1>3, <2>1, <2>5, <4>1 DEF IndInv, SendInv, IsRequested
        <5> QED
          BY <1>3, <3>1, <4>1, <5>1, <5>2, <5>3, Zenon DEF SendInv
      <4>2. CASE r.op # "send"
        BY <1>3, <1>7, <3>1, <4>2, SendKept, Zenon DEF IndInv
      <4> QED
        BY <4>1, <4>2, Zenon
    <3> QED
      BY <1>2, <1>4, <1>5, <1>7, <2>1, <2>2, <3>2, <3>3, RequestsKeep, SMTT(30)
  <2> QED
    BY <2>3, <2>4, <2>5, Zenon
<1>8. ASSUME ~Stale(r), r.op = "recv", NEW read, read = Smaller(peer.sent - peer.received, CacheSize),
             read > 0 \/ peer.fin, Complete(r, read), peer' = [peer EXCEPT !.received = @ + read]
      PROVE  IndInv'
  <2>1. /\ read \in Nat /\ peer.received + read <= peer.sent
        /\ read = 0 => peer.received = peer.sent
        /\ peer.received = peer.sent => read = 0
    <3>1. peer.sent \in Nat /\ peer.received \in Nat
      BY <1>4, Zenon DEF PeerRecords
    <3>2. PICK d \in Nat : d = peer.sent - peer.received
      BY <1>4, <3>1
    <3>3. read = IF d <= CacheSize THEN d ELSE CacheSize
      BY <1>4, <1>8, <3>2, Zenon DEF Smaller
    <3> QED
      BY <1>4, <3>1, <3>2, <3>3
  <2>2. PICK s \in RequestRecords :
          /\ s.op = r.op /\ s.of = r.of /\ s.size = r.size /\ s.bytes = read
          /\ requests' = (requests \ {r}) \cup {s}
          /\ requests' \subseteq RequestRecords /\ \A q \in requests' : q.of <= session
    BY <1>6, <1>8, <2>1
  <2>3. /\ peer' \in PeerRecords /\ peer'.received = peer.received + read /\ peer'.sent = peer.sent
        /\ peer'.frames = peer.frames /\ peer'.heard = peer.heard /\ peer'.fin = peer.fin
    BY <1>4, <1>8, <2>1, SMTT(30) DEF PeerRecords
  <2>4. EndInv'
    BY <1>3, <1>4, <2>1, <2>3 DEF IndInv, EndInv, AllReceived, PeerRecords
  <2>5. connected /\ r.of = session
    BY <1>8, Zenon DEF Stale
  <2>6. /\ OneFlies("recv", read)'
        /\ NoneFlies("send") => NoneFlies("send")'
        /\ \A b : OneFlies("send", b) => OneFlies("send", b)'
        /\ \A q \in requests' : IsRequested(q, "send")' => q \in requests /\ IsRequested(q, "send")
    BY <1>1, <1>3, <1>8, <2>2, <2>5, Completed
  <2>7. SendInv'
    BY <1>3, <2>3, <2>6, SendKept, Zenon DEF IndInv
  <2>8. RecvInv'
    <3>1. receiving /\ RecvBooks(InKernel)
      BY <1>1, <1>8, <2>5, RequestFlies, ZenonT(40)
    <3>2. PICK f \in Int : f = peer.frames * FrameSize
      BY <1>4, SessionAssumption DEF PeerRecords
    <3>3. peer.received = f + recv
      BY <1>4, <3>1, <3>2, SMTT(30) DEF RecvBooks, Moved, InKernel
    <3>4. peer'.received = f + recv' + read /\ Moved(read) = read /\ read \in Results
      BY <1>3, <1>4, <2>1, <2>3, <3>3 DEF Moved, Results
    <3>5. read = 0 => AllReceived'
      BY <1>4, <1>8, <2>1, <2>3 DEF AllReceived, PeerRecords
    <3>6. RecvBooks(read)'
      BY <2>3, <3>2, <3>4, <3>5, Zenon DEF RecvBooks, Moved
    <3> QED
      BY <1>3, <2>6, <3>1, <3>4, <3>6, Zenon DEF RecvInv
  <2> QED
    BY <1>2, <1>4, <1>5, <2>2, <2>3, <2>4, <2>7, <2>8, RequestsKeep, ZenonT(40)
<1>9. ASSUME ~Stale(r), r.op = "send", NEW n \in 1 .. r.size, Complete(r, n),
             peer' = [peer EXCEPT !.heard = @ + n]
      PROVE  IndInv'
  <2>1. n \in Nat /\ n > 0
    BY <1>4 DEF RequestRecords
  <2>2. PICK s \in RequestRecords :
          /\ s.op = r.op /\ s.of = r.of /\ s.size = r.size /\ s.bytes = n
          /\ requests' = (requests \ {r}) \cup {s}
          /\ requests' \subseteq RequestRecords /\ \A q \in requests' : q.of <= session
    BY <1>6, <1>9, <2>1
  <2>3. /\ peer' \in PeerRecords /\ peer'.received = peer.received /\ peer'.sent = peer.sent
        /\ peer'.frames = peer.frames /\ peer'.heard = peer.heard + n /\ peer'.fin = peer.fin
    BY <1>4, <1>9, <2>1 DEF PeerRecords
  <2>4. EndInv' /\ (AllReceived => AllReceived')
    BY <1>3, <2>3, Zenon DEF IndInv, EndInv, AllReceived
  <2>5. connected /\ r.of = session
    BY <1>9, Zenon DEF Stale
  <2>6. /\ OneFlies("send", n)'
        /\ NoneFlies("recv") => NoneFlies("recv")'
        /\ \A b : OneFlies("recv", b) => OneFlies("recv", b)'
    BY <1>1, <1>3, <1>9, <2>2, <2>5, Completed
  <2>7. RecvInv'
    BY <1>3, <2>3, <2>4, <2>6, RecvKept, Zenon DEF IndInv
  <2>8. SendInv'
    <3>1. sending /\ SendBooks(InKernel) /\ r.size <= send
      BY <1>1, <1>9, <2>5, RequestFlies, Zenon DEF IndInv, SendInv, IsRequested
    <3>2. peer.heard \in Nat /\ peer'.heard - n = peer.heard /\ n <= send /\ n <= peer'.heard
      BY <1>4, <1>9, <2>1, <2>3, <3>1 DEF PeerRecords, RequestRecords
    <3>3. Whole(peer.heard + send)
      BY <3>1, <3>2 DEF SendBooks, Moved, InKernel
    <3>4. SendBooks(n)' /\ n \in Results
      BY <1>3, <2>1, <3>2, <3>3, Zenon DEF SendBooks, Moved, Results
    <3>5. \A q \in requests' : IsRequested(q, "send")' => q.size <= send'
      BY <1>3, <2>2, <2>5, <3>1, Zenon DEF IndInv, SendInv, IsRequested
    <3> QED
      BY <1>3, <2>6, <3>1, <3>4, <3>5, Zenon DEF SendInv
  <2> QED
    BY <1>2, <1>4, <1>5, <2>2, <2>3, <2>4, <2>7, <2>8, RequestsKeep, ZenonT(40)
<1> QED
  BY <1>1, <1>7, <1>8, <1>9, Zenon

LEMMA PeerKeeps == ASSUME IndInv, Peer PROVE IndInv'
<1>1. UNCHANGED <<backend, session, tasks, todo, connected, closed, inputVars, outputVars, receiving, sending, requests>>
  BY Zenon DEF Peer, bufferVars, requestVars
<1>2. PICK most \in Nat : peer \in PeerRecords /\ most = MaxInput[backend]
  BY SessionAssumption, Zenon DEF IndInv, TypeInv, PeerRecords
<1> DEFINE Goes == /\ peer' \in PeerRecords /\ peer'.received = peer.received
                   /\ peer'.frames = peer.frames /\ peer'.heard = peer.heard
                   /\ peer'.sent >= peer.sent
                   /\ peer.fin => peer'.fin /\ peer'.sent = peer.sent
<1>3. Goes
  <2>1. ASSUME NEW n \in 1 .. most - peer.sent, ~peer.fin, peer' = [peer EXCEPT !.sent = @ + n]
        PROVE  Goes
    <3>1. peer.sent + n \in Nat /\ peer.sent + n >= peer.sent
      BY <1>2 DEF PeerRecords
    <3> QED
      BY <1>2, <2>1, <3>1, Zenon DEF PeerRecords
  <2>2. CASE ~peer.fin /\ peer' = [peer EXCEPT !.fin = TRUE]
    <3>1. peer' \in PeerRecords
      BY <1>2, <2>2, Zenon DEF PeerRecords
    <3> QED
      BY <1>2, <2>2, <3>1 DEF PeerRecords
  <2>3. CASE peer' = [peer EXCEPT !.reset = TRUE]
    <3>1. peer' \in PeerRecords
      BY <1>2, <2>3, Zenon DEF PeerRecords
    <3> QED
      BY <1>2, <2>3, <3>1 DEF PeerRecords
  <2>4. \/ /\ ~peer.fin
           /\ \E n \in 1 .. most - peer.sent : peer' = [peer EXCEPT !.sent = @ + n]
        \/ /\ ~peer.fin
           /\ peer' = [peer EXCEPT !.fin = TRUE]
        \/ peer' = [peer EXCEPT !.reset = TRUE]
    BY <1>2, Zenon DEF Peer
  <2> QED
    BY <2>1, <2>2, <2>3, <2>4, Zenon
<1>4. EndInv' /\ (AllReceived => AllReceived')
  BY <1>1, <1>2, <1>3 DEF IndInv, EndInv, AllReceived, inputVars, PeerRecords
<1>5. UNCHANGED <<recv, send, session, tasks, requests, receiving, sending, connected>>
  BY <1>1, ZenonT(40) DEF inputVars, outputVars
<1>6. \A op : /\ NoneFlies(op) => NoneFlies(op)'
              /\ \A b : OneFlies(op, b) => OneFlies(op, b)'
  BY <1>5 DEF NoneFlies, OneFlies, NoneRequested, OneRequested, NoneQueued, OneQueued, IsQueued, IsRequested
<1>7. \A q \in requests' : IsRequested(q, "send")' => q \in requests /\ IsRequested(q, "send")
  BY <1>5, Zenon DEF IsRequested
<1>8. RecvInv'
  BY <1>3, <1>4, <1>5, <1>6, RecvKept, Zenon DEF IndInv
<1>9. SendInv'
  BY <1>3, <1>5, <1>6, <1>7, SendKept, ZenonT(40) DEF IndInv
<1>10. tasks' \in Seq(TaskRecords) /\ QueueInv' /\ (Continues => Continues')
  BY <1>1, ZenonT(40) DEF IndInv, TypeInv, QueueInv, Continues
<1>11. /\ requests' \subseteq RequestRecords /\ \A q \in requests' : q.of <= session
       /\ backend # "iocp" => requests' = {}
  BY <1>1, Zenon DEF IndInv, TypeInv, RequestInv
<1> QED
  BY <1>1, <1>3, <1>4, <1>8, <1>9, <1>10, <1>11, RequestsKeep, Zenon

-----------------------------------------------------------------------------
(* The invariant holds. *)

LEMMA InvInit == Init => IndInv
<1> SUFFICES ASSUME Init PROVE IndInv
  BY Zenon
<1>1. /\ connected = TRUE /\ session = 1 /\ closed = NoClose /\ tasks = <<>> /\ todo = Nothing
      /\ recv = 0 /\ continuing = FALSE /\ deferred = NoClose
      /\ send = 0 /\ pending = 0 /\ writable = FALSE
      /\ receiving = (backend = "iocp") /\ sending = FALSE
      /\ backend \in {"epoll", "kqueue", "iocp"}
  BY SessionAssumption, Zenon DEF Init
<1>2. /\ peer \in PeerRecords /\ peer.sent = 0 /\ peer.received = 0 /\ peer.frames = 0 /\ peer.heard = 0
  BY Zenon DEF Init, FreshPeer, PeerRecords
<1>3. PICK r : r = Request("recv", 1, CacheSize)
  BY ZenonT(40)
<1>4. r \in RequestRecords /\ r.op = "recv" /\ r.of = 1 /\ r.bytes = InKernel
  BY <1>3, SessionAssumption DEF Request, RequestRecords, Ops, InKernel
<1>5. requests = IF backend = "iocp" THEN {r} ELSE {}
  BY <1>3, Zenon DEF Init
<1>6. tasks \in Seq(TaskRecords) /\ Len(tasks) = 0
  BY <1>1
<1>7. TypeInv
  BY <1>1, <1>2, <1>4, <1>5, <1>6, Zenon DEF TypeInv, PeerRecords
<1>8. QueueInv
  BY <1>6 DEF QueueInv
<1>9. RequestInv
  <2>1. \A q \in requests : q.of <= session
    BY <1>1, <1>4, <1>5
  <2>2. backend # "iocp" => requests = {} /\ ~receiving /\ ~sending
    BY <1>1, <1>5, Zenon
  <2> QED
    BY <2>1, <2>2, Zenon DEF RequestInv
<1>10. TodoInv /\ ClosedInv /\ OutputInv /\ InputInv
  <2>1. receiving <=> backend = "iocp"
    BY <1>1, Zenon
  <2>2. ~(recv >= FrameSize) /\ ~(send > 0)
    BY <1>1, Sizes
  <2>3. InputInv
    BY <1>1, <2>1, <2>2, Names, Zenon DEF InputInv
  <2>4. OutputInv
    BY <1>1, <2>2, Zenon DEF OutputInv
  <2> QED
    BY <1>1, <2>3, <2>4, Names, Zenon DEF TodoInv, ClosedInv
<1>11. EndInv
  BY <1>1, <1>2 DEF EndInv, NoClose
<1>12. /\ NoneQueued("recv") /\ NoneQueued("send") /\ NoneRequested("send")
       /\ backend # "iocp" => NoneRequested("recv")
       /\ backend = "iocp" => OneRequested("recv", InKernel)
  BY <1>1, <1>4, <1>5, <1>6 DEF NoneQueued, NoneRequested, OneRequested, IsRequested
<1>13. RecvBooks(InKernel) /\ SendBooks(InKernel) /\ InKernel \in Results
  <2>1. Moved(InKernel) = 0 /\ InKernel <= 0 /\ InKernel # 0
    BY DEF Moved, InKernel
  <2>2. 0 * FrameSize = 0 /\ Whole(0)
    BY Sizes, NothingIsWhole
  <2> QED
    BY <1>1, <1>2, <2>1, <2>2 DEF RecvBooks, SendBooks, Results
<1>14. RecvInv
  BY <1>1, <1>12, <1>13, Zenon DEF RecvInv, OneFlies, NoneFlies
<1>15. SendInv
  BY <1>1, <1>12, <1>13, Zenon DEF SendInv, NoneFlies, NoneRequested
<1> QED
  BY <1>7, <1>8, <1>9, <1>10, <1>11, <1>14, <1>15, Zenon DEF IndInv

LEMMA InvStep == IndInv /\ [Next]_vars => IndInv'
<1> SUFFICES ASSUME IndInv, [Next]_vars PROVE IndInv'
  BY Zenon
<1>1. CASE UNCHANGED vars
  BY <1>1, StutterKeeps, Zenon DEF vars
<1>2. CASE \E t \in Senders : SendCheck(t)
  BY <1>2, StutterKeeps, Zenon DEF SendCheck
<1>3. CASE \E t \in Senders : SendPost(t)
  BY <1>3, SendPostKeeps, Zenon
<1>4. CASE Drain
  BY <1>4, SendTaskKeeps, ContinueTaskKeeps, OpenTaskKeeps, HandlePollEventKeeps, HandlePollEventWritesKeeps,
     HandleRecvCompletionKeeps, HandleRecvCompletionReceivesKeeps, HandleSendCompletionKeeps, Zenon DEF Drain
<1>5. CASE Reconnect \/ Poll \/ PollOne \/ Kernel \/ Peer
  BY <1>5, ReconnectKeeps, PollKeeps, PollOneKeeps, KernelKeeps, PeerKeeps, Zenon
<1> QED
  BY <1>1, <1>2, <1>3, <1>4, <1>5, Zenon DEF Next

LEMMA Invariance == Spec => []IndInv
  BY InvInit, InvStep, PTL DEF Spec

-----------------------------------------------------------------------------
(* A close by the peer. *)

\* ParseInput closes for the peer with all of its messages handed on, if all of
\* its bytes have been received and are in a message or in recv_buffer_.
LEMMA ParseCloses ==
  ASSUME IndInv, connected, NEW total \in Nat, NEW close, NEW read \in Nat, NEW busy,
         ParseInput(total, close, read, busy), closed' = "RemoteClosed",
         Reason(close) = "RemoteClosed" => /\ peer.received + read = peer.frames * FrameSize + total
                                           /\ peer.received + read = peer.sent
  PROVE  peer'.frames = peer.sent \div FrameSize
<1>1. closed # "RemoteClosed" /\ "Error" # "RemoteClosed" /\ peer \in PeerRecords
  BY Names, Zenon DEF IndInv, ClosedInv, TypeInv, PeerRecords
<1>2. /\ Closes(total, close) /\ Reason(close) = "RemoteClosed"
      /\ peer' = [peer EXCEPT !.received = @ + read, !.frames = @ + Messages(total)]
  BY <1>1, Zenon DEF ParseInput, StartClose
<1>3. ~Yields(total)
  BY <1>2, Zenon DEF Closes
<1>4. PICK m \in Nat : m = Messages(total)
  BY Parsed, Zenon
<1>5. PICK rest \in Nat : rest = Rest(total) /\ rest < FrameSize /\ total = m * FrameSize + rest
  BY <1>3, <1>4, Parsed, Zenon
<1>6. PICK f \in Nat : f = peer.frames
  BY <1>1, Zenon DEF PeerRecords
<1>7. PICK n \in Nat : n = f + m
  OBVIOUS
<1>8. FrameSize \in Nat \ {0}
  BY Sizes, Zenon
<1>9. n * FrameSize = f * FrameSize + m * FrameSize /\ f * FrameSize \in Nat /\ m * FrameSize \in Nat
  BY <1>7, <1>8, Distributes, Product
<1>10. peer.sent = f * FrameSize + total
  BY <1>2, <1>6, Zenon
<1>11. peer.sent = n * FrameSize + rest
  BY <1>5, <1>9, <1>10
<1>12. peer.sent \div FrameSize = n
  BY <1>5, <1>8, <1>11, QuotientIs, Zenon
<1>13. peer'.frames = n
  BY <1>1, <1>2, <1>4, <1>6, <1>7, Zenon DEF PeerRecords
<1> QED
  BY <1>12, <1>13, Zenon

\* A close that is carried out now because it was deferred is one with nothing
\* under way.
LEMMA DeferredBooks ==
  ASSUME IndInv, connected, deferred = "RemoteClosed"
  PROVE  peer.received = peer.frames * FrameSize + recv /\ peer.received = peer.sent
<1>1. ~receiving
  BY Names, Zenon DEF IndInv, InputInv, RequestInv, TypeInv
<1>2. peer.received = peer.sent
  BY Zenon DEF IndInv, EndInv, AllReceived
<1> QED
  BY <1>1, <1>2, NothingComes, Zenon

LEMMA HandleReadableCloses ==
  ASSUME IndInv, connected, backend # "iocp", HandleReadable, closed' = "RemoteClosed"
  PROVE  peer'.frames = peer.sent \div FrameSize
<1>1. /\ peer \in PeerRecords /\ recv \in Nat /\ peer.received <= peer.sent
      /\ receiving = FALSE /\ ReadMax \in Nat \ {0}
  BY Sizes, Zenon DEF IndInv, EndInv, RequestInv, TypeInv, PeerRecords
<1>2. PICK read \in Nat : /\ ParseInput(recv + read, RecvEnds(read), read, FALSE)
                          /\ read <= peer.sent - peer.received
                          /\ read < ReadMax => read = peer.sent - peer.received
  BY <1>1, WhatIsRead, Zenon
<1>3. PICK total \in Nat : total = recv + read
  BY <1>1
<1>4. PICK close : close = RecvEnds(read)
  BY Zenon
<1>5. ParseInput(total, close, read, FALSE)
  BY <1>2, <1>3, <1>4, Zenon
<1>6. peer.received = peer.frames * FrameSize + recv
  BY <1>1, NothingComes, Zenon
<1>7. ASSUME Reason(close) = "RemoteClosed" PROVE peer.received + read = peer.sent
  <2>1. CASE deferred = "RemoteClosed"
    BY <1>1, <1>2, <2>1, DeferredBooks DEF PeerRecords
  <2>2. CASE deferred # "RemoteClosed"
    <3>1. RecvEnds(read) = "RemoteClosed"
      BY <1>4, <1>7, <2>2, Zenon DEF Reason
    <3>2. read < ReadMax
      BY <3>1, Names, Zenon DEF RecvEnds
    <3> QED
      BY <1>1, <1>2, <3>2 DEF PeerRecords
  <2> QED
    BY <2>1, <2>2, Zenon
<1>8. peer.received + read = peer.frames * FrameSize + total
  <2>1. PICK f \in Nat : f = peer.frames * FrameSize
    BY <1>1, Product, Sizes, Zenon DEF PeerRecords
  <2>2. peer.received = f + recv
    BY <1>6, <2>1, Zenon
  <2>3. peer.received + read = f + total
    BY <1>1, <1>3, <2>2
  <2> QED
    BY <2>1, <2>3, Zenon
<1> QED
  BY <1>5, <1>7, <1>8, ParseCloses, Zenon

LEMMA ContinueTaskCloses ==
  ASSUME IndInv, connected, ContinueTask, closed' = "RemoteClosed"
  PROVE  peer'.frames = peer.sent \div FrameSize
<1>1. peer \in PeerRecords /\ recv \in Nat /\ 0 \in Nat /\ peer.received + 0 = peer.received
  BY DEF IndInv, TypeInv, PeerRecords
<1>2. ParseInput(recv, NoClose, 0, receiving)
  BY Zenon DEF ContinueTask
<1>3. ASSUME Reason(NoClose) = "RemoteClosed"
      PROVE  peer.received = peer.frames * FrameSize + recv /\ peer.received = peer.sent
  BY <1>3, DeferredBooks, Names, Zenon DEF Reason
<1> QED
  BY <1>1, <1>2, <1>3, ParseCloses, Zenon

LEMMA HandleRecvCompletionCloses ==
  ASSUME IndInv, connected, HandleRecvCompletion, closed' = "RemoteClosed"
  PROVE  peer'.frames = peer.sent \div FrameSize
<1>1. /\ TypeInv /\ tasks # <<>> /\ tasks[1].kind = "completion" /\ tasks[1].op = "recv"
      /\ Head(tasks) = tasks[1] /\ UNCHANGED session
      /\ recv \in Nat /\ peer \in PeerRecords /\ peer.received + 0 = peer.received /\ 0 \in Nat
  BY HeadIs DEF HandleRecvCompletion, CompletionTask, Takes, IndInv, TypeInv, PeerRecords
<1>2. closed # "RemoteClosed" /\ "Error" # "RemoteClosed"
  BY Names, Zenon DEF IndInv, ClosedInv
<1>3. PICK b : b = tasks[1].bytes
  BY Zenon
<1>4. /\ ~Stale(tasks[1])
      /\ \/ b = 0 /\ ParseInput(recv, "RemoteClosed", 0, FALSE)
         \/ b # Failed /\ b # 0 /\ ParseInput(recv + b, NoClose, 0, FALSE)
  BY <1>1, <1>2, <1>3, Zenon DEF HandleRecvCompletion, StartClose, bufferVars
<1>5. IsQueued(1, "recv")
  BY <1>1, <1>4, Zenon DEF Stale, IsQueued
<1>6. UNCHANGED requests
  BY <1>4, Zenon DEF ParseInput
<1>7. Requeued(1, {Task("continue")})
  BY <1>1, <1>4, ParseRequeues, ZenonT(40)
<1>8. deferred = NoClose /\ b \in {Failed} \cup Nat /\ RecvBooks(b)
  BY <1>1, <1>3, <1>5, <1>6, <1>7, RecvArrives, ContinueOnly
<1>9. CASE b = 0 /\ ParseInput(recv, "RemoteClosed", 0, FALSE)
  <2>1. PICK f \in Nat : f = peer.frames * FrameSize
    BY <1>1, Product, Sizes, Zenon DEF PeerRecords
  <2>2. Moved(0) = 0
    BY Zenon DEF Moved
  <2>3. peer.received = f + recv + 0
    BY <1>8, <1>9, <2>1, <2>2, ZenonT(40) DEF RecvBooks
  <2>4. peer.received = f + recv
    BY <1>1, <2>3
  <2>5. peer.received = peer.frames * FrameSize + recv /\ peer.received = peer.sent
    BY <1>8, <1>9, <2>1, <2>4, Zenon DEF RecvBooks, AllReceived
  <2> QED
    BY <1>1, <1>9, <2>5, ParseCloses, Zenon
<1>10. CASE b # Failed /\ b # 0 /\ ParseInput(recv + b, NoClose, 0, FALSE)
  <2>1. PICK total \in Nat : total = recv + b
    BY <1>1, <1>8, <1>10
  <2>2. Reason(NoClose) # "RemoteClosed"
    BY <1>8, Names, Zenon DEF Reason
  <2> QED
    BY <1>1, <1>10, <2>1, <2>2, ParseCloses, ZenonT(40)
<1> QED
  BY <1>4, <1>9, <1>10, ZenonT(40)

\* When the client closes because the peer did, every message of the peer has
\* been handed to OnMessage: the budgets of HandleReadable and ParseInput, the
\* deferred close and the completions lose none, whatever their values.
THEOREM MessagesComeBeforeTheClose == Spec => FramesBeforeClose
<1> DEFINE AllCame == connected /\ closed' = "RemoteClosed" => peer'.frames = peer.sent \div FrameSize
<1>1. IndInv /\ [Next]_vars => [AllCame]_vars
  <2> SUFFICES ASSUME IndInv, [Next]_vars, vars' # vars, connected, closed' = "RemoteClosed"
               PROVE  peer'.frames = peer.sent \div FrameSize
    BY Zenon DEF vars
  <2>1. closed # "RemoteClosed" /\ "Error" # "RemoteClosed" /\ NoClose # "RemoteClosed"
    BY Names, Zenon DEF IndInv, ClosedInv
  <2>2. ~(\E t \in Senders : SendCheck(t) \/ SendPost(t)) /\ ~Reconnect /\ ~Poll /\ ~Peer
    BY <2>1, Zenon DEF SendCheck, SendPost, Reconnect, Poll, Peer, bufferVars
  <2>3. ~PollOne /\ ~Kernel
    BY <2>1, Zenon DEF PollOne, Kernel
  <2>4. \A rest, bytes, busy : ~UpdateWriteInterest(rest, bytes, busy)
    BY <2>1, Zenon DEF UpdateWriteInterest, StartClose
  <2>5. ~SendTask
    BY <2>1, <2>4, Zenon DEF SendTask, bufferVars
  <2>6. ~HandleWritable
    BY <2>1, <2>4, Zenon DEF HandleWritable, StartClose
  <2>7. ~HandlePollEventWrites
    BY <2>6, Zenon DEF HandlePollEventWrites
  <2>8. ~HandleSendCompletion
    BY <2>1, <2>4, Zenon DEF HandleSendCompletion, StartClose, bufferVars
  <2>9. ~HandleRecvCompletionReceives
    BY <2>1, Zenon DEF HandleRecvCompletionReceives, StartClose
  <2>10. ~OpenTask
    BY <2>1, Zenon DEF OpenTask
  <2>11. CASE HandlePollEvent
    <3>1. HandleReadable /\ tasks # <<>> /\ tasks[1].kind = "event"
      BY <2>1, <2>6, <2>11, HeadIs, ZenonT(40) DEF HandlePollEvent, StartClose, bufferVars, Takes, IndInv
    <3>2. backend # "iocp"
      BY <3>1 DEF IndInv, QueueInv, TypeInv
    <3> QED
      BY <3>1, <3>2, HandleReadableCloses, Zenon
  <2>12. Drain
    BY <2>2, <2>3, Zenon DEF Next
  <2> QED
    BY <2>5, <2>7, <2>8, <2>9, <2>10, <2>11, <2>12, ContinueTaskCloses, HandleRecvCompletionCloses, ZenonT(40) DEF Drain
<1>2. Spec => [][AllCame]_vars
  BY <1>1, Invariance, PTL DEF Spec
<1> QED
  BY <1>2, Zenon DEF FramesBeforeClose

-----------------------------------------------------------------------------
(* What is under way, counted. *)

INSTANCE FiniteSetTheorems

LEMMA FlightIs ==
  ASSUME TypeInv, NEW op, NEW b, OneFlies(op, b)
  PROVE  \E x : UnderWay(op) = {x} /\ x.bytes = b
<1>1. DOMAIN tasks = 1 .. Len(tasks)
  BY DEF TypeInv
<1>2. CASE OneRequested(op, b) /\ NoneQueued(op)
  <2>1. PICK r \in requests : /\ IsRequested(r, op) /\ r.bytes = b
                              /\ \A q \in requests : IsRequested(q, op) => q = r
    BY <1>2, Zenon DEF OneRequested
  <2>2. UnderWay(op) = {r}
    BY <1>1, <1>2, <2>1, ZenonT(40) DEF UnderWay, NoneQueued, IsQueued, IsRequested
  <2> QED
    BY <2>1, <2>2, ZenonT(40)
<1>3. CASE NoneRequested(op) /\ OneQueued(op, b)
  <2>1. PICK i \in 1 .. Len(tasks) : /\ IsQueued(i, op) /\ tasks[i].bytes = b
                                     /\ \A j \in 1 .. Len(tasks) : IsQueued(j, op) => j = i
    BY <1>3, ZenonT(40) DEF OneQueued
  <2>2. UnderWay(op) = {tasks[i]}
    BY <1>1, <1>3, <2>1, SMTT(30) DEF UnderWay, NoneRequested, IsQueued, IsRequested
  <2> QED
    BY <2>1, <2>2, ZenonT(40)
<1> QED
  BY <1>2, <1>3, ZenonT(40) DEF OneFlies

LEMMA NoFlight ==
  ASSUME TypeInv, NEW op, NoneFlies(op)
  PROVE  UnderWay(op) = {}
<1>1. DOMAIN tasks = 1 .. Len(tasks)
  BY DEF TypeInv
<1> QED
  BY <1>1, ZenonT(40) DEF UnderWay, NoneFlies, NoneQueued, NoneRequested, IsQueued, IsRequested

\* Output never stalls and pending_bytes_ is exact, for any number of senders
\* and sessions and any write budget: PlatformStartSend is called wherever the
\* send buffer changes.
THEOREM OutputGoesOn == Spec => []NoStalledOutput
<1>1. IndInv => NoStalledOutput
  <2> SUFFICES ASSUME IndInv PROVE NoStalledOutput
    BY Zenon
  <2>1. pending = send
    BY Zenon DEF IndInv, OutputInv
  <2>2. ASSUME connected, send > 0, backend # "iocp" PROVE writable
    BY <2>2, Zenon DEF IndInv, OutputInv
  <2>3. ASSUME connected, send > 0, backend = "iocp" PROVE Cardinality(UnderWay("send")) = 1
    <3>1. sending
      BY <2>3, ZenonT(40) DEF IndInv, OutputInv
    <3>2. PICK b : OneFlies("send", b)
      BY <2>3, <3>1, ZenonT(40) DEF IndInv, SendInv
    <3>3. PICK x : UnderWay("send") = {x}
      BY <3>2, FlightIs, ZenonT(40) DEF IndInv
    <3> QED
      BY <3>3, FS_Singleton, ZenonT(40)
  <2> QED
    BY <2>1, <2>2, <2>3, ZenonT(40) DEF NoStalledOutput
<1> QED
  BY <1>1, Invariance, PTL

\* Input never stalls, for any message size and any read and parse budget: what
\* ParseInput leaves behind has a continuation queued, and on Windows a receive
\* request is under way in every session until its end has been seen.
THEOREM InputGoesOn == Spec => []NoForgottenInput
<1>1. IndInv => NoForgottenInput
  <2> SUFFICES ASSUME IndInv, connected
               PROVE  /\ recv >= FrameSize \/ deferred # NoClose => \E i \in DOMAIN tasks : tasks[i].kind = "continue"
                      /\ backend = "iocp" /\ deferred = NoClose /\ todo # "recv" => Cardinality(UnderWay("recv")) = 1
    BY ZenonT(40) DEF NoForgottenInput
  <2>1. DOMAIN tasks = 1 .. Len(tasks)
    BY DEF IndInv, TypeInv
  <2>2. recv >= FrameSize \/ deferred # NoClose => \E i \in DOMAIN tasks : tasks[i].kind = "continue"
    BY <2>1, ZenonT(40) DEF IndInv, InputInv, Continues
  <2>3. ASSUME backend = "iocp", deferred = NoClose, todo # "recv" PROVE Cardinality(UnderWay("recv")) = 1
    <3>1. receiving
      BY <2>3, ZenonT(40) DEF IndInv, InputInv
    <3>2. PICK b : OneFlies("recv", b)
      BY <3>1, ZenonT(40) DEF IndInv, RecvInv
    <3>3. PICK x : UnderWay("recv") = {x}
      BY <3>2, FlightIs, SMTT(30) DEF IndInv
    <3> QED
      BY <3>3, FS_Singleton, ZenonT(40)
  <2> QED
    BY <2>2, <2>3, ZenonT(40)
<1> QED
  BY <1>1, Invariance, PTL

\* A peer gets whole messages, for any size of them and any cuts the kernel
\* makes: HandleWritable and HandleSendCompletion take off the send buffer what
\* was sent, and a new session starts with an empty one.
THEOREM PeersGetWholeMessages == Spec => []WholeMessages
<1>1. IndInv => WholeMessages
  <2> SUFFICES ASSUME IndInv, connected
               PROVE  (peer.heard - Cardinality(Unhandled) + send) % SendSize = 0
    BY Zenon DEF WholeMessages
  <2>1. ASSUME NEW b \in Int, SendBooks(b), Cardinality(Unhandled) = Moved(b)
        PROVE  (peer.heard - Cardinality(Unhandled) + send) % SendSize = 0
    BY <2>1, ZenonT(40) DEF SendBooks, Whole
  <2>2. CASE sending
    <3>1. PICK b \in Results : OneFlies("send", b) /\ SendBooks(b)
      BY <2>2, ZenonT(40) DEF IndInv, SendInv
    <3>2. b \in Int
      BY DEF Results, InKernel, Failed
    <3>3. PICK x : UnderWay("send") = {x} /\ x.bytes = b
      BY <3>1, FlightIs, ZenonT(40) DEF IndInv
    <3>4. Unhandled = IF b > 0 THEN 1 .. b ELSE {}
      BY <3>3, Zenon DEF Unhandled
    <3>5. Cardinality(Unhandled) = Moved(b)
      <4>1. CASE b > 0
        BY <3>2, <3>4, <4>1, FS_Interval, SMTT(30) DEF Moved
      <4>2. CASE ~(b > 0)
        BY <3>4, <4>2, FS_EmptySet, ZenonT(40) DEF Moved
      <4> QED
        BY <4>1, <4>2, ZenonT(40)
    <3> QED
      BY <2>1, <3>1, <3>2, <3>5, SMTT(30)
  <2>3. CASE ~sending
    <3>1. SendBooks(InKernel) /\ UnderWay("send") = {}
      BY <2>3, NoFlight, ZenonT(40) DEF IndInv, SendInv
    <3>2. Unhandled = {}
      BY <3>1, ZenonT(40) DEF Unhandled
    <3>3. Cardinality(Unhandled) = Moved(InKernel) /\ InKernel \in Int
      BY <3>2, FS_EmptySet DEF Moved, InKernel
    <3> QED
      BY <2>1, <3>1, <3>3, ZenonT(40)
  <2> QED
    BY <2>2, <2>3, ZenonT(40)
<1> QED
  BY <1>1, Invariance, PTL
=============================================================================
