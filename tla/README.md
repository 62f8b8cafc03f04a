# connx: a TLA+ model of the client library

connx is a C++ client library for TCP: an application creates clients, connects them,
sends bytes and gets messages, framed by a codec, in callbacks. Everything runs on one
global runtime, a poll thread and a pool of worker threads. This directory holds TLA+
modules of that runtime, TLC configurations that check them on small instances, and
TLAPS proofs of most of the safety properties for instances of any size. Paths below are
relative to the repository; `cc` stands for `src/src/net/client_connection.cc`.

## The system and its parts

| Part | Code | State | Operations |
|---|---|---|---|
| Task queue of a connection | `cc` Post, ScheduleDrain, Drain, DrainTaskQueue, NotifyIdle, CloseFromOwner | `accepting_tasks_`, `owner_closing_`, `draining_`, `active_posts_`, `queued_tasks_`, `task_queue_` | post a task, drain within a budget, release the client |
| Lock-free queue | `utils/mpscq.cc` | `newest_`, `oldest_`, `next` of each node | push, PopAndCheckEnd |
| Connection life cycle | `cc`, `client_connection_posix.cc` | `state_`, `connected_`, `fd_`, `id_`, connect timer | Connect, Disconnect, release, poll and timer events, callbacks, destructor |
| Session input and output | `cc`, `client_connection_posix.cc`, `client_connection_win32.cc`, the three pollers | receive and send buffer, `pending_bytes_`, `poll_interest_` or the requests under way, deferred close, parse continuation | SendBuffer, read, parse, write, completions |
| Codecs and parsing | `src/src/codec`, `cc` ParseInput | receive buffer | Decode of three codecs and of the application's, the parse loop |
| Slices and slice buffers | `utils/slice*.cc` | slices, counted blocks, `length_` | copy, move, cut, concatenate; AddSlice, Merge, MoveHeader |
| Worker pool | `net/worker_pool.cc` | worker list, `stopping_`, `generation_`, per worker queue, `wake_pending`, `accepting`, `active_posts` | Start, Stop, Post, Run |
| Connection table | `net/connection_table.cc` | entries with generations, free slots | Register, Acquire, Unregister, Clear |
| Poll loop and timers | `net/runtime.cc`, `timer_queue.cc`, the three pollers | timers, wakeups, `running_` | wait, dispatch, arm, wake, stop |
| Library | `core/init.cc`, `bridge/client.cc`, `net/runtime.cc` | `g_initializations`, `g_init_mtx`, runtime, worker-thread configuration | create and release a client, start and stop the runtime, set the number of workers |
| C API | `bridge/c.cc` | codecs, wrappers, options, handlers, clients and who owns them | new, set and destroy of each, connect |
| Address resolution | `net/resolve_address.cc`, `bridge/client.cc` | the text, the queries, what is allocated | Connect, join, split, resolve |
| Logging | `bridge/log.cc` | `g_log_function`, `g_user_data`, `g_min_level`, `g_seq` | set the callback, set the level, log |
| Utilities, socket options | `utils/`, `net/socket_util.cc` | | not modelled, see the end |

How they interact. A call of the application (Connect, SendBuffer, ...) checks some
state on its own thread and posts a task to the connection. The connection's task queue
elects one thread at a time, normally its worker of the pool, to run the tasks. The
poll thread turns socket events and expired timers into tasks too: it finds the
connection by its ConnectionId in the connection table and posts. So everything a
connection does to its socket and buffers happens in tasks, one at a time, and the hard
part is what lies between the decision to post and the execution of a task, and what
happens when the client is released, the runtime stopped, or a session replaced in the
meantime. The hazards are listed, each with its line, in `PROJECT.json`.

## Modules

The composition follows the layers. Each layer is checked on its own, and the one
above uses the abstract form of the one below:

    MpscQueue  --implements-->  TaskFifo  <--used by--  TaskDrain  --implements-->  SerialExecutor
    SerialExecutor's promise (tasks serial, in order)  is the `tasks` of ClientLifecycle and SessionIo
    ConnectionTable's promise (an id is not reused)    is the session number of ClientLifecycle
    PollLoop's and WorkerPool's Stop                   are single steps of Library
    SliceBuffer                                        is the receive buffer of FrameStream
    Slices  --implements-->  SliceValues               is why SliceBuffer may treat a slice as its bytes

**TaskDrain** (core). One action per access to shared state: an atomic, the node queue,
or a critical section of `idle_mtx_`. Per thread, `post`, `drain` and `sub` say where
it is in Post, in Drain, and in NotifyIdle or DrainTaskQueue; `close` is where
CloseFromOwner is and `closer` who called it. `poolQueue` counts the drains waiting in
the pool. `setting` is chosen once: the pool takes the drain (`"up"`), refuses it so
that Drain runs inline (`"stopped"`), or takes it while `draining_.store(false,
release)` may stay in the store buffer of its thread (`"buffered"`). A task posts
further tasks, releases the client, asks for a yield, or ends. `TaskFifo` is the
contract of the node queue: the order is that of the exchanges, a node is available
once it is linked. `SerialExecutor` is what the connection promises its handler.
`TaskDrainInvariant` and `TaskDrainProofs` hold the proofs; those of another module `M`
are in `MProofs`, but for ConnectionTable, which is with Library in `LibraryProofs`, and
CApi, Log, Slices and PollLoop, which share `PartsProofs`.

**MpscQueue**. One action per access to `newest_` or a `next`; `oldest_` is the
consumer's. A popped node is deleted and its address may be allocated again.

**ClientLifecycle**. Users call Connect (two steps: the state change, then the post,
with the resolution of the address in between), Disconnect and release, from
application threads and from callbacks. A task is one action up to the next callback
(between callbacks it works on members only tasks touch; another thread can only turn
`kIdle` into `kConnecting`), and callbacks are steps of their own. The poll thread
waits, acquires and posts in three steps. `for`, `net`, `interest` and `open` describe
the sockets; `returned` and `outcome` record what each attempt was told.

**SessionIo**. Data is counted: bytes of input, of which `FrameSize` make a message, and
units of output, of which `SendSize` make a SendBuffer. The tasks are those that read,
parse, write, continue a parse and open the next session; SendBuffer is a check and,
later, a post. The peer sends, closes and reads as it likes, and may reset at any time,
before or after it closes; recv and send return any size, and because the budgets of an
event are looked at before each call, the last one may go beyond them by less than a call;
the codec and the poller may fail at any time. `backend` is chosen once. With `"epoll"`
the poll thread reports one entry for the connection, with `"kqueue"` one per filter, in
either order, and the write filter shows a broken connection. With `"iocp"` reading and
writing are requests that the kernel completes, wholly or in part; `requests` is the
poller's map of them, and the requests of a session that was closed are still in it,
cancelled, when the next one starts its own.

**FrameStream** and **SliceBuffer**. Decode of the three codecs, and of the codec of
`connx_codec_new_callback`, which hands on what a function of the application answers, and
the loop of ParseInput on real (small) bytes in slices. The properties do not use Decode:
they say what a frame of each codec is. For the delimiter codec that includes the
delimiter, as the integration test has it and `c.h` does not: see FrameStreamDelimiter.

**Slices** and **SliceValues**. A Slice is its own few bytes, or a part of a block with a
reference count. Copies share the block; each may be cut on its own. SliceValues is the
contract: every slice is a sequence of bytes and changes on its own.

**WorkerPool**. Every access of Post, Run, Start and Stop to `stopping_`, the worker
list, `accepting`, `active_posts`, the queue and `wake_pending` is an action. A Start
makes workers of a new generation; Stop may be called from outside or by a task of a
worker, which it then detaches; Start may fail while it creates threads.

**ConnectionTable**. Each operation holds the mutex and is one step. `uses` counts the
registrations of a slot without wrapping; it exists only to state the properties.

**PollLoop**. The loop with a discrete clock. The clock moves while Wait sleeps with no
reason to return, and by at most `MaxLag` during the rest of a turn. A wakeup is a flag
(eventfd), a byte in a pipe that may be full (kqueue), or a packet, of which one wait
takes one (completion port).

**Library**. Creating and releasing clients from application threads and callbacks, the
user count under `g_init_mtx`, each step of the runtime's Start with what its failure
undoes, Stop, and the worker-thread configuration (two atomics that setters write and
Start reads one by one). A failing Init may leave what its poller leaves open. A worker
that stopped its own pool lives on, detached.

**CApi**. The objects behind the C interface and the pointers between them: a codec is
owned by its wrapper, then by the options, then by a client's connection, which deletes
it on a worker when the last reference goes. The application calls in any order, from any
thread and from callbacks, but uses nothing it has destroyed. Of a connection only the
steps are there that touch these objects.

**HostPort**. One call of Connect with a text, or with a host and a port, up to the query
to getaddrinfo: joined, split, asked, copied, freed, with the failure of each step. Names
are sequences of characters, because splitting them is what the code does.

**Log**. One action per access to the words of the sink. `alone` marks the calls of
connx_log that no setter overlapped; it exists only to state the property.

**MCParts** puts CApi, HostPort, Log, ConnectionTable and Slices into one run. They share
no variable, so a behaviour of one with the others standing still shows everything its
properties, which are about states and steps of it alone, can depend on.

`PROJECT.json` maps every definition to the lines it models. Definitions marked
`Mutant` are deliberately broken variants of an operation; substituting one must break
the property it is listed with, which shows that the property depends on the code.

## Runs

| Run | Shows | States | Bounds |
|---|---|---|---|
| TaskDrain | tasks serial, in order, counters exact, flag never orphaned, queued tasks leave, release returns unless a task is stranded or the worker waits for itself, nothing runs after it, the connection gets closed; implements SerialExecutor | 146,964 | 3 threads, 2 tasks, budget 2, all settings, release by a thread, by a task or by the worker in a callback of another client |
| TaskDrainReleaseHangs | *violation*: a release may never return | | as above, pool up |
| MpscQueue | FIFO, empty means empty, no dangling pointer, every node popped; implements TaskFifo | 8,338 | 3 producers, 3 nodes, reused for ever |
| ClientLifecycle | IsConnected is true to the state, one end per attempt, callback order, no callback after release, right peer, no lost socket, no stale event, Connect is answered | 557,893 | 2 callers and the callbacks, 2 connects, 1 disconnect, backlog 2 |
| ClientLifecycleWrongPeer | *violation*: connected to the address of a cancelled Connect | | as above |
| WorkerPool | quiet after Stop, accepted tasks leave, Stop returns, detached workers end | 186,109 | 2 posts, a pool of 2 then of 1 worker |
| PollLoop | timeouts punctual, Stop does not wait for the poll timeout | 287,032 | 2 timers of 1 to 4 ticks, poll timeout 2, 3 back ends, a pipe of 2 |
| SessionIo | output and input never stall, metrics exact, messages go out whole, frames before close, close noticed | 885,646 | 3 back ends, 2 sends of 2 units, 2 sessions, 5 bytes (4 on Windows), message of 2, parse budget 1, read budget 4, requests of 3 |
| Library | a client has a whole runtime, of a size somebody asked for; nothing is left without clients; calls return but for one deadlock | 82,448 | 2 application threads and the workers, 3 clients, 1 change of the number of workers |
| FrameStream | the stream is delivered as frames, nothing left behind, errors are real, the buffer holds the rest | 423,511 | all streams of 6 bytes out of 3 values, 22 codecs, budget 2 |
| FrameStreamDelimiter | *violation*: a delimited frame is delivered with its delimiter | | as above |
| Parts | codecs owned once, nothing freed is used, addresses resolved as given, log callbacks get their data, no stale delivery before the generation of a slot wraps, slots accounted, live ids found; Slices implements SliceValues and counts its blocks | 176,922 | 2 codecs, addresses and clients, 1 options object and handler; texts of up to 5 characters, hosts of up to 4, ports 0, 1, 65535, 65536; 3 settings of the log callback; 2 connections, 5 registrations, generations modulo 4, 2 events; 2 slices, 3 blocks, 3 bytes |

Why the bounds suffice for the cases of interest. TaskDrain: two tasks are needed for
order and for a post that meets an ending drain, a third thread for the owner; a
budget of 2 lets a drain both yield and continue. MpscQueue: three producers give a
complete push, one between exchange and link, and one in front of it, while the
consumer reinitialises the list; address reuse makes the run unbounded in length.
ClientLifecycle: two attempts suffice for anything stale to meet a successor.
WorkerPool: two generations, of different sizes, let a stale worker or post meet a new
pool. PollLoop: timeouts on both sides of the poll timeout. SessionIo: 5 bytes
are two messages and a rest, one message per parse (on Windows two messages, which a
request of 3 cuts already); a receive request of 3 cuts inside a
message, a budget of 4 ends a read before the end of the stream; a write of 3 cuts inside
the second of two sends; two sessions let what is left of one meet the other. Parts: two
clients made with one options object, in turn, and two addresses set on it; four
characters hold an IPv6 address with brackets, a port comes to five; three blocks, since
a concatenation needs one for the result while both operands have theirs; generations 1,
2 and 3, so that a slot wraps within five registrations, and a second connection that
takes it over. Library: a setter that races with Start already puts the number 0 under a mode
other than auto, which is also what two racing setters leave. FrameStream: two-byte
length fields in base 4 reach beyond `INT64_MAX` = 13 and `SIZE_MAX` = 14, as eight
bytes do beyond the real limits.

Deadlock checking is off where the system may stop: all calls made, all input sent, the
client destroyed. MpscQueue, whose nodes are reused, has it on.

### Fairness

Weak fairness of the steps of threads that are inside a call or a loop, because the
operating system runs them: Post, Drain, CloseFromOwner, pushes, the worker loop, a
Start or Stop that has begun, the poll loop, and the kernel's completion of a request it
can complete. In SessionIo it is one condition on tasks, poll thread and kernel together:
one of them goes on as long as one can. No fairness of the application's calls,
the peer, failures, spurious wakeups or the clock. Tasks and callbacks are assumed to
end. PushedIsPopped needs the consumer to call PopAndCheckEnd again, which its callers
do in a loop until it reports empty. Two strong fairness conditions: NotifyLocked
(a thread that wants `idle_mtx_` gets it although CloseFromOwner takes it again and
again after spurious wakeups) and TimerExpires (a deadline passes although the poll
thread is repeatedly busy with socket events).

### Memory model

All atomic accesses are sequentially consistent, but for the store of `draining_` in
the setting `"buffered"` of TaskDrain. That is the one place where the code relies on a
store followed by loads of other variables without a full fence. The acquire/release
orders of MpscQueue and WorkerPool are not weakened. In Log the two relaxed stores of a
setter, and the two relaxed loads of connx_log, take effect in any order.

## What the runs found

Three runs show a disagreement between code and documentation:

* TaskDrainReleaseHangs. CloseFromOwner sets `owner_closing_` (`cc`:165) before it
  clears `accepting_tasks_` (`cc`:166). A post accepted between them, while a drain that
  has emptied the queue is about to give up `draining_`, is left to that drain, and
  nobody drains again: the release waits for ever.
* ClientLifecycleWrongPeer. After Connect(A), Disconnect, Connect(B), the task of the
  first Connect still opens its socket, and OnConnected may be reported for A.
* FrameStreamDelimiter. DelimiterCodec counts the delimiter as consumed
  (`src/src/codec/delimiter_codec.cc`:20), and OnMessage gets all that was consumed. `c.h`:106
  says "The delimiter itself is not included in the decoded frame data." The integration
  test (`test/test_integration.cc`:171) expects it, as the code does, and so does
  DeliversTheStream.

Some properties carry an exception in their statement, where the code does not do
better. They are written so that the exception is visible:

* `disconnects = 0` in ConnectedAgrees, NoOrphanSocket, CallbackOrder,
  OnlyItsOwnEvents and ConnectAnswered: the task of Disconnect names no attempt. Run
  after a later Connect was let in, it closes that attempt silently; the attempt's own
  task then opens a socket nobody waits for, and a further Connect overwrites it
  (`cc`:121, 356, 365).
* ConnectAnswered is about clients with a connect timeout. The default of
  `connect_timeout_ms` is 0 (`include/connx/options.h`:23), which arms no timer: a connect
  that the network never decides is then never answered.
* `Stranded` in the liveness properties of TaskDrain: the first finding.
* `relaxed` in them: the release store at `cc`:281 may become visible after the loads at
  `cc`:285-286. A whole post fits in between, fails its compare-exchange on the old value,
  and its task is stranded, although nobody releases the client. On x86 a store and later
  loads may be reordered in this way.
* `WaitsForItself` in them: a callback of one client that releases another client of the
  same worker waits for a drain only its own thread could run (`cc`:173).
* ReleaseTakesEffect is "eventually": the release may return before StartClose has run
  and before the worker drops the last reference, so the codec may be deleted later
  (`cc`:274, 281).
* JoinsCreator in CallsReturn: a callback that creates a client waits for `g_init_mtx`
  while the holder joins the callback's worker (`src/src/core/init.cc`:64).
* FramesBeforeClose speaks of an orderly close. A reset, or an error of send, drops
  buffered messages (`cc`:424).
* SendBuffer checks IsConnected at the call and in its task, but not that it is the same
  session; the bytes may go to the next peer (`cc`:128, 135), whole, as WholeMessages says.
* The local address in NothingFreedIsUsed: a client keeps the options' pointer to their
  copy of it, not a copy, and reads it in every Connect. It dangles once the options are
  destroyed or given another address, although `c.h` says that options "may be destroyed
  independently afterwards" (`bridge/c.cc`:182, 217).
* `alone` in LogCallbackGetsItsData: connx_log does not look at `g_seq`, so one that
  overlaps connx_log_set_callback may hand a callback the user data of another, and may
  call it after connx_log_set_callback(NULL, NULL) has returned, when the repository's
  README says the data need not be valid any more (`bridge/log.cc`:94, 147). A NULL
  callback also ends logging; `c.h` says that it restores the default.
* FixedLengthCodec and LengthFieldCodec report a non-zero `consumed` with kNeedMoreData,
  against the comment in `codec.h`; ParseInput does not use it.
* FrameAssumption requires the length field to lie in the header, which the
  constructor of LengthFieldCodec does not check.

## Proofs

TLC checks the properties on the instances above. The theorems below state them for every
value of the constants: any number of threads, tasks, clients, slots or bytes, and any
value of the bounds that the configurations choose. The assumptions are the ASSUMEs of
the modules: two kinds of object are distinct, a model value such as NoTask is no task,
a number is a natural number, a set that is counted is finite. TLC evaluates them in every
run. Two say more. ConnectionTable's Modulus is above 2 (in the code it is 2^32). The
settings in Library are what the two setters can produce.

| Module | Theorem | Property |
|---|---|---|
| TaskDrainProofs | TypeCorrect | TypeOK |
| | CountersAreExact | CountersExact |
| | TasksAreSerial | SerialTasks |
| | FlagIsHeld | FlagHasHolder |
| | NothingRunsAfterRelease | NoTaskAfterRelease |
| | IsSerialExecutor | ImplementsSerialExecutor (refinement) |
| MpscQueueProofs | IsTaskFifo | ImplementsTaskFifo (refinement) |
| | EmptyReportsAreTrue | EmptyIsTrue |
| | NoPointerDangles | NoDanglingPointer |
| ClientLifecycleProofs | IsConnectedTellsTheTruth | ConnectedAgrees |
| | NoSocketIsOrphaned | NoOrphanSocket |
| | CallbacksAreOrdered | CallbackOrder |
| | SessionsEndByTheirOwnEvents | OnlyItsOwnEvents |
| WorkerPoolProofs | StoppedPoolsAreQuiet | StoppedIsQuiet |
| SessionIoProofs | OutputGoesOn | NoStalledOutput |
| | InputGoesOn | NoForgottenInput |
| | PeersGetWholeMessages | WholeMessages |
| | MessagesComeBeforeTheClose | FramesBeforeClose |
| LibraryProofs | RuntimeIsThereForClients | ClientsHaveRuntime |
| | NothingIsLeftBehind | NothingLeftWithoutUsers |
| | SlotsAreAccounted | SlotsAccounted (ConnectionTable) |
| | NoEventIsStale | NoStaleDelivery (ConnectionTable) |
| PartsProofs | CodecsHaveOneOwner | CodecOwnedOnce (CApi) |
| | WorkersUseWhatExists | NothingFreedIsUsed (CApi) |
| | LogHandsOutItsData | LogCallbackGetsItsData (Log) |
| | SlicesAreValues | ImplementsSliceValues (refinement, Slices) |
| | TimersArePunctual | Punctual (PollLoop) |

None of these is inductive as it stands. Each proof has an invariant that is, shown to
hold initially and to be kept by every action in turn. TLC has checked the larger ones (of
TaskDrain, MpscQueue, ClientLifecycle, SessionIo, WorkerPool and Library) on the instance
of the run. Where an argument counts, the few facts it needs about finite sets are named in
a definition Counting and assumed by the lemmas; CountingHolds shows them at the end of the
module, from the library's theorems, before the theorems use both. What the invariants add,
and why:

**TaskDrain.** ShapeOK (types; a post with work in hand has a task), and

* HolderInv: the right to drain is a token. It is in one place only, a Drain in the part
  that owns the queue, a Post or a CloseFromOwner that won the flag and has still to
  schedule, or one entry in the pool's queue, and `draining_` is set exactly while it is
  somewhere or its reset is in the store buffer. SerialTasks and FlagHasHolder follow.
* ReleaseInv: from the moment CloseFromOwner, holding `idle_mtx_`, has seen `draining_`
  clear, no drain is at a place from which it could take a task without looking at
  `owner_closing_` first. NoTaskAfterRelease follows.
* StackInv: the calls of a thread nest (a release inside a task, DrainTaskQueue inside
  either), so that a thread counts for one thing at a time.
* CountersExact: each increment or decrement goes with one thread or node entering or
  leaving what is counted; this needs the other parts.
* ExecInv, for the refinement: who has a task in hand, and that nobody has one outside
  of the places where SerialExecutor is running it. A step that the executor cannot see
  (`Unseen`) changes neither the queue, nor a task in hand, nor the phase of the release;
  the others are shown one by one to submit, start, end or discard a task, or to advance
  the release.

TLC does not check TypeOK by itself: it is a conjunct of what is proved.

**MpscQueue.** There is a list `l` of links (ListInv), whose first is `oldest_` and whose
last is `newest_`. Each points to the following one or is the `prev` of the one push, or
of the consumer, that is about to make it do so, and nothing outside of `l` is pointed to.
A push appends, a pop takes the head, and putting the stub back appends it. That `l` is
the list that the model's `List` computes is proved by induction on the position, from the
fact that a nonempty set of numbers has a least element (LeastNumber), because the induction
theorems of the library are out of the provers' reach.

**ConnectionTable.** The free list has no duplicates and holds exactly the inactive slots;
an id that a connection holds is current; the generation of a slot is a function of how
often it was registered, modulo the wrap-around that skips 0. The last also holds of every
event, for the time at which it was raised. Two equal generations are then a multiple of
`Modulus - 1` registrations apart.

**ClientLifecycle.** What always holds (state, `connected_`, the place in the task and
the outcome of the attempt agree), and what holds until Disconnect is called (CalmInv):
one attempt is in its Connect, in a task, or neither, and then nothing else is under way;
the socket is that of the attempt; what the poll thread has in hand is about a socket that
is closed or about what really happened. The second needs the first. CallbackOrder and
OnlyItsOwnEvents are about steps, and follow from the invariant in the state before.

**SessionIo.** On POSIX the invariant is about the members alone: bytes in the send buffer
mean write interest, and a whole message, a deferred close or `parse_continuation_pending_`
mean a queued continuation (OutputInv, InputInv). On Windows bytes leave the socket before a
task knows. So RecvInv and SendInv say that each direction of the present session has at
most one completion, as a request of the poller or as a task in the queue, exactly while
`receiving` or `sending` is set, and they keep the books with what it will bring: all that
was received is in a message, in the receive buffer or in the completion; what the peer
heard, less what the completion will report, and what is buffered make whole SendBuffers. A
completion without bytes means the end of the stream (EndInv carries that over to the deferred
close, from which FramesBeforeClose follows). Completions of earlier sessions may
be anywhere, and QueueInv and RequestInv say that none is of a session to come; ClosedInv
says that ResetAfterClose leaves nothing to the next session.

**WorkerPool.** Stop passes over the workers several times. The invariant says which of
the loops it is past for each worker (Refused, Left, Emptied, Joined): past the first no
post is accepted, past the wait for `active_posts` none that was accepted is still in
Post, past the drain the queue is empty and stays so, and past the join the thread is
gone. CountInv makes the wait meaningful: `active_posts` is the number of the posts that
are inside. The links of a queue that are not made yet belong to posts that are.

**Library.** The count is the number of clients that have been initialised and not yet shut
down, while `g_init_mtx` is free. While it is held for the start or the stop of the
runtime there are none; and then the runtime is as far as the holder's step says.

**CApi.** Without counting, every live codec has one owner. Creating a client moves a codec
from options to connection only because nobody else has it. HandleInv and AddressInv tie a
handle to its connection and an address to the options that own it.

**Log.** Between two settings the two words agree, and during one each word that was stored
has its new value (SettingInv); a call that is alone has what is still in the words.

**Slices.** A block's count is the number of slots that refer to it. What a slot shows
depends on its record and on one block, and no operation changes a block in use.

**PollLoop.** OnTime says, by the place of the poll thread, how late a timer can be. Past the
computation of the timeout, either the wait ends in time for it, or a wakeup is there or on
its way.

### Only model-checked

* Liveness: the prover has no ENABLED, and so cannot reason about fairness.
* FrameStream and SliceBuffer. Their definitions are recursive over the bytes of a
  stream, which the prover's arithmetic backend does not accept; and what they compute for
  every input would need an induction over data.
* HostPort (ResolvesAsGiven): the texts are finite instances chosen in MCParts, and
  what is said of them compares two ways to take a text apart.
* The violations: a counterexample needs no proof.

## Not modelled

* On Windows, ConnectEx and the opening of sockets: ClientLifecycle follows the POSIX
  connect, and a session of SessionIo begins when it is open.
* winsock_init and winsock_shutdown, around the start and the stop of the runtime on
  Windows (`core/init.cc`:36-48, 65-67). A winsock_init that fails has the effect of a
  Poller::Init that fails with nothing open, which Library has.
* LibraryShutdown called more often than LibraryInit. An application that calls the two in
  pairs counts like a client without callbacks.
* Socket options, conversion of socket addresses, status, time and string helpers, mutex
  and atomic wrappers: calls of the operating system or the standard library without state
  of their own; where they fail, that is a choice in ClientLifecycle or Library.
* The C functions that only pass arguments on (numeric options, sending, getters,
  version) and the formatting of log lines.
* SliceBuffer's MergeFront, CopyToBuffer and pops, which the connection does not use.
* Exceptions (`bad_alloc`) outside the thread creation in Start; a wall clock that is set
  back; growth of a backlog, which the bounds hide (`poller_linux.cc`:139: a level-triggered
  event is posted again in every turn until a worker has read).

## Plan

What remains is the composition of TaskDrain with Library: the pool stops only when no
connection has a drain in its queue, so Stop never discards one. And a form of FrameStream
that does not compute by recursion, so that the delivery of the stream can be proved for
streams of any length.
