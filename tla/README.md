# CppServer in TLA+

Specifications of [CppServer](../src/README.md), a multithreaded TCP server in
C++14 built on a main reactor, sub reactors in a thread pool and an
asynchronous logger. The modules model the parts that carry the library's
logic, TLC checks them on small instances, and TLAPS proves their safety
properties for every value of their constants. `PROJECT.json` maps every definition to
the lines it models, and lists components, runs, hazards, findings and theorems.

## 1. The system

```
  clients ──TCP──> Acceptor (main reactor's EventLoop, the thread in main())
                      │ AcceptConnection -> Server::NewConnection(fd)
                      ▼
               Connection (Socket + Channel + 2 Buffers), connections_[fd]
                      │ EPOLL_CTL_ADD / MOD on the epoll of reactor fd % n
                      ▼
  sub reactor i: EventLoop::Loop, an endless task of ThreadPool
                      │ epoll_wait -> Channel::HandleEvent -> BusinessLogic
                      ▼
               Connection::Read, then the application's message callback
                      │ Write, Close -> Server::DeleteConnection(fd)
                      ▼
               LOG_* -> Logger::Log -> FileAppender::Log -> writer thread
```

| Component | State | Operations | Interacts through |
|---|---|---|---|
| `ThreadPool` | `task_queue_`, `stop_`, `threads_` | `Add`, worker loop, destructor | one mutex, one condition variable, futures |
| `Server` | `connections_`, `sub_reactors_`, `threadpool_` | constructor, `Start`, `NewConnection`, `DeleteConnection`, destructor | callbacks set on Acceptor and Connection; called on two kinds of threads |
| `Acceptor` | listening `Socket` and `Channel` | `AcceptConnection` | main reactor's epoll, `NewConnection` |
| `EventLoop`, `Epoll`, `Channel` | registrations, `ready_events_`, callbacks | `Loop`, `Poll`, `UpdateChannel`, `HandleEvent` | kernel; raw `Channel*` in `epoll_event.data.ptr` |
| `Socket` | `fd_` | open, `SetFd`, close in the destructor | kernel's descriptor table |
| `Connection`, `Buffer` | `state_`, read and write buffers | `Read`, `Write`, `BusinessLogic`, `Close` | socket, message callback |
| `FileAppender` | bounded `queue_`, `file_stream_` | `Log`, `ConsumeLog`, `Reopen`, constructor, destructor | two mutexes, two condition variables, a writer thread |
| `Logger`, `StdoutAppender` | list of appenders, level | `Log`, `AddAppender` | calls of appenders |
| `Formatter`, `FormatItem`s | parsed items | `Parse`, `format` | called by appenders |
| `HttpParser`, `HttpManager` | parser state, map of connections | `OnConnection`, `OnMessage`, `HandleRequest` | callbacks of `http_server`, on two kinds of threads |
| test clients | a blocking `Connection` | write a line, read once, leave | the server's stream |
| `TimerManager`, `SafeQueue` | queues | `AddTimer`; push and pop | used by nothing |

What makes it hard:

* two threads work on a Connection before it is complete: the constructor
  registers the channel with the sub reactor's epoll, and only then come the
  callbacks and the `shared_ptr`;
* a descriptor number is a name that the kernel reuses, and a Connection
  closes its own twice;
* edge-triggered events are told once;
* `notify_one` outside of the lock, a bounded queue with several sleepers, and
  destructors that drain a queue before they join;
* a stream shared by a constructor and a writer thread without a lock;
* partial writes, end of file, reset, NUL bytes, a server that dies under its
  clients;
* a destructor that deletes what the pool's threads still use, and
  `epoll_wait` calls that a stopped process turns into exceptions.

What makes each part correct: tasks are run once, in order, and every future
gets its result (ThreadPool); a Connection lives as long as its callback, owns
its stream alone, and its events are handled (Server); no input is stranded and
no byte comes back twice or out of order (Connection); records are written in
order, callers are woken and the destructor loses nothing (FileAppender); the
items print what the pattern says (Formatter); a client that is owed an answer
is not left waiting, and one that leaves is noticed (EchoClient); every sub
reactor gets a thread, and the destructor comes to an end (ServerLifecycle); a
request does not end the server (HttpServer).

## 2. Modules

| Module | Models | Instance |
|---|---|---|
| `ThreadPool` | `thread_pool.h/.cpp` | `MCThreadPool` |
| `TaskService` | what `ThreadPool` and `FileAppender` promise, without threads | through their `Service` |
| `Server` | `tcp_server`, `acceptor`, `event_loop`, `epoll_class`, `channel`, ownership in `connection` and `socket_class` | `MCServer` |
| `ServerLifecycle` | `Server`'s constructor, `Start` and destructor, composed with `ThreadPool` | `MCServerLifecycle` |
| `HttpServer` | `HttpManager` and `HttpParser`, composed with `Server` | `MCHttpServer` |
| `Connection` | the bytes in `connection.cpp`, `buffer.cpp`, with `echo_server`'s callback | `MCConnection` |
| `EchoClient` | `echo_single_client`, `echo_multi_clients` and the blocking path of `connection.cpp`, composed with `Connection` | `MCEchoClient` |
| `FileAppender` | `FileAppender` and `Logger::Log` in `logger.h/.cpp` | `MCFileAppender` |
| `Formatter` | `Formatter` and the items in `logger.h/.cpp` | `MCFormatter` |
| `ThreadPoolProofs`, `FileAppenderProofs`, `ConnectionProofs`, `EchoClientProofs`, `ServerProofs`, `ServerLifecycleProofs`, `FormatterProofs` | theorems on the module of that name | |
| `SequenceLemmas` | lemmas on sequences and induction that the proofs share | |

Operators marked *Mutant* are wrong versions of the definition that follows
them. No specification uses them; they are there to show that a property
notices the mistake, by putting one in place of the definition.

### ThreadPool

One critical section of `tasks_mtx_` is one action (`Wait`, `Return`, `Take`,
`Add`, `Stop`): every access to the queue and to `stop_` is made under it.
`notify_one` and `notify_all` come after the unlock and are actions of their
own; `notifying` holds the threads in between. A worker leaves `cv_.wait` when
notified or spuriously, and tests its predicate again. Tasks may return, throw
(the `packaged_task` keeps the exception), call `Add`, and some never end, as
`EventLoop::Loop` does. `Init` is the constructor's result: a thread that has
not run yet is like one about to lock the mutex.

### Server

`NewConnection` is six actions (`NewSocket`, `EnableRead`, `UseET`,
`SetCallBacks`, `Insert`, `Announce`), because a sub reactor may act between
any two. The kernel is explicit where it matters: the descriptor table hands
out the lowest free number, a registration goes with the descriptor that is
closed, level-triggered input is reported again and edge-triggered input once.
The destructor's two `close()` calls are steps (`CloseFd`). A Connection, its
channel and its stream go by the client's name; `fd_` is what the object
believes, `fdt` what the kernel knows, so that they can disagree.

A Connection has up to three owners: `connections_`, the `shared_ptr` that a
sub reactor makes for the message callback, and the copy of `connections_[fd]`
that the main reactor hands by value to the on-connection callback, if one is
set (`OnConnectSet`). `Holders` are the threads whose callback has such a
pointer; whoever lets the last one go runs the destructor, so that
`CallbackEnds` may destroy on either kind of thread. `Announce` looks the
Connection up again, and what it finds may be null by then, which the callback
dereferences.

The use of a freed Connection or Channel (`FreedUsed`) passes, brings the
process down, or throws, as an expired `weak_ptr` in `shared_from_this()` or an
empty `std::function` does. It is met by a batch with a channel that an earlier
handler has freed, by a reactor inside `Read` while `Insert` drops its
Connection, and by `HandleEvent` after its own callback (`UseAfterFree`,
`HandlerReturns`). An exception on the main reactor ends the process; on a sub
reactor it ends the loop for good (`EndLoop`), since the pool's future swallows
it. A client may reset its stream (`Reset`); a callback that then writes to it
raises SIGPIPE, which nobody handles (`SigPipe`).
`connections_` has no lock in the source; its operations are atomic here, so
that what the module shows to be wrong is wrong even with one.
`StopAndContinue` is the one signal that a program without handlers survives:
`epoll_wait` fails with `EINTR` in any of the threads that were inside, and
`Errif` throws.

### ServerLifecycle

The owner's thread makes one reactor after the other (any of them may throw,
and then only the pool is destroyed), queues their loops as tasks of
`ThreadPool`, runs the main loop, and comes to `~Server` by an exception, or
without having called `Start`. `~Server` deletes the reactors first. Its members
follow in the reverse order of their declaration: callbacks, `connections_` with
its Connections, `sub_reactors_` (`DestroyMembers`), and only then the pool,
which is stopped and joined. A loop that is still running uses what is gone, its
own reactor first and then the Connections and callbacks; since these go only
when every reactor has been deleted, `LoopGoesOn` covers both. The workers are those of
`ThreadPool`, with loops as tasks that end only by throwing. `orphans` are the
loops that were queued or running when their reactor was deleted, `touched`
those that then used something deleted.

### HttpServer

`OnConnection` replaces the application's callback on the main reactor,
`OnMessage` the one on a sub reactor; the other steps are those of `Server`.
`HttpManager::OnConnection` does not dereference what it is given, so a null
Connection passes. A parser is created with an empty `connection_`, and
`HandleRequest` follows it. That `http_connections_` keeps a `shared_ptr` to every
Connection for good is left out: its callbacks never call `Close`, so that
nothing is destroyed anyway.

### Connection

One `read()` or `write()` is one step, of any size that buffers allow, against
a client that sends, reads, half-closes and resets at any time. Bytes are
numbered so that a lost, doubled or misplaced one can be told. `lost` records
the three ways in which the code drops bytes: a NUL inside a chunk, a full send
buffer (`EAGAIN`, after which `Write` clears the buffer), an ended stream.

### EchoClient

The server's side and the stream are `Connection`; its free client is replaced
by the programs of `test/`: one `write()` for a line, one `read()`, which
blocks, and so on. What was written is delivered in any pieces. A client that
leaves closes its stream, with a reset if answers are unread. The server's
process may die at any time and its kernel then sends a FIN or a RST; the
blocking path takes the FIN for an empty answer, the next line draws a RST, and
the one after that SIGPIPE. `Close` on a client's Connection throws, because
only `Server` sets the callback that it calls.

### FileAppender

The queue's critical sections are single steps with their notification, which
here is made under the lock. The stream has two bits, open and good, and a
failing insertion is two steps, because it races with `open()`: the
constructor starts the writer before it opens the file. If `DiskMayFail`,
opening, writing and closing may each fail at any time; a failed write sets
badbit, and the stream then ignores what comes next. `file` is what the stream
has taken since the file was opened. Where nothing fails, `close()` puts all of
it on the disk; what a failed flush leaves of the stream's last buffer on the
disk is not modelled. `level_` is never
initialised and takes any of `Levels`. The appender implements `TaskService`
with one slot: logging is submitting, writing or skipping a record is running
it, and the pill is an internal matter.

### Formatter

`Parse` is a loop over the pattern, one action per branch. `Expansion` is the
reference: what a character contributes, told from the run of `%` before it
alone, with no loop.

## 3. Runs

| Run | Shows | Instance | States |
|---|---|---|---|
| `pool` | tasks taken in order and once, no lost wakeup, no sleeper at join, no broken promise, results set once, implements `TaskService`, queued tasks start, the destructor returns; endless tasks excepted | 3 workers, 3 tasks, one endless | 19.1 k |
| `server` | callbacks own their Connection, no orphaned stream, no event of a published and living Connection ends a reactor | 4 clients, 2 reactors, 5 descriptors, both callbacks set, they may close, stopped once | 1504 k |
| `server_live` | input is read; a Connection costs two descriptors, so that the process falls at half of its limit | 3 clients, 2 reactors, 5 descriptors, message callback only, stopped once, one reset | 233 k |
| `server_shared_fd` | violation: a Connection whose descriptor was closed by another's destructor | 2 clients | |
| `server_early_event` | violation: a reactor ended by an event before the callbacks are set | 2 clients | |
| `lifecycle` | every loop gets a worker, what was deleted is used only during the destructor and only by loops that had not ended, the destructor returns unless a loop runs on | 3 workers, 3 reactors | 13.1 k |
| `http_request` | violation: the first message of a registered connection ends the process | 2 clients | |
| `appender` | order, wakeups, drain at destruction, contents of the file, implements `TaskService`, `Log` and destructor return | 3 callers, 3 records, queue of 1, one `Reopen`, opens, writes and closes may fail | 35.6 k |
| `appender_reopen` | violation: `Reopen` fails on a stream that has failed though the disk never does | 1 caller | |
| `connection` | nothing stranded, every byte accounted for, echo in order, echo arrives | 4 bytes, chunks of 2, send buffer of 2 | 5.7 k |
| `echo_client` | reads that are owed an answer return, a departure is noticed, also when the server dies | as `connection` | 5.7 k |
| `formatter` | formatting is expansion, `error_` is exact | 1365 patterns | 9.1 k |

Why the bounds are enough. Three workers allow one to sleep, one to run and
one to be on its way, and three tasks a queue longer than the workers that are
ready. Four clients are needed for a descriptor number to be reused twice, and
five descriptors run out while connections are open; two reactors are the least
that share a batch between threads. One stop is enough to end any set of
reactors at any time, and one reset to have any callback meet SIGPIPE; more of
either add nothing new, since both are final for what they hit. The resets are
in `server_live` only: in `server` they would add to the state space what
`Send` already does there, input that is told once. Three loops on three workers can be queued, running and
ended when the first reactor is deleted. A queue of one with three callers has
two sleepers for one place, and the pill competes with records. Chunks of two
within four bytes put a NUL in the middle and at the end of a chunk and need
two reads; a send buffer smaller than a message gives partial writes and
`EAGAIN`. Five characters hold two escapes and a directive, or runs of up to
five `%`. Named bounds: `MaxSends`, `MaxFd`, `MaxStops`, `MaxResets` (Server), `MaxReopens`
(FileAppender), `MaxLen` (Formatter).

Deadlock is checked for pool and appender, whose only end is destruction. A
server may wait for clients forever, a client for its user, and a parsed
pattern is done: those runs do not check it.

Fairness is weak fairness of each thread: what is able to run is run, by the
operating system's scheduler. It covers workers, the writer, the reactors, and
callers inside `Add` or `Log`; `RunTask` only for tasks that end. Nobody is
obliged to call `Add`, `Log`, `Reopen`, a destructor, to connect or to send.
`EchoArrives` assumes that the client reads what arrives, as the test clients
do; `echo_client` assumes that TCP delivers what was written as long as the
server lives. No user has to enter a line, no loop to throw, nobody to die.
Wakeups from `SpuriousWakeup` are never relied on.

## 4. Findings

1. **A descriptor closed twice** (`server_shared_fd`). `~Connection` closes the
   descriptor through the Channel and again through the Socket. A connection
   accepted in between gets the number, and loses it at the second close.
2. **An event before the callbacks** (`server_early_event`). A client that
   sends at once can have its event handled before `SetOnMessageCallBack` or
   before the `shared_ptr` exists; the exception ends the sub reactor silently.
   `LiveConnectionsNeverThrow` delimits it: apart from `EINTR`, a loop is ended
   by an event of that unfinished Connection, or by the use of one that was
   destroyed since `epoll_wait` reported it, and by no other event.
3. **Reopen on a failed stream** (`appender_reopen`). It tests the stream's
   state where it means `is_open()`, so it cannot repair a stream that failed,
   and the constructor's race with the writer is enough to make one fail.
4. **A parser without a connection** (`http_request`). Nobody sets
   `HttpParser::connection_`, which the first statement of `ParseRequest`
   dereferences: the first request of a registered connection ends the process.

One more disagreement is proved rather than run. `tcp_server.cpp:56` says
"randomly assign new connection to sub reactors", and the code takes
`fd % sub_reactors_.size()`. Descriptors advance in steps of two, because each
Connection opens a spare socket; so with callbacks that never call `Close` and
an even number of reactors, all Connections go to reactors of one parity and
half of the reactors never get one (theorem `HalfOfTheReactorsIdle`, on
`EveryOtherReactorIdle` of `ServerProofs`).

Further consequences that the passing runs state as facts: each connection
costs two descriptors, answers are cut at a full send buffer, a request that arrives with the
end of its stream is not answered, a client that sends an empty line waits for
good, and the threads of a server that was started use what `~Server` has deleted,
though never once it has returned.

## 5. Proofs

Every invariant and every action property that a passing run checks is also a
theorem, for all values of the constants that the module's named assumption
allows; `PROJECT.json` lists them. Each proof has the same shape: an inductive
invariant, one lemma per action or per part of it, and a temporal step. The
inductive invariants were checked with TLC on the instances of section 3 before
they were proved.

**ThreadPool** (any finite non-empty set of workers, any tasks): `TypeOK`,
`TakenInOrder`, `BacklogCovered`, `NoSleeperAtJoin`, `NoBrokenPromise`,
`FutureSetOnce`, `ImplementsService`. `TakenInOrder` is inductive given the
types: `Take` moves the head of the queue to the end of what was started, `Add`
extends both sides. `BacklogCovered` is inductive too, by counting: `Add`
lengthens the queue and adds a notification to come; `NotifyOne` spends it on a
sleeper, who becomes ready; `Take` uses one ready worker for one task; a worker
goes to sleep only on an empty queue. The others are not inductive. `PoolInv`
adds what they need: `stop` agrees with the destructor's position, a worker that
has returned has left a stopped pool with an empty queue, a destroyed pool has
only such workers, a task that was taken has its result or is held, by one
worker only, and no task was accepted twice. The refinement of `TaskService`
counts the tasks taken and not ended by mapping them to the workers that hold
them.

**FileAppender** (any finite set of callers, any records and levels, any
capacity, any number of `Reopen` calls, opens, writes and closes that may fail):
`TypeOK`, `ConsumedInOrder`,
`SleepersJustified`, `WriterSleepsOnEmpty`, `DrainedAtDestruction`,
`ImplementsService`, `FileIsOneStretch`. `AppenderInv` says of the pill that only
the destructor sends it, after all callers have returned, so that it is the last
record ever queued (`PillIsLast`), and that the writer leaves its loop with it
and not without it (`WriterEndsAtPill`). `FileIsOneStretch` has an invariant of
its own, `FileInv`: at any time the stream has taken a stretch of the due records that
reaches to the record last handled as long as the stream is good. What `DueIn`
selects from a stretch that grows by one record is proved by induction.

**Connection** (any payloads, chunk and send buffer): `TypeOK`,
`NoStrandedInput`, `EchoAccounted`, `EchoInOrder`, and `NoMoreThanSent`, which
bounds the echo by what was sent. `NoStrandedInput` speaks of the reactor in
`epoll_wait`; to be inductive it must hold from the end of the read loop on
(`EdgePending`). The other two follow from `ConnectionInv`, which says which part
of the payload each buffer holds: `rx` is what was sent and not read, the rest of
the echo consists of bytes read, in the order of the payload, and is all of them
unless a loss has been recorded. That bytes can be told apart is the numbering
convention stated in `ConnectionAssumption`.

**EchoClient** (any text): `TypeOK`, which bounds what was read by what arrived
and that by what was written. Every step but the server's death is a step of
`Connection`, so that the lemmas of `ConnectionProofs` are used through an
instance.

**Server** (any clients, at least one reactor, any limit of descriptors, any
number of sends, stops and resets, with and without an on-connection callback):
`TypeOK`, `CallbackOwnsConnection`, `NoOrphanStream`, `LiveConnectionsNeverThrow`.
`ServerInv` adds: whoever holds a Connection holds one that is alive; the stage of the Connection under
construction follows the main reactor's position; a descriptor that the kernel
or `connections_` gives to a Connection is the one it believes to have; the
reactor that handles a Connection is the one that `fd % n` names; descriptors
are closed only where `NewConnection` and callbacks run destructors. Under the
hypothesis that callbacks never call `Close` (`~AppCloses`), which is how the
repository's servers behave and the setting of run `server_live`:
`CapacityIsHalved` and `EveryOtherReactorIdle`.
`CapacityInv` says that nothing is destroyed and that the descriptors in use are
the lowest ones, two for each Connection. It follows how many there are, and that
they run out at an accept or at the spare socket when no more than one was left;
and that the descriptor of a Connection is even, and so is its remainder modulo an
even number of reactors.

**ServerLifecycle** (any number of sub reactors): `TypeOK` and `UseIsConfined`.
Every step is a step of `ThreadPool` or leaves the pool alone
(`ServerRunsThreadPool`), so `PoolInv` holds of the Server's pool; `LifecycleInv`
adds where the owner is (it closes the pool only when reactors and the other
members are gone), and that the deleted reactors whose loops have not ended
are all `orphans`. A running worker holds an accepted task without a result, and
a destroyed pool has no running worker: what is touched is an orphan, and only
before the destructor returns.

**Formatter** (any alphabet with `%`, patterns of any length): `TypeOK`,
`FormatExpandsPattern`, `ErrorIsUnknownLetter`. `ParseInv` is the loop invariant:
items and text so far print what the characters passed stand for. It rests on
what `FlattenSeq` computes when a sequence is added, and on `OpensAlternates`: a
`%` opens a directive unless the one before it does.

Induction. The library's induction theorems take an operator as parameter, which
the provers at hand cannot instantiate. `SetInduction` states the principle for
a *set* of numbers instead, and is proved from the well-foundedness of `<`; with
it the recursive functions behind `DueIn` and `FlattenSeq` are shown to exist, to
be unique and to grow as expected. This is why `FileAppender` writes `DueIn` and
`BeforePill` as it does rather than with `SelectSeq`.

Assumptions beyond the ranges of the parameters: model values differ (`None` is
no client and no number, `NoTask` no task, the pill no record, the owner no
worker), the workers and callers are finitely many, and the bytes of a payload
are numbered. TLC evaluates all of them.

Only model-checked: liveness and everything else under fairness
(`AcceptedStarts`, `DestructorReturns`, `InputIsRead`, `EveryLoopStarts`,
`ShutdownReturns`, `LogReturns`, `EchoArrives`, `EveryReadReturns`,
`DepartureNoticed`), since the temporal prover does not reason about `ENABLED`;
and the four violations, each of which is a trace.

## 6. Not modelled

* `TimerManager`: timers can be added, but `HandleExpiredTimer`, the only
  reader of the queue, is empty, and nothing uses the class. (Its queue is
  ordered by pointer, not by expiry: `TimeCmp` is not passed to it.)
* `SafeQueue`: a template that nothing instantiates, and whose `const` members
  would not compile, since they lock a mutex that is not `mutable`.
* `MimeTypes` and the favicon: constant tables that nothing reads.
* The parser behind the first statement of `ParseRequest`: `ParseURI` and
  `ParseHeaders` are declared and called but defined nowhere, so that programs
  linked with the library lack two symbols; `HttpServer` keeps the one outcome
  that their callers have for a first request.
* Several appenders per logger and `AddAppender` or `DelAppender` while others
  log: the programs add theirs before they start a thread, and appenders share
  nothing but the event.
* The data races inside `connections_` and `http_connections_`: what a broken
  hash table does next cannot be enumerated; operations on them are atomic here.
* `hardware_concurrency() = 0`, which leaves no reactor and divides by zero.
* More than `MAX_EVENTS` ready descriptors: the rest comes with the next batch.
* `Bind`, `Listen`, and `Connect` as it fails: they throw before anything runs.

## 7. Plan

The system is modelled as far as its source goes, and the safety properties that
the runs check are proved. Left are, in this order:

1. safety of the leads-to properties, step by step: for each of them the
   assertion that some action stays enabled until it is taken, as an invariant;
2. `HttpServer`: that nothing but the missing `connection_` ends the process,
   for a parser that has one, once the source defines `ParseURI` and
   `ParseHeaders`.
