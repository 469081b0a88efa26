# Weak_ayas: specifications, model checking and proofs

Weak_ayas is a client and a server, in C++ on Linux, with which users track how
well they solve LeetCode problems. The server is multi-threaded: an accept
thread, two epoll workers with their loop threads, a shared pool of four threads,
and threads spawned per connection when a request comes while another one of the
connection is in the pool. Requests end in MySQL. The client is a console with a
thread that shows what comes back. This directory holds TLA+
modules for these parts, TLC configurations that check them on small instances,
and TLAPS proofs of the safety properties for instances of any size.

Paths below are relative to `src/Weak_ayas/` unless they say otherwise.

## 1. Inventory

### Parts and state

| Part | Source | State it keeps | Operations |
|---|---|---|---|
| Thread pool | `ThreadPool.cpp` | queue of tasks, `stop`, one mutex, one condition | `enqueue`, `worker` (wait, take, run), destructor (stop, broadcast, join) |
| Epoll worker | `EpollWorker.cpp` | `fd_infos` (fd to `fd_info`) under `fd_map`; per `fd_info` a mutex, a condition, `fd_inthreadpool`, `needactive`, `thread_running` | `add_fd`, `loop`, `drain_epoll`, `handle_event`, the pool task, the active thread, `close_fd`, destructor |
| SQLManager | `SQLManager.cpp` | per worker `userFdToId` and `special_id`, without a lock | `handle_request`: register, login, three queries, insert and delete submission, five requests for Oscar; `erase_fd`; `SendData` |
| Database driver | `sql_driver.cpp`, `src/SQL/init.sql` | the tables `users`, `problems`, `problem_type_map`, `submissions`, with keys, AUTO_INCREMENT and ON DELETE CASCADE | one transaction per call; two statistics |
| TCP server | `TCPServer.cpp` | `running`, `close_all`, `client_sockets`, the eventfd | `start`, `accept_loop`, `notify_false`, `stop` |
| Server programs | `Weak_ayas_server.cpp`, `final_main.cpp` | `g_stop_flag`, `mtx`, `cv`, `server_running` | signal handler, server loop with restart, test driver |
| TCP client | `TCPClient.cpp` | `running`, `server_on`, `close_all`, the socket | `start`, `recv_loop`, `send_msg`, `stop` |
| Console client | `ConsoleClient.cpp`, `Weak_ayas_client.cpp` | none of its own | command loop, reconnection, wait for the ready flag |
| Launcher | `Weak_ayas.cpp` | none | fork, exec of server and client |
| Framing | `protocol.hpp`, `parse_sockpackage`, `build_package`, `get_start_payload` | none | start byte, type, length, payload, end byte |
| Tables for display | `get_units_table` and the like | none | layout of text |
| Older copies, manual drivers | `*_main.cpp`, `*_sourcecode.cpp`, `sqldisplay*`, `EpollWorker(Base).cpp`, `ThreadPool_other(thread cpp).cpp` | - | not part of the two programs |

### How they interact

1. A client connects and sends packages (`ClientTCP::send_msg`).
2. The accept thread gives the socket to one of the workers in turn (`add_fd`)
   and notes it in `client_sockets`.
3. The worker's loop thread reads a package and puts a task in the pool, with
   `fd_inthreadpool` set. If the flag is already set when more data comes, it
   spawns an *active thread* for the connection, which waits for the task and
   then reads and handles what follows itself.
4. The task parses the package and calls `SQLManager::handle_request`, which
   checks the session, calls the driver and writes the reply.
5. At an end of file the loop thread or the active thread erases the session and
   closes the fd; the kernel may give the number to the next connection at once.
6. A signal sets `g_stop_flag`, which every loop reads. A failure of the accept
   loop is told to the server loop through `mtx`/`cv`; the server is destroyed
   and a new one made. The pool outlives the servers.

### What is hard here

- Flags of one `fd_info` are read under `fd_map` by the loop thread and written
  under `fd_mutex` by tasks: whether two threads can read or handle the same
  connection is not a matter of one critical section.
- fd numbers name connections, in tasks, in `fd_infos` and in sessions, and are
  used again.
- Five kinds of threads can end, fail or be destroyed in any order, and three
  condition variables have several kinds of waiters.
- Handlers check a session and then act; `special_id` is shared by all
  connections of a worker and never initialised.
- A lost wakeup in `cv`, a mutex locked twice, a failed task that leaves its flag.
- A read is taken for a package: TCP may join two packages or cut one, and a
  request that comes before the last one is done locks its connection out.
- The client finds a server through a file that may be stale or used up, and
  learns of its end on one thread while the other waits for the user.

`PROJECT.json` lists the hazards at their lines, each with the properties that
would show it going wrong, or with the reason why there is none yet.

### What makes each part correct

- *Thread pool*: a task runs exactly once; no wakeup is lost; the destructor
  returns, after every task; the pool is a FIFO queue served by workers.
- *Epoll worker*: one request of a connection in the pool at a time; it finds
  its own connection; one reader; requests in order; a connection that is stuck
  stops nobody else; nothing runs on a destroyed worker.
- *Sessions*: a session stays that of the user who opened it; requests for Oscar
  come from Oscar; a connection acts under its own login; submissions go only by
  their owner or with their problem or user.
- *Database*: foreign keys hold; the two statistics agree; each submission
  counts once; the last attempt is the last.
- *Server programs*: a server that stops leaves nothing behind; a server that
  fails is noticed and replaced; a signal ends the program.
- *Client*: its thread and socket end with it; leaving the console comes to a
  connection or an end; a server that closes is noticed.
- *Framing and the wire*: a package comes out as it went in; no part of the stream
  is taken for a package nobody sent; a user who waits for replies gets them.

## 2. Modules

| Module | Models | Uses |
|---|---|---|
| `TaskPool` | the abstract pool: submit, start in FIFO order, finish | |
| `ThreadPool` | `ThreadPool.cpp` in detail; implements `TaskPool` | `TaskPool` by INSTANCE, refinement mapping `queue <- tasks`, `exec <- task` |
| `EpollWorker` | `EpollWorker.cpp`, with kernel sockets, clients, the accept thread's `add_fd` and `TCPServer::stop` | `TaskPool` by INSTANCE: its pool is the abstract one |
| `Tracker` | the tables and every call of `sql_driver.cpp` | |
| `Statistics` | `Select_UnitsData`, `Select_Unitdetail` over all histories of the tables | `Tracker` |
| `Sessions` | `SQLManager.cpp`: sessions, all handlers, `erase_fd` | `Tracker` |
| `ServerMain` | `TCPServer.cpp` start, stop and accept loop; `main` of both programs; signals | |
| `Client` | `TCPClient.cpp`, the command loop of `ConsoleClient.cpp`, `main` of `Weak_ayas_client.cpp`, the client of `final_main.cpp`, the launcher; a server that stops, crashes and starts again | |
| `Framing` | the packages: `build_package`, both decoders, `getdata` | |
| `Wire` | one connection byte by byte, from the commands of the console through `EpollWorker`'s reads to `SendData` and what the client shows | `Framing` |
| `MC...` | constants for TLC | the module they are named after |
| `Lemmas` | facts about numbers and sequences for the proofs | |
| `...Proofs` | theorems | the module they are named after, `Lemmas`, `TLAPS` |

The composition is by interface. `ThreadPool` is shown to implement `TaskPool`,
and `EpollWorker` uses `TaskPool`, so that the interleavings inside the pool need
not be explored together with those of the worker. `EpollWorker` shows that a
connection is served by one thread at a time and keeps its fd meanwhile, and
`Sessions` takes this as its shape: one place `pc[c]` per connection. `ServerMain`
takes a worker as something that is given connections and is destroyed. `Wire`
composes the two ends of a connection over `Framing`: the server's side is what
`EpollWorker` makes of one connection, and it leaves to `Sessions` what the handlers do.
`Client` sees of the server that it listens, accepts, reads and ends.

Operators named `Bad...` are mistakes someone could make in the code: a
dropped guard, a missing reset or notify. Nothing uses them, except that each
property of a run is violated when one of them takes the place of the action
or operator it imitates (`mutants` in `PROJECT.json`).

### State and actions against the code

`ThreadPool`. `tasks`, `stop`, `task` are the variables of the code; `wpc`, `ppc`,
`dpc` are program counters. One critical section of `queue_mutex` is one action.
`pthread_cond_signal` and `broadcast` come after the unlock and are actions of
their own (`Signal`, `DestroyBroadcast`), with `SpuriousWakeup`. A task ends by
`Run`, or by `Throw` and the `Catch` of `worker`, which lets its thread live on.

`EpollWorker`. A connection stands for its `fd_info`; `sock`, `epset`, `inbox` and
`hup` are the kernel's side. `lpc` is the loop thread, `wpc` the pool threads,
`apc` the active thread of each connection, `dpc` `TCPServer::stop` and then
`~EpollWorker`. Critical sections of `fd_map` are single actions except
`close_fd`, whose `close()` and `EPOLL_CTL_DEL` are apart. `fd_mutex` has an
explicit owner and `fd_cond` an explicit set of waiters, the destructor among
them. A read takes what has arrived and yields the first package. `Faults` are what may
go wrong: a package is invalid, a handler throws, `epoll_wait` fails, `epoll_ctl`
does not add a connection, which then stays open and unread. A task or an active
thread that runs on a destroyed worker is stopped in the place `undefined`,
since the code's behaviour is undefined from there.

`Tracker`. A call locks its rows or reads one snapshot and commits or rolls back, so
that it is one step; a call that finds no row or breaks a key changes nothing.
`history` is not in the code: it records the order of insertions for
`LastIsLatest`. `getMinuteFromTime` does what `sscanf` does with the numbers it
finds: fewer than three give -1.

`Sessions`. A handler is two or three steps: the check (`CheckLogin`, `LoginQuery`)
and the call (`Handle...`, `LoginStore`), between which other connections run.
`EraseFd` and `EraseReset` are the two steps of `erase_fd` at an end of file.
`CallChangesNothing` is a query or a call that fails. `release` says whether the
build defines `RELEASE`: `EpollWorker.cpp:288` calls `erase_fd` only then.
`self`, `session`, `garbage`, `oscars` are for the properties only.

`ServerMain`. `cv.wait` is the test of the predicate under `mtx` (`LoopTest`), then
release and wait in one step (`LoopBlock`), then `LoopRelock`; `Signal` and
`SignalNotifies` are the two lines of the handler, at any time. `accept_loop` is
cut at each system call and each access to `running`. `exhausted` says that the
process, or the system, has no descriptor left: `accept` then fails
(`AcceptError`), the connection stays pending, and `epoll_wait` reports it again at
once. Descriptors come and go as they like (`DescriptorsChange`).

`Client`. `main` is where the main thread is, in `main()`, `ClientTCP::start`, the
console or `ClientTCP::stop`; `recv` and `events` are `recv_loop`. `conn` is the
connection as the client's kernel sees it: `eof` and `reset` are what the next
read finds; at `closed`, an end of file with a reset behind it, a read still finds the
end of file; at `closed` and at `broken`, a reset that was reported, the next write
raises SIGPIPE. What TCP makes of a close depends on whether bytes were unread
(`Lost`). `TCPServer::stop` does `shutdown(SHUT_WR)` first, so that its clients always
have the end of file before the reset (`ServerCloses`); a crash does not. `final_main` ignores the
result of `start()` and gives the console a script; the launcher becomes the
client a second after the fork. A new `ClientTCP` is `MainCheck`.

`Framing`. Operators, no state: strings are sequences of bytes and indices start
at 1. A result `-1` or `false` is the empty set, a found package the set of it.
`START`, `END`, `SEP` and `MaxBuffer` are constants, so that the theorems do not
depend on `'*'` and 2048.

`Wire`. `up` and `down` are the bytes on their way; a read takes up to `MaxBuffer` of
them, a write as many as fit (`Capacity`). `delivery` chooses, once, between a
connection that delivers what was written whole to a user who waits
(`ConsoleClient.cpp:259`), and one that cuts requests, or replies, anywhere.
`server` is the place of the connection's task; `stuck` is a connection whose
`fd_inthreadpool` or `fd_mutex` is never released after a package that came cut or too
early (`EpollWorker.cpp:102` and `125`); `failed` is one whose handler threw (`ServerThrows`),
with the same end: the catch blocks of the driver call `setAutoCommit`, which throws again
if MySQL is lost (`sql_driver.cpp:129`), the pool catches it, and line 111 is skipped.
`sent`, `handled` and `answers` are history, for the properties.

## 3. Runs

Every run finishes. State counts are those of TLC, after symmetry where it is
declared.

| Run | Instance | Distinct states | Shows |
|---|---|---|---|
| `thread_pool` | 4 tasks that may throw, 3 workers, 2 producers | 38,800 | `ExactlyOnce`, `NoLostWakeup`, `DrainedAtExit`, `DestructorReturns`, `ImplementsTaskPool` |
| `epoll_requests` | 2 connections, 2 fds, 2 pool threads, 2 packages each, bad packages, handlers that throw, no stop | 877,130 | `OneTaskPerConnection`, `TaskMeetsItsConnection`, `OneReader`, `ActiveFindsWork`, `HandledInOrder` |
| `epoll_stop` | the same with 1 package each, all faults, and stop at any time | 779,428 | `DestroyedAfterThreads` |
| `epoll_liveness` | 2 connections, 2 packages each, 1 pool thread, handlers that throw | 119,455 | `LoopComesBack`, `TasksEnd`, `RequestsAreRead`, `DisconnectsAreCleanedUp` |
| `statistics` | 2 users, 2 problems, 2 titles, 2 units, 2 submissions, 4 times | 24,051 | `UnitsAgreeWithDetails`, `RatesAddUp`, `LastIsLatest` |
| `sessions` | 2 connections, 2 fds, 1 worker, Oscar and ann, 2 registrations, 1 problem, 1 submission, both builds | 2,050,410 | `NoOrphans`, `SessionsNameTheirUser`, `OscarCalls`, `OwnLoginInRelease`, `SubmissionsAreKept` |
| `server` | both programs, 2 connections, 1 failure, descriptors that run out and come back, 2 signals | 82,344 | `NothingLeftBehind`, `StopReturns`, `FailureIsNoticed`, `ConnectionsAreTaken`, `StopIsSeen` |
| `client` | all three programs, 2 starts of a server, 2 signals | 93,182 | `ThreadEndsWithClient`, `RestartComesBack`, `LossIsNoticed` |
| `wire` | packages of at most 16 bytes, 2 texts, 2 answers, 2 packages, room for 17 bytes, handlers that throw | 518,780 | `NothingInvented`, `PatientUserIsServed`, `ReplyEnds` |
| `epoll_reply` | 1 connection, 2 packages, 2 pool threads | violation | `RequestsAreHandled` fails |
| `epoll_destroyed` | 1 connection, 1 package, 1 pool thread, stop | violation | `NothingRunsOnDestroyedWorker` fails |
| `sessions_reuse` | as `sessions`, without `RELEASE` | violation | `RequestsUnderOwnLogin` fails |

### Why the bounds are enough

- `thread_pool`: with two producers two signals can be pending; with three
  workers one can sleep while another takes the task a signal was for; four
  tasks leave one over if every worker should be lost with the task it runs.
- `epoll_requests`: a connection needs a package in the pool and one arriving
  for an active thread to exist; the second connection can take the fd of the
  first, which the order of `accept` allows with any number. Two pool threads
  allow two tasks at once. Each kind of fault has an outcome of its own in the
  code.
- `epoll_stop`: one package per connection suffices for a task in the pool and
  an end of file on top of it (the close by `stop` is one), hence for an active
  thread during the destruction. Here `epoll_wait` and `epoll_ctl` fail too: a loop
  that ends by itself and a connection in no epoll must not disturb the destructor.
- `epoll_liveness` gives each connection a number of its own. With shared numbers
  `close_fd` can take a new connection out of epoll (hazard at
  `EpollWorker.cpp:382`), which would hide the other ways of getting stuck. One pool thread is the
  smallest pool, which one stuck task would stop. Handlers may throw; a package that does
  not parse ends its task by the same step (`TaskFails`). Clients wait for replies, as
  a second package would else be dropped in one read with the first.
- `sessions`: check and call are two steps, so that two connections show every
  race of a pair of requests; both registrations can be Oscar's, which is what
  the checks of `special_id` depend on. One worker shares its `special_id`
  between both connections; two workers share nothing but the tables.
- `statistics`: the four times lie at and around both limits, and one is not
  `hh:mm:ss`; two problems in one unit and one problem in two units occur.
- `server`: one failure makes a server fail and be replaced by another; two
  signals fall at any two points, the second also after a notify that was lost.
  Descriptors run out and come back without a bound.
- `client`: with two starts a client meets a server that dies in each of its
  places, a flag left by the first server, one used up, and a second server to
  come back to; two signals can fall on both threads.
- `wire`: 16 bytes are the smallest buffer that holds every command with short
  fields and a reply with text. The texts are chosen to go wrong: they contain
  START (4, which can also be the length of a payload, as 42 can in the code) and
  SEP, they make a rest that looks like a package, and they are one byte too
  long, as is one answer. Two packages can be joined, or the second come before
  the first is done; 17 bytes of room hold one reply and a part of the next.

`CHECK_DEADLOCK FALSE` is in every configuration: the pool, a destroyed worker, a
server or client that has returned, a connection that is stuck and a database at
its bounds really stop.

### Fairness

- `ThreadPool`: weak fairness of each worker, of a pending signal and of the
  destructor. Nobody has to enqueue or destroy. Mutexes are released within an
  action, so no strong fairness is needed.
- `EpollWorker`: weak fairness of `AddFdInfo`, the loop thread, each pool thread, each
  active thread and the destructor: the kernel schedules threads. Clients and
  the operator do as they like. The loop thread's steps are one action for fairness, as it
  handles a batch in the order `epoll_wait` gives.
- `ServerMain`: weak fairness of every thread and of the notify of a started
  handler, strong fairness of taking `mtx`: a mutex that is free again and again
  is got in the end. Nobody has to connect, send a signal or fail, and descriptors need not
  come back: `ConnectionsAreTaken` says what holds if they do for good
  (`<>[]~exhausted`); `StopReturns` holds while `accept` fails again and again.
- `Client`: weak fairness of both threads, and of the user, who goes on typing, if only
  to leave. The server may stay away, and nobody has to send a signal.
- `Wire`: weak fairness of the client's thread and of the server's threads on the
  connection. Nobody has to type, to leave or to send a signal, and no handler has to throw.
- `Sessions` and `Statistics` check safety only and have none.

### What the violations mean

1. `epoll_reply`: an active thread that has read a package calls
   `active_enqueue_event` with `fd_mutex` held, and line 125 locks it again. The
   package is never handled and the connection never served again.
   A client that sends its second request right after the reply to the first can meet it,
   because the reply is written before the flag is cleared.
2. `epoll_destroyed`: `~EpollWorker` waits for active threads, not for its tasks
   in the shared pool.
3. `sessions_reuse`: no build defines `RELEASE`, so the session of a closed
   connection passes to the next one with its fd number.

Six more things the models show and no run demands, as no useful promise is
left; the hazards name the lines:

- An active thread that meets an end of file returns without clearing
  `thread_running` (`EpollWorker.cpp:191`), so that a destructor that waits for it
  waits for ever. `DestroyedAfterThreads` says that it does not end too early.
- The signal handler notifies without `mtx` (`Weak_ayas_server.cpp:32`); between the
  predicate and the wait the notify is lost. `StopIsSeen` leaves out just this,
  and shows that a signal is missed in no other way.
- After a reset `server_on` stays set (`TCPClient.cpp:172`): the console goes on over
  a dead connection, and the second command at the latest raises SIGPIPE.
  `LossIsNoticed` is about a server that closes in order.
- If MySQL is lost, the handler throws out of the catch block of the driver
  (`sql_driver.cpp:129`), and its connection is locked out although the user waited.
  `PatientUserIsServed` says that nothing else does this to him, and that no reply made
  before is lost; `epoll_liveness`, that no other connection suffers.
- When descriptors run out, `accept` fails (`TCPServer.cpp:201`), the connection stays
  pending and the accept thread turns without a pause. Connections that are locked out
  keep their descriptors, so that they may be what exhausts them.
- A user who does not wait has his connection locked out (`EpollWorker.cpp:125`, or
  `102` if TCP cuts a package), and the server tells nobody.
  `PatientUserIsServed` is about the user the console's pause makes.

The passing runs say what holds in spite of them: `OneTaskPerConnection` and
`OneReader` hold although the loop reads a flag without its mutex; a connection
in the state of (1), or whose task has failed, stops neither the loop, nor the pool, nor other connections;
with `RELEASE`, sessions belong to their connections; failures of the accept
loop, unlike signals, are never lost.

## 4. Proofs

All proofs are for any values of the constants that satisfy the named
assumptions, which TLC evaluates in the runs. Every safety invariant and action
property that a passing run checks is a theorem. Each component has an inductive
invariant (`Inductive` in its own module, or in the module of the proofs), and lemmas
prove that `Init` implies it and that each action preserves it.

| Module | Theorems | Inductive invariant |
|---|---|---|
| `ThreadPoolProofs` | `TypeCorrect`, `TasksRunExactlyOnce`, `WakeupsAreNotLost`, `PoolDrainsBeforeItEnds`, `PoolRefinesTaskPool` | a worker has a task exactly until it returns or its exception is caught; once `stop` is set no signal is pending; a worker exits only with `stop` and an empty queue, which stays empty |
| `EpollWorkerProofs` | `TypeCorrect`, `ConnectionHasOneTask`, `TaskMeetsConnection`, `ActiveThreadsFindWork`, `ConnectionHasOneReader`; `RequestsHandledInOrder`, `DestructorOutlastsThreads`; `NothingIsBlocked`, `PoolIsTaskPool` | see below; for `RequestsHandledInOrder` with `NumbersGrow` (handled < in the pool < still to be read), for `DestructorOutlastsThreads` with `StopAccounts` (what the destructor still has to visit), for `NothingIsBlocked` with `BlockingInductive` |
| `StatisticsProofs` | `RatesAlwaysAddUp`, `LastIsAlwaysLatest`, `UnitsAlwaysAgree` | `SubmissionsInv`: ids are keys of `submissions`, the n-th submission inserted got the number n, minutes are a number or -1 |
| `SessionsProofs` | `TypeCorrect`, `TablesHaveNoOrphans`, `SessionsKeepTheirUser`, `CallsForOscar`, `OwnLogin`, `SubmissionsKept` | see below |
| `ServerMainProofs` | `TypeCorrect`, `ServersLeaveNothing`, `NothingIsMissed` | an accept thread exists from `start()` to the end of `stop()`; accepted connections are in `client_sockets`; `WakeupInductive` for the last |
| `ClientProofs` | `TypeCorrect`, `ThreadEnds`, `NothingIsMissed` | `ThreadEndsWithClient` with `SpawnConnected`: a thread is spawned on a connection, and only one; `WakeupInductive` for the last |
| `WireProofs` | `RoundTrip`, `DecodersAgree`, `FieldsComeBack`, `FalseStart`, `ParsedIsPackage`, `FoundIsPackage` | none: they are about the operators of `Framing` |
| `WireProofs` | `TypeCorrect`, `NothingIsInvented`, `PatientUserGetsReplies` | `StreamsInv`, and `PatientInv` for the last; see below |

*ThreadPool implements TaskPool.* `PoolRefinesTaskPool` proves the safety part: the initial
states map to initial states, `Enqueue` and `Take` map to `Submit` and `Start`, `Run` and
`Catch` to `Finish`, every other action leaves `queue` and `exec` alone.
`Lemmas` has the facts about `Append`, `Head` and `Tail` it needs.

*EpollWorker.* `OneTaskPerConnection` is not inductive by itself, as it does not say
why a second task cannot start. The strengthening: `EntriesMatchSockets` (an
entry of `fd_infos`, the socket and the number given to a connection agree, and
while the server is up an entry goes with its socket), `LoopHolds` (from its
test of the flags to the end of `handle_event` the loop thread has the
connection to itself), `ActiveHolds` (so has an active thread from its spawning to the
erase), `WorkersHold`, and `BatchIsFresh` (what `epoll_wait` reported and the loop
has not treated is still there to be read, if a request of the connection is in
the pool). The argument in words: the loop thread is the only one
that sets `fd_inthreadpool` and does so only when it has seen it clear and no
active thread running; only the task clears it, at its end; and only the loop thread spawns.
So the reads of the flag without its mutex are harmless. `ActiveFindsWork`
needs `BatchIsFresh`, and makes the sleeping path of the active thread dead code.

*Waiting.* Liveness cannot be proved here, but the part of it that is safety can: in every
state, who waits waits for something that is still to come, and misses nothing. Three
theorems say so, for any number of threads.
`NothingIsBlocked` (`EpollWorker`): the loop thread and the tasks find `fd_mutex` free when
they come to lock it, although an active thread may keep one for ever (violation 1),
since `fd_inthreadpool` and `thread_running` keep them off its connection; `fd_map` is kept
between two steps only inside `close_fd`; and if no task fails, an active thread
waits on `fd_cond` only while a task that will notify it is in the pool. `MutexHeld` and
`FdMapHeld` say where in the code the holders are, `FlagHasTask` that a set flag
means a task. It ends with the wait of `~EpollWorker` on the same condition, which can take the notify
(hazard at `EpollWorker.cpp:191`).
`NothingIsMissed` (`ServerMain`): a server loop between the test of its predicate and the end of
`cv.wait` has a server that runs and whose accept thread has not failed, so the
notify of a failure is not lost; `main` of `final_main` has its notify before it; and `stop()`
joins a thread that the eventfd wakes. `Held` is mutual exclusion on `mtx`.
`NothingIsMissed` (`Client`): the same of `ClientTCP::stop`, and a thread that is over
has cleared `server_on`, which the console tests, unless the connection was reset or the
client told to stop. TLC found no violation of the three, nor of their inductive invariants, on the instances of
the runs `epoll_requests`, `epoll_stop`, `epoll_liveness`, `server` and `client`; no run lists
them, because what the runs list is the liveness that rests on them.

*EpollWorker over the pool.* `PoolIsTaskPool`: all the worker does to `queue` and `exec` are steps of `TaskPool`.
With `PoolRefinesTaskPool` this is what the composition by interface of section 2 rests on.

*Sessions.* `Inductive` adds to the properties: the keys of the tables and that
AUTO_INCREMENT never gives an id twice (`TrackerInv`), that open connections do
not share numbers (`OneOwner`), that ids in sessions and in logins under way have
been given out and belong to nobody or to the name that was logged in (`IdsAreOld`), that
`special_id` is an id of Oscar's, -1 or the initial garbage (`OscarsKnown`), that the session a
request was admitted with stays until it is served (`CallHoldsEntry`), and with
`RELEASE` that every entry belongs to an open connection that made it
(`EntriesAreOwned`). `SubmissionsKept` is the action property proved from it.

*Framing.* `PackageBytes` says byte for byte what a package followed by anything is;
`StartFound`, `LengthBytes` and `Numbers` what the scan and the length are. From these,
`RoundTrip`: with any payload that fits and any bytes after the package,
`parse_sockpackage` finds it and no other. `DecodersAgree`: the scanners of server
and client, written apart, find the same in every string of bytes. `FalseStart` is the
other half of resynchronisation: a read that begins inside a package finds none
at a START in the rest of it, because the length such a package would claim has
a text byte where the first byte of a length would have to be 0. Text without NUL
is what `getline` and the handlers make; that the next package begins with START
discharges the assumption on what follows. `FieldsComeBack`: the fields of a command come out
of `getdata` as they went in, unless one has a SEP in it.

*Streams.* A `Stream` is a string of bytes that consists of packages, with the
position of each; a `Window` is what one read takes of it, from anywhere to
anywhere. `ParsedIsPackage` and `FoundIsPackage`: what the server or the client finds in a
window is one package of the stream, all of it in the window. Any START before it that is
not the beginning of a package is refused by `FalseStart`'s argument, which `OnlyPackages`
makes for a window with any number of packages in it.

*Wire.* `NothingInvented` compares what has been sent with what has been handled, and says
nothing of the bytes between, so it is not inductive. `StreamsInv` adds: there is a
stream of exactly the packages sent (the replies made) whose end is what is still
on its way, `up` for the requests, `down` and then the unwritten `rest` for the
replies; and there is an increasing map from the packages found so far to those
of the stream, all of which lie before that end (`Received`). A command or an answer makes the stream
longer by a package (`ReceivedMore`); a read moves the end forward and, by the two
theorems, finds nothing or a package behind all those found before (`ReceivedOne`);
`SendData`'s writes move bytes from `rest` to `down` and change nothing else. The stream, the
positions and the map are existentially quantified, so that TLC cannot
evaluate `StreamsInv` as it stands. The instance with the packages in `sent` or
`answers`, one after the other, as the stream (there is no other with the same
packages) holds in all states of the run `wire`, as does `PatientInv`.

*The patient user.* `PatientUserIsServed` is about quiet moments only. `Patient` says what the
others look like: at most one package is on its way in all; it is a whole request
before a server that waits, or a whole reply, in the socket or still to be written, and everything
before it has been handled or shown. If a handler has thrown, nothing is on its way back and all
replies have been shown: the user types on, into a connection nobody reads (`Waited`).
Replies that do not fit a package are sent to nobody (`SQLManager.cpp:42`) and are no
answers here. `WholePackage` then says what a read makes of it. The theorem
assumes `Capacity >= MaxBuffer`: a socket holds a package. Without it a reply
would be written in parts, and the client would lose it. In the code a package
has at most 2048 bytes and a send buffer of Linux at least 4096 (`tcp_wmem`, 16
KB by default); the run has 17 and 16.

*Statistics.* The total of a field over the rows of the details is `MapThenSumSet`, a fold over a set.
`SumOfParts`: if each row counts a part of a set, and the parts are disjoint, the total is the
cardinality of their union. `UnitsAlwaysAgree` and `RatesAlwaysAddUp` are then facts about sets of
submissions: a unit's submissions are the disjoint union of those of its problems, and
solved within 30 minutes and over 30 minutes are complements. `LastIsAlwaysLatest`
needs that AUTO_INCREMENT gives greater ids to later rows, so that the row with the greatest id, which
the query takes, is the one that is last in `history`.

*Without induction.* The induction theorems of the library take an operator as
a parameter, which no prover here can instantiate. The proofs take the smallest
counterexample instead: `LeastNat` (a set of numbers has a least element) and
`FS_StrictSubsetOrderingWellFounded` (so has a set of finite sets, by inclusion). Thus `FlatExists` and
`PayloadIsLaid` show that the recursive function behind `FlattenSeq` exists and what it
computes, and `SumOfParts` the same of the sum over a set.

### What is assumed

- `EpollWorkerAssumption`: `None` and `"active"` are not among the names of connections, fds
  and threads: model values that only have to differ.
- `FramingAssumption` holds of `'*'`, `'\r'`, `'#'` and 2048: all but the last byte of
  a length differ from START, the separator is not NUL.
- `WireAssumption`: no text has a NUL in it. `getline` would return one that the user types
  (Ctrl-@ at a terminal), and nothing in the client refuses it; then a text
  after a cut can look like a package, and `NothingInvented` is lost. The other kinds of
  fields are validated character by character; replies have a NUL only if a text of the tables has.
- `StartIsNoType`: START (42) is not the type of a command; the greatest is 12.
- The sockets between client and server hold all requests that are still to be read: the client
  does not look whether `send` took the whole package (`TCPClient.cpp:125`).
- `Capacity >= MaxBuffer`, in `PatientUserGetsReplies` only.

### Only model-checked

Liveness (all of `epoll_liveness`, `StopReturns`, `FailureIsNoticed`,
`ConnectionsAreTaken`, `StopIsSeen`, `DestructorReturns`, `RestartComesBack`,
`LossIsNoticed`, `ReplyEnds`, and the fairness that `ImplementsTaskPool` demands): TLAPS
does not reason about ENABLED and fairness here. No safety property is left to TLC alone.

## 5. Not modelled, and why

- Concurrent access to `std::unordered_map` (`userFdToId`, and `fd_infos` in the
  destructor) is undefined behaviour; the model takes accesses to different keys
  as independent.
- That `workers.clear()` comes to its end: `ServerMain` takes `~EpollWorker` as one step, so that
  `StopReturns`, `FailureIsNoticed` and `StopIsSeen` are about everything up to it. It may
  never end: an active thread that is gone, that has locked itself out, or that waits for a
  task that has failed keeps `thread_running` set or `fd_mutex` locked, and the destructor
  waits for it (above).
- Descriptors other than the clients' sockets. `stop()` closes every number `accept` ever
  returned, also those the workers have closed (`TCPServer.cpp:119-122`): nobody accepts any
  more, so that such a number is no client's now, but it may be a descriptor of MySQL or of
  the other worker. `StopClose` has what happens to the clients.
- Errors of `epoll_wait` in the client other than EINTR (`TCPClient.cpp:142-148`): they are those
  of a bad `epoll_fd`, and it is open as long as the thread runs (`ThreadEndsWithClient`).
- Letter case: names and titles are compared exactly, while the default collation of MySQL
  takes `Oscar` and `oscar` for the same name.
- Requests with missing or malformed fields change nothing, and are in no module
  but `Wire`, which does not look into the handlers.
- Descriptor numbers of one process that close and open at both ends:
  `ClientTCP` closes the number of a refused socket twice (`TCPClient.cpp:35`), which
  in `final_main` may meet a connection of the server. `EpollWorker` has the
  numbers of the server, `Client` has none.
- `Wire` follows one connection: that a `SendData` which waits for its client
  keeps a thread of the pool from the others is seen only as that thread's wait.
- Layout of tables, dates, difficulty of problems, percentages.
- `final_main.cpp` with `MULTI_CONNECT`, which CMake turns off; the keyboard
  listener, which no program starts; the `D` branch of `Weak_ayas_server.cpp`.
- Older copies and manual drivers, which no program contains.

## 6. Plan

Done, in this order: `TaskPool` and `ThreadPool`; `EpollWorker`; `Tracker`, `Statistics`
and `Sessions`; `ServerMain`; `Client`; `Framing` and `Wire`; the proofs of each.

Next:

1. An abstract specification of a connection, an ordered channel that may
   lose, which `Wire` implements: `StreamsInv` already has the map from what is
   found to what was sent.
2. `EpollWorker` with the send buffer, so that a client that does not read holds
   a thread of the pool (hazard at `SQLManager.cpp:52`) while others are served.
3. `final_main.cpp` with `MULTI_CONNECT`, if that is built again.

The modules use no RECURSIVE operator, so that all of them can be proved about.
