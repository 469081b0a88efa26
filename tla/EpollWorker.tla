----------------------------- MODULE EpollWorker -----------------------------
(***************************************************************************)
(* EpollWorker.cpp: one worker of the server, its epoll loop thread, the   *)
(* requests it puts in the thread pool, the active threads it spawns, the  *)
(* accept thread that hands it connections, TCPServer::stop closing them   *)
(* and ~EpollWorker.                                                       *)
(*                                                                         *)
(* A connection stands for its fd_info object and for its client; an fd is *)
(* a number the kernel gives again once it is closed.  Critical sections   *)
(* of fd_map are single actions, except close_fd, which holds fd_map       *)
(* between close() and epoll_ctl(DEL).  fd_mutex and fd_cond are explicit. *)
(* The flags of an fd_info are read and written in different critical      *)
(* sections (fd_map here, fd_mutex there): each access is atomic and they  *)
(* interleave freely, which is what the racing plain bool does when built. *)
(*                                                                         *)
(* A package is reduced to its number and to whether it parses.  A read    *)
(* takes everything received so far (one buffer is enough) and only the    *)
(* first package in it is parsed.                                          *)
(*                                                                         *)
(* Operators named Bad... are the mistakes the properties would catch;     *)
(* nothing uses them.                                                      *)
(***************************************************************************)
EXTENDS Naturals, Sequences, FiniteSets

CONSTANTS
    Conns,          \* connections, each accepted at most once
    Fds,            \* fd numbers
    FdChoices,      \* FdChoices[c]: the numbers accept may return for c
    PoolWorkers,    \* the threads of the pool
    MaxSend,        \* bound: packages sent on one connection
    Faults,         \* what may go wrong: packages that do not parse, handlers
                    \* that throw, failing epoll_wait and epoll_ctl(ADD)
    PingPong,       \* clients wait for the reply before the next package
    MayStop,        \* the server may be stopped
    None

ASSUME EpollWorkerAssumption ==
    /\ None \notin Conns \union Fds \union PoolWorkers \union {"active"}
    /\ FdChoices \in [Conns -> SUBSET Fds]
    /\ PoolWorkers \intersect {"active", "dtor"} = {}
    /\ MaxSend \in Nat
    /\ Faults \subseteq {"badpackage", "throw", "wait", "add"}
    /\ PingPong \in BOOLEAN
    /\ MayStop \in BOOLEAN

\* A package: the number-th its client sent.
Packages == [number : 1..MaxSend, ok : BOOLEAN]

\* EventWrapper and Event: the fd and the data read.  from, the connection it
\* was read from, is not in the code; the properties compare with it.
Tasks == [fd : Fds, from : Conns, pkg : Packages]

ASSUME NoneIsNoTask == None \notin Tasks

VARIABLES
    \* the kernel and the clients
    sock,           \* the connection each fd number denotes
    epset,          \* fds registered in epoll_fd
    inbox,          \* packages received and not read
    hup,            \* the client has closed or reset the connection
    sent,           \* packages sent
    fresh,          \* connections not yet accepted
    fdof,           \* the fd number a connection was given
    \* EpollWorker
    running, stop_all,
    fd_infos,       \* the fd_info (named by its connection) each fd maps to
    fd_map,         \* the fd for which close_fd holds the mutex, or None
    \* fd_info
    fd_inthreadpool, needactive, thread_running,
    fd_mutex,       \* its holder: a pool worker, "active", or None
    fd_cond,        \* who waits on it: "active", "dtor"
    \* threads
    adding,         \* the fd the accept thread is in add_fd with
    lpc, draining, batch,
    cur, info, event,   \* the loop thread, with fd, info_ptr and e
    queue, exec,    \* the pool, see TaskPool
    wpc, winfo,     \* pool workers: where in a task, and its info_ptr
    apc,            \* the active thread of each connection
    dpc, dleft, dcur,                   \* TCPServer::stop and ~EpollWorker
    last            \* the last package handled on each connection

kernel == <<sock, epset, inbox, hup>>
client == <<sent, fresh, fdof, adding>>
infos == <<fd_inthreadpool, needactive, thread_running>>
looper == <<lpc, draining, batch, cur, info, event>>
pool == <<queue, exec>>
worker == <<wpc, winfo, last>>
dtor == <<dpc, dleft, dcur, running, stop_all>>
table == <<fd_infos, fd_map>>
sync == <<fd_mutex, fd_cond>>
vars == <<kernel, client, infos, looper, pool, worker, dtor, table, sync, apc>>

Pool == INSTANCE TaskPool WITH Workers <- PoolWorkers

Init ==
    /\ sock = [f \in Fds |-> None]
    /\ epset = {}
    /\ inbox = [c \in Conns |-> <<>>]
    /\ hup = [c \in Conns |-> FALSE]
    /\ sent = [c \in Conns |-> 0]
    /\ fresh = Conns
    /\ fdof = [c \in Conns |-> None]
    /\ running = TRUE
    /\ stop_all = FALSE
    /\ fd_infos = [f \in Fds |-> None]
    /\ fd_map = None
    /\ fd_inthreadpool = [c \in Conns |-> FALSE]
    /\ needactive = [c \in Conns |-> FALSE]
    /\ thread_running = [c \in Conns |-> FALSE]
    /\ fd_mutex = [c \in Conns |-> None]
    /\ fd_cond = [c \in Conns |-> {}]
    /\ adding = None
    /\ lpc = "poll"
    /\ draining = FALSE
    /\ batch = {}
    /\ cur = None
    /\ info = None
    /\ event = None
    /\ Pool!Init
    /\ wpc = [w \in PoolWorkers |-> "idle"]
    /\ winfo = [w \in PoolWorkers |-> None]
    /\ apc = [c \in Conns |-> "none"]
    /\ dpc = "up"
    /\ dleft = {}
    /\ dcur = None
    /\ last = [c \in Conns |-> 0]

-----------------------------------------------------------------------------
(* The kernel. *)

BadReadableAlways(f) == f \in epset /\ sock[f] # None

\* epoll is level-triggered and registered for EPOLLIN only.
Readable(f) ==
    /\ f \in epset
    /\ sock[f] # None
    /\ inbox[sock[f]] # <<>> \/ hup[sock[f]]

Ready == {f \in Fds : Readable(f)}

\* read(fd): data, or end of file or an error, or nothing yet.
ReadResult(f) ==
    IF sock[f] = None THEN "error"
    ELSE IF inbox[sock[f]] # <<>> THEN "data"
    ELSE IF hup[sock[f]] THEN "error"
    ELSE "again"

TaskRead(f) == [fd |-> f, from |-> sock[f], pkg |-> Head(inbox[sock[f]])]

\* notify_one: one waiting thread goes on to take the mutex again.
NotifyOne(c) ==
    IF fd_cond[c] = {}
    THEN UNCHANGED <<fd_cond, apc, dpc>>
    ELSE \E t \in fd_cond[c] :
            /\ fd_cond' = [fd_cond EXCEPT ![c] = @ \ {t}]
            /\ apc' = IF t = "active" THEN [apc EXCEPT ![c] = "lock"] ELSE apc
            /\ dpc' = IF t = "dtor" THEN "check" ELSE dpc

-----------------------------------------------------------------------------
(* Clients. *)

Connected(c) == fdof[c] # None /\ sock[fdof[c]] = c

Send(c, ok) ==
    /\ Connected(c)
    /\ ~hup[c]
    /\ sent[c] < MaxSend
    /\ PingPong => last[c] = sent[c]
    /\ ok \/ "badpackage" \in Faults
    /\ sent' = [sent EXCEPT ![c] = @ + 1]
    /\ inbox' = [inbox EXCEPT
                   ![c] = Append(@, [number |-> sent[c] + 1, ok |-> ok])]
    /\ UNCHANGED <<sock, epset, hup, fresh, fdof, adding, infos, looper, pool,
                   worker, dtor, table, sync, apc>>

\* An orderly close lets the server read what was sent; a reset does not.
Hangup(c, reset) ==
    /\ Connected(c)
    /\ ~hup[c]
    /\ hup' = [hup EXCEPT ![c] = TRUE]
    /\ inbox' = IF reset THEN [inbox EXCEPT ![c] = <<>>] ELSE inbox
    /\ UNCHANGED <<sock, epset, client, infos, looper, pool, worker, dtor,
                   table, sync, apc>>

-----------------------------------------------------------------------------
(* The accept thread: accept_loop calls add_fd, which registers the fd and *)
(* only then enters it in fd_infos.  If it cannot register the fd it leaves *)
(* the connection open and forgets it.                                     *)

AddFdRegister(c, f) ==
    /\ dpc = "up"
    /\ adding = None
    /\ c \in fresh
    /\ f \in FdChoices[c]
    /\ sock[f] = None
    /\ fresh' = fresh \ {c}
    /\ fdof' = [fdof EXCEPT ![c] = f]
    /\ sock' = [sock EXCEPT ![f] = c]
    /\ \/ epset' = epset \union {f} /\ adding' = f
       \/ "add" \in Faults /\ UNCHANGED <<epset, adding>>
    /\ UNCHANGED <<inbox, hup, sent, infos, looper, pool, worker, dtor, table,
                   sync, apc>>

AddFdInfo ==
    /\ adding # None
    /\ fd_map = None
    /\ fd_infos' = [fd_infos EXCEPT ![adding] = sock[adding]]
    /\ adding' = None
    /\ UNCHANGED <<kernel, sent, fresh, fdof, infos, looper, pool, worker, dtor,
                   fd_map, sync, apc>>

-----------------------------------------------------------------------------
(* The loop thread.  loop and drain_epoll treat an event alike; they differ  *)
(* in when they stop.  lpc: "poll" in either loop, with batch the events of  *)
(* the last epoll_wait still to treat; "handle", "mark", "enqueue", "close", *)
(* "del" in handle_event; "exited".                                          *)

\* A loop that is already in epoll_wait when it is told to stop may treat one
\* more batch: drain_epoll would treat it alike.
EpollWait ==
    /\ lpc = "poll"
    /\ batch = {}
    /\ (running /\ ~stop_all) \/ draining
    /\ Ready # {}
    /\ batch' = Ready
    /\ UNCHANGED <<kernel, client, infos, lpc, draining, cur, info, event, pool,
                   worker, dtor, table, sync, apc>>

\* Told to stop, or epoll_wait fails, but for EINTR, which only repeats the call.
LoopEnds ==
    /\ lpc = "poll"
    /\ batch = {}
    /\ ~running \/ stop_all \/ "wait" \in Faults
    /\ ~draining
    /\ draining' = TRUE
    /\ UNCHANGED <<kernel, client, infos, lpc, batch, cur, info, event, pool,
                   worker, dtor, table, sync, apc>>

DrainEnds ==
    /\ lpc = "poll"
    /\ batch = {}
    /\ draining
    /\ Ready = {} \/ "wait" \in Faults
    /\ lpc' = "exited"
    /\ UNCHANGED <<kernel, client, infos, draining, batch, cur, info, event,
                   pool, worker, dtor, table, sync, apc>>

\* The look-up in fd_infos and the tests that follow are two critical sections of
\* fd_map, taken as one: in between, an entry leaves only by the active thread
\* of its connection, which leaves thread_running set, so that the code then
\* does no more than set needactive of an fd_info nobody reads again.
Dispatch(f) ==
    /\ lpc = "poll"
    /\ f \in batch
    /\ fd_map = None
    /\ batch' = batch \ {f}
    /\ UNCHANGED <<kernel, client, draining, info, event, pool, worker, dtor,
                   table, sync>>

DispatchUnknown(f) ==
    /\ Dispatch(f)
    /\ fd_infos[f] = None
    /\ UNCHANGED <<infos, lpc, cur, apc>>

DispatchToActive(f) ==
    /\ Dispatch(f)
    /\ fd_infos[f] # None
    /\ thread_running[fd_infos[f]]
    /\ needactive' = [needactive EXCEPT ![fd_infos[f]] = TRUE]
    /\ UNCHANGED <<fd_inthreadpool, thread_running, lpc, cur, apc>>

DispatchSpawn(f) ==
    /\ Dispatch(f)
    /\ fd_infos[f] # None
    /\ ~thread_running[fd_infos[f]]
    /\ fd_inthreadpool[fd_infos[f]]
    /\ needactive' = [needactive EXCEPT ![fd_infos[f]] = TRUE]
    /\ thread_running' = [thread_running EXCEPT ![fd_infos[f]] = TRUE]
    /\ apc' = [apc EXCEPT ![fd_infos[f]] = "start"]
    /\ UNCHANGED <<fd_inthreadpool, lpc, cur>>

HandOver(f) ==
    /\ Dispatch(f)
    /\ fd_infos[f] # None
    /\ lpc' = "handle"
    /\ cur' = f
    /\ UNCHANGED <<infos, apc>>

BadDispatchIgnoringFlag(f) == HandOver(f) /\ ~thread_running[fd_infos[f]]
BadDispatchIgnoringThread(f) == HandOver(f) /\ ~fd_inthreadpool[fd_infos[f]]

DispatchHandle(f) ==
    /\ HandOver(f)
    /\ ~thread_running[fd_infos[f]]
    /\ ~fd_inthreadpool[fd_infos[f]]

\* Back to the for loop; the local variables are gone.
HandleReturns ==
    /\ lpc' = "poll"
    /\ cur' = None
    /\ info' = None

\* handle_event: look the fd up and read.  EINTR, which only repeats the call,
\* is left out.
HandleRead ==
    /\ lpc = "handle"
    /\ fd_map = None
    /\ IF fd_infos[cur] = None \/ ReadResult(cur) = "again"
       THEN HandleReturns /\ UNCHANGED <<event, inbox>>
       ELSE /\ info' = fd_infos[cur]
            /\ UNCHANGED cur
            /\ IF ReadResult(cur) = "data"
               THEN /\ event' = TaskRead(cur)
                    /\ inbox' = [inbox EXCEPT ![sock[cur]] = <<>>]
                    /\ lpc' = "mark"
               ELSE lpc' = "close" /\ UNCHANGED <<event, inbox>>
    /\ UNCHANGED <<sock, epset, hup, client, infos, draining, batch, pool,
                   worker, dtor, table, sync, apc>>

HandleMark ==
    /\ lpc = "mark"
    /\ fd_mutex[info] = None
    /\ fd_inthreadpool' = [fd_inthreadpool EXCEPT ![info] = TRUE]
    /\ lpc' = "enqueue"
    /\ UNCHANGED <<kernel, client, needactive, thread_running, draining, batch,
                   cur, info, event, pool, worker, dtor, table, sync, apc>>

BadEnqueueNothing ==
    /\ lpc = "enqueue"
    /\ Pool!Submit(None)
    /\ event' = None
    /\ HandleReturns
    /\ UNCHANGED <<kernel, client, infos, draining, batch, worker, dtor, table,
                   sync, apc>>

HandleEnqueue ==
    /\ lpc = "enqueue"
    /\ Pool!Submit(event)
    /\ event' = None
    /\ HandleReturns
    /\ UNCHANGED <<kernel, client, infos, draining, batch, worker, dtor, table,
                   sync, apc>>

\* close_fd up to close(fd), which also takes the fd out of epoll_fd.
CloseFd(f) ==
    /\ fd_map = None
    /\ fd_map' = f
    /\ fd_infos' = [fd_infos EXCEPT ![f] = None]
    /\ sock' = [sock EXCEPT ![f] = None]
    /\ epset' = epset \ {f}

BadDelFdKeepsLock(f) ==
    /\ UNCHANGED fd_map
    /\ epset' = epset \ {f}

\* The rest of close_fd: EPOLL_CTL_DEL of whatever the number now denotes.
DelFd(f) ==
    /\ fd_map' = None
    /\ epset' = epset \ {f}

HandleClose ==
    /\ lpc = "close"
    /\ CloseFd(cur)
    /\ lpc' = "del"
    /\ UNCHANGED <<inbox, hup, client, infos, draining, batch, cur, info, event,
                   pool, worker, dtor, sync, apc>>

HandleDel ==
    /\ lpc = "del"
    /\ DelFd(cur)
    /\ HandleReturns
    /\ UNCHANGED <<sock, inbox, hup, client, infos, draining, batch, event,
                   pool, worker, dtor, fd_infos, sync, apc>>

-----------------------------------------------------------------------------
(* The pool: enqueue_event_wrapper_nonstatic.  A task of a worker that has   *)
(* been destroyed works on freed memory: what it does is undefined, and the  *)
(* model stops it there.                                                     *)

TaskStart(w) ==
    /\ Pool!Start(w)
    /\ wpc' = [wpc EXCEPT ![w] = "lookup"]
    /\ UNCHANGED <<kernel, client, infos, looper, winfo, last, dtor, table,
                   sync, apc>>

TaskUndefined(w) ==
    /\ dpc = "destroyed"
    /\ wpc[w] \in {"lookup", "lock", "parse", "clear"}
    /\ wpc' = [wpc EXCEPT ![w] = "undefined"]
    /\ UNCHANGED <<kernel, client, infos, looper, pool, winfo, last, dtor,
                   table, sync, apc>>

TaskLookup(w) ==
    /\ dpc # "destroyed"
    /\ wpc[w] = "lookup"
    /\ fd_map = None
    /\ winfo' = [winfo EXCEPT ![w] = fd_infos[exec[w].fd]]
    /\ IF fd_infos[exec[w].fd] = None
       THEN Pool!Finish(w) /\ wpc' = [wpc EXCEPT ![w] = "idle"]
       ELSE wpc' = [wpc EXCEPT ![w] = "lock"] /\ UNCHANGED pool
    /\ UNCHANGED <<kernel, client, infos, looper, last, dtor, table, sync, apc>>

TaskLock(w) ==
    /\ dpc # "destroyed"
    /\ wpc[w] = "lock"
    /\ fd_mutex[winfo[w]] = None
    /\ fd_mutex' = [fd_mutex EXCEPT ![winfo[w]] = w]
    /\ wpc' = [wpc EXCEPT ![w] = "parse"]
    /\ UNCHANGED <<kernel, client, infos, looper, pool, winfo, last, dtor,
                   table, fd_cond, apc>>

\* The task is over and its lock_guard lets go of the mutex.
TaskReturn(w) ==
    /\ Pool!Finish(w)
    /\ fd_mutex' = [fd_mutex EXCEPT ![winfo[w]] = None]
    /\ wpc' = [wpc EXCEPT ![w] = "idle"]
    /\ winfo' = [winfo EXCEPT ![w] = None]

\* parse_sockpackage fails, or handle_request throws: the task ends with the
\* flag still set and nobody notified.
TaskFails(w) ==
    /\ dpc # "destroyed"
    /\ wpc[w] = "parse"
    /\ ~exec[w].pkg.ok \/ "throw" \in Faults
    /\ TaskReturn(w)
    /\ UNCHANGED <<kernel, client, infos, looper, last, dtor, table, fd_cond,
                   apc>>

\* handle_request, which writes the reply too.
TaskHandle(w) ==
    /\ dpc # "destroyed"
    /\ wpc[w] = "parse"
    /\ exec[w].pkg.ok
    /\ last' = [last EXCEPT ![exec[w].from] = exec[w].pkg.number]
    /\ wpc' = [wpc EXCEPT ![w] = "clear"]
    /\ UNCHANGED <<kernel, client, infos, looper, pool, winfo, dtor, table,
                   sync, apc>>

TaskOver(w) ==
    /\ dpc # "destroyed"
    /\ wpc[w] = "clear"
    /\ TaskReturn(w)
    /\ UNCHANGED <<kernel, client, needactive, thread_running, looper, last, dleft,
                   dcur, running, stop_all, table>>

BadTaskClearNoNotify(w) ==
    /\ TaskOver(w)
    /\ fd_inthreadpool' = [fd_inthreadpool EXCEPT ![winfo[w]] = FALSE]
    /\ UNCHANGED <<fd_cond, apc, dpc>>

BadTaskKeepsFlag(w) ==
    /\ TaskOver(w)
    /\ UNCHANGED fd_inthreadpool
    /\ NotifyOne(winfo[w])

TaskClear(w) ==
    /\ TaskOver(w)
    /\ fd_inthreadpool' = [fd_inthreadpool EXCEPT ![winfo[w]] = FALSE]
    /\ NotifyOne(winfo[w])

-----------------------------------------------------------------------------
(* The active thread of a connection.  apc: "start" before its lookup,       *)
(* "need" at the top of its loop, "lock" before taking fd_mutex, "waiting"   *)
(* on fd_cond, "read" in the read loop, "relock" taking fd_mutex again in    *)
(* active_enqueue_event, "close" and "del" in close_fd, "sleep" after a read *)
(* loop that found nothing more, "done".                                     *)
(*                                                                           *)
(* Nothing leaves "relock": the thread waits for a mutex it holds itself.    *)
(* Nothing leaves "sleep" either, but no thread gets there: see              *)
(* ActiveFindsWork.                                                          *)

\* Like TaskUndefined.
ActiveUndefined(c) ==
    /\ dpc = "destroyed"
    /\ apc[c] \in {"start", "need", "lock", "read", "close", "del"}
    /\ apc' = [apc EXCEPT ![c] = "undefined"]
    /\ UNCHANGED <<kernel, client, infos, looper, pool, worker, dtor, table,
                   sync>>

ActiveStart(c) ==
    /\ dpc # "destroyed"
    /\ apc[c] = "start"
    /\ fd_map = None
    /\ apc' = [apc EXCEPT ![c] = IF fd_infos[fdof[c]] = None THEN "done"
                                                             ELSE "need"]
    /\ UNCHANGED <<kernel, client, infos, looper, pool, worker, dtor, table,
                   sync>>

\* Clear needactive, then look the fd up in activefd_handle_event.
ActiveNeed(c) ==
    /\ dpc # "destroyed"
    /\ apc[c] = "need"
    /\ fd_map = None
    /\ needactive' = [needactive EXCEPT ![c] = FALSE]
    /\ apc' = [apc EXCEPT ![c] = IF fd_infos[fdof[c]] = None THEN "close"
                                                             ELSE "lock"]
    /\ UNCHANGED <<kernel, client, fd_inthreadpool, thread_running, looper,
                   pool, worker, dtor, table, sync>>

AtLock(c) ==
    /\ dpc # "destroyed"
    /\ apc[c] = "lock"
    /\ UNCHANGED <<kernel, client, infos, looper, pool, worker, dtor, table>>

BadActiveNoWait(c) ==
    /\ AtLock(c)
    /\ fd_mutex[c] = None
    /\ apc' = [apc EXCEPT ![c] = "read"]
    /\ fd_mutex' = [fd_mutex EXCEPT ![c] = "active"]
    /\ UNCHANGED fd_cond

BadActiveWaitsWithMutex(c) ==
    /\ AtLock(c)
    /\ fd_mutex[c] \in {None, "active"}
    /\ fd_mutex' = [fd_mutex EXCEPT ![c] = "active"]
    /\ apc' = [apc EXCEPT ![c] = IF fd_inthreadpool[c] THEN "lock" ELSE "read"]
    /\ UNCHANGED fd_cond

\* Take the mutex; wait on fd_cond while the flag is set.  A wakeup comes back
\* here.
ActiveLock(c) ==
    /\ AtLock(c)
    /\ fd_mutex[c] = None
    /\ IF fd_inthreadpool[c]
       THEN /\ apc' = [apc EXCEPT ![c] = "waiting"]
            /\ fd_cond' = [fd_cond EXCEPT ![c] = @ \union {"active"}]
            /\ UNCHANGED fd_mutex
       ELSE /\ apc' = [apc EXCEPT ![c] = "read"]
            /\ fd_mutex' = [fd_mutex EXCEPT ![c] = "active"]
            /\ UNCHANGED fd_cond

ActiveSpuriousWakeup(c) ==
    /\ apc[c] = "waiting"
    /\ apc' = [apc EXCEPT ![c] = "lock"]
    /\ fd_cond' = [fd_cond EXCEPT ![c] = @ \ {"active"}]
    /\ UNCHANGED <<kernel, client, infos, looper, pool, worker, dtor, table,
                   fd_mutex>>

\* Data goes to active_enqueue_event with the mutex held; an end of file or an
\* error leaves activefd_handle_event, which lets go of it.
ActiveRead(c) ==
    /\ dpc # "destroyed"
    /\ apc[c] = "read"
    /\ LET result == ReadResult(fdof[c])
       IN  /\ inbox' = IF result = "data"
                       THEN [inbox EXCEPT ![sock[fdof[c]]] = <<>>] ELSE inbox
           /\ fd_mutex' = IF result = "data"
                          THEN fd_mutex ELSE [fd_mutex EXCEPT ![c] = None]
           /\ apc' = [apc EXCEPT ![c] = CASE result = "data"  -> "relock"
                                          [] result = "error" -> "close"
                                          [] result = "again" -> "sleep"]
    /\ UNCHANGED <<sock, epset, hup, client, infos, looper, pool, worker, dtor,
                   table, fd_cond>>

ActiveClose(c) ==
    /\ dpc # "destroyed"
    /\ apc[c] = "close"
    /\ CloseFd(fdof[c])
    /\ apc' = [apc EXCEPT ![c] = "del"]
    /\ UNCHANGED <<inbox, hup, client, infos, looper, pool, worker, dtor, sync>>

\* The thread returns without clearing thread_running and without notifying.
ActiveDel(c) ==
    /\ dpc # "destroyed"
    /\ apc[c] = "del"
    /\ DelFd(fdof[c])
    /\ apc' = [apc EXCEPT ![c] = "done"]
    /\ UNCHANGED <<sock, inbox, hup, client, infos, looper, pool, worker, dtor,
                   fd_infos, sync>>

-----------------------------------------------------------------------------
(* Stopping: TCPServer::stop, then ~EpollWorker. *)

\* The signal handler sets the flag every loop looks at.
SetStopAll ==
    /\ MayStop
    /\ ~stop_all
    /\ stop_all' = TRUE
    /\ UNCHANGED <<kernel, client, infos, looper, pool, worker, dpc, dleft,
                   dcur, running, table, sync, apc>>

\* The accept thread has been joined.
StopAccepting ==
    /\ MayStop
    /\ dpc = "up"
    /\ adding = None
    /\ dpc' = "closing"
    /\ UNCHANGED <<kernel, client, infos, looper, pool, worker, dleft, dcur,
                   running, stop_all, table, sync, apc>>

\* stop() closes each client socket under the worker, whatever it is doing.  It
\* closes every number accept ever returned: for one in use, whoever has it now;
\* for one in use no more, nothing of the worker's, as nobody accepts.
StopClose(f) ==
    /\ dpc = "closing"
    /\ sock[f] # None
    /\ sock' = [sock EXCEPT ![f] = None]
    /\ epset' = epset \ {f}
    /\ UNCHANGED <<inbox, hup, client, infos, looper, pool, worker, dtor, table,
                   sync, apc>>

StopWorker ==
    /\ dpc = "closing"
    /\ \A f \in Fds : sock[f] = None
    /\ running' = FALSE
    /\ dpc' = "join"
    /\ UNCHANGED <<kernel, client, infos, looper, pool, worker, dleft, dcur,
                   stop_all, table, sync, apc>>

DtorJoin ==
    /\ dpc = "join"
    /\ lpc = "exited"
    /\ dpc' = "visit"
    /\ dleft' = {f \in Fds : fd_infos[f] # None}
    /\ UNCHANGED <<kernel, client, infos, looper, pool, worker, dcur, running,
                   stop_all, table, sync, apc>>

\* The next entry of fd_infos, read without fd_map: one that an active thread
\* erases meanwhile is passed over.
DtorVisit(f) ==
    /\ dpc = "visit"
    /\ f \in dleft
    /\ dleft' = dleft \ {f}
    /\ dcur' = fd_infos[f]
    /\ dpc' = IF fd_infos[f] = None THEN "visit" ELSE "check"
    /\ UNCHANGED <<kernel, client, infos, looper, pool, worker, running,
                   stop_all, table, sync, apc>>

BadDtorNoWait ==
    /\ dpc = "check"
    /\ fd_mutex[dcur] = None
    /\ dpc' = "visit"
    /\ UNCHANGED <<kernel, client, infos, looper, pool, worker, dleft, dcur,
                   running, stop_all, table, sync, apc>>

\* Under its mutex: wait on fd_cond until no thread runs for the connection.
DtorCheck ==
    /\ dpc = "check"
    /\ fd_mutex[dcur] = None
    /\ IF thread_running[dcur]
       THEN /\ dpc' = "waiting"
            /\ fd_cond' = [fd_cond EXCEPT ![dcur] = @ \union {"dtor"}]
       ELSE dpc' = "visit" /\ UNCHANGED fd_cond
    /\ UNCHANGED <<kernel, client, infos, looper, pool, worker, dleft, dcur,
                   running, stop_all, table, fd_mutex, apc>>

DtorEnd ==
    /\ dpc = "visit"
    /\ dleft = {}
    /\ dpc' = "destroyed"
    /\ UNCHANGED <<kernel, client, infos, looper, pool, worker, dleft, dcur,
                   running, stop_all, table, sync, apc>>

-----------------------------------------------------------------------------

ClientStep ==
    \E c \in Conns :
       \/ \E ok \in BOOLEAN : Send(c, ok)
       \/ \E reset \in BOOLEAN : Hangup(c, reset)

AcceptStep ==
    \/ \E c \in Conns, f \in Fds : AddFdRegister(c, f)
    \/ AddFdInfo

LoopStep ==
    \/ EpollWait
    \/ LoopEnds
    \/ DrainEnds
    \/ \E f \in Fds : \/ DispatchUnknown(f)
                      \/ DispatchToActive(f)
                      \/ DispatchSpawn(f)
                      \/ DispatchHandle(f)
    \/ HandleRead
    \/ HandleMark
    \/ HandleEnqueue
    \/ HandleClose
    \/ HandleDel

TaskStep(w) ==
    \/ TaskStart(w)
    \/ TaskUndefined(w)
    \/ TaskLookup(w)
    \/ TaskLock(w)
    \/ TaskFails(w)
    \/ TaskHandle(w)
    \/ TaskClear(w)

ActiveStep(c) ==
    \/ ActiveUndefined(c)
    \/ ActiveStart(c)
    \/ ActiveNeed(c)
    \/ ActiveLock(c)
    \/ ActiveRead(c)
    \/ ActiveClose(c)
    \/ ActiveDel(c)

StopStep ==
    \/ SetStopAll
    \/ StopAccepting

DtorStep ==
    \/ \E f \in Fds : StopClose(f) \/ DtorVisit(f)
    \/ StopWorker
    \/ DtorJoin
    \/ DtorCheck
    \/ DtorEnd

Next ==
    \/ ClientStep
    \/ AcceptStep
    \/ LoopStep
    \/ \E w \in PoolWorkers : TaskStep(w)
    \/ \E c \in Conns : ActiveStep(c) \/ ActiveSpuriousWakeup(c)
    \/ StopStep
    \/ DtorStep

SafeSpec == Init /\ [][Next]_vars

\* Every thread that can take a step is scheduled in the end.  Clients, and the
\* operator who stops the server, do as they like.
Fairness ==
    /\ WF_vars(AddFdInfo)
    /\ WF_vars(LoopStep)
    /\ \A w \in PoolWorkers : WF_vars(TaskStep(w))
    /\ \A c \in Conns : WF_vars(ActiveStep(c))
    /\ WF_vars(DtorStep)

Spec == SafeSpec /\ Fairness

-----------------------------------------------------------------------------
(* Properties. *)

LoopPlaces == {"poll", "handle", "mark", "enqueue", "close", "del", "exited"}

TaskPlaces == {"idle", "lookup", "lock", "parse", "clear", "undefined"}

ActivePlaces == {"none", "start", "need", "lock", "waiting", "read", "relock",
                 "close", "del", "sleep", "done", "undefined"}

StopPlaces == {"up", "closing", "join", "visit", "check", "waiting", "destroyed"}

TypeOK ==
    /\ sock \in [Fds -> Conns \union {None}]
    /\ epset \subseteq Fds
    /\ inbox \in [Conns -> Seq(Packages)]
    /\ hup \in [Conns -> BOOLEAN]
    /\ sent \in [Conns -> 0..MaxSend]
    /\ fresh \subseteq Conns
    /\ fdof \in [Conns -> Fds \union {None}]
    /\ running \in BOOLEAN
    /\ stop_all \in BOOLEAN
    /\ fd_infos \in [Fds -> Conns \union {None}]
    /\ fd_map \in Fds \union {None}
    /\ fd_inthreadpool \in [Conns -> BOOLEAN]
    /\ needactive \in [Conns -> BOOLEAN]
    /\ thread_running \in [Conns -> BOOLEAN]
    /\ fd_mutex \in [Conns -> PoolWorkers \union {"active", None}]
    /\ fd_cond \in [Conns -> SUBSET {"active", "dtor"}]
    /\ adding \in Fds \union {None}
    /\ lpc \in LoopPlaces
    /\ draining \in BOOLEAN
    /\ batch \subseteq Fds
    /\ cur \in Fds \union {None}
    /\ info \in Conns \union {None}
    /\ event \in Tasks \union {None}
    /\ Pool!TypeOK
    /\ wpc \in [PoolWorkers -> TaskPlaces]
    /\ winfo \in [PoolWorkers -> Conns \union {None}]
    /\ apc \in [Conns -> ActivePlaces]
    /\ dpc \in StopPlaces
    /\ dleft \subseteq Fds
    /\ dcur \in Conns \union {None}
    /\ last \in [Conns -> 0..MaxSend]

\* The requests of connection c that were read and are not over: in the hands
\* of the loop thread, in the queue of the pool, in the hands of a worker.
HeldByLoop(c) == event # None /\ event.from = c
Queued(c) == {i \in DOMAIN queue : queue[i].from = c}
Executing(c) == {w \in PoolWorkers : exec[w] # None /\ exec[w].from = c}

Outstanding(c) == HeldByLoop(c) \/ Queued(c) # {} \/ Executing(c) # {}

\* A connection has at most one request between its read and the end of its
\* task, whatever the pool threads, the loop and the active threads do: this is
\* what fd_inthreadpool is for, although the loop reads it without fd_mutex.
OneTaskPerConnection ==
    \A c \in Conns :
        /\ \A i, j \in Queued(c) : i = j
        /\ \A v, w \in Executing(c) : v = w
        /\ Queued(c) = {} \/ Executing(c) = {}
        /\ HeldByLoop(c) => Queued(c) = {} /\ Executing(c) = {}

\* While a request is in the pool its flag is set, and its fd still maps to the
\* connection it was read from: the reply cannot go to a later connection that
\* was given the same fd number.
TaskMeetsItsConnection ==
    /\ \A i \in DOMAIN queue :
          /\ fd_inthreadpool[queue[i].from]
          /\ fd_infos[queue[i].fd] = queue[i].from
    /\ \A w \in PoolWorkers : exec[w] # None =>
          /\ fd_inthreadpool[exec[w].from]
          /\ fd_infos[exec[w].fd] = exec[w].from
          /\ winfo[w] \in {None, exec[w].from}

\* The loop thread and the active thread of a connection are never both between
\* their lookup and their read of the same fd, so neither steals the other's
\* bytes; and the active thread reads only when no request of the connection
\* is outstanding.
OneReader ==
    \A c \in Conns :
        /\ apc[c] \in {"start", "need", "lock", "waiting", "read", "relock",
                       "close"} =>
              ~(lpc \in {"handle", "mark", "enqueue", "close"} /\ cur = fdof[c])
        /\ apc[c] = "read" => ~Outstanding(c)

\* An active thread always finds data, an end of file or an error: with a
\* level-triggered epoll, whatever made the loop spawn it is still there.  So
\* the path that sleeps, looks at needactive and clears thread_running
\* is never taken.
ActiveFindsWork ==
    \A c \in Conns :
        /\ apc[c] \in {"start", "need", "lock", "waiting", "read"} =>
              ReadResult(fdof[c]) # "again"
        /\ apc[c] # "sleep"

\* Requests of a connection are handled in the order they were sent.
HandledInOrder ==
    [][\A c \in Conns : last'[c] # last[c] => last'[c] > last[c]]_vars

\* The wait of ~EpollWorker is not in vain: the only active threads that can
\* outlive the worker are those already past the erase in close_fd.
DestroyedAfterThreads ==
    dpc = "destroyed" =>
        /\ lpc = "exited"
        /\ \A c \in Conns : apc[c] \in {"none", "del", "done", "undefined"}

\* A connection that is stuck does not stop the others: until it exits the loop
\* thread always comes back to epoll_wait.
LoopComesBack == []<>(lpc \in {"poll", "exited"} /\ batch = {})

\* Every request that was read for the pool is disposed of, even by a pool of one
\* thread: no task waits for ever for a mutex that a stuck thread holds.
TasksEnd == \A c \in Conns : Outstanding(c) ~> ~Outstanding(c)

\* The active thread of c waits for the mutex it holds.
SelfDeadlocked(c) == apc[c] = "relock"

\* A request of c was read, its task has failed, and its flag stays for ever.
TaskHasFailed(c) ==
    fd_inthreadpool[c] /\ ~Outstanding(c) /\ last[c] < sent[c] - Len(inbox[c])

LockedOut(c) == SelfDeadlocked(c) \/ TaskHasFailed(c)

\* While the server is up, what a client sent is read in the end, unless the
\* connection has locked itself out; that others have does it no harm.
RequestsAreRead ==
    \A c \in Conns : (inbox[c] # <<>>) ~> (inbox[c] = <<>> \/ LockedOut(c))

\* Likewise, a client that leaves is noticed and its fd is closed.
DisconnectsAreCleanedUp ==
    \A c \in Conns : hup[c] ~> (~Connected(c) \/ LockedOut(c))

-----------------------------------------------------------------------------
(* What makes the safety properties inductive. *)

\* fd_infos, the socket table and the numbers given to connections agree; while
\* the server is up an entry goes with its socket.
EntriesMatchSockets ==
    \A f \in Fds :
        /\ sock[f] # None => sock[f] \notin fresh /\ fdof[sock[f]] = f
        /\ fd_infos[f] # None =>
              /\ fd_infos[f] \notin fresh
              /\ fdof[fd_infos[f]] = f
              /\ sock[f] = fd_infos[f] \/ (sock[f] = None /\ dpc # "up")
        /\ adding = f => fd_infos[f] = None /\ sock[f] # None /\ dpc = "up"

\* From its check of the flags to the end of handle_event the loop thread has the
\* connection to itself; the flag goes up in between.
LoopHolds ==
    /\ lpc \in {"handle", "mark", "enqueue", "close"} =>
          /\ cur # None
          /\ fd_infos[cur] # None
          /\ ~thread_running[fd_infos[cur]]
          /\ fd_inthreadpool[fd_infos[cur]] <=> lpc = "enqueue"
    /\ lpc \in {"mark", "enqueue", "close"} => info = fd_infos[cur]
    /\ event # None <=> lpc \in {"mark", "enqueue"}
    /\ event # None => event.fd = cur /\ event.from = info

\* So has the active thread, from its spawning to the erase in close_fd.
ActiveHolds ==
    \A c \in Conns :
        /\ apc[c] # "none" => thread_running[c]
        /\ apc[c] \in {"start", "need", "lock", "waiting", "read", "relock",
                       "close"} => fdof[c] # None /\ fd_infos[fdof[c]] = c
        /\ apc[c] \in {"read", "relock", "close"} => ~fd_inthreadpool[c]
        /\ "active" \in fd_cond[c] => apc[c] = "waiting"
        /\ "dtor" \in fd_cond[c] => dpc = "waiting" /\ dcur = c

\* A pool worker is idle exactly when it has no task, and has found the fd_info
\* of its task once it goes for the mutex.
WorkersHold ==
    \A w \in PoolWorkers :
        /\ wpc[w] = "idle" <=> exec[w] = None
        /\ wpc[w] \in {"lock", "parse", "clear"} => winfo[w] = exec[w].from
        /\ wpc[w] \in {"idle", "lookup"} => winfo[w] = None

\* What epoll_wait reported and the loop has not treated is still there to read,
\* for a connection whose request is in the pool; flags start down.
BatchIsFresh ==
    /\ lpc # "poll" => cur \notin batch
    /\ \A f \in batch :
          fd_infos[f] # None =>
             \/ ~fd_inthreadpool[fd_infos[f]]
             \/ thread_running[fd_infos[f]]
             \/ ReadResult(f) # "again"
    /\ \A c \in fresh : ~fd_inthreadpool[c]
    /\ adding # None => ~fd_inthreadpool[sock[adding]]

Inductive ==
    /\ TypeOK
    /\ EntriesMatchSockets
    /\ LoopHolds
    /\ ActiveHolds
    /\ WorkersHold
    /\ OneTaskPerConnection
    /\ TaskMeetsItsConnection
    /\ BatchIsFresh
    /\ ActiveFindsWork

\* ~EpollWorker will still come to every connection an active thread works on:
\* the loop thread is gone and spawns no more, and no thread leaves its entry.
StopAccounts ==
    dpc \in {"visit", "check", "waiting", "destroyed"} =>
        /\ lpc = "exited"
        /\ dpc = "destroyed" => dleft = {}
        /\ \A c \in Conns :
              apc[c] \notin {"none", "del", "done", "undefined"} =>
                 fdof[c] \in dleft \/ (dpc \in {"check", "waiting"} /\ dcur = c)

\* A package that was read and not yet given to handle_request, or not yet over:
\* newer than those handled, older than those still to be read.
Unhandled(c) ==
    (IF HeldByLoop(c) THEN {event.pkg} ELSE {})
      \union {queue[i].pkg : i \in Queued(c)}
      \union {exec[w].pkg : w \in {v \in Executing(c) :
                                    wpc[v] \in {"lookup", "lock", "parse"}}}

NumbersGrow ==
    \A c \in Conns :
        /\ last[c] <= sent[c]
        /\ \A p \in Unhandled(c) : last[c] < p.number /\ p.number <= sent[c]
        /\ \A i \in DOMAIN inbox[c] :
              /\ last[c] < inbox[c][i].number
              /\ inbox[c][i].number <= sent[c]
              /\ \A p \in Unhandled(c) : p.number < inbox[c][i].number

\* Threads wait for each other only where the other goes on, in one state: what
\* TasksEnd and LoopComesBack rest on.  The loop thread and the tasks find
\* fd_mutex free, though an active thread may keep it for ever; who holds fd_map
\* is about to let go of it; and if no task fails, an active thread waits on
\* fd_cond for a task that is still to come, until ~EpollWorker waits there too.
NothingBlocked ==
    /\ lpc = "mark" => fd_mutex[info] = None
    /\ dpc # "destroyed" =>
          /\ \A w \in PoolWorkers : wpc[w] = "lock" => fd_mutex[winfo[w]] = None
          /\ fd_map # None => lpc = "del" \/ \E c \in Conns : apc[c] = "del"
    /\ Faults = {} /\ dpc \in {"up", "closing", "join"} =>
          \A c \in Conns : apc[c] = "waiting" => Outstanding(c)

\* Who holds fd_mutex, by the places in the code.
MutexHeld ==
    /\ \A c \in Conns : fd_mutex[c] = "active" =>
          apc[c] \in {"read", "relock"} \/ (apc[c] = "undefined" /\ dpc = "destroyed")
    /\ \A c \in Conns, w \in PoolWorkers : fd_mutex[c] = w =>
          winfo[w] = c /\ wpc[w] \in {"parse", "clear", "undefined"}

\* fd_map is kept between two steps only in close_fd, by one thread.
FdMapHeld ==
    /\ lpc = "del" => fd_map = cur /\ cur # None
    /\ \A c \in Conns :
          /\ c \in fresh => apc[c] = "none"
          /\ apc[c] = "del" => fd_map = fdof[c] /\ fdof[c] # None /\ lpc # "del"
    /\ \A b, c \in Conns : apc[b] = "del" /\ apc[c] = "del" => b = c
    /\ fd_map # None /\ dpc # "destroyed" => lpc = "del" \/ \E c \in Conns : apc[c] = "del"

\* If nothing fails, the flag of a connection means a request of it in the pool,
\* and the task will notify the active thread that waits.
AllOk ==
    /\ \A c \in Conns : \A i \in DOMAIN inbox[c] : inbox[c][i].ok
    /\ event # None => event.pkg.ok
    /\ \A i \in DOMAIN queue : queue[i].pkg.ok
    /\ \A w \in PoolWorkers : exec[w] # None => exec[w].pkg.ok

FlagHasTask ==
    \A c \in Conns :
        /\ fd_inthreadpool[c] => Outstanding(c)
        /\ apc[c] = "waiting" => "active" \in fd_cond[c]
        /\ apc[c] = "waiting" /\ dpc \in {"up", "closing", "join"} =>
              fd_inthreadpool[c]

BlockingInductive ==
    /\ MutexHeld
    /\ FdMapHeld
    /\ Faults = {} => AllOk /\ FlagHasTask

-----------------------------------------------------------------------------
(* What comments and messages of the code say and the code does not do. *)

\* EpollWorker.cpp, active_enqueue_event: the package an active thread has read
\* reaches handle_request.  So a client that waits for each reply gets one.
RequestsAreHandled ==
    \A c \in Conns : (sent[c] > last[c]) ~> (sent[c] = last[c] \/ hup[c])

\* TCPServer.cpp, ~TCPServer: destruction is a safe shutdown.  No thread works
\* on the worker once it is destroyed.
NothingRunsOnDestroyedWorker ==
    /\ \A w \in PoolWorkers : wpc[w] # "undefined"
    /\ \A c \in Conns : apc[c] # "undefined"
=============================================================================
