----------------------------- MODULE ServerMain -----------------------------
(***************************************************************************)
(* The life of a TCPServer in its two programs.  The server loop makes a   *)
(* server, starts it, waits for it to fail or for g_stop_flag, destroys it *)
(* and, without the flag, makes the next one: it is main() of              *)
(* Weak_ayas_server.cpp, and Server_loop, a thread of final_main.cpp,      *)
(* whose main() waits for the start and then ends the test.  In both a     *)
(* signal handler sets the flag, on any thread and at any time.            *)
(*                                                                         *)
(* cv.wait is split where it matters: the predicate is tested with mtx     *)
(* held, then mtx is released and the thread waits, in one step.  An       *)
(* EpollWorker takes the connections it is given and is destroyed: what it *)
(* does with them, and whether its destructor ends, is EpollWorker's.  The *)
(* properties here are those of a TCPServer whose workers.clear() returns. *)
(* final_main's own client is in Client, and one of the connections here.  *)
(***************************************************************************)
EXTENDS Naturals, FiniteSets

CONSTANTS
    Programs,       \* subset of {"server", "final_main"}
    Conns,          \* connections of clients
    MaxFailures,    \* bound: times epoll_wait of the accept loop fails
    MaxSignals      \* bound: signals sent

ASSUME ServerAssumption ==
    /\ Programs \subseteq {"server", "final_main"}
    /\ MaxFailures \in Nat
    /\ MaxSignals \in Nat

VARIABLES
    program,            \* never changes
    g_stop_flag, mtx,   \* mtx: who holds it
    server_running,     \* of final_main
    running, eventfd,   \* of the server: eventfd is readable
    client_sockets,
    loop,               \* the server loop: where it is
    accept,             \* the accept thread: where it is
    events,             \* what its epoll_wait returned
    tester,             \* main() of final_main
    handler,            \* the signal handler: whether it has yet to notify
    conn,               \* a connection, seen from the server
    exhausted,          \* no descriptor is left for accept (EMFILE, ENFILE, ...)
    failures, signals   \* counted for the bounds

sockets == <<client_sockets, conn>>
acceptor == <<accept, events>>
bounds == <<failures, signals>>
vars == <<program, g_stop_flag, mtx, server_running, running, eventfd, sockets,
          loop, acceptor, tester, handler, exhausted, bounds>>

Init ==
    /\ program \in Programs
    /\ g_stop_flag = FALSE
    /\ mtx = "free"
    /\ server_running = FALSE
    /\ running = FALSE
    /\ eventfd = FALSE
    /\ client_sockets = {}
    /\ loop = "check"
    /\ accept = "none"
    /\ events = {}
    /\ tester = IF program = "final_main" THEN "lock" ELSE "none"
    /\ handler = FALSE
    /\ conn = [c \in Conns |-> "new"]
    /\ exhausted = FALSE
    /\ failures = 0
    /\ signals = 0

-----------------------------------------------------------------------------
(* The condition variable cv: notify_one wakes one of those who wait.      *)

BothMoved(l, t) == loop' = l /\ tester' = t

NotifyOne ==
    \/ loop = "wait" /\ BothMoved("relock", tester)
    \/ tester = "wait" /\ BothMoved(loop, "relock")
    \/ loop # "wait" /\ tester # "wait" /\ UNCHANGED <<loop, tester>>

-----------------------------------------------------------------------------
(* The signal handler takes no lock. *)

Signal ==
    /\ signals < MaxSignals
    /\ ~handler
    /\ loop # "returned"
    /\ signals' = signals + 1
    /\ g_stop_flag' = TRUE
    /\ handler' = TRUE
    /\ UNCHANGED <<program, mtx, server_running, running, eventfd, sockets, loop,
                   acceptor, tester, exhausted, failures>>

SignalNotifies ==
    /\ handler
    /\ handler' = FALSE
    /\ NotifyOne
    /\ UNCHANGED <<program, g_stop_flag, mtx, server_running, running, eventfd,
                   sockets, acceptor, exhausted, bounds>>

-----------------------------------------------------------------------------
(* Connections.  The kernel keeps them for accept while the socket listens. *)

Listening == loop \notin {"check", "failed", "returned"}

Connect(c) ==
    /\ Listening
    /\ conn[c] = "new"
    /\ conn' = [conn EXCEPT ![c] = "pending"]
    /\ UNCHANGED <<program, g_stop_flag, mtx, server_running, running, eventfd,
                   client_sockets, loop, acceptor, tester, handler, exhausted, bounds>>

\* Descriptors run out, and come back, with all that the process has open: the
\* connections, those that are stuck among them, and those of MySQL.
DescriptorsChange ==
    /\ exhausted' = ~exhausted
    /\ UNCHANGED <<program, g_stop_flag, mtx, server_running, running, eventfd,
                   sockets, loop, acceptor, tester, handler, bounds>>

-----------------------------------------------------------------------------
(* The accept thread. *)

AcceptorStep ==
    UNCHANGED <<program, g_stop_flag, server_running, handler, exhausted, signals>>

AcceptCheck ==
    /\ accept = "check"
    /\ accept' = IF running /\ ~g_stop_flag THEN "poll" ELSE "ended"
    /\ AcceptorStep
    /\ UNCHANGED <<mtx, running, eventfd, sockets, loop, events, tester, failures>>

Ready == (IF \E c \in Conns : conn[c] = "pending" THEN {"server_sock"} ELSE {})
           \union (IF eventfd THEN {"notify_fd"} ELSE {})

AcceptPoll ==
    /\ accept = "poll"
    /\ Ready # {}
    /\ accept' = "events"
    /\ events' = Ready
    /\ AcceptorStep
    /\ UNCHANGED <<mtx, running, eventfd, sockets, loop, tester, failures>>

\* EINTR: a signal came to this thread.
AcceptInterrupted ==
    /\ accept = "poll"
    /\ handler
    /\ accept' = "check"
    /\ AcceptorStep
    /\ UNCHANGED <<mtx, running, eventfd, sockets, loop, events, tester, failures>>

AcceptFails ==
    /\ accept = "poll"
    /\ failures < MaxFailures
    /\ failures' = failures + 1
    /\ accept' = "failed"
    /\ AcceptorStep
    /\ UNCHANGED <<mtx, running, eventfd, sockets, loop, events, tester>>

\* accept until EAGAIN: each goes to a worker and into client_sockets.
AcceptOne(c) ==
    /\ accept = "events"
    /\ "server_sock" \in events
    /\ conn[c] = "pending"
    /\ ~exhausted
    /\ conn' = [conn EXCEPT ![c] = "accepted"]
    /\ client_sockets' = client_sockets \union {c}
    /\ AcceptorStep
    /\ UNCHANGED <<mtx, running, eventfd, loop, acceptor, tester, failures>>

AcceptAgain ==
    /\ accept = "events"
    /\ "server_sock" \in events
    /\ \A c \in Conns : conn[c] # "pending"
    /\ events' = events \ {"server_sock"}
    /\ AcceptorStep
    /\ UNCHANGED <<mtx, running, eventfd, sockets, loop, accept, tester, failures>>

BadAcceptError ==
    /\ accept = "events"
    /\ "server_sock" \in events
    /\ exhausted
    /\ \E c \in Conns : conn[c] = "pending"
    /\ accept' = "ended"
    /\ events' = {}
    /\ AcceptorStep
    /\ UNCHANGED <<mtx, running, eventfd, sockets, loop, tester, failures>>

\* accept fails with another error: the connection stays where it is, and
\* epoll_wait reports it again at once.
AcceptError ==
    /\ accept = "events"
    /\ "server_sock" \in events
    /\ exhausted
    /\ \E c \in Conns : conn[c] = "pending"
    /\ events' = events \ {"server_sock"}
    /\ AcceptorStep
    /\ UNCHANGED <<mtx, running, eventfd, sockets, loop, accept, tester, failures>>

\* The rest of the events is left for a loop that does not come.
AcceptNotified ==
    /\ accept = "events"
    /\ "notify_fd" \in events
    /\ eventfd' = FALSE
    /\ running' = FALSE
    /\ events' = {}
    /\ AcceptorStep
    /\ UNCHANGED <<mtx, sockets, loop, accept, tester, failures>>

AcceptNext ==
    /\ accept = "events"
    /\ events = {}
    /\ accept' = "check"
    /\ AcceptorStep
    /\ UNCHANGED <<mtx, running, eventfd, sockets, loop, events, tester, failures>>

BadNotifyFalse ==
    /\ accept = "failed"
    /\ running' = FALSE
    /\ NotifyOne
    /\ accept' = "ended"
    /\ AcceptorStep
    /\ UNCHANGED <<mtx, eventfd, sockets, events, failures>>

\* notify_false, and the end of the loop.
NotifyFalse ==
    /\ accept = "failed"
    /\ mtx = "free"
    /\ running' = FALSE
    /\ NotifyOne
    /\ accept' = "ended"
    /\ AcceptorStep
    /\ UNCHANGED <<mtx, eventfd, sockets, events, failures>>

-----------------------------------------------------------------------------
(* The server loop. *)

LoopAt(from, to) == loop = from /\ loop' = to
LoopStep == UNCHANGED <<program, g_stop_flag, handler, exhausted, bounds, events>>

LoopCheck ==
    /\ LoopAt("check", IF g_stop_flag THEN "returned" ELSE "start")
    /\ LoopStep
    /\ UNCHANGED <<mtx, server_running, running, eventfd, sockets, accept, tester>>

LoopStart ==
    /\ LoopAt("start", "started")
    /\ running' = TRUE
    /\ accept' = "check"
    /\ LoopStep
    /\ UNCHANGED <<mtx, server_running, eventfd, sockets, tester>>

\* start() returns false: no accept thread, and what there is gets closed.
LoopStartFails ==
    /\ LoopAt("start", IF program = "final_main" THEN "failed" ELSE "returned")
    /\ conn' = [c \in Conns |-> IF conn[c] = "pending" THEN "closed" ELSE conn[c]]
    /\ LoopStep
    /\ UNCHANGED <<mtx, server_running, running, eventfd, client_sockets, accept,
                   tester>>

\* Server_loop tells main() with notify_all.
LoopTellsFailure ==
    /\ loop = "failed"
    /\ mtx = "free"
    /\ server_running' = FALSE
    /\ BothMoved("returned", IF tester = "wait" THEN "relock" ELSE tester)
    /\ LoopStep
    /\ UNCHANGED <<mtx, running, eventfd, sockets, accept>>

LoopTellsStart ==
    /\ LoopAt("started", "lock")
    /\ server_running' = (program = "final_main")
    /\ LoopStep
    /\ UNCHANGED <<mtx, running, eventfd, sockets, accept, tester>>

\* In Server_loop notify_one, to main(), comes with the lock.
LoopLock ==
    /\ loop = "lock"
    /\ mtx = "free"
    /\ mtx' = "loop"
    /\ BothMoved("test", IF program = "final_main" /\ tester = "wait" THEN "relock"
                                                                    ELSE tester)
    /\ LoopStep
    /\ UNCHANGED <<server_running, running, eventfd, sockets, accept>>

BadLoopTest ==
    /\ loop = "test"
    /\ IF ~running
       THEN loop' = "stop" /\ mtx' = "free"
       ELSE loop' = "block" /\ UNCHANGED mtx
    /\ LoopStep
    /\ UNCHANGED <<server_running, running, eventfd, sockets, accept, tester>>

LoopTest ==
    /\ loop = "test"
    /\ IF ~running \/ g_stop_flag
       THEN loop' = "stop" /\ mtx' = "free"
       ELSE loop' = "block" /\ UNCHANGED mtx
    /\ LoopStep
    /\ UNCHANGED <<server_running, running, eventfd, sockets, accept, tester>>

LoopBlock ==
    /\ LoopAt("block", "wait")
    /\ mtx' = "free"
    /\ LoopStep
    /\ UNCHANGED <<server_running, running, eventfd, sockets, accept, tester>>

LoopRelock ==
    /\ LoopAt("relock", "test")
    /\ mtx = "free"
    /\ mtx' = "loop"
    /\ LoopStep
    /\ UNCHANGED <<server_running, running, eventfd, sockets, accept, tester>>

LoopSpuriousWakeup ==
    /\ LoopAt("wait", "relock")
    /\ LoopStep
    /\ UNCHANGED <<mtx, server_running, running, eventfd, sockets, accept, tester>>

-----------------------------------------------------------------------------
(* The destructor: stop(). *)

BadStopNoNotify ==
    /\ LoopAt("stop", "join")
    /\ running' = FALSE
    /\ LoopStep
    /\ UNCHANGED <<mtx, server_running, eventfd, sockets, accept, tester>>

StopNotify ==
    /\ LoopAt("stop", "join")
    /\ running' = FALSE
    /\ eventfd' = TRUE
    /\ LoopStep
    /\ UNCHANGED <<mtx, server_running, sockets, accept, tester>>

BadStopNoJoin ==
    /\ LoopAt("join", "close")
    /\ LoopStep
    /\ UNCHANGED <<mtx, server_running, running, eventfd, sockets, accept, tester>>

StopJoin ==
    /\ LoopAt("join", "close")
    /\ accept = "ended"
    /\ LoopStep
    /\ UNCHANGED <<mtx, server_running, running, eventfd, sockets, accept, tester>>

BadStopCloseClients ==
    /\ LoopAt("close", "clear")
    /\ conn' = [c \in Conns |-> IF c \in client_sockets THEN "closed" ELSE conn[c]]
    /\ LoopStep
    /\ UNCHANGED <<mtx, server_running, running, eventfd, client_sockets, accept,
                   tester>>

StopCloseClients ==
    /\ LoopAt("close", "clear")
    /\ conn' = [c \in Conns |-> IF c \in client_sockets THEN "closed" ELSE conn[c]]
    /\ client_sockets' = {}
    /\ LoopStep
    /\ UNCHANGED <<mtx, server_running, running, eventfd, accept, tester>>

\* The server socket is closed, which resets whom nobody accepted; the workers
\* are destroyed; the loop goes on to the test of the flag and the next server.
StopClear ==
    /\ LoopAt("clear", "check")
    /\ conn' = [c \in Conns |-> IF conn[c] = "pending" THEN "closed" ELSE conn[c]]
    /\ eventfd' = FALSE
    /\ accept' = "none"
    /\ LoopStep
    /\ UNCHANGED <<mtx, server_running, running, client_sockets, tester>>

-----------------------------------------------------------------------------
(* main() of final_main. *)

TesterAt(from, to) == tester = from /\ tester' = to
TesterStep ==
    UNCHANGED <<program, server_running, running, eventfd, sockets, acceptor,
                handler, exhausted, bounds>>

TesterLock ==
    /\ tester \in {"lock", "relock"}
    /\ mtx = "free"
    /\ mtx' = "tester"
    /\ tester' = "test"
    /\ TesterStep
    /\ UNCHANGED <<g_stop_flag, loop>>

TesterTest ==
    /\ tester = "test"
    /\ IF server_running
       THEN tester' = "end" /\ mtx' = "free"
       ELSE tester' = "block" /\ UNCHANGED mtx
    /\ TesterStep
    /\ UNCHANGED <<g_stop_flag, loop>>

TesterBlock ==
    /\ TesterAt("block", "wait")
    /\ mtx' = "free"
    /\ TesterStep
    /\ UNCHANGED <<g_stop_flag, loop>>

TesterSpuriousWakeup ==
    /\ TesterAt("wait", "relock")
    /\ TesterStep
    /\ UNCHANGED <<g_stop_flag, mtx, loop>>

TesterEnds ==
    /\ TesterAt("end", "notify")
    /\ g_stop_flag' = TRUE
    /\ TesterStep
    /\ UNCHANGED <<mtx, loop>>

TesterNotifies ==
    /\ tester = "notify"
    /\ BothMoved(IF loop = "wait" THEN "relock" ELSE loop, "join")
    /\ TesterStep
    /\ UNCHANGED <<g_stop_flag, mtx>>

TesterJoins ==
    /\ TesterAt("join", "returned")
    /\ loop = "returned"
    /\ TesterStep
    /\ UNCHANGED <<g_stop_flag, mtx, loop>>

-----------------------------------------------------------------------------

Acceptor ==
    \/ AcceptCheck
    \/ AcceptPoll
    \/ \E c \in Conns : AcceptOne(c)
    \/ AcceptAgain
    \/ AcceptError
    \/ AcceptNotified
    \/ AcceptNext
    \/ NotifyFalse

Stop ==
    \/ StopNotify
    \/ StopJoin
    \/ StopCloseClients
    \/ StopClear

Loop ==
    \/ LoopCheck
    \/ LoopStart
    \/ LoopStartFails
    \/ LoopTellsFailure
    \/ LoopTellsStart
    \/ LoopLock
    \/ LoopTest
    \/ LoopBlock
    \/ LoopRelock
    \/ Stop

Tester ==
    \/ TesterLock
    \/ TesterTest
    \/ TesterBlock
    \/ TesterEnds
    \/ TesterNotifies
    \/ TesterJoins

Next ==
    \/ Signal
    \/ SignalNotifies
    \/ \E c \in Conns : Connect(c)
    \/ DescriptorsChange
    \/ AcceptInterrupted
    \/ AcceptFails
    \/ Acceptor
    \/ Loop
    \/ LoopSpuriousWakeup
    \/ Tester
    \/ TesterSpuriousWakeup

\* Threads are scheduled, and who wants mtx while it is free again and again gets
\* it; nobody has to connect, to send a signal or to fail, and no descriptor has
\* to come back.
Fairness ==
    /\ WF_vars(Acceptor)
    /\ WF_vars(Loop)
    /\ WF_vars(Tester)
    /\ WF_vars(SignalNotifies)
    /\ SF_vars(NotifyFalse)
    /\ SF_vars(LoopTellsFailure \/ LoopLock \/ LoopRelock)
    /\ SF_vars(TesterLock)

Spec == Init /\ [][Next]_vars /\ Fairness

-----------------------------------------------------------------------------
(* Properties. *)

FlagsOK ==
    /\ g_stop_flag \in BOOLEAN
    /\ server_running \in BOOLEAN
    /\ running \in BOOLEAN
    /\ eventfd \in BOOLEAN
    /\ handler \in BOOLEAN
    /\ exhausted \in BOOLEAN

TypeOK ==
    /\ FlagsOK
    /\ program \in Programs
    /\ mtx \in {"free", "loop", "tester"}
    /\ client_sockets \subseteq {c \in Conns : conn[c] = "accepted"}
    /\ loop \in {"check", "start", "failed", "started", "lock", "test", "block",
                 "wait", "relock", "stop", "join", "close", "clear", "returned"}
    /\ accept \in {"none", "check", "poll", "events", "failed", "ended"}
    /\ events \subseteq {"server_sock", "notify_fd"}
    /\ tester \in {"none", "lock", "test", "block", "wait", "relock", "end",
                   "notify", "join", "returned"}
    /\ conn \in [Conns -> {"new", "pending", "accepted", "closed"}]
    /\ failures \in 0..MaxFailures
    /\ signals \in 0..MaxSignals

\* When a server is destroyed, no connection is left open behind it, and the
\* accept thread no longer runs: the next server starts from nothing.
NothingLeftBehind ==
    loop \in {"check", "start", "returned"} =>
        /\ accept = "none"
        /\ client_sockets = {}
        /\ \A c \in Conns : conn[c] # "accepted"

\* stop() gets the accept thread to end wherever it is: between the test of
\* running and epoll_wait, in epoll_wait, in notify_false, or going round and round
\* between epoll_wait and an accept that has no descriptor.  It comes as far as
\* workers.clear(), and returns if the destructor of the workers does.
StopReturns == (loop = "stop") ~> (loop \in {"check", "returned"})

\* A server whose accept loop failed is destroyed, as far as in StopReturns:
\* notify_false is not lost between the test of the predicate and the wait.
FailureIsNoticed == (accept = "failed") ~> (accept = "none")

\* Once descriptors no longer run out, who connects, or has been left waiting, is
\* accepted or, by a server that ends, closed: errors of accept do not end the
\* accept thread, and a server that fails is replaced.  Unless the flag is set:
\* then see StopIsSeen.  While accept has no descriptor nothing is promised.
ConnectionsAreTaken ==
    <>[]~exhausted =>
        \A c \in Conns :
            (conn[c] = "pending") ~> (conn[c] # "pending" \/ g_stop_flag)

\* A program told to stop ends, however the accept loop fails and servers are
\* replaced meanwhile: if the flag is set while the loop is not between its test
\* and its wait, or a notify is still to come while it waits.  What is left is
\* the flag set, and the notify lost, just between the two.
StopIsSeen ==
    /\ (g_stop_flag /\ loop \notin {"block", "wait"}) ~> (loop = "returned")
    /\ (handler /\ loop = "wait") ~> (loop = "returned")
-----------------------------------------------------------------------------
(* What makes NothingLeftBehind inductive: the accept thread is there from    *)
(* start() to the end of stop(), and does nothing any more once joined; what  *)
(* is accepted is what client_sockets holds.                                  *)

AcceptWithServer ==
    /\ loop \in {"check", "start", "failed", "returned"} =>
          accept = "none" /\ client_sockets = {}
    /\ loop \in {"close", "clear"} => accept = "ended"
    /\ loop = "clear" => client_sockets = {}

AcceptedAreKept == \A c \in Conns : conn[c] = "accepted" => c \in client_sockets

Inductive == TypeOK /\ AcceptWithServer /\ AcceptedAreKept
-----------------------------------------------------------------------------
(* Wakeups, in one state: what StopReturns and FailureIsNoticed rest on.      *)

\* Who waits, or is about to, has not missed what he waits for.  A server loop
\* between the test and the end of cv.wait has a server that runs, whose accept
\* thread is over only because of the flag; main() of final_main has no server
\* yet, or the notify of Server_loop is still to come; and stop() joins a thread
\* that is there, that will find running FALSE, and that epoll_wait does not
\* hold, because the eventfd is readable.
NothingMissed ==
    /\ loop \in {"block", "wait"} => running /\ (accept = "ended" => g_stop_flag)
    /\ tester \in {"block", "wait"} /\ server_running => loop = "lock"
    /\ loop = "join" => accept # "none" /\ ~running /\ (accept = "poll" => eventfd)

\* What makes it inductive: mtx is held around the tests by whom it says; the
\* eventfd is readable only while stop() is under way; an accept thread ends
\* because the server no longer runs or the flag is set.
Held ==
    /\ mtx = "loop" <=> loop \in {"test", "block"}
    /\ mtx = "tester" <=> tester \in {"test", "block"}

Stopping == loop \in {"join", "close", "clear"}

NotifiedToStop ==
    /\ eventfd \/ "notify_fd" \in events => Stopping
    /\ accept # "events" => events = {}
    /\ Stopping => ~running
    /\ accept = "none" => loop \in {"check", "start", "failed", "returned"}

EndedForAReason == accept = "ended" /\ running => g_stop_flag

ServerRunningIsTold ==
    /\ tester # "none" \/ server_running => program = "final_main"
    /\ program = "final_main" /\ loop \in {"lock", "test", "block", "wait", "relock"} =>
          server_running

WakeupInductive ==
    /\ Held
    /\ NotifiedToStop
    /\ EndedForAReason
    /\ ServerRunningIsTold
    /\ NothingMissed
=============================================================================
