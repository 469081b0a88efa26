------------------------------- MODULE Client -------------------------------
(***************************************************************************)
(* The client: ClientTCP with its receiving thread, the command loop of    *)
(* ConsoleClient, and the programs that use them: main() of                *)
(* Weak_ayas_client.cpp, which makes client after client until a signal,   *)
(* final_main.cpp, which runs one with a script for its input, and the     *)
(* launcher Weak_ayas.cpp, which becomes Weak_ayas_client.  The server     *)
(* may stop, crash and start again at any time; it announces itself by a   *)
(* file the client waits for and removes.                                  *)
(*                                                                         *)
(* Bytes are reduced to whether some are there to be read: Wire looks into *)
(* them.  The user types what he likes, as long as he likes.               *)
(***************************************************************************)
EXTENDS Naturals

CONSTANTS
    Clients,        \* subset of {"client", "final_main", "launcher"}
    MaxServers,     \* bound: times a server starts
    MaxSignals      \* bound: signals sent to the client

ASSUME ClientAssumption ==
    /\ Clients \subseteq {"client", "final_main", "launcher"}
    /\ MaxServers \in Nat
    /\ MaxSignals \in Nat

VARIABLES
    program,        \* never changes
    server,         \* the server: "down", "listening", "up", "closing"
    flag,           \* /tmp/server_ready.flag exists
    conn,           \* the connection, seen from the client
    upstream,       \* requests the server has not read
    downstream,     \* replies the client has not read
    main,           \* the main thread of the client: where it is
    recv, events,   \* recv_loop: where it is, what epoll_wait returned
    running, server_on,
    notify_fd,      \* the eventfd is readable
    stop_all,       \* *stop_all: g_stop_flag, or g_stop_client_flag
    servers, signals    \* counted for the bounds

bytes == <<upstream, downstream>>
other == <<server, flag, servers>>
thread == <<recv, events>>
vars == <<program, other, conn, bytes, main, thread, running, server_on,
          notify_fd, stop_all, signals>>

Init ==
    /\ program \in Clients
    /\ server \in {"down", "listening", "up"}
    /\ flag \in BOOLEAN         \* an earlier server may have left it
    /\ conn = "none"
    /\ upstream = FALSE
    /\ downstream = FALSE
    /\ main = CASE program = "launcher" -> "fork"
                [] program = "client" -> "check"
                [] program = "final_main" -> "start"
    /\ recv = "none"
    /\ events = {}
    /\ running = FALSE
    /\ server_on = FALSE
    /\ notify_fd = FALSE
    /\ stop_all = FALSE
    /\ servers = 0
    /\ signals = 0

-----------------------------------------------------------------------------
(* The server, and what the kernels make of a close.  conn: "eof", an end of   *)
(* file has arrived; "closed", so has a reset after it: the client still reads *)
(* the end of file, but may not write; "reset", a reset without an end of      *)
(* file, the error of which is reported once, by read or write; "broken" then. *)
(*                                                                             *)
(* close() with requests unread, or of a connection nobody accepted, resets;   *)
(* else the client reads an end of file.                                       *)

Lost == IF conn = "accepted" /\ ~upstream THEN "eof" ELSE "reset"

ServerStep == UNCHANGED <<program, main, thread, running, server_on, notify_fd,
                          stop_all, signals>>

ServerListens ==
    /\ server = "down"
    /\ servers < MaxServers
    /\ server' = "listening"
    /\ servers' = servers + 1
    /\ ServerStep
    /\ UNCHANGED <<flag, conn, bytes>>

\* The file is made after start().  The server in final_main makes none.
ServerReady ==
    /\ server = "listening"
    /\ server' = "up"
    /\ flag' = (flag \/ program # "final_main")
    /\ ServerStep
    /\ UNCHANGED <<servers, conn, bytes>>

ServerAccepts ==
    /\ server \in {"listening", "up"}
    /\ conn = "pending"
    /\ conn' = "accepted"
    /\ ServerStep
    /\ UNCHANGED <<other, bytes>>

ServerReads ==
    /\ conn = "accepted"
    /\ upstream
    /\ upstream' = FALSE
    /\ downstream' \in {downstream, TRUE}
    /\ ServerStep
    /\ UNCHANGED <<other, conn>>

\* TCPServer::stop closes the connections and then the listening socket.  It does
\* shutdown(SHUT_WR) before close(), so the client has its end of file before it
\* is reset, even with requests unread.
ServerCloses ==
    /\ server = "up"
    /\ server' = "closing"
    /\ conn' \in CASE conn # "accepted" -> {conn}
                    [] conn = "accepted" /\ upstream -> {"eof", "closed"}
                    [] conn = "accepted" /\ ~upstream -> {"eof"}
    /\ ServerStep
    /\ UNCHANGED <<flag, servers, bytes>>

\* Also a crash, at any time.
ServerEnds ==
    /\ server # "down"
    /\ server' = "down"
    /\ conn' = IF conn \in {"pending", "accepted"} THEN Lost ELSE conn
    /\ ServerStep
    /\ UNCHANGED <<flag, servers, bytes>>

-----------------------------------------------------------------------------
(* recv_loop. *)

RecvStep == UNCHANGED <<program, other, upstream, main, stop_all, signals>>

RecvCheck ==
    /\ recv = "check"
    /\ recv' = IF running /\ ~stop_all THEN "wait" ELSE "ended"
    /\ RecvStep
    /\ UNCHANGED <<conn, downstream, events, running, server_on, notify_fd>>

Ready ==
    (IF downstream \/ conn \in {"eof", "closed", "reset", "broken"} THEN {"sock"} ELSE {})
      \union (IF notify_fd THEN {"notify_fd"} ELSE {})

\* The errors of epoll_wait but for EINTR are those of an epoll_fd that is not
\* one, and it is: start() looks, and stop() closes it after the join.
RecvWait ==
    /\ recv = "wait"
    /\ Ready # {}
    /\ recv' = "events"
    /\ events' = Ready
    /\ RecvStep
    /\ UNCHANGED <<conn, downstream, running, server_on, notify_fd>>

RecvEvent(e) ==
    /\ recv = "events"
    /\ e \in events
    /\ events' = events \ {e}
    /\ UNCHANGED recv
    /\ RecvStep

RecvData ==
    /\ RecvEvent("sock")
    /\ downstream
    /\ downstream' = FALSE
    /\ UNCHANGED <<conn, running, server_on, notify_fd>>

BadRecvEof ==
    /\ RecvEvent("sock")
    /\ ~downstream
    /\ conn \in {"eof", "closed", "broken"}
    /\ running' = FALSE
    /\ UNCHANGED <<conn, downstream, server_on, notify_fd>>

RecvEof ==
    /\ RecvEvent("sock")
    /\ ~downstream
    /\ conn \in {"eof", "closed", "broken"}
    /\ server_on' = FALSE
    /\ running' = FALSE
    /\ UNCHANGED <<conn, downstream, notify_fd>>

\* The error is reported once.  server_on stays.
BadRecvReset ==
    /\ recv = "events"
    /\ "sock" \in events
    /\ ~downstream
    /\ conn = "reset"
    /\ conn' = "broken"
    /\ running' = FALSE
    /\ recv' = "ended"
    /\ RecvStep
    /\ UNCHANGED <<events, downstream, server_on, notify_fd>>

RecvReset ==
    /\ RecvEvent("sock")
    /\ ~downstream
    /\ conn = "reset"
    /\ conn' = "broken"
    /\ running' = FALSE
    /\ UNCHANGED <<downstream, server_on, notify_fd>>

RecvNotified ==
    /\ RecvEvent("notify_fd")
    /\ notify_fd' = FALSE
    /\ UNCHANGED <<conn, downstream, running, server_on>>

RecvNext ==
    /\ recv = "events"
    /\ events = {}
    /\ recv' = "check"
    /\ RecvStep
    /\ UNCHANGED <<conn, downstream, events, running, server_on, notify_fd>>

-----------------------------------------------------------------------------
(* The signal handler, on either thread: epoll_wait returns EINTR, getline     *)
(* and sleep go on.  Nobody waits on the cv it notifies.                       *)

Running == {"check", "poll", "start", "spawn", "top", "prompt", "field", "send",
            "pause", "leave", "stop", "join", "decide"}

Signal ==
    /\ program # "final_main"
    /\ main \in Running
    /\ signals < MaxSignals
    /\ signals' = signals + 1
    /\ stop_all' = TRUE
    /\ recv' \in {recv} \union (IF recv = "wait" THEN {"check"} ELSE {})
    /\ UNCHANGED <<program, other, conn, bytes, main, events, running, server_on,
                   notify_fd>>

-----------------------------------------------------------------------------
(* The launcher and main(). *)

MainAt(from, to) == main = from /\ main' = to
MainStep == UNCHANGED <<program, server, servers, downstream, events, signals>>
Untouched == UNCHANGED <<conn, recv, running, server_on, notify_fd>>
OnlyMain == MainStep /\ Untouched /\ UNCHANGED <<flag, upstream, stop_all>>

\* fork; a second later exec of Weak_ayas_client.  Each may fail.
Launch ==
    /\ \/ MainAt("fork", "sleep")
       \/ MainAt("sleep", "check")
       \/ main \in {"fork", "sleep"} /\ main' = "returned"
    /\ OnlyMain

\* A new ClientTCP.
MainCheck ==
    /\ MainAt("check", IF stop_all THEN "returned" ELSE "poll")
    /\ running' = FALSE
    /\ server_on' = FALSE
    /\ MainStep
    /\ UNCHANGED <<flag, conn, upstream, recv, notify_fd, stop_all>>

RemoveFlag ==
    /\ MainAt("poll", "start")
    /\ flag
    /\ flag' = FALSE
    /\ MainStep
    /\ Untouched
    /\ UNCHANGED <<upstream, stop_all>>

BadPollTimeout ==
    /\ main = "poll"
    /\ ~flag
    /\ UNCHANGED vars

\* The file stays away for 10 seconds: main() goes on without.
PollTimeout ==
    /\ MainAt("poll", "start")
    /\ ~flag
    /\ OnlyMain

\* ClientTCP::start.  final_main does not look at its result.
StartConnects ==
    /\ MainAt("start", "spawn")
    /\ server # "down"
    /\ conn' = "pending"
    /\ server_on' = TRUE
    /\ MainStep
    /\ UNCHANGED <<flag, upstream, recv, running, notify_fd, stop_all>>

StartRefused ==
    /\ MainAt("start", IF program = "final_main" THEN "top" ELSE "refused")
    /\ server = "down"
    /\ OnlyMain

StartSpawns ==
    /\ MainAt("spawn", "top")
    /\ running' = TRUE
    /\ recv' = "check"
    /\ MainStep
    /\ UNCHANGED <<flag, conn, upstream, server_on, notify_fd, stop_all>>

\* No epoll_fd or no notify_fd; the destructor of ClientTCP closes the socket.
StartFails ==
    /\ MainAt("spawn", IF program = "final_main" THEN "top" ELSE "failed")
    /\ conn' = IF program = "final_main" THEN conn ELSE "none"
    /\ MainStep
    /\ UNCHANGED <<flag, upstream, recv, running, server_on, notify_fd, stop_all>>

-----------------------------------------------------------------------------
(* ConsoleClient::run. *)

ConsoleTop ==
    /\ MainAt("top", IF server_on THEN "prompt" ELSE "leave")
    /\ OnlyMain

\* A line: empty; help or unknown; a request without fields; one with fields;
\* exit or the end of the input.
UserLine ==
    /\ main = "prompt"
    /\ main' \in {"top", "pause", "send", "field", "leave"}
    /\ OnlyMain

\* get_valid_input, after the lines it refuses: the last field; @back or an
\* empty line; the end of the input.
UserField ==
    /\ main = "field"
    /\ main' \in {"send", "top", "leave"}
    /\ OnlyMain

\* send_msg, whose result nobody looks at.  What is sent after the end of file
\* makes the server's kernel reset the connection, now or after the next send.
ConsoleSends ==
    /\ MainAt("send", "pause")
    /\ conn \notin {"closed", "broken"}
    /\ upstream' = TRUE
    /\ conn' \in CASE conn = "eof" -> {"eof", "closed"}
                    [] conn = "reset" -> {"broken"}
                    [] OTHER -> {conn}
    /\ MainStep
    /\ UNCHANGED <<flag, recv, running, server_on, notify_fd, stop_all>>

\* SIGPIPE ends the process.
ConsoleKilled ==
    /\ MainAt("send", "killed")
    /\ conn \in {"closed", "broken"}
    /\ conn' = "none"
    /\ recv' = "none"
    /\ events' = {}
    /\ upstream' = FALSE
    /\ downstream' = FALSE
    /\ UNCHANGED <<program, other, running, server_on, notify_fd, stop_all, signals>>

ConsolePause ==
    /\ MainAt("pause", "top")
    /\ OnlyMain

-----------------------------------------------------------------------------
(* After the console: ClientTCP::stop, and the next client or the end. *)

Leave ==
    /\ MainAt("leave", "stop")
    /\ stop_all' = (stop_all \/ program = "final_main")
    /\ MainStep
    /\ Untouched
    /\ UNCHANGED <<flag, upstream>>

StopNotify ==
    /\ MainAt("stop", "join")
    /\ running' = FALSE
    /\ notify_fd' = TRUE
    /\ MainStep
    /\ UNCHANGED <<flag, conn, upstream, recv, server_on, stop_all>>

Closed ==
    /\ conn' = "none"
    /\ notify_fd' = FALSE
    /\ upstream' = FALSE
    /\ downstream' = FALSE
    /\ UNCHANGED <<program, other, events, running, server_on, stop_all, signals>>

BadStopNoJoin ==
    /\ MainAt("join", "decide")
    /\ UNCHANGED recv
    /\ Closed

StopJoin ==
    /\ MainAt("join", "decide")
    /\ recv \in {"none", "ended"}
    /\ recv' = "none"
    /\ Closed

Decide ==
    /\ MainAt("decide", IF stop_all THEN "returned" ELSE "check")
    /\ OnlyMain

-----------------------------------------------------------------------------

Server ==
    \/ ServerListens
    \/ ServerReady
    \/ ServerAccepts
    \/ ServerReads
    \/ ServerCloses
    \/ ServerEnds

Recv ==
    \/ RecvCheck
    \/ RecvWait
    \/ RecvData
    \/ RecvEof
    \/ RecvReset
    \/ RecvNotified
    \/ RecvNext

Main ==
    \/ Launch
    \/ MainCheck
    \/ RemoveFlag
    \/ PollTimeout
    \/ StartConnects
    \/ StartRefused
    \/ StartSpawns
    \/ StartFails
    \/ ConsoleTop
    \/ ConsoleSends
    \/ ConsoleKilled
    \/ ConsolePause
    \/ Leave
    \/ StopNotify
    \/ StopJoin
    \/ Decide

User == UserLine \/ UserField

Next == Server \/ Recv \/ Signal \/ Main \/ User

\* Both threads are scheduled and the user goes on typing; the server does as it
\* likes, and nobody has to send a signal.
Fairness == WF_vars(Recv) /\ WF_vars(Main) /\ WF_vars(User)

Spec == Init /\ [][Next]_vars /\ Fairness

-----------------------------------------------------------------------------
(* Properties. *)

Console == {"top", "prompt", "field", "send", "pause"}

FlagsOK ==
    /\ flag \in BOOLEAN
    /\ upstream \in BOOLEAN
    /\ downstream \in BOOLEAN
    /\ running \in BOOLEAN
    /\ server_on \in BOOLEAN
    /\ notify_fd \in BOOLEAN
    /\ stop_all \in BOOLEAN

TypeOK ==
    /\ FlagsOK
    /\ program \in Clients
    /\ server \in {"down", "listening", "up", "closing"}
    /\ conn \in {"none", "pending", "accepted", "eof", "closed", "reset", "broken"}
    /\ main \in Running \union {"fork", "sleep", "returned", "refused", "failed",
                                "killed"}
    /\ recv \in {"none", "check", "wait", "events", "ended"}
    /\ events \subseteq {"sock", "notify_fd"}
    /\ recv # "events" => events = {}
    /\ servers \in 0..MaxServers
    /\ signals \in 0..MaxSignals

\* A ClientTCP goes with its thread and its socket: when the program makes the
\* next one, or ends, neither is left, and the thread never polls sockets that
\* stop() has closed.
ThreadEndsWithClient ==
    /\ main \notin Console \union {"spawn", "leave", "stop", "join"} =>
          recv = "none" /\ conn = "none"
    /\ recv \in {"check", "wait", "events"} => conn # "none"

\* The client never hangs once it has left the console: stop() ends the thread
\* wherever it is, a ready flag that was used up is not waited for for ever,
\* and the client has a new connection or ends.
RestartComesBack ==
    (main = "leave") ~> (main \in {"top", "returned", "refused", "failed"})

\* A client whose server has closed the connection in order, requests of it
\* unread or not, leaves its console, unless it was told to stop: then its thread
\* may be gone before it looks.
LossIsNoticed ==
    (conn \in {"eof", "closed"} /\ recv # "none" /\ ~stop_all)
       ~> (main \notin Console \/ stop_all)

-----------------------------------------------------------------------------
(* What makes ThreadEndsWithClient inductive: start() spawns the thread on a  *)
(* connection, and only one.                                                  *)

SpawnConnected == main = "spawn" => recv = "none" /\ conn # "none"

Inductive == TypeOK /\ ThreadEndsWithClient /\ SpawnConnected
-----------------------------------------------------------------------------
(* What the two threads know of each other, in one state: what                *)
(* RestartComesBack and LossIsNoticed rest on.                                *)

WithThread == main \in Console \union {"leave", "stop"} /\ recv # "none"

\* stop() joins a thread that will find running FALSE, and that epoll_wait does
\* not hold, because the eventfd is readable.  Before that, a thread that is
\* over has told the console so, unless the connection was reset or the client
\* told to stop; and the console is told only of a connection that is lost.
NothingMissed ==
    /\ main = "join" => ~running /\ (recv = "wait" => notify_fd)
    /\ WithThread => /\ recv = "ended" => ~server_on \/ conn = "broken" \/ stop_all
                     /\ ~server_on => conn \in {"eof", "closed", "broken"}

\* What makes it inductive: the eventfd is readable only during the join;
\* server_on and running go together, but for a reset; recv_loop ends because
\* one of its conditions does not hold.
NotifiedToStop == notify_fd \/ "notify_fd" \in events => main = "join"

OnWhileRunning ==
    /\ main = "spawn" => server_on
    /\ WithThread => running \/ ~server_on \/ conn = "broken"

EndedForAReason == recv = "ended" => ~running \/ stop_all

WakeupInductive ==
    /\ NotifiedToStop
    /\ OnWhileRunning
    /\ EndedForAReason
    /\ NothingMissed
=============================================================================
