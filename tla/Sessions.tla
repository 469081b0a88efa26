------------------------------ MODULE Sessions ------------------------------
(***************************************************************************)
(* SQLManager: who is logged in on which connection, and the handlers of   *)
(* requests that work on the database.  Every EpollWorker has an           *)
(* SQLManager of its own, whose maps are keyed by fd number; all of them   *)
(* share the database of Tracker.                                          *)
(*                                                                         *)
(* A handler runs in several steps, between which handlers of other        *)
(* connections run on other threads: check_login and the test of           *)
(* special_id, then the call of sql_driver.  One connection is served by   *)
(* one thread at a time and keeps its fd number meanwhile: this is         *)
(* OneTaskPerConnection, TaskMeetsItsConnection and OneReader of           *)
(* EpollWorker.  userFdToId[fd] is therefore used by one thread at a time, *)
(* special_id by all of them.                                              *)
(*                                                                         *)
(* Left out: requests whose fields are missing or malformed, which change  *)
(* nothing; replies; the restart of the server, which starts with new      *)
(* managers.  The unordered_map is taken to survive the concurrent         *)
(* accesses of different keys.                                             *)
(***************************************************************************)
EXTENDS Tracker

CONSTANTS
    Conns,      \* connections over time
    Fds,        \* fd numbers
    Workers,    \* the EpollWorkers, each with its SQLManager
    Oscar,      \* the name with rights of its own
    Garbage,    \* what special_id may hold uninitialised
    Releases    \* the builds looked at: whether RELEASE is defined

ASSUME SessionsAssumption ==
    /\ Oscar \in Names
    /\ Fds # {}
    /\ Workers # {}
    /\ Garbage \subseteq Int
    /\ Releases \subseteq BOOLEAN

VARIABLES
    pc, fd, worker,         \* of a connection: what its thread does for it
    request, name, user_id, \* the request it serves and the locals for it
    userFdToId,             \* per worker and fd: a user id, 0 for no entry
    special_id,             \* per worker
    release,                \* whether RELEASE is defined: never changes
    \* Not in the code:
    self,       \* the id a connection itself logged in with, 0 for none
    session,    \* the name with which the entry of userFdToId was made
    garbage,    \* the initial special_id
    oscars      \* the ids Oscar has had

locals == <<request, name, user_id>>
place == <<fd, worker>>
manager == <<userFdToId, special_id, self, session>>
fixed == <<release, garbage>>
vars == <<pc, place, locals, manager, fixed, oscars, tables>>

\* "SELECT" stands for the three requests that only read.
ForOscar == {"DELETE_USER", "INSERT_PROBLEM", "DELETE_PROBLEM",
             "INSERT_PROBLEM_TYPE", "DELETE_PROBLEM_TYPE"}
AfterLogin == {"SELECT", "INSERT_SUBMITTED", "DELETE_SUBMITTED"} \union ForOscar
Requests == {"REGISTER_USER", "LOGIN"} \union AfterLogin

Init ==
    /\ TrackerInit
    /\ pc = [c \in Conns |-> "new"]
    /\ fd = [c \in Conns |-> CHOOSE f \in Fds : TRUE]
    /\ worker = [c \in Conns |-> CHOOSE w \in Workers : TRUE]
    /\ request = [c \in Conns |-> "none"]
    /\ name = [c \in Conns |-> Oscar]
    /\ user_id = [c \in Conns |-> 0]
    /\ userFdToId = [w \in Workers |-> [f \in Fds |-> 0]]
    /\ special_id \in [Workers -> Garbage]
    /\ release \in Releases
    /\ self = [c \in Conns |-> 0]
    /\ session = [w \in Workers |-> [f \in Fds |-> Oscar]]
    /\ garbage = special_id
    /\ oscars = {}

Goto(c, p) == pc' = [pc EXCEPT ![c] = p]

\* The handler returns: its locals are gone.
Return(c) ==
    /\ Goto(c, "idle")
    /\ request' = [request EXCEPT ![c] = "none"]
    /\ name' = [name EXCEPT ![c] = Oscar]
    /\ user_id' = [user_id EXCEPT ![c] = 0]

-----------------------------------------------------------------------------
(* Connections come and go.  A number is free once it is closed. *)

Accept(c) ==
    /\ pc[c] = "new"
    /\ \E f \in Fds, w \in Workers :
          /\ \A d \in Conns : pc[d] \notin {"new", "closed"} => fd[d] # f
          /\ fd' = [fd EXCEPT ![c] = f]
          /\ worker' = [worker EXCEPT ![c] = w]
    /\ Goto(c, "idle")
    /\ UNCHANGED <<locals, manager, fixed, oscars, tables>>

\* The end of file read by the active thread: erase_fd, then close_fd.
ActiveHangup(c) ==
    /\ pc[c] = "idle"
    /\ Goto(c, "erase")
    /\ UNCHANGED <<place, locals, manager, fixed, oscars, tables>>

BadLoopHangup(c) ==
    /\ pc[c] = "idle"
    /\ Goto(c, "close")
    /\ UNCHANGED <<place, locals, manager, fixed, oscars, tables>>

\* The same read by the loop thread: erase_fd is compiled with RELEASE only.
LoopHangup(c) ==
    /\ pc[c] = "idle"
    /\ Goto(c, IF release THEN "erase" ELSE "close")
    /\ UNCHANGED <<place, locals, manager, fixed, oscars, tables>>

Registered(c) == userFdToId[worker[c]][fd[c]]

\* erase_fd compares with special_id, and resets it in a step of its own.
EraseFd(c) ==
    /\ pc[c] = "erase"
    /\ IF Registered(c) # 0 /\ Registered(c) = special_id[worker[c]]
       THEN Goto(c, "reset") /\ UNCHANGED userFdToId
       ELSE /\ Goto(c, "close")
            /\ userFdToId' = [userFdToId EXCEPT ![worker[c]][fd[c]] = 0]
    /\ UNCHANGED <<place, locals, special_id, self, session, fixed, oscars, tables>>

EraseReset(c) ==
    /\ pc[c] = "reset"
    /\ special_id' = [special_id EXCEPT ![worker[c]] = -1]
    /\ userFdToId' = [userFdToId EXCEPT ![worker[c]][fd[c]] = 0]
    /\ Goto(c, "close")
    /\ UNCHANGED <<place, locals, self, session, fixed, oscars, tables>>

Close(c) ==
    /\ pc[c] = "close"
    /\ Goto(c, "closed")
    /\ UNCHANGED <<place, locals, manager, fixed, oscars, tables>>

-----------------------------------------------------------------------------
(* handle_request, and handle_login. *)

Entry(r) == IF r = "REGISTER_USER" THEN "call"
            ELSE IF r = "LOGIN" THEN "query" ELSE "check"

HandleRequest(c, r, n) ==
    /\ pc[c] = "idle"
    /\ r \notin {"REGISTER_USER", "LOGIN"} => n = Oscar
    /\ Goto(c, Entry(r))
    /\ request' = [request EXCEPT ![c] = r]
    /\ name' = [name EXCEPT ![c] = n]
    /\ UNCHANGED <<user_id, place, manager, fixed, oscars, tables>>

\* getUserId: -1 as well when the query fails.
LoginQuery(c) ==
    /\ pc[c] = "query"
    /\ \E id \in {getUserId(name[c]), -1} : user_id' = [user_id EXCEPT ![c] = id]
    /\ Goto(c, "store")
    /\ UNCHANGED <<place, request, name, manager, fixed, oscars, tables>>

BadLoginStore(c) ==
    /\ pc[c] = "store"
    /\ userFdToId' = [userFdToId EXCEPT ![worker[c]][fd[c]] = user_id[c]]
    /\ self' = [self EXCEPT ![c] = user_id[c]]
    /\ session' = [session EXCEPT ![worker[c]][fd[c]] = name[c]]
    /\ Return(c)
    /\ UNCHANGED <<place, special_id, fixed, oscars, tables>>

\* special_id is set whether the user was found or not.
LoginStore(c) ==
    LET id == user_id[c]
    IN  /\ pc[c] = "store"
        /\ special_id' = IF name[c] = Oscar
                         THEN [special_id EXCEPT ![worker[c]] = id]
                         ELSE special_id
        /\ IF id # -1
           THEN /\ userFdToId' = [userFdToId EXCEPT ![worker[c]][fd[c]] = id]
                /\ self' = [self EXCEPT ![c] = id]
                /\ session' = [session EXCEPT ![worker[c]][fd[c]] = name[c]]
           ELSE UNCHANGED <<userFdToId, self, session>>
        /\ Return(c)
        /\ UNCHANGED <<place, fixed, oscars, tables>>

-----------------------------------------------------------------------------
(* The other handlers: first check_login and, for Oscar's requests, the    *)
(* test of special_id.                                                     *)

BadMayCall(c) == Registered(c) # 0

MayCall(c) ==
    /\ Registered(c) # 0
    /\ request[c] \in ForOscar => Registered(c) = special_id[worker[c]]

CheckLogin(c) ==
    /\ pc[c] = "check"
    /\ IF MayCall(c)
       THEN /\ user_id' = [user_id EXCEPT ![c] = Registered(c)]
            /\ Goto(c, "call")
            /\ UNCHANGED <<request, name>>
       ELSE Return(c)
    /\ UNCHANGED <<place, manager, fixed, oscars, tables>>

\* Then the call, which returns to handle_request.
Serves(c, r) ==
    /\ pc[c] = "call"
    /\ request[c] = r
    /\ Return(c)
    /\ UNCHANGED <<place, manager, fixed>>

\* A query, or a call that finds nothing, breaks a key or fails in SQL.
CallChangesNothing(c) ==
    /\ \E r \in Requests : Serves(c, r)
    /\ UNCHANGED <<oscars, tables>>

HandleRegister(c) ==
    /\ Serves(c, "REGISTER_USER")
    /\ registerUser(name[c])
    /\ oscars' = oscars \union {u.id : u \in {v \in users' : v.username = Oscar}}

HandleInsertSubmission(c) ==
    /\ Serves(c, "INSERT_SUBMITTED")
    /\ \E id \in Problems, status \in BOOLEAN, time \in Times :
          InsertSubmitted(user_id[c], id, status, time)
    /\ UNCHANGED oscars

HandleDeleteSubmission(c) ==
    /\ Serves(c, "DELETE_SUBMITTED")
    /\ \E id \in 1..MaxSubmissions : DeleteSubmission(id, user_id[c])
    /\ UNCHANGED oscars

HandleDeleteUser(c) ==
    /\ Serves(c, "DELETE_USER")
    /\ \E n \in Names : deleteUser(n)
    /\ UNCHANGED oscars

HandleInsertProblem(c) ==
    /\ Serves(c, "INSERT_PROBLEM")
    /\ \E id \in Problems, title \in Titles : InsertProblem(id, title)
    /\ UNCHANGED oscars

HandleDeleteProblem(c) ==
    /\ Serves(c, "DELETE_PROBLEM")
    /\ \E id \in Problems : DeleteProblem(id)
    /\ UNCHANGED oscars

HandleInsertProblemType(c) ==
    /\ Serves(c, "INSERT_PROBLEM_TYPE")
    /\ \E id \in Problems, type \in Types : InsertProblemType(id, type)
    /\ UNCHANGED oscars

HandleDeleteProblemType(c) ==
    /\ Serves(c, "DELETE_PROBLEM_TYPE")
    /\ \E id \in Problems, type \in Types : DeleteProblemType(id, type)
    /\ UNCHANGED oscars

Hangup(c) ==
    \/ ActiveHangup(c)
    \/ LoopHangup(c)
    \/ EraseFd(c)
    \/ EraseReset(c)
    \/ Close(c)

Serve(c) ==
    \/ \E r \in Requests, n \in Names : HandleRequest(c, r, n)
    \/ LoginQuery(c)
    \/ LoginStore(c)
    \/ CheckLogin(c)
    \/ CallChangesNothing(c)
    \/ HandleRegister(c)
    \/ HandleInsertSubmission(c)
    \/ HandleDeleteSubmission(c)
    \/ HandleDeleteUser(c)
    \/ HandleInsertProblem(c)
    \/ HandleDeleteProblem(c)
    \/ HandleInsertProblemType(c)
    \/ HandleDeleteProblemType(c)

Next == \E c \in Conns : Accept(c) \/ Hangup(c) \/ Serve(c)

Spec == Init /\ [][Next]_vars

-----------------------------------------------------------------------------
(* Properties. *)

Open(c) == pc[c] \notin {"new", "closed"}

TypeOK ==
    /\ TablesOK
    /\ pc \in [Conns -> {"new", "idle", "erase", "reset", "close", "closed",
                         "query", "store", "check", "call"}]
    /\ fd \in [Conns -> Fds]
    /\ worker \in [Conns -> Workers]
    /\ request \in [Conns -> Requests \union {"none"}]
    /\ name \in [Conns -> Names]
    /\ user_id \in [Conns -> UserIds \union {0, -1}]
    /\ userFdToId \in [Workers -> [Fds -> UserIds \union {0}]]
    /\ special_id \in [Workers -> UserIds \union {-1} \union Garbage]
    /\ release \in BOOLEAN
    /\ self \in [Conns -> UserIds \union {0}]
    /\ session \in [Workers -> [Fds -> Names]]
    /\ garbage \in [Workers -> Garbage]
    /\ oscars \subseteq UserIds

\* Deleting and registering users never turns a session into that of someone
\* else: whoever has its id has the name it was opened with.  Sessions outlive
\* the users deleted under them, and without RELEASE their connections.
SessionsNameTheirUser ==
    \A w \in Workers, f \in Fds, u \in users :
        u.id = userFdToId[w][f] => u.username = session[w][f]

\* A request for Oscar that got past the check comes from a session of Oscar's,
\* although special_id may by now be that of another Oscar, or reset.  The one
\* exception is an uninitialised special_id that happens to be an id.
OscarCalls ==
    \A c \in Conns :
        pc[c] = "call" /\ request[c] \in ForOscar =>
            user_id[c] \in oscars \union {garbage[worker[c]]}

\* What a request that needs a login does, it does for the user who logged in
\* on its connection.
RequestsUnderOwnLogin ==
    \A c \in Conns :
        pc[c] = "call" /\ request[c] \in AfterLogin => user_id[c] = self[c]

\* With RELEASE defined.
OwnLoginInRelease == release => RequestsUnderOwnLogin

\* A submission goes away only by its owner, under the name of his session, or
\* with its problem or its user by a request for Oscar.
SubmissionsAreKept ==
    [][\A s \in submissions \ submissions' :
          \E c \in Conns :
              /\ pc[c] = "call"
              /\ \/ /\ request[c] = "DELETE_SUBMITTED"
                    /\ \E u \in users :
                          /\ u.id = s.users_id
                          /\ u.username = session[worker[c]][fd[c]]
                 \/ /\ request[c] = "DELETE_PROBLEM"
                    /\ \A p \in problems' : p.id # s.problem_id
                 \/ /\ request[c] = "DELETE_USER"
                    /\ \A u \in users' : u.id # s.users_id]_vars
-----------------------------------------------------------------------------
(* What makes the properties above inductive. *)

\* fd numbers of open connections are not shared.
OneOwner ==
    \A c, d \in Conns : Open(c) /\ Open(d) /\ fd[c] = fd[d] => c = d

\* Ids in use, in an entry or in a login that goes on, have been given out, and
\* belong to nobody or to whom they belonged.
IdsAreOld ==
    /\ \A w \in Workers, f \in Fds : userFdToId[w][f] < users_next
    /\ \A c \in Conns : pc[c] = "store" =>
          /\ user_id[c] # 0
          /\ user_id[c] < users_next
          /\ \A u \in users : u.id = user_id[c] => u.username = name[c]
          /\ name[c] = Oscar => user_id[c] \in oscars \union {-1}

OscarsKnown ==
    /\ \A u \in users : u.username = Oscar => u.id \in oscars
    /\ \A w \in Workers : special_id[w] \in oscars \union {-1, garbage[w]}

\* The entry a request was admitted with stays until it is served.
CallHoldsEntry ==
    \A c \in Conns :
        pc[c] = "call" /\ request[c] \in AfterLogin =>
            user_id[c] # 0 /\ user_id[c] = Registered(c)

\* With RELEASE every entry is that of an open connection that made it.
EntriesAreOwned ==
    release => \A w \in Workers, f \in Fds : userFdToId[w][f] # 0 =>
        \E c \in Conns :
            /\ pc[c] \notin {"new", "close", "closed"}
            /\ worker[c] = w
            /\ fd[c] = f
            /\ self[c] = userFdToId[w][f]

TrackerInv == TablesOK /\ UniqueKeys /\ NumbersAreNew /\ NoOrphans

Inductive ==
    /\ TypeOK
    /\ TrackerInv
    /\ OneOwner
    /\ IdsAreOld
    /\ SessionsNameTheirUser
    /\ OscarsKnown
    /\ OscarCalls
    /\ CallHoldsEntry
    /\ EntriesAreOwned
=============================================================================
