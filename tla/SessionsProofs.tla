--------------------------- MODULE SessionsProofs ---------------------------
(***************************************************************************)
(* The properties of Sessions for any users, connections, workers and      *)
(* tables.  First what the calls of sql_driver keep of the tables, then    *)
(* what the steps of the handlers keep of the sessions: for these it is    *)
(* enough that a call gives out no id that was given out before.           *)
(***************************************************************************)
EXTENDS Sessions, SequenceTheorems, TLAPS

-----------------------------------------------------------------------------
(* The tables. *)

\* Of users, a call can only add one with the next number, or delete.
IdsAreNew ==
    /\ users_next <= users_next'
    /\ \A u \in users' : u \in users \/ (u.id = users_next /\ users_next < users_next')

\* registerUser keeps what the tables promise.
LEMMA RegisterKeeps ==
    ASSUME TrackerInv, NEW n \in Names, registerUser(n), MaxUsers \in Nat
    PROVE  TrackerInv' /\ IdsAreNew
<1> USE DEF TrackerInv, registerUser, catalogue
<1>1. TablesOK'
  BY DEF TablesOK, UserIds
<1>2. UniqueKeys' /\ NumbersAreNew'
  BY DEF TablesOK, UserIds, UniqueKeys, NumbersAreNew
<1>3. NoOrphans'
  BY DEF NoOrphans
<1>4. IdsAreNew
  BY DEF IdsAreNew, TablesOK
<1> QED
  BY <1>1, <1>2, <1>3, <1>4

\* deleteUser, with its cascade, keeps it.
LEMMA DeleteUserKeeps ==
    ASSUME TrackerInv, NEW n \in Names, deleteUser(n)
    PROVE  TrackerInv' /\ IdsAreNew
<1> USE DEF TrackerInv, deleteUser, catalogue
<1>1. PICK d \in users : d.username = n
  OBVIOUS
<1>2. getUserId(n) = d.id
  BY <1>1 DEF getUserId, UniqueKeys
<1>3. TablesOK' /\ UniqueKeys' /\ NumbersAreNew'
  BY DEF TablesOK, UniqueKeys, NumbersAreNew
<1>4. NoOrphans'
  <2>1. \A s \in submissions' : \E u \in users' : u.id = s.users_id
    BY <1>1, <1>2 DEF NoOrphans, UniqueKeys
  <2> QED
    BY <2>1 DEF NoOrphans
<1>5. IdsAreNew
  BY DEF IdsAreNew, TablesOK
<1> QED
  BY <1>3, <1>4, <1>5

\* The calls on problems and their types keep it.
LEMMA ProblemCallsKeep ==
    ASSUME TrackerInv, NEW id \in Problems,
           \/ \E title \in Titles : InsertProblem(id, title)
           \/ DeleteProblem(id)
           \/ \E type \in Types : InsertProblemType(id, type)
           \/ \E type \in Types : DeleteProblemType(id, type)
    PROVE  TrackerInv' /\ IdsAreNew /\ users' = users
<1> USE DEF TrackerInv
<1>1. CASE \E title \in Titles : InsertProblem(id, title)
  BY <1>1 DEF InsertProblem, TablesOK, UniqueKeys, NumbersAreNew, NoOrphans, IdsAreNew
<1>2. CASE DeleteProblem(id)
  BY <1>2 DEF DeleteProblem, TablesOK, UniqueKeys, NumbersAreNew, NoOrphans, IdsAreNew
<1>3. CASE \E type \in Types : InsertProblemType(id, type)
  BY <1>3 DEF InsertProblemType, TablesOK, UniqueKeys, NumbersAreNew, NoOrphans, IdsAreNew
<1>4. CASE \E type \in Types : DeleteProblemType(id, type)
  BY <1>4 DEF DeleteProblemType, TablesOK, UniqueKeys, NumbersAreNew, NoOrphans, IdsAreNew
<1> QED
  BY <1>1, <1>2, <1>3, <1>4

\* A time is a number of minutes, or the -1 of another form.
LEMMA MinutesType ==
    ASSUME NEW time \in Seq(Nat)
    PROVE  getMinuteFromTime(time) \in Nat \union {-1}
<1>1. CASE Len(time) = 3
  <2>1. 1 \in 1..Len(time) /\ 2 \in 1..Len(time)
    BY <1>1
  <2>2. time[1] \in Nat /\ time[2] \in Nat
    BY <2>1, ElementOfSeq
  <2> QED
    BY <1>1, <2>2 DEF getMinuteFromTime
<1> QED
  BY <1>1 DEF getMinuteFromTime

\* The calls on submissions keep it.
LEMMA SubmissionCallsKeep ==
    ASSUME TrackerInv, NEW users_id,
           \/ \E id \in Problems, status \in BOOLEAN, time \in Times :
                 InsertSubmitted(users_id, id, status, time)
           \/ \E id \in 1..MaxSubmissions : DeleteSubmission(id, users_id)
    PROVE  TrackerInv' /\ IdsAreNew /\ users' = users
<1> USE TrackerAssumption DEF TrackerInv, TrackerAssumption, catalogue
<1>1. ASSUME NEW id \in Problems, NEW status \in BOOLEAN, NEW time \in Times,
             InsertSubmitted(users_id, id, status, time)
      PROVE  TrackerInv' /\ IdsAreNew /\ users' = users
  <2> USE <1>1 DEF InsertSubmitted
  <2> DEFINE row == [id |-> submissions_next, users_id |-> users_id,
                     problem_id |-> id, status |-> status,
                     minutes |-> getMinuteFromTime(time)]
  <2>1. submissions' = submissions \union {row}
    OBVIOUS
  <2>2. getMinuteFromTime(time) \in Nat \union {-1}
    BY MinutesType
  <2>3. users_id \in UserIds /\ submissions_next \in 1..MaxSubmissions
    BY DEF TablesOK, UserIds
  <2>4. row \in [id : 1..MaxSubmissions, users_id : UserIds, problem_id : Problems,
                 status : BOOLEAN, minutes : Nat \union {-1}]
    BY <2>2, <2>3
  <2> HIDE DEF row
  <2>5. TablesOK'
    BY <2>1, <2>3, <2>4 DEF TablesOK
  <2>6. row.id = submissions_next /\ row.users_id = users_id /\ row.problem_id = id
    BY DEF row
  <2>7. UniqueKeys' /\ NumbersAreNew' /\ NoOrphans'
    BY <2>1, <2>3, <2>6 DEF UniqueKeys, NumbersAreNew, NoOrphans, TablesOK
  <2> QED
    BY <2>5, <2>7 DEF IdsAreNew, TablesOK
<1>2. ASSUME NEW id \in 1..MaxSubmissions, DeleteSubmission(id, users_id)
      PROVE  TrackerInv' /\ IdsAreNew /\ users' = users
  BY <1>2 DEF DeleteSubmission, TablesOK, UniqueKeys, NumbersAreNew, NoOrphans, IdsAreNew
<1> QED
  BY <1>1, <1>2

-----------------------------------------------------------------------------
(* The sessions. *)

USE SessionsAssumption DEF SessionsAssumption

\* The invariant holds at the start.
LEMMA InitInductive == Init => Inductive
<1> SUFFICES ASSUME Init
             PROVE  Inductive
  OBVIOUS
<1> USE TrackerAssumption DEF Init, TrackerInit
<1>1. TrackerInv
  BY DEF TrackerInv, TablesOK, UniqueKeys, NumbersAreNew, NoOrphans, TrackerAssumption
<1>2. TypeOK
  BY <1>1 DEF TypeOK, TrackerInv, UserIds
<1>3. OneOwner /\ IdsAreOld /\ SessionsNameTheirUser /\ OscarsKnown
  BY DEF OneOwner, IdsAreOld, SessionsNameTheirUser, OscarsKnown, Open
<1>4. OscarCalls /\ CallHoldsEntry /\ EntriesAreOwned
  BY DEF OscarCalls, CallHoldsEntry, EntriesAreOwned
<1> QED
  BY <1>1, <1>2, <1>3, <1>4 DEF Inductive

\* A call that keeps the tables, gives out no old id and keeps track of Oscar's
\* keeps the sessions.
LEMMA CallKeeps ==
    ASSUME Inductive, NEW c \in Conns, NEW r \in Requests, Serves(c, r),
           TrackerInv', IdsAreNew, oscars \subseteq oscars', oscars' \subseteq UserIds,
           \A u \in users' : u.username = Oscar => u.id \in oscars'
    PROVE  Inductive'
<1> USE DEF Inductive, Serves, Return, Goto, place, manager, fixed
<1>1. TypeOK'
  BY DEF TypeOK, TrackerInv
<1>2. /\ \A d \in Conns : pc'[d] = IF d = c THEN "idle" ELSE pc[d]
      /\ \A d \in Conns : d # c => /\ request'[d] = request[d]
                                   /\ name'[d] = name[d]
                                   /\ user_id'[d] = user_id[d]
  BY DEF TypeOK
<1> USE <1>1, <1>2
<1>3. OneOwner'
  BY DEF OneOwner, Open
<1>4. IdsAreOld'
  <2>1. \A w \in Workers, f \in Fds : userFdToId[w][f] < users_next'
    <3> SUFFICES ASSUME NEW w \in Workers, NEW f \in Fds
                 PROVE  userFdToId[w][f] < users_next'
      OBVIOUS
    <3>1. userFdToId'[w][f] = userFdToId[w][f] /\ userFdToId[w][f] \in Int
      BY DEF TypeOK, UserIds
    <3>2. users_next \in Int /\ users_next' \in Int
      BY DEF TypeOK, TablesOK
    <3> QED
      BY <3>1, <3>2 DEF IdsAreOld, IdsAreNew
  <2>2. ASSUME NEW d \in Conns, pc'[d] = "store"
        PROVE  /\ user_id'[d] # 0
               /\ user_id'[d] < users_next'
               /\ \A u \in users' : u.id = user_id'[d] => u.username = name'[d]
               /\ name'[d] = Oscar => user_id'[d] \in oscars' \union {-1}
    <3>1. d # c /\ pc[d] = "store"
      BY <2>2
    <3>2. user_id[d] \in Int /\ users_next \in Int /\ users_next' \in Int
      BY DEF TypeOK, TablesOK, UserIds
    <3> QED
      BY <3>1, <3>2 DEF IdsAreOld, IdsAreNew
  <2> QED
    BY <2>1, <2>2 DEF IdsAreOld
<1>5. SessionsNameTheirUser'
  <2> SUFFICES ASSUME NEW w \in Workers, NEW f \in Fds, NEW u \in users',
                      u.id = userFdToId[w][f]
               PROVE  u.username = session[w][f]
    BY DEF SessionsNameTheirUser
  <2>1. userFdToId[w][f] < users_next /\ users_next \in Int
    BY DEF IdsAreOld, TypeOK, TablesOK
  <2>2. u \in users
    BY <2>1 DEF IdsAreNew
  <2> QED
    BY <2>2 DEF SessionsNameTheirUser
<1>6. OscarsKnown' /\ OscarCalls'
  BY DEF OscarsKnown, OscarCalls
<1>7. CallHoldsEntry'
  BY DEF CallHoldsEntry, Registered
<1>8. EntriesAreOwned'
  BY DEF EntriesAreOwned
<1> QED
  BY <1>3, <1>4, <1>5, <1>6, <1>7, <1>8

\* Each handler makes such a call.
LEMMA HandlersKeep ==
    ASSUME Inductive, NEW c \in Conns,
           \/ CallChangesNothing(c)
           \/ HandleRegister(c)
           \/ HandleInsertSubmission(c)
           \/ HandleDeleteSubmission(c)
           \/ HandleDeleteUser(c)
           \/ HandleInsertProblem(c)
           \/ HandleDeleteProblem(c)
           \/ HandleInsertProblemType(c)
           \/ HandleDeleteProblemType(c)
    PROVE  Inductive'
<1> USE DEF Inductive
<1>0. /\ oscars \subseteq UserIds
      /\ \A u \in users : u.username = Oscar => u.id \in oscars
  BY DEF TypeOK, OscarsKnown
<1>a. Oscar \in Names /\ name[c] \in Names
  BY DEF TypeOK
<1>1. CASE CallChangesNothing(c)
  <2>1. TrackerInv' /\ IdsAreNew
    BY <1>1 DEF CallChangesNothing, tables, catalogue, TrackerInv, TablesOK,
                UniqueKeys, NumbersAreNew, NoOrphans, IdsAreNew
  <2>2. oscars' = oscars /\ users' = users
    BY <1>1 DEF CallChangesNothing, tables
  <2> QED
    BY <1>0, <1>1, <2>1, <2>2, CallKeeps DEF CallChangesNothing
<1>2. CASE HandleRegister(c)
  <2>1. TrackerInv' /\ IdsAreNew
    BY <1>2, <1>a, RegisterKeeps, TrackerAssumption
       DEF HandleRegister, TrackerAssumption
  <2>2. \A u \in users' : u.id \in UserIds
    BY <2>1 DEF TrackerInv, TablesOK
  <2>3. /\ oscars \subseteq oscars'
        /\ oscars' \subseteq UserIds
        /\ \A u \in users' : u.username = Oscar => u.id \in oscars'
    BY <1>0, <1>2, <2>2 DEF HandleRegister
  <2>4. "REGISTER_USER" \in Requests
    BY DEF Requests
  <2> QED
    BY <1>2, <2>1, <2>3, <2>4, CallKeeps DEF HandleRegister
<1>3. CASE HandleInsertSubmission(c) \/ HandleDeleteSubmission(c)
  <2>1. TrackerInv' /\ IdsAreNew /\ users' = users
    BY <1>3, SubmissionCallsKeep DEF HandleInsertSubmission, HandleDeleteSubmission
  <2>2. \E r \in {"INSERT_SUBMITTED", "DELETE_SUBMITTED"} : Serves(c, r)
    BY <1>3 DEF HandleInsertSubmission, HandleDeleteSubmission
  <2>3. oscars' = oscars
    BY <1>3 DEF HandleInsertSubmission, HandleDeleteSubmission
  <2> QED
    BY <1>0, <2>1, <2>2, <2>3, CallKeeps DEF Requests, AfterLogin
<1>4. CASE HandleDeleteUser(c)
  <2>1. PICK n \in Names : deleteUser(n)
    BY <1>4 DEF HandleDeleteUser
  <2>2. TrackerInv' /\ IdsAreNew
    BY <2>1, DeleteUserKeeps
  <2>3. users' \subseteq users /\ oscars' = oscars
    BY <1>4, <2>1 DEF deleteUser, HandleDeleteUser
  <2>4. "DELETE_USER" \in Requests /\ Serves(c, "DELETE_USER")
    BY <1>4 DEF Requests, AfterLogin, ForOscar, HandleDeleteUser
  <2> QED
    BY <1>0, <2>2, <2>3, <2>4, CallKeeps
<1>5. CASE \/ HandleInsertProblem(c) \/ HandleDeleteProblem(c)
           \/ HandleInsertProblemType(c) \/ HandleDeleteProblemType(c)
  <2>1. \E id \in Problems :
           \/ \E title \in Titles : InsertProblem(id, title)
           \/ DeleteProblem(id)
           \/ \E type \in Types : InsertProblemType(id, type)
           \/ \E type \in Types : DeleteProblemType(id, type)
    BY <1>5 DEF HandleInsertProblem, HandleDeleteProblem, HandleInsertProblemType,
                HandleDeleteProblemType
  <2>2. TrackerInv' /\ IdsAreNew /\ users' = users
    BY <2>1, ProblemCallsKeep
  <2>3. (\E r \in ForOscar : Serves(c, r)) /\ oscars' = oscars
    BY <1>5 DEF HandleInsertProblem, HandleDeleteProblem, HandleInsertProblemType,
                HandleDeleteProblemType, ForOscar
  <2> QED
    BY <1>0, <2>2, <2>3, CallKeeps DEF Requests, AfterLogin
<1> QED
  BY <1>1, <1>2, <1>3, <1>4, <1>5

-----------------------------------------------------------------------------
(* The other steps leave the tables alone. *)

\* What the invariant says of the tables, when they stay.
LEMMA TablesAlone ==
    ASSUME TrackerInv, UNCHANGED tables
    PROVE  /\ TrackerInv'
           /\ users' = users /\ users_next' = users_next
  BY DEF tables, catalogue, TrackerInv, TablesOK, UniqueKeys, NumbersAreNew, NoOrphans

\* A connection is accepted with a number no open one has.
LEMMA AcceptKeeps ==
    ASSUME Inductive, NEW c \in Conns, Accept(c)
    PROVE  Inductive'
<1> USE TablesAlone DEF Inductive, Accept, Goto, locals, manager, fixed
<1>1. TypeOK'
  BY DEF TypeOK, TrackerInv
<1>2. OneOwner'
  BY DEF OneOwner, Open, TypeOK
<1>3. IdsAreOld' /\ SessionsNameTheirUser' /\ OscarsKnown'
  BY DEF IdsAreOld, SessionsNameTheirUser, OscarsKnown, TypeOK
<1>4. OscarCalls'
  BY DEF OscarCalls, TypeOK
<1>5. CallHoldsEntry'
  BY DEF CallHoldsEntry, Registered, TypeOK
<1>6. EntriesAreOwned'
  BY SMTT(30) DEF EntriesAreOwned, TypeOK
<1> QED
  BY <1>1, <1>2, <1>3, <1>4, <1>5, <1>6

\* A hangup noticed, and the end of close_fd.
LEMMA HangupsKeep ==
    ASSUME Inductive, NEW c \in Conns, ActiveHangup(c) \/ LoopHangup(c) \/ Close(c)
    PROVE  Inductive'
<1> USE TablesAlone
    DEF Inductive, ActiveHangup, LoopHangup, Close, Goto, place, locals, manager, fixed
<1>b. UNCHANGED <<fd, worker, userFdToId, self, release>>
  OBVIOUS
<1>1. TypeOK'
  BY DEF TypeOK, TrackerInv
<1>2. OneOwner'
  BY DEF OneOwner, Open, TypeOK
<1>3. IdsAreOld' /\ SessionsNameTheirUser' /\ OscarsKnown'
  BY DEF IdsAreOld, SessionsNameTheirUser, OscarsKnown, TypeOK
<1>4. OscarCalls'
  BY DEF OscarCalls, TypeOK
<1>5. CallHoldsEntry'
  BY DEF CallHoldsEntry, Registered, TypeOK
<1>6. EntriesAreOwned'
  <2> SUFFICES ASSUME release', NEW w \in Workers, NEW f \in Fds, userFdToId'[w][f] # 0
               PROVE  \E d \in Conns : /\ pc'[d] \notin {"new", "close", "closed"}
                                       /\ worker'[d] = w
                                       /\ fd'[d] = f
                                       /\ self'[d] = userFdToId'[w][f]
    BY DEF EntriesAreOwned
  <2>1. PICK d \in Conns : /\ pc[d] \notin {"new", "close", "closed"}
                           /\ worker[d] = w
                           /\ fd[d] = f
                           /\ self[d] = userFdToId[w][f]
    BY <1>b DEF EntriesAreOwned
  <2>2. pc'[d] \notin {"new", "close", "closed"}
    BY <1>b, <2>1 DEF TypeOK
  <2> QED
    BY <1>b, <2>1, <2>2
<1> QED
  BY <1>1, <1>2, <1>3, <1>4, <1>5, <1>6

\* erase_fd takes only the entry of its own connection.
LEMMA ErasesKeep ==
    ASSUME Inductive, NEW c \in Conns, EraseFd(c) \/ EraseReset(c)
    PROVE  Inductive'
<1> USE TablesAlone
    DEF Inductive, EraseFd, EraseReset, Goto, place, locals, fixed
<1>0. /\ pc[c] \in {"erase", "reset"}
      /\ \/ userFdToId' = userFdToId /\ pc'[c] = "reset"
         \/ /\ userFdToId' = [userFdToId EXCEPT ![worker[c]][fd[c]] = 0]
            /\ pc'[c] = "close"
      /\ \A d \in Conns : d # c => pc'[d] = pc[d]
      /\ pc' \in [Conns -> {"new", "idle", "erase", "reset", "close", "closed",
                            "query", "store", "check", "call"}]
  BY DEF TypeOK
<1>b. /\ UNCHANGED <<fd, worker, self, session, release, garbage, oscars>>
      /\ UNCHANGED <<request, name, user_id>>
  OBVIOUS
<1>1. TypeOK'
  <2>1. userFdToId' \in [Workers -> [Fds -> UserIds \union {0}]]
    <3>1. /\ userFdToId \in [Workers -> [Fds -> UserIds \union {0}]]
          /\ worker[c] \in Workers /\ fd[c] \in Fds
      BY DEF TypeOK
    <3> QED
      BY ONLY <1>0, <3>1
  <2>2. special_id' \in [Workers -> UserIds \union {-1} \union Garbage]
    BY DEF TypeOK
  <2> QED
    BY <1>0, <1>b, <2>1, <2>2 DEF TypeOK, TrackerInv
<1>2. OneOwner'
  BY <1>0 DEF OneOwner, Open
<1>3. \A w \in Workers, f \in Fds :
         \/ userFdToId'[w][f] = userFdToId[w][f]
         \/ userFdToId'[w][f] = 0 /\ w = worker[c] /\ f = fd[c]
  BY <1>0 DEF TypeOK
<1>4. IdsAreOld' /\ SessionsNameTheirUser'
  <2>1. \A u \in users : u.id # 0
    BY DEF TypeOK, TablesOK, UserIds
  <2>2. 0 < users_next
    BY DEF TypeOK, TablesOK
  <2> QED
    BY <1>0, <1>3, <2>1, <2>2 DEF IdsAreOld, SessionsNameTheirUser
<1>5. OscarsKnown'
  BY DEF OscarsKnown, TypeOK
<1>6. OscarCalls'
  BY <1>0 DEF OscarCalls
<1>7. CallHoldsEntry'
  <2> SUFFICES ASSUME NEW d \in Conns, pc[d] = "call", request[d] \in AfterLogin, d # c
               PROVE  user_id[d] # 0 /\ user_id[d] = Registered(d)'
    BY <1>0 DEF CallHoldsEntry
  <2>1. fd[d] # fd[c]
    BY <1>0 DEF OneOwner, Open
  <2>2. Registered(d)' = Registered(d)
    BY <1>3, <2>1 DEF Registered, TypeOK
  <2> QED
    BY <2>2 DEF CallHoldsEntry
<1>8. EntriesAreOwned'
  <2> SUFFICES ASSUME release, NEW w \in Workers, NEW f \in Fds, userFdToId'[w][f] # 0
               PROVE  \E d \in Conns : /\ pc'[d] \notin {"new", "close", "closed"}
                                       /\ worker[d] = w
                                       /\ fd[d] = f
                                       /\ self[d] = userFdToId'[w][f]
    BY <1>b DEF EntriesAreOwned
  <2>1. userFdToId'[w][f] = userFdToId[w][f]
    BY <1>3
  <2>2. PICK d \in Conns : /\ pc[d] \notin {"new", "close", "closed"}
                           /\ worker[d] = w
                           /\ fd[d] = f
                           /\ self[d] = userFdToId[w][f]
    BY <2>1 DEF EntriesAreOwned
  <2>3. d # c \/ pc'[c] = "reset"
    BY <1>0, <2>2 DEF TypeOK
  <2> QED
    BY <1>0, <2>1, <2>2, <2>3
<1> QED
  BY <1>1, <1>2, <1>4, <1>5, <1>6, <1>7, <1>8

\* The steps of a request before its call.
LEMMA RequestKeeps ==
    ASSUME Inductive, NEW c \in Conns,
           (\E r \in Requests, n \in Names : HandleRequest(c, r, n)) \/ LoginQuery(c)
    PROVE  Inductive'
<1> USE TablesAlone
    DEF Inductive, HandleRequest, LoginQuery, Goto, Entry, place, manager, fixed
<1>0. /\ \A d \in Conns : d # c => /\ pc'[d] = pc[d]
                                   /\ request'[d] = request[d]
                                   /\ name'[d] = name[d]
                                   /\ user_id'[d] = user_id[d]
      /\ pc[c] \in {"idle", "query"}
      /\ pc'[c] \in {"call", "query", "check", "store"}
      /\ pc'[c] = "call" => request'[c] = "REGISTER_USER"
      /\ pc'[c] = "store" => /\ user_id'[c] \in {getUserId(name[c]), -1}
                             /\ name'[c] = name[c]
  BY DEF TypeOK
<1>a. \A n : getUserId(n) # -1 =>
         \E u \in users : u.username = n /\ u.id = getUserId(n)
  BY DEF getUserId
<1>b. UNCHANGED <<fd, worker, userFdToId, self, release>>
  OBVIOUS
<1>1. TypeOK'
  <2>1. getUserId(name[c]) \in UserIds \union {-1}
    BY <1>a DEF TypeOK, TablesOK
  <2>2. /\ pc' \in [Conns -> {"new", "idle", "erase", "reset", "close", "closed",
                              "query", "store", "check", "call"}]
        /\ request' \in [Conns -> Requests \union {"none"}]
        /\ name' \in [Conns -> Names]
        /\ user_id' \in [Conns -> UserIds \union {0, -1}]
    <3>1. CASE \E r \in Requests, n \in Names : HandleRequest(c, r, n)
      BY <3>1 DEF TypeOK
    <3>2. CASE LoginQuery(c)
      BY <2>1, <3>2 DEF TypeOK
    <3> QED
      BY <3>1, <3>2
  <2>3. UNCHANGED <<fd, worker, userFdToId, special_id, release, self, session,
                    garbage, oscars>>
    OBVIOUS
  <2> QED
    BY <2>2, <2>3 DEF TypeOK, TrackerInv
<1>2. OneOwner'
  BY <1>0 DEF OneOwner, Open
<1>3. IdsAreOld'
  <2> SUFFICES ASSUME pc'[c] = "store"
               PROVE  /\ user_id'[c] # 0
                      /\ user_id'[c] < users_next
                      /\ \A u \in users : u.id = user_id'[c] => u.username = name'[c]
                      /\ name'[c] = Oscar => user_id'[c] \in oscars \union {-1}
    BY <1>0 DEF IdsAreOld
  <2>0. users_next \in Int /\ users_next >= 1 /\ \A u \in users : u.id \in Int /\ u.id >= 1
    BY DEF TypeOK, TablesOK, UserIds
  <2>1. CASE user_id'[c] = -1
    BY <2>0, <2>1
  <2>2. CASE user_id'[c] # -1
    <3>1. PICK u \in users : u.username = name'[c] /\ u.id = user_id'[c]
      BY <1>0, <1>a, <2>2
    <3> QED
      BY <2>0, <3>1 DEF TrackerInv, UniqueKeys, NumbersAreNew, OscarsKnown
  <2> QED
    BY <2>1, <2>2
<1>4. SessionsNameTheirUser' /\ OscarsKnown'
  BY DEF SessionsNameTheirUser, OscarsKnown
<1>5. OscarCalls'
  BY <1>0 DEF OscarCalls, ForOscar
<1>6. CallHoldsEntry'
  BY <1>0 DEF CallHoldsEntry, Registered, AfterLogin, ForOscar
<1>7. EntriesAreOwned'
  <2> SUFFICES ASSUME release', NEW w \in Workers, NEW f \in Fds, userFdToId'[w][f] # 0
               PROVE  \E d \in Conns : /\ pc'[d] \notin {"new", "close", "closed"}
                                       /\ worker'[d] = w
                                       /\ fd'[d] = f
                                       /\ self'[d] = userFdToId'[w][f]
    BY DEF EntriesAreOwned
  <2>1. PICK d \in Conns : /\ pc[d] \notin {"new", "close", "closed"}
                           /\ worker[d] = w
                           /\ fd[d] = f
                           /\ self[d] = userFdToId[w][f]
    BY <1>b DEF EntriesAreOwned
  <2> QED
    BY <1>0, <1>b, <2>1
<1> QED
  BY <1>1, <1>2, <1>3, <1>4, <1>5, <1>6, <1>7

\* A login makes an entry for its own connection, with an id that is old and a
\* name that is right.
LEMMA LoginStoreKeeps ==
    ASSUME Inductive, NEW c \in Conns, LoginStore(c)
    PROVE  Inductive'
<1> USE TablesAlone DEF Inductive, LoginStore, Return, Goto, place, fixed
<1> DEFINE Found == user_id[c] # -1
<1>0. /\ pc[c] = "store"
      /\ pc'[c] = "idle"
      /\ \A d \in Conns : d # c => /\ pc'[d] = pc[d]
                                   /\ request'[d] = request[d]
                                   /\ name'[d] = name[d]
                                   /\ user_id'[d] = user_id[d]
                                   /\ self'[d] = self[d]
      /\ UNCHANGED <<fd, worker, release, garbage, oscars>>
  BY DEF TypeOK
<1>a. /\ worker[c] \in Workers /\ fd[c] \in Fds /\ name[c] \in Names
      /\ user_id[c] \in UserIds \union {0, -1}
      /\ user_id[c] # 0 /\ user_id[c] < users_next
      /\ \A u \in users : u.id = user_id[c] => u.username = name[c]
      /\ name[c] = Oscar => user_id[c] \in oscars \union {-1}
  BY <1>0 DEF TypeOK, IdsAreOld
<1>b. \A w \in Workers, f \in Fds :
         IF Found /\ w = worker[c] /\ f = fd[c]
         THEN userFdToId'[w][f] = user_id[c] /\ session'[w][f] = name[c]
         ELSE userFdToId'[w][f] = userFdToId[w][f] /\ session'[w][f] = session[w][f]
  BY <1>a DEF TypeOK
<1>c. Found => self'[c] = user_id[c]
  BY DEF TypeOK
<1>1. TypeOK'
  <2>1. /\ userFdToId' \in [Workers -> [Fds -> UserIds \union {0}]]
        /\ session' \in [Workers -> [Fds -> Names]]
        /\ self' \in [Conns -> UserIds \union {0}]
    <3>1. /\ userFdToId \in [Workers -> [Fds -> UserIds \union {0}]]
          /\ session \in [Workers -> [Fds -> Names]]
          /\ self \in [Conns -> UserIds \union {0}]
          /\ worker[c] \in Workers /\ fd[c] \in Fds /\ name[c] \in Names
      BY <1>a DEF TypeOK
    <3>2. CASE Found
      <4>1. user_id[c] \in UserIds \union {0}
        BY <1>a, <3>2
      <4>2. /\ userFdToId' = [userFdToId EXCEPT ![worker[c]][fd[c]] = user_id[c]]
            /\ self' = [self EXCEPT ![c] = user_id[c]]
            /\ session' = [session EXCEPT ![worker[c]][fd[c]] = name[c]]
        BY <3>2
      <4> QED
        BY ONLY <3>1, <4>1, <4>2
    <3>3. CASE ~Found
      BY ONLY <3>1, <3>3, LoginStore(c) DEF LoginStore
    <3> QED
      BY <3>2, <3>3
  <2>2. special_id' \in [Workers -> UserIds \union {-1} \union Garbage]
    BY <1>a DEF TypeOK
  <2>3. /\ pc' \in [Conns -> {"new", "idle", "erase", "reset", "close", "closed",
                              "query", "store", "check", "call"}]
        /\ request' \in [Conns -> Requests \union {"none"}]
        /\ name' \in [Conns -> Names]
        /\ user_id' \in [Conns -> UserIds \union {0, -1}]
    BY DEF TypeOK
  <2> QED
    BY <1>0, <2>1, <2>2, <2>3 DEF TypeOK, TrackerInv
<1>2. OneOwner'
  BY <1>0 DEF OneOwner, Open
<1>3. IdsAreOld'
  BY <1>0, <1>a, <1>b DEF IdsAreOld
<1>4. SessionsNameTheirUser'
  BY <1>a, <1>b DEF SessionsNameTheirUser
<1>5. OscarsKnown'
  <2>1. \A w \in Workers : special_id'[w] \in {special_id[w]} \union oscars \union {-1}
    BY <1>a DEF TypeOK
  <2> QED
    BY <1>0, <2>1 DEF OscarsKnown
<1>6. OscarCalls'
  BY <1>0 DEF OscarCalls
<1>7. CallHoldsEntry'
  <2> SUFFICES ASSUME NEW d \in Conns, pc[d] = "call", request[d] \in AfterLogin, d # c
               PROVE  user_id[d] # 0 /\ user_id[d] = Registered(d)'
    BY <1>0 DEF CallHoldsEntry
  <2>1. fd[d] # fd[c]
    BY <1>0 DEF OneOwner, Open
  <2>2. Registered(d)' = Registered(d)
    BY <1>0, <1>b, <2>1 DEF Registered, TypeOK
  <2> QED
    BY <2>2 DEF CallHoldsEntry
<1>8. EntriesAreOwned'
  <2> SUFFICES ASSUME release', NEW w \in Workers, NEW f \in Fds, userFdToId'[w][f] # 0
               PROVE  \E d \in Conns : /\ pc'[d] \notin {"new", "close", "closed"}
                                       /\ worker'[d] = w
                                       /\ fd'[d] = f
                                       /\ self'[d] = userFdToId'[w][f]
    BY DEF EntriesAreOwned
  <2>1. CASE Found /\ w = worker[c] /\ f = fd[c]
    BY <1>0, <1>b, <1>c, <2>1
  <2>2. CASE ~(Found /\ w = worker[c] /\ f = fd[c])
    <3>1. userFdToId'[w][f] = userFdToId[w][f]
      BY <1>b, <2>2
    <3>2. PICK d \in Conns : /\ pc[d] \notin {"new", "close", "closed"}
                             /\ worker[d] = w
                             /\ fd[d] = f
                             /\ self[d] = userFdToId[w][f]
      BY <1>0, <3>1 DEF EntriesAreOwned
    <3>3. self'[d] = self[d]
      BY <1>0, <2>2, <3>2
    <3> QED
      BY <1>0, <3>1, <3>2, <3>3
  <2> QED
    BY <2>1, <2>2
<1> QED
  BY <1>1, <1>2, <1>3, <1>4, <1>5, <1>6, <1>7, <1>8

\* A request is admitted with the entry of its connection.
LEMMA CheckLoginKeeps ==
    ASSUME Inductive, NEW c \in Conns, CheckLogin(c)
    PROVE  Inductive'
<1> USE TablesAlone
    DEF Inductive, CheckLogin, MayCall, Return, Goto, place, manager, fixed
<1>0. /\ pc[c] = "check"
      /\ \A d \in Conns : d # c => /\ pc'[d] = pc[d]
                                   /\ request'[d] = request[d]
                                   /\ name'[d] = name[d]
                                   /\ user_id'[d] = user_id[d]
      /\ \/ pc'[c] = "idle"
         \/ /\ pc'[c] = "call"
            /\ Registered(c) # 0
            /\ user_id'[c] = Registered(c)
            /\ request'[c] \in ForOscar => Registered(c) = special_id[worker[c]]
      /\ UNCHANGED <<fd, worker, userFdToId, special_id, release, self, session,
                     garbage, oscars>>
  BY DEF TypeOK
<1>a. worker[c] \in Workers /\ Registered(c) \in UserIds \union {0}
  BY DEF TypeOK, Registered
<1>1. TypeOK'
  <2>1. /\ pc' \in [Conns -> {"new", "idle", "erase", "reset", "close", "closed",
                              "query", "store", "check", "call"}]
        /\ request' \in [Conns -> Requests \union {"none"}]
        /\ name' \in [Conns -> Names]
        /\ user_id' \in [Conns -> UserIds \union {0, -1}]
    <3>1. CASE MayCall(c)
      BY <1>a, <3>1 DEF TypeOK
    <3>2. CASE ~MayCall(c)
      <4>1. Return(c)
        BY <3>2
      <4>2. Oscar \in Names
        OBVIOUS
      <4> QED
        BY <4>1, <4>2 DEF TypeOK
    <3> QED
      BY <3>1, <3>2
  <2> QED
    BY <1>0, <2>1 DEF TypeOK, TrackerInv
<1>2. OneOwner'
  BY <1>0 DEF OneOwner, Open
<1>3. IdsAreOld' /\ SessionsNameTheirUser' /\ OscarsKnown'
  BY <1>0 DEF IdsAreOld, SessionsNameTheirUser, OscarsKnown
<1>4. OscarCalls'
  <2>1. -1 \notin UserIds
    BY DEF UserIds
  <2> QED
    BY <1>0, <1>a, <2>1 DEF OscarCalls, OscarsKnown
<1>5. CallHoldsEntry'
  BY <1>0 DEF CallHoldsEntry, Registered
<1>6. EntriesAreOwned'
  <2> SUFFICES ASSUME release', NEW w \in Workers, NEW f \in Fds, userFdToId'[w][f] # 0
               PROVE  \E d \in Conns : /\ pc'[d] \notin {"new", "close", "closed"}
                                       /\ worker'[d] = w
                                       /\ fd'[d] = f
                                       /\ self'[d] = userFdToId'[w][f]
    BY DEF EntriesAreOwned
  <2>1. PICK d \in Conns : /\ pc[d] \notin {"new", "close", "closed"}
                           /\ worker[d] = w
                           /\ fd[d] = f
                           /\ self[d] = userFdToId[w][f]
    BY <1>0 DEF EntriesAreOwned
  <2> QED
    BY <1>0, <2>1
<1> QED
  BY <1>1, <1>2, <1>3, <1>4, <1>5, <1>6

-----------------------------------------------------------------------------
(* The theorems. *)

\* Nothing happens to the invariant when nothing happens.
LEMMA StutterKeeps ==
    ASSUME Inductive, UNCHANGED vars
    PROVE  Inductive'
<1> USE TablesAlone DEF Inductive, vars, place, locals, manager, fixed
<1>1. TypeOK' /\ OneOwner' /\ IdsAreOld' /\ SessionsNameTheirUser'
  BY DEF TypeOK, TrackerInv, OneOwner, Open, IdsAreOld, SessionsNameTheirUser
<1>2. OscarsKnown' /\ OscarCalls' /\ CallHoldsEntry' /\ EntriesAreOwned'
  BY DEF OscarsKnown, OscarCalls, CallHoldsEntry, Registered, EntriesAreOwned
<1> QED
  BY <1>1, <1>2

\* The invariant holds in every state of every behaviour.
THEOREM Invariance == Spec => []Inductive
<1>1. Inductive /\ [Next]_vars => Inductive'
  <2> SUFFICES ASSUME Inductive, Next
               PROVE  Inductive'
    BY StutterKeeps
  <2>1. PICK c \in Conns : Accept(c) \/ Hangup(c) \/ Serve(c)
    BY DEF Next
  <2>2. CASE Accept(c)
    BY <2>2, AcceptKeeps
  <2>3. CASE Hangup(c)
    BY <2>3, HangupsKeep, ErasesKeep DEF Hangup
  <2>4. CASE Serve(c)
    BY <2>4, RequestKeeps, LoginStoreKeeps, CheckLoginKeeps, HandlersKeep DEF Serve
  <2> QED
    BY <2>1, <2>2, <2>3, <2>4
<1> QED
  BY <1>1, InitInductive, PTL DEF Spec

\* The types of the sessions and of the tables.
THEOREM TypeCorrect == Spec => []TypeOK
<1>1. Inductive => TypeOK
  BY DEF Inductive
<1> QED
  BY <1>1, Invariance, PTL

\* No submission without its user and its problem, no type without its problem.
THEOREM TablesHaveNoOrphans == Spec => []NoOrphans
<1>1. Inductive => NoOrphans
  BY DEF Inductive, TrackerInv
<1> QED
  BY <1>1, Invariance, PTL

\* A session never becomes that of someone else by deleting and registering.
THEOREM SessionsKeepTheirUser == Spec => []SessionsNameTheirUser
<1>1. Inductive => SessionsNameTheirUser
  BY DEF Inductive
<1> QED
  BY <1>1, Invariance, PTL

\* Requests for Oscar are served for Oscar's sessions, uninitialised values apart.
THEOREM CallsForOscar == Spec => []OscarCalls
<1>1. Inductive => OscarCalls
  BY DEF Inductive
<1> QED
  BY <1>1, Invariance, PTL

\* With RELEASE defined, requests are served for who logged in on the connection.
THEOREM OwnLogin == Spec => []OwnLoginInRelease
<1>1. Inductive => OwnLoginInRelease
  <2> SUFFICES ASSUME Inductive, release, NEW c \in Conns, pc[c] = "call",
                      request[c] \in AfterLogin
               PROVE  user_id[c] = self[c]
    BY DEF OwnLoginInRelease, RequestsUnderOwnLogin
  <2>1. user_id[c] # 0 /\ user_id[c] = userFdToId[worker[c]][fd[c]]
    BY DEF Inductive, CallHoldsEntry, Registered
  <2>2. worker[c] \in Workers /\ fd[c] \in Fds
    BY DEF Inductive, TypeOK
  <2>3. PICK d \in Conns : /\ pc[d] \notin {"new", "close", "closed"}
                           /\ fd[d] = fd[c]
                           /\ self[d] = userFdToId[worker[c]][fd[c]]
    BY <2>1, <2>2 DEF Inductive, EntriesAreOwned
  <2>4. d = c
    BY <2>3 DEF Inductive, OneOwner, Open
  <2> QED
    BY <2>1, <2>3, <2>4
<1> QED
  BY <1>1, Invariance, PTL

\* What a step takes away of the submissions it takes away for the owner, or
\* with the problem or the user.
THEOREM SubmissionsKept == Spec => SubmissionsAreKept
<1> DEFINE Gone(s, c) ==
      /\ pc[c] = "call"
      /\ \/ /\ request[c] = "DELETE_SUBMITTED"
            /\ \E u \in users :
                  /\ u.id = s.users_id
                  /\ u.username = session[worker[c]][fd[c]]
         \/ /\ request[c] = "DELETE_PROBLEM"
            /\ \A p \in problems' : p.id # s.problem_id
         \/ /\ request[c] = "DELETE_USER"
            /\ \A u \in users' : u.id # s.users_id
<1>1. ASSUME Inductive, [Next]_vars
      PROVE  [\A s \in submissions \ submissions' : \E c \in Conns : Gone(s, c)]_vars
  <2> SUFFICES ASSUME Next, NEW s \in submissions, s \notin submissions'
               PROVE  \E c \in Conns : Gone(s, c)
    BY <1>1
  <2> USE <1>1 DEF Inductive, TrackerInv
  <2>1. PICK c \in Conns : Accept(c) \/ Hangup(c) \/ Serve(c)
    BY DEF Next
  <2>2. ~Accept(c) /\ ~Hangup(c)
    BY DEF Accept, Hangup, ActiveHangup, LoopHangup, EraseFd, EraseReset, Close, tables
  <2>3. \/ HandleDeleteSubmission(c)
        \/ HandleDeleteUser(c)
        \/ HandleDeleteProblem(c)
    BY <2>1, <2>2
       DEF Serve, HandleRequest, LoginQuery, LoginStore, CheckLogin,
           CallChangesNothing, HandleRegister, HandleInsertSubmission,
           HandleInsertProblem, HandleInsertProblemType, HandleDeleteProblemType,
           tables, catalogue, registerUser, InsertSubmitted, InsertProblem,
           InsertProblemType, DeleteProblemType
  <2>4. CASE HandleDeleteSubmission(c)
    <3>1. pc[c] = "call" /\ request[c] = "DELETE_SUBMITTED"
      BY <2>4 DEF HandleDeleteSubmission, Serves
    <3>2. PICK id \in 1..MaxSubmissions : DeleteSubmission(id, user_id[c])
      BY <2>4 DEF HandleDeleteSubmission
    <3>3. s.users_id = user_id[c]
      BY <3>2 DEF DeleteSubmission, UniqueKeys
    <3>4. PICK u \in users : u.id = s.users_id
      BY DEF NoOrphans
    <3>5. user_id[c] = userFdToId[worker[c]][fd[c]]
      BY <3>1 DEF CallHoldsEntry, Registered, AfterLogin
    <3>6. worker[c] \in Workers /\ fd[c] \in Fds
      BY DEF TypeOK
    <3>7. u.username = session[worker[c]][fd[c]]
      BY <3>3, <3>4, <3>5, <3>6 DEF SessionsNameTheirUser
    <3> QED
      BY <3>1, <3>4, <3>7
  <2>5. CASE HandleDeleteUser(c)
    <3>1. pc[c] = "call" /\ request[c] = "DELETE_USER"
      BY <2>5 DEF HandleDeleteUser, Serves
    <3>2. PICK n \in Names : deleteUser(n)
      BY <2>5 DEF HandleDeleteUser
    <3>3. PICK d \in users : d.username = n /\ getUserId(n) = d.id
      BY <3>2 DEF deleteUser, getUserId, UniqueKeys
    <3>4. s.users_id = d.id
      BY <3>2, <3>3 DEF deleteUser
    <3>5. \A u \in users' : u.id # s.users_id
      BY <3>2, <3>3, <3>4 DEF deleteUser, UniqueKeys
    <3> QED
      BY <3>1, <3>5
  <2>6. CASE HandleDeleteProblem(c)
    <3>1. pc[c] = "call" /\ request[c] = "DELETE_PROBLEM"
      BY <2>6 DEF HandleDeleteProblem, Serves
    <3>2. \A p \in problems' : p.id # s.problem_id
      BY <2>6 DEF HandleDeleteProblem, DeleteProblem
    <3> QED
      BY <3>1, <3>2
  <2> QED
    BY <2>3, <2>4, <2>5, <2>6
<1> QED
  BY <1>1, Invariance, PTL DEF Spec, SubmissionsAreKept
=============================================================================
