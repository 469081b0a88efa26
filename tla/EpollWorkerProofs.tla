------------------------- MODULE EpollWorkerProofs -------------------------
(***************************************************************************)
(* The safety of EpollWorker for any number of connections, fds, packages  *)
(* and pool threads.  Inductive holds initially and every action keeps it: *)
(* one lemma per action, <Action>Keeps, with a step for each conjunct the  *)
(* action can disturb and a last one for those whose variables it leaves   *)
(* alone.  The theorems at the end follow from Inductive.                  *)
(***************************************************************************)
EXTENDS EpollWorker, Lemmas, TLAPS

USE DEF kernel, client, infos, looper, pool, worker, dtor, table, sync

\* Most actions neither take nor pass on a request.
LEMMA NoRequestMoved ==
    ASSUME OneTaskPerConnection, UNCHANGED <<queue, exec, event>>
    PROVE  OneTaskPerConnection'
  BY DEF OneTaskPerConnection, Queued, Executing, HeldByLoop

\* The end of a task only takes a request away.
LEMMA TaskEndKeepsOneTask ==
    ASSUME OneTaskPerConnection, NEW w \in PoolWorkers,
           exec \in [PoolWorkers -> Tasks \union {None}],
           exec' = [exec EXCEPT ![w] = None], UNCHANGED <<queue, event>>
    PROVE  OneTaskPerConnection'
<1>1. \A v \in PoolWorkers : exec'[v] # None => exec'[v] = exec[v]
  OBVIOUS
<1>2. QED
  BY <1>1 DEF OneTaskPerConnection, Queued, Executing, HeldByLoop

\* The places the threads go to are places.
LEMMA Places ==
    /\ {"poll", "handle", "mark", "enqueue", "close", "del", "exited"} \subseteq LoopPlaces
    /\ {"idle", "lookup", "lock", "parse", "clear", "undefined"} \subseteq TaskPlaces
    /\ {"start", "need", "lock", "waiting", "read", "relock", "close", "del",
        "sleep", "done", "undefined"} \subseteq ActivePlaces
    /\ {"closing", "join", "visit", "check", "waiting", "destroyed"}
          \subseteq StopPlaces
  BY DEF LoopPlaces, TaskPlaces, ActivePlaces, StopPlaces

\* Send keeps the inductive invariant.
LEMMA SendKeeps ==
    ASSUME Inductive, NEW c \in Conns, NEW ok \in BOOLEAN, Send(c, ok)
    PROVE  Inductive'
<1> USE EpollWorkerAssumption, NoneIsNoTask DEF Inductive, Send
<1>1. TypeOK'
  <2>1. [number |-> sent[c] + 1, ok |-> ok] \in Packages
    BY DEF Packages, TypeOK
  <2>2. inbox' \in [Conns -> Seq(Packages)]
    BY <2>1, AppendElements DEF TypeOK
  <2>3. sent' \in [Conns -> 0..MaxSend]
    BY DEF TypeOK
  <2>4. QED
    BY SMTT(30), <2>2, <2>3 DEF TypeOK, Pool!TypeOK
<1>2. BatchIsFresh'
  BY AppendElements, TailElements DEF BatchIsFresh, ReadResult, TypeOK,
       EntriesMatchSockets, LoopHolds
<1>3. ActiveFindsWork'
  BY SMTT(30), AppendElements, TailElements DEF ActiveFindsWork, ReadResult, TypeOK,
       ActiveHolds, EntriesMatchSockets
<1>4. (EntriesMatchSockets /\ LoopHolds /\ ActiveHolds
         /\ WorkersHold /\ OneTaskPerConnection /\ TaskMeetsItsConnection)'
  BY DEF EntriesMatchSockets, LoopHolds, ActiveHolds, WorkersHold,
         OneTaskPerConnection, TaskMeetsItsConnection, Queued, Executing,
         HeldByLoop
<1>5. QED
  BY <1>1, <1>2, <1>3, <1>4

\* Hangup keeps the inductive invariant.
LEMMA HangupKeeps ==
    ASSUME Inductive, NEW c \in Conns, NEW reset \in BOOLEAN, Hangup(c, reset)
    PROVE  Inductive'
<1> USE EpollWorkerAssumption, NoneIsNoTask DEF Inductive, Hangup
<1>1. TypeOK'
  BY Places DEF TypeOK, Pool!TypeOK
<1>2. BatchIsFresh'
  BY SMTT(30) DEF BatchIsFresh, ReadResult, TypeOK, EntriesMatchSockets, LoopHolds
<1>3. ActiveFindsWork'
  BY DEF ActiveFindsWork, ReadResult, TypeOK, ActiveHolds, EntriesMatchSockets
<1>4. (EntriesMatchSockets /\ LoopHolds /\ ActiveHolds
         /\ WorkersHold /\ OneTaskPerConnection /\ TaskMeetsItsConnection)'
  BY DEF EntriesMatchSockets, LoopHolds, ActiveHolds, WorkersHold,
         OneTaskPerConnection, TaskMeetsItsConnection, Queued, Executing,
         HeldByLoop
<1>5. QED
  BY <1>1, <1>2, <1>3, <1>4

\* AddFdRegister keeps the inductive invariant.
LEMMA AddFdRegisterKeeps ==
    ASSUME Inductive, NEW c \in Conns, NEW f \in Fds, AddFdRegister(c, f)
    PROVE  Inductive'
<1> USE EpollWorkerAssumption, NoneIsNoTask DEF Inductive, AddFdRegister
<1>1. TypeOK'
  BY Places DEF TypeOK, Pool!TypeOK
<1>2. EntriesMatchSockets'
  BY DEF EntriesMatchSockets, TypeOK
<1>3. ActiveHolds'
  <2>1. \A d \in Conns : fdof[d] # None /\ fd_infos[fdof[d]] = d => d # c
    BY DEF EntriesMatchSockets, TypeOK
  <2>2. QED
    BY <2>1 DEF ActiveHolds, TypeOK
<1>4. BatchIsFresh'
  <2>1. fd_infos[f] = None
    BY DEF EntriesMatchSockets
  <2>2. \A g \in Fds : g # f => ReadResult(g)' = ReadResult(g)
    BY DEF ReadResult, TypeOK
  <2>3. sock'[f] = c
    BY DEF TypeOK
  <2>4. QED
    BY <2>1, <2>2, <2>3 DEF BatchIsFresh, TypeOK
<1>5. ActiveFindsWork'
  <2>1. fd_infos[f] = None
    BY DEF EntriesMatchSockets
  <2>2. \A g \in Fds : g # f => ReadResult(g)' = ReadResult(g)
    BY DEF ReadResult, TypeOK
  <2>3. \A d \in Conns : fdof[d] # None /\ fd_infos[fdof[d]] = d =>
                            d # c /\ fdof[d] # f
    BY <2>1 DEF EntriesMatchSockets, TypeOK
  <2>4. QED
    BY <2>2, <2>3 DEF ActiveFindsWork, ActiveHolds, TypeOK
<1>6. (LoopHolds /\ WorkersHold
         /\ OneTaskPerConnection /\ TaskMeetsItsConnection)'
  BY DEF LoopHolds, WorkersHold, OneTaskPerConnection,
         TaskMeetsItsConnection, Queued, Executing, HeldByLoop
<1>7. QED
  BY <1>1, <1>2, <1>3, <1>4, <1>5, <1>6

\* AddFdInfo keeps the inductive invariant.
LEMMA AddFdInfoKeeps ==
    ASSUME Inductive, AddFdInfo
    PROVE  Inductive'
<1> USE EpollWorkerAssumption, NoneIsNoTask DEF Inductive, AddFdInfo
<1>1. TypeOK'
  BY Places DEF TypeOK, Pool!TypeOK
<1>2. EntriesMatchSockets'
  BY DEF EntriesMatchSockets, TypeOK
<1>3. LoopHolds'
  BY DEF LoopHolds, TypeOK, EntriesMatchSockets
<1>4. ActiveHolds'
  <2>1. \A d \in Conns : fdof[d] # None /\ fd_infos[fdof[d]] = d =>
                            fdof[d] # adding
    BY DEF EntriesMatchSockets, TypeOK
  <2>2. QED
    BY <2>1 DEF ActiveHolds, TypeOK
<1>5. TaskMeetsItsConnection'
  <2>1. fd_infos[adding] = None
    BY DEF EntriesMatchSockets, TypeOK
  <2>2. \A t \in Tasks : fd_infos[t.fd] = t.from => fd_infos'[t.fd] = t.from
    BY <2>1 DEF Tasks, TypeOK
  <2>3. /\ \A i \in DOMAIN queue : queue[i] \in Tasks
        /\ \A w \in PoolWorkers : exec[w] # None => exec[w] \in Tasks
    BY DEF TypeOK, Pool!TypeOK
  <2>4. QED
    BY <2>2, <2>3 DEF TaskMeetsItsConnection
<1>6. BatchIsFresh'
  BY SMTT(30) DEF BatchIsFresh, ReadResult, TypeOK, EntriesMatchSockets, LoopHolds
<1>7. (WorkersHold /\ OneTaskPerConnection /\ ActiveFindsWork)'
  BY DEF WorkersHold, OneTaskPerConnection, ActiveFindsWork, Queued,
         Executing, HeldByLoop, ReadResult
<1>8. QED
  BY <1>1, <1>2, <1>3, <1>4, <1>5, <1>6, <1>7

\* EpollWait keeps the inductive invariant.
LEMMA EpollWaitKeeps ==
    ASSUME Inductive, EpollWait
    PROVE  Inductive'
<1> USE EpollWorkerAssumption, NoneIsNoTask DEF Inductive, EpollWait, Ready,
     Readable
<1>1. TypeOK'
  BY Places DEF TypeOK, Pool!TypeOK
<1>2. BatchIsFresh'
  BY DEF BatchIsFresh, ReadResult, TypeOK, EntriesMatchSockets, LoopHolds
<1>3. (EntriesMatchSockets /\ LoopHolds /\ ActiveHolds /\ WorkersHold
         /\ OneTaskPerConnection /\ TaskMeetsItsConnection /\ ActiveFindsWork)'
  BY DEF EntriesMatchSockets, LoopHolds, ActiveHolds, WorkersHold,
         OneTaskPerConnection, TaskMeetsItsConnection, ActiveFindsWork,
         Queued, Executing, HeldByLoop, ReadResult
<1>4. QED
  BY <1>1, <1>2, <1>3

\* LoopEnds keeps the inductive invariant.
LEMMA LoopEndsKeeps ==
    ASSUME Inductive, LoopEnds
    PROVE  Inductive'
<1> USE EpollWorkerAssumption, NoneIsNoTask DEF Inductive, LoopEnds
<1>1. TypeOK'
  BY Places DEF TypeOK, Pool!TypeOK
<1>2. (EntriesMatchSockets /\ LoopHolds /\ ActiveHolds /\ WorkersHold
         /\ OneTaskPerConnection /\ TaskMeetsItsConnection /\ BatchIsFresh /\ ActiveFindsWork)'
  BY DEF EntriesMatchSockets, LoopHolds, ActiveHolds, WorkersHold,
         OneTaskPerConnection, TaskMeetsItsConnection, BatchIsFresh,
         ActiveFindsWork, Queued, Executing, HeldByLoop, ReadResult
<1>3. QED
  BY <1>1, <1>2

\* DrainEnds keeps the inductive invariant.
LEMMA DrainEndsKeeps ==
    ASSUME Inductive, DrainEnds
    PROVE  Inductive'
<1> USE EpollWorkerAssumption, NoneIsNoTask DEF Inductive, DrainEnds
<1>1. TypeOK'
  BY Places DEF TypeOK, Pool!TypeOK
<1>2. LoopHolds'
  BY DEF LoopHolds, TypeOK, EntriesMatchSockets
<1>3. BatchIsFresh'
  BY DEF BatchIsFresh, ReadResult, TypeOK, EntriesMatchSockets, LoopHolds
<1>4. (EntriesMatchSockets /\ ActiveHolds /\ WorkersHold
         /\ OneTaskPerConnection /\ TaskMeetsItsConnection /\ ActiveFindsWork)'
  BY DEF EntriesMatchSockets, ActiveHolds, WorkersHold, OneTaskPerConnection,
         TaskMeetsItsConnection, ActiveFindsWork, Queued, Executing,
         HeldByLoop, ReadResult
<1>5. QED
  BY <1>1, <1>2, <1>3, <1>4

\* DispatchUnknown keeps the inductive invariant.
LEMMA DispatchUnknownKeeps ==
    ASSUME Inductive, NEW f \in Fds, DispatchUnknown(f)
    PROVE  Inductive'
<1> USE EpollWorkerAssumption, NoneIsNoTask DEF Inductive, DispatchUnknown,
     Dispatch
<1>1. TypeOK'
  BY Places DEF TypeOK, Pool!TypeOK
<1>2. BatchIsFresh'
  BY DEF BatchIsFresh, ReadResult, TypeOK, EntriesMatchSockets, LoopHolds
<1>3. (EntriesMatchSockets /\ LoopHolds /\ ActiveHolds /\ WorkersHold
         /\ OneTaskPerConnection /\ TaskMeetsItsConnection /\ ActiveFindsWork)'
  BY DEF EntriesMatchSockets, LoopHolds, ActiveHolds, WorkersHold,
         OneTaskPerConnection, TaskMeetsItsConnection, ActiveFindsWork,
         Queued, Executing, HeldByLoop, ReadResult
<1>4. QED
  BY <1>1, <1>2, <1>3

\* DispatchToActive keeps the inductive invariant.
LEMMA DispatchToActiveKeeps ==
    ASSUME Inductive, NEW f \in Fds, DispatchToActive(f)
    PROVE  Inductive'
<1> USE EpollWorkerAssumption, NoneIsNoTask DEF Inductive, DispatchToActive,
     Dispatch
<1>1. TypeOK'
  BY Places DEF TypeOK, Pool!TypeOK
<1>2. BatchIsFresh'
  BY DEF BatchIsFresh, ReadResult, TypeOK, EntriesMatchSockets, LoopHolds
<1>3. (EntriesMatchSockets /\ LoopHolds /\ ActiveHolds /\ WorkersHold
         /\ OneTaskPerConnection /\ TaskMeetsItsConnection /\ ActiveFindsWork)'
  BY DEF EntriesMatchSockets, LoopHolds, ActiveHolds, WorkersHold,
         OneTaskPerConnection, TaskMeetsItsConnection, ActiveFindsWork,
         Queued, Executing, HeldByLoop, ReadResult
<1>4. QED
  BY <1>1, <1>2, <1>3

\* DispatchSpawn keeps the inductive invariant.
LEMMA DispatchSpawnKeeps ==
    ASSUME Inductive, NEW f \in Fds, DispatchSpawn(f)
    PROVE  Inductive'
<1> USE EpollWorkerAssumption, NoneIsNoTask DEF Inductive, DispatchSpawn,
     Dispatch
<1>1. TypeOK'
  BY Places DEF TypeOK, Pool!TypeOK
<1>2. LoopHolds'
  BY DEF LoopHolds, TypeOK, EntriesMatchSockets
<1>3. ActiveHolds'
  <2>1. /\ fd_infos[f] \in Conns
        /\ fdof[fd_infos[f]] = f
    BY DEF EntriesMatchSockets, TypeOK
  <2>2. apc[fd_infos[f]] = "none"
    BY <2>1 DEF ActiveHolds
  <2>3. QED
    BY <2>1, <2>2 DEF ActiveHolds, TypeOK
<1>4. BatchIsFresh'
  BY DEF BatchIsFresh, ReadResult, TypeOK, EntriesMatchSockets, LoopHolds
<1>5. ActiveFindsWork'
  <2>1. /\ fd_infos[f] \in Conns
        /\ fdof[fd_infos[f]] = f
    BY DEF EntriesMatchSockets, TypeOK
  <2>2. ReadResult(f) # "again"
    BY DEF BatchIsFresh
  <2>3. \A g \in Fds : ReadResult(g)' = ReadResult(g)
    BY DEF ReadResult
  <2>4. QED
    BY <2>1, <2>2, <2>3 DEF ActiveFindsWork, ActiveHolds, TypeOK
<1>6. (EntriesMatchSockets /\ WorkersHold
         /\ OneTaskPerConnection /\ TaskMeetsItsConnection)'
  BY DEF EntriesMatchSockets, WorkersHold, OneTaskPerConnection,
         TaskMeetsItsConnection, Queued, Executing, HeldByLoop
<1>7. QED
  BY <1>1, <1>2, <1>3, <1>4, <1>5, <1>6

\* DispatchHandle keeps the inductive invariant.
LEMMA DispatchHandleKeeps ==
    ASSUME Inductive, NEW f \in Fds, DispatchHandle(f)
    PROVE  Inductive'
<1> USE EpollWorkerAssumption, NoneIsNoTask DEF Inductive, DispatchHandle,
     HandOver, Dispatch
<1>1. TypeOK'
  BY Places DEF TypeOK, Pool!TypeOK
<1>2. LoopHolds'
  BY DEF LoopHolds, TypeOK, EntriesMatchSockets
<1>3. BatchIsFresh'
  BY DEF BatchIsFresh, ReadResult, TypeOK, EntriesMatchSockets, LoopHolds
<1>4. (EntriesMatchSockets /\ ActiveHolds /\ WorkersHold
         /\ OneTaskPerConnection /\ TaskMeetsItsConnection /\ ActiveFindsWork)'
  BY DEF EntriesMatchSockets, ActiveHolds, WorkersHold, OneTaskPerConnection,
         TaskMeetsItsConnection, ActiveFindsWork, Queued, Executing,
         HeldByLoop, ReadResult
<1>5. QED
  BY <1>1, <1>2, <1>3, <1>4

\* HandleRead keeps the inductive invariant.
LEMMA HandleReadKeeps ==
    ASSUME Inductive, HandleRead
    PROVE  Inductive'
<1> DEFINE c == fd_infos[cur]
<1> USE EpollWorkerAssumption, NoneIsNoTask DEF Inductive, HandleRead
<1>1. /\ cur \in Fds
      /\ c \in Conns
      /\ ~thread_running[c]
      /\ ~fd_inthreadpool[c]
      /\ sock[cur] \in {None, c}
      /\ fdof[c] = cur
      /\ event = None
  BY DEF LoopHolds, EntriesMatchSockets, TypeOK
<1>2. CASE ReadResult(cur) = "again"
  <2>1. HandleReturns /\ UNCHANGED <<event, inbox>>
    BY <1>2
  <2>2. TypeOK'
    BY <2>1, Places DEF HandleReturns, TypeOK, Pool!TypeOK
  <2>3. OneTaskPerConnection'
    BY <2>1, NoRequestMoved
  <2>4. \A g \in Fds : ReadResult(g)' = ReadResult(g)
    BY <2>1 DEF ReadResult
  <2>5. (EntriesMatchSockets /\ LoopHolds /\ ActiveHolds /\ WorkersHold)'
    BY <1>1, <2>1 DEF HandleReturns, EntriesMatchSockets, LoopHolds,
                      ActiveHolds, WorkersHold
  <2>6. (TaskMeetsItsConnection /\ BatchIsFresh /\ ActiveFindsWork)'
    BY <1>1, <2>1, <2>4
       DEF HandleReturns, TaskMeetsItsConnection, BatchIsFresh, ActiveFindsWork,
           ActiveHolds, TypeOK
  <2>7. QED
    BY <2>2, <2>3, <2>5, <2>6
<1>3. CASE ReadResult(cur) # "again" /\ ReadResult(cur) # "data"
  <2>1. /\ info' = c
        /\ lpc' = "close"
        /\ UNCHANGED <<cur, event, inbox>>
    BY <1>1, <1>3
  <2>2. TypeOK'
    BY <1>1, <2>1, Places DEF TypeOK, Pool!TypeOK
  <2>3. OneTaskPerConnection'
    BY <2>1, NoRequestMoved
  <2>4. \A g \in Fds : ReadResult(g)' = ReadResult(g)
    BY <2>1 DEF ReadResult
  <2>5. (EntriesMatchSockets /\ LoopHolds /\ ActiveHolds /\ WorkersHold)'
    BY <1>1, <2>1 DEF EntriesMatchSockets, LoopHolds, ActiveHolds, WorkersHold
  <2>6. (TaskMeetsItsConnection /\ BatchIsFresh /\ ActiveFindsWork)'
    BY <1>1, <2>1, <2>4
       DEF TaskMeetsItsConnection, BatchIsFresh, ActiveFindsWork, ActiveHolds,
           TypeOK
  <2>7. QED
    BY <2>2, <2>3, <2>5, <2>6
<1>4. CASE ReadResult(cur) = "data"
  <2>1. /\ info' = c
        /\ lpc' = "mark"
        /\ event' = TaskRead(cur)
        /\ inbox' = [inbox EXCEPT ![sock[cur]] = <<>>]
        /\ UNCHANGED cur
    BY <1>1, <1>4
  <2>2. sock[cur] = c /\ inbox[c] # <<>>
    BY <1>1, <1>4 DEF ReadResult
  <2>3. event' \in Tasks /\ event'.fd = cur /\ event'.from = c
    <3>1. Head(inbox[c]) \in Packages
      BY <1>1, <2>2, TailElements DEF TypeOK
    <3>2. QED
      BY <1>1, <2>1, <2>2, <3>1 DEF TaskRead, Tasks
  <2>4. TypeOK'
    <3>1. inbox' \in [Conns -> Seq(Packages)]
      BY <1>1, <2>1, <2>2 DEF TypeOK
    <3>2. QED
      BY <1>1, <2>1, <2>3, <3>1, Places DEF TypeOK, Pool!TypeOK
  <2>5. OneTaskPerConnection'
    <3>1. Queued(c) = {} /\ Executing(c) = {}
      BY <1>1 DEF TaskMeetsItsConnection, Queued, Executing
    <3>2. QED
      BY <1>1, <2>3, <3>1
         DEF OneTaskPerConnection, Queued, Executing, HeldByLoop
  <2>6. \A g \in Fds : g # cur => ReadResult(g)' = ReadResult(g)
    BY <1>1, <2>1, <2>2 DEF ReadResult, EntriesMatchSockets, TypeOK
  <2>7. (EntriesMatchSockets /\ ActiveHolds /\ WorkersHold)'
    BY <1>1, <2>1 DEF EntriesMatchSockets, ActiveHolds, WorkersHold
  <2>8. LoopHolds'
    BY <1>1, <2>1, <2>3 DEF LoopHolds
  <2>9. (TaskMeetsItsConnection /\ BatchIsFresh)'
    BY <1>1, <2>1, <2>6 DEF TaskMeetsItsConnection, BatchIsFresh, TypeOK
  <2>10. ActiveFindsWork'
    <3>1. \A d \in Conns :
             apc[d] \in {"start", "need", "lock", "waiting", "read"} =>
                fdof[d] # None /\ fdof[d] # cur
      BY <1>1 DEF ActiveHolds
    <3>2. QED
      BY <1>1, <2>1, <2>6, <3>1 DEF ActiveFindsWork, TypeOK
  <2>11. QED
    BY <2>4, <2>5, <2>7, <2>8, <2>9, <2>10
<1>5. QED
  BY <1>2, <1>3, <1>4

\* HandleMark keeps the inductive invariant.
LEMMA HandleMarkKeeps ==
    ASSUME Inductive, HandleMark
    PROVE  Inductive'
<1> USE EpollWorkerAssumption, NoneIsNoTask DEF Inductive, HandleMark
<1>1. TypeOK'
  BY ZenonT(40), Places DEF TypeOK, Pool!TypeOK
<1>2. LoopHolds'
  BY DEF LoopHolds, TypeOK, EntriesMatchSockets
<1>3. ActiveHolds'
  BY DEF ActiveHolds, TypeOK, LoopHolds
<1>4. TaskMeetsItsConnection'
  BY DEF TaskMeetsItsConnection, TypeOK, Pool!TypeOK, WorkersHold, LoopHolds,
       ActiveHolds
<1>5. BatchIsFresh'
  BY DEF BatchIsFresh, ReadResult, TypeOK, EntriesMatchSockets, LoopHolds
<1>6. (EntriesMatchSockets /\ WorkersHold
         /\ OneTaskPerConnection /\ ActiveFindsWork)'
  BY DEF EntriesMatchSockets, WorkersHold, OneTaskPerConnection,
         ActiveFindsWork, Queued, Executing, HeldByLoop, ReadResult
<1>7. QED
  BY <1>1, <1>2, <1>3, <1>4, <1>5, <1>6

\* HandleEnqueue keeps the inductive invariant.
LEMMA HandleEnqueueKeeps ==
    ASSUME Inductive, HandleEnqueue
    PROVE  Inductive'
<1> USE EpollWorkerAssumption, NoneIsNoTask DEF Inductive, HandleEnqueue,
     HandleReturns, Pool!Submit
<1>1. TypeOK'
  <2>1. queue' \in Seq(Tasks)
    BY AppendElements DEF LoopHolds, TypeOK, Pool!TypeOK
  <2>2. QED
    BY <2>1, Places DEF TypeOK, Pool!TypeOK
<1>2. LoopHolds'
  BY DEF LoopHolds, TypeOK, EntriesMatchSockets
<1>3. WorkersHold'
  BY DEF WorkersHold, TypeOK
<1>4. OneTaskPerConnection'
  <2>1. event \in Tasks /\ queue \in Seq(Tasks)
    BY DEF LoopHolds, TypeOK, Pool!TypeOK
  <2>2. \A c \in Conns :
          Queued(c)' = IF c = event.from THEN Queued(c) \union {Len(queue) + 1}
                                         ELSE Queued(c)
    BY <2>1, AppendElements DEF Queued
  <2>3. \A c \in Conns : Executing(c)' = Executing(c)
    BY DEF Executing
  <2>4. QED
    BY <2>1, <2>2, <2>3 DEF OneTaskPerConnection, HeldByLoop
<1>5. TaskMeetsItsConnection'
  BY AppendElements, TailElements DEF TaskMeetsItsConnection, TypeOK,
       Pool!TypeOK, WorkersHold, LoopHolds, ActiveHolds
<1>6. BatchIsFresh'
  BY AppendElements, TailElements DEF BatchIsFresh, ReadResult, TypeOK,
       EntriesMatchSockets, LoopHolds
<1>7. (EntriesMatchSockets /\ ActiveHolds /\ ActiveFindsWork)'
  BY DEF EntriesMatchSockets, ActiveHolds, ActiveFindsWork, ReadResult
<1>8. QED
  BY <1>1, <1>2, <1>3, <1>4, <1>5, <1>6, <1>7

\* HandleClose keeps the inductive invariant.
LEMMA HandleCloseKeeps ==
    ASSUME Inductive, HandleClose
    PROVE  Inductive'
<1> USE EpollWorkerAssumption, NoneIsNoTask DEF Inductive, HandleClose, CloseFd
<1>1. TypeOK'
  BY Places DEF TypeOK, Pool!TypeOK
<1>2. EntriesMatchSockets'
  <2>1. cur \in Fds /\ fd_infos[cur] # None
    BY DEF LoopHolds, TypeOK
  <2>2. QED
    BY <2>1 DEF EntriesMatchSockets, TypeOK
<1>3. LoopHolds'
  BY DEF LoopHolds, TypeOK, EntriesMatchSockets
<1>4. ActiveHolds'
  BY DEF ActiveHolds, TypeOK, LoopHolds
<1>5. TaskMeetsItsConnection'
  BY DEF TaskMeetsItsConnection, TypeOK, Pool!TypeOK, WorkersHold, LoopHolds,
       ActiveHolds
<1>6. BatchIsFresh'
  BY DEF BatchIsFresh, ReadResult, TypeOK, EntriesMatchSockets, LoopHolds
<1>7. ActiveFindsWork'
  BY DEF ActiveFindsWork, ReadResult, TypeOK, ActiveHolds, EntriesMatchSockets
<1>8. (WorkersHold /\ OneTaskPerConnection)'
  BY DEF WorkersHold, OneTaskPerConnection, Queued, Executing, HeldByLoop
<1>9. QED
  BY <1>1, <1>2, <1>3, <1>4, <1>5, <1>6, <1>7, <1>8

\* HandleDel keeps the inductive invariant.
LEMMA HandleDelKeeps ==
    ASSUME Inductive, HandleDel
    PROVE  Inductive'
<1> USE EpollWorkerAssumption, NoneIsNoTask DEF Inductive, HandleDel, DelFd,
     HandleReturns
<1>1. TypeOK'
  BY Places DEF TypeOK, Pool!TypeOK
<1>2. LoopHolds'
  BY DEF LoopHolds, TypeOK, EntriesMatchSockets
<1>3. BatchIsFresh'
  BY DEF BatchIsFresh, ReadResult, TypeOK, EntriesMatchSockets, LoopHolds
<1>4. (EntriesMatchSockets /\ ActiveHolds /\ WorkersHold
         /\ OneTaskPerConnection /\ TaskMeetsItsConnection /\ ActiveFindsWork)'
  BY DEF EntriesMatchSockets, ActiveHolds, WorkersHold, OneTaskPerConnection,
         TaskMeetsItsConnection, ActiveFindsWork, Queued, Executing,
         HeldByLoop, ReadResult
<1>5. QED
  BY <1>1, <1>2, <1>3, <1>4

\* TaskStart keeps the inductive invariant.
LEMMA TaskStartKeeps ==
    ASSUME Inductive, NEW w \in PoolWorkers, TaskStart(w)
    PROVE  Inductive'
<1> DEFINE t == Head(queue)
<1> USE EpollWorkerAssumption, NoneIsNoTask
    DEF Inductive, TaskStart, Pool!Start
<1>1. /\ queue \in Seq(Tasks)
      /\ queue # <<>>
      /\ exec \in [PoolWorkers -> Tasks \union {None}]
      /\ exec[w] = None
  BY DEF TypeOK, Pool!TypeOK
<1>2. /\ t \in Tasks
      /\ t = queue[1]
      /\ 1 \in DOMAIN queue
      /\ queue' \in Seq(Tasks)
  BY <1>1, TailElements
<1>3. \A i \in DOMAIN queue' : /\ i + 1 \in DOMAIN queue
                                /\ i + 1 # 1
                                /\ queue'[i] = queue[i + 1]
                                /\ i \in Nat
  BY <1>1, TailElements
<1>4. TypeOK'
  BY <1>1, <1>2, Places DEF TypeOK, Pool!TypeOK
<1>5. WorkersHold'
  <2>1. exec'[w] # None /\ wpc'[w] = "lookup" /\ winfo[w] = None
    BY <1>1, <1>2 DEF WorkersHold, TypeOK
  <2>2. \A v \in PoolWorkers : v # w => wpc'[v] = wpc[v] /\ exec'[v] = exec[v]
    BY <1>1 DEF TypeOK
  <2>3. QED
    BY <2>1, <2>2 DEF WorkersHold
<1>6. OneTaskPerConnection'
  <2> SUFFICES ASSUME NEW c \in Conns
               PROVE  /\ \A i, j \in Queued(c)' : i = j
                      /\ \A u, v \in Executing(c)' : u = v
                      /\ Queued(c)' = {} \/ Executing(c)' = {}
                      /\ HeldByLoop(c)' => Queued(c)' = {} /\ Executing(c)' = {}
    BY DEF OneTaskPerConnection
  <2>1. HeldByLoop(c)' <=> HeldByLoop(c)
    BY DEF HeldByLoop
  <2>2. \A i \in Queued(c)' : i + 1 \in Queued(c) /\ i \in Nat /\ i + 1 # 1
    BY <1>3 DEF Queued
  <2>3. CASE c = t.from
    <3>1. 1 \in Queued(c)
      BY <1>2, <2>3 DEF Queued
    <3>2. Queued(c)' = {}
      BY <2>2, <3>1 DEF OneTaskPerConnection
    <3>3. Executing(c)' = {w}
      BY <1>1, <1>2, <2>3, <3>1 DEF OneTaskPerConnection, Executing
    <3>4. QED
      BY <2>1, <3>1, <3>2, <3>3 DEF OneTaskPerConnection
  <2>4. CASE c # t.from
    <3>1. Executing(c)' = Executing(c)
      BY <1>1, <2>4 DEF Executing
    <3>2. \A i, j \in Queued(c)' : i = j
      <4>1. \A i, j \in Queued(c)' : i + 1 = j + 1
        BY <2>2 DEF OneTaskPerConnection
      <4>2. QED
        BY <2>2, <4>1
    <3>3. Queued(c) = {} => Queued(c)' = {}
      BY <2>2
    <3>4. QED
      BY <2>1, <3>1, <3>2, <3>3 DEF OneTaskPerConnection
  <2>5. QED
    BY <2>3, <2>4
<1>7. TaskMeetsItsConnection'
  <2>1. winfo[w] = None
    BY <1>1 DEF WorkersHold
  <2>2. fd_inthreadpool[t.from] /\ fd_infos[t.fd] = t.from
    BY <1>2 DEF TaskMeetsItsConnection
  <2>3. QED
    BY <1>1, <1>2, <1>3, <2>1, <2>2 DEF TaskMeetsItsConnection
<1>8. (EntriesMatchSockets /\ LoopHolds /\ ActiveHolds)'
  BY DEF EntriesMatchSockets, LoopHolds, ActiveHolds
<1>9. (BatchIsFresh /\ ActiveFindsWork)'
  BY DEF BatchIsFresh, ActiveFindsWork, ReadResult
<1>10. QED
  BY <1>4, <1>5, <1>6, <1>7, <1>8, <1>9

\* TaskUndefined keeps the inductive invariant.
LEMMA TaskUndefinedKeeps ==
    ASSUME Inductive, NEW w \in PoolWorkers, TaskUndefined(w)
    PROVE  Inductive'
<1> USE EpollWorkerAssumption, NoneIsNoTask DEF Inductive, TaskUndefined
<1>1. TypeOK'
  BY Places DEF TypeOK, Pool!TypeOK
<1>2. WorkersHold'
  BY DEF WorkersHold, TypeOK
<1>3. (EntriesMatchSockets /\ LoopHolds /\ ActiveHolds /\ OneTaskPerConnection
         /\ TaskMeetsItsConnection /\ BatchIsFresh /\ ActiveFindsWork)'
  BY DEF EntriesMatchSockets, LoopHolds, ActiveHolds, OneTaskPerConnection,
         TaskMeetsItsConnection, BatchIsFresh, ActiveFindsWork, Queued,
         Executing, HeldByLoop, ReadResult
<1>4. QED
  BY <1>1, <1>2, <1>3

\* TaskLookup keeps the inductive invariant.
LEMMA TaskLookupKeeps ==
    ASSUME Inductive, NEW w \in PoolWorkers, TaskLookup(w)
    PROVE  Inductive'
<1> USE EpollWorkerAssumption, NoneIsNoTask DEF Inductive, TaskLookup
<1>1. exec[w] \in Tasks /\ exec[w].from \in Conns
  BY DEF WorkersHold, TypeOK, Pool!TypeOK, Tasks
<1>2. fd_infos[exec[w].fd] = exec[w].from
  BY <1>1 DEF TaskMeetsItsConnection
<1>3. /\ winfo' = [winfo EXCEPT ![w] = exec[w].from]
      /\ wpc' = [wpc EXCEPT ![w] = "lock"]
      /\ UNCHANGED pool
  BY <1>1, <1>2
<1>4. TypeOK'
  BY SMTT(30), <1>1, <1>3, Places DEF TypeOK, Pool!TypeOK
<1>5. WorkersHold'
  BY <1>1, <1>3 DEF WorkersHold, TypeOK
<1>6. OneTaskPerConnection'
  BY <1>3, NoRequestMoved
<1>7. TaskMeetsItsConnection'
  BY SMTT(30), <1>1, <1>3 DEF TaskMeetsItsConnection, TypeOK
<1>8. (EntriesMatchSockets /\ LoopHolds /\ ActiveHolds)'
  BY DEF EntriesMatchSockets, LoopHolds, ActiveHolds
<1>9. (BatchIsFresh /\ ActiveFindsWork)'
  BY DEF BatchIsFresh, ActiveFindsWork, ReadResult
<1>10. QED
  BY <1>4, <1>5, <1>6, <1>7, <1>8, <1>9

\* TaskLock keeps the inductive invariant.
LEMMA TaskLockKeeps ==
    ASSUME Inductive, NEW w \in PoolWorkers, TaskLock(w)
    PROVE  Inductive'
<1> USE EpollWorkerAssumption, NoneIsNoTask DEF Inductive, TaskLock
<1>1. TypeOK'
  BY ZenonT(40), Places DEF TypeOK, Pool!TypeOK
<1>2. WorkersHold'
  BY DEF WorkersHold, TypeOK
<1>3. (EntriesMatchSockets /\ LoopHolds /\ ActiveHolds /\ OneTaskPerConnection
         /\ TaskMeetsItsConnection /\ BatchIsFresh /\ ActiveFindsWork)'
  BY DEF EntriesMatchSockets, LoopHolds, ActiveHolds, OneTaskPerConnection,
         TaskMeetsItsConnection, BatchIsFresh, ActiveFindsWork, Queued,
         Executing, HeldByLoop, ReadResult
<1>4. QED
  BY <1>1, <1>2, <1>3

\* TaskFails keeps the inductive invariant.
LEMMA TaskFailsKeeps ==
    ASSUME Inductive, NEW w \in PoolWorkers, TaskFails(w)
    PROVE  Inductive'
<1> USE EpollWorkerAssumption, NoneIsNoTask DEF Inductive, TaskFails,
     TaskReturn, Pool!Finish
<1>1. TypeOK'
  BY ZenonT(40), Places DEF TypeOK, Pool!TypeOK
<1>2. WorkersHold'
  <2>1. exec'[w] = None /\ wpc'[w] = "idle" /\ winfo'[w] = None
    BY DEF TypeOK, Pool!TypeOK
  <2>2. \A v \in PoolWorkers : v # w => /\ wpc'[v] = wpc[v]
                                         /\ exec'[v] = exec[v]
                                         /\ winfo'[v] = winfo[v]
    BY DEF TypeOK, Pool!TypeOK
  <2>3. QED
    BY <2>1, <2>2 DEF WorkersHold
<1>3. OneTaskPerConnection'
  BY TaskEndKeepsOneTask DEF TypeOK, Pool!TypeOK
<1>4. TaskMeetsItsConnection'
  BY DEF TaskMeetsItsConnection, TypeOK, Pool!TypeOK, WorkersHold, LoopHolds,
       ActiveHolds
<1>5. (EntriesMatchSockets /\ LoopHolds /\ ActiveHolds
         /\ BatchIsFresh /\ ActiveFindsWork)'
  BY DEF EntriesMatchSockets, LoopHolds, ActiveHolds, BatchIsFresh,
         ActiveFindsWork, ReadResult
<1>6. QED
  BY <1>1, <1>2, <1>3, <1>4, <1>5

\* TaskHandle keeps the inductive invariant.
LEMMA TaskHandleKeeps ==
    ASSUME Inductive, NEW w \in PoolWorkers, TaskHandle(w)
    PROVE  Inductive'
<1> USE EpollWorkerAssumption, NoneIsNoTask DEF Inductive, TaskHandle
<1>1. TypeOK'
  <2>1. exec[w].pkg.number \in 0..MaxSend
    BY DEF WorkersHold, TypeOK, Pool!TypeOK, Tasks, Packages
  <2>2. last' \in [Conns -> 0..MaxSend]
    BY <2>1 DEF TypeOK
  <2>3. QED
    BY SMTT(30), <2>2, Places DEF TypeOK, Pool!TypeOK
<1>2. WorkersHold'
  BY DEF WorkersHold, TypeOK
<1>3. (EntriesMatchSockets /\ LoopHolds /\ ActiveHolds /\ OneTaskPerConnection
         /\ TaskMeetsItsConnection /\ BatchIsFresh /\ ActiveFindsWork)'
  BY DEF EntriesMatchSockets, LoopHolds, ActiveHolds, OneTaskPerConnection,
         TaskMeetsItsConnection, BatchIsFresh, ActiveFindsWork, Queued,
         Executing, HeldByLoop, ReadResult
<1>4. QED
  BY <1>1, <1>2, <1>3

\* notify_one wakes the active thread of the connection or the destructor, if one
\* of them waits on its fd_cond.
LEMMA Notified ==
    ASSUME Inductive, NEW c \in Conns, NotifyOne(c)
    PROVE  /\ apc' \in [Conns -> ActivePlaces]
           /\ dpc' \in StopPlaces
           /\ fd_cond' \in [Conns -> SUBSET {"active", "dtor"}]
           /\ \A d \in Conns :
                 apc'[d] = apc[d] \/ (apc[d] = "waiting" /\ apc'[d] = "lock")
           /\ dpc' = dpc \/ (dpc = "waiting" /\ dpc' = "check")
           /\ \A d \in Conns :
                 /\ "active" \in fd_cond'[d] => apc'[d] = "waiting"
                 /\ "dtor" \in fd_cond'[d] => dpc' = "waiting" /\ dcur = d
           /\ \A d \in Conns :
                 "active" \in fd_cond[d] =>
                    \/ "active" \in fd_cond'[d] /\ (d # c \/ dpc = "waiting")
                    \/ apc'[d] = "lock"
<1> USE DEF Inductive
<1>1. CASE fd_cond[c] = {}
  BY <1>1 DEF NotifyOne, ActiveHolds, TypeOK
<1>2. CASE fd_cond[c] # {}
  <2>1. PICK t \in fd_cond[c] :
           /\ fd_cond' = [fd_cond EXCEPT ![c] = @ \ {t}]
           /\ apc' = IF t = "active" THEN [apc EXCEPT ![c] = "lock"] ELSE apc
           /\ dpc' = IF t = "dtor" THEN "check" ELSE dpc
    BY <1>2 DEF NotifyOne
  <2>2. CASE t = "active"
    BY <2>1, <2>2, Places DEF ActiveHolds, TypeOK
  <2>3. CASE t = "dtor"
    BY <2>1, <2>3, Places DEF ActiveHolds, TypeOK
  <2>4. QED
    BY <2>1, <2>2, <2>3 DEF TypeOK
<1>3. QED
  BY <1>1, <1>2

\* TaskClear keeps the inductive invariant.
LEMMA TaskClearKeeps ==
    ASSUME Inductive, NEW w \in PoolWorkers, TaskClear(w)
    PROVE  Inductive'
<1> DEFINE c == winfo[w]
<1> USE EpollWorkerAssumption, NoneIsNoTask
    DEF Inductive, TaskClear, TaskOver, TaskReturn, Pool!Finish
<1>1. /\ exec[w] \in Tasks
      /\ exec[w].from = c
      /\ c \in Conns
      /\ fd_inthreadpool[c]
      /\ fd_infos[exec[w].fd] = c
  BY DEF WorkersHold, TypeOK, Pool!TypeOK, TaskMeetsItsConnection, Tasks
<1>2. \* Whom the notify may have woken.
      /\ apc' \in [Conns -> ActivePlaces]
      /\ dpc' \in StopPlaces
      /\ fd_cond' \in [Conns -> SUBSET {"active", "dtor"}]
      /\ \A d \in Conns :
            apc'[d] = apc[d] \/ (apc[d] = "waiting" /\ apc'[d] = "lock")
      /\ dpc' = dpc \/ (dpc = "waiting" /\ dpc' = "check")
      /\ \A d \in Conns :
            /\ "active" \in fd_cond'[d] => apc'[d] = "waiting"
            /\ "dtor" \in fd_cond'[d] => dpc' = "waiting" /\ dcur = d
  BY <1>1, Notified
<1>3. /\ fd_inthreadpool' \in [Conns -> BOOLEAN]
      /\ \A d \in Conns :
            fd_inthreadpool'[d] = IF d = c THEN FALSE ELSE fd_inthreadpool[d]
  BY DEF TypeOK
<1>4. TypeOK'
  BY <1>2, <1>3, Places DEF TypeOK, Pool!TypeOK
<1>5. EntriesMatchSockets'
  BY <1>2 DEF EntriesMatchSockets
<1>6. \A v \in PoolWorkers : v # w /\ exec[v] # None => exec[v].from # c
  BY <1>1 DEF OneTaskPerConnection, Executing
<1>7. \A i \in DOMAIN queue : queue[i].from # c
  BY <1>1 DEF OneTaskPerConnection, Queued, Executing
<1>8. event # None => event.from # c
  BY <1>1 DEF OneTaskPerConnection, HeldByLoop, Executing
<1>9. LoopHolds'
  BY <1>3, <1>8 DEF LoopHolds, TypeOK
<1>10. ActiveHolds'
  <2> SUFFICES ASSUME NEW d \in Conns
               PROVE  /\ apc'[d] # "none" => thread_running[d]
                      /\ apc'[d] \in {"start", "need", "lock", "waiting", "read",
                                      "relock", "close"} =>
                            fdof[d] # None /\ fd_infos[fdof[d]] = d
                      /\ apc'[d] \in {"read", "relock", "close"} =>
                            ~fd_inthreadpool'[d]
    BY <1>2 DEF ActiveHolds
  <2>1. QED
    BY <1>2, <1>3 DEF ActiveHolds
<1>11. WorkersHold'
  <2>1. exec'[w] = None /\ wpc'[w] = "idle" /\ winfo'[w] = None
    BY DEF TypeOK, Pool!TypeOK
  <2>2. \A v \in PoolWorkers : v # w => /\ wpc'[v] = wpc[v]
                                         /\ exec'[v] = exec[v]
                                         /\ winfo'[v] = winfo[v]
    BY DEF TypeOK, Pool!TypeOK
  <2>3. QED
    BY <2>1, <2>2 DEF WorkersHold
<1>12. OneTaskPerConnection'
  BY TaskEndKeepsOneTask DEF TypeOK, Pool!TypeOK
<1>13. TaskMeetsItsConnection'
  <2>1. \A i \in DOMAIN queue : fd_inthreadpool'[queue[i].from]
    <3>1. \A i \in DOMAIN queue : queue[i] \in Tasks
      BY DEF TypeOK, Pool!TypeOK
    <3>2. \A i \in DOMAIN queue : queue[i].from \in Conns
      BY <3>1 DEF Tasks
    <3> HIDE DEF TaskClear
    <3>3. QED
      BY <1>3, <1>7, <3>2 DEF TaskMeetsItsConnection
  <2>2. \A v \in PoolWorkers : exec'[v] # None =>
          /\ v # w
          /\ exec'[v] = exec[v]
          /\ winfo'[v] = winfo[v]
          /\ fd_inthreadpool'[exec[v].from]
    BY <1>3, <1>6 DEF TaskMeetsItsConnection, TypeOK, Pool!TypeOK, Tasks
  <2>3. QED
    BY <2>1, <2>2 DEF TaskMeetsItsConnection
<1>14. \A g \in Fds : ReadResult(g)' = ReadResult(g)
  BY DEF ReadResult
<1>15. BatchIsFresh'
  BY <1>3, <1>14 DEF BatchIsFresh, EntriesMatchSockets, TypeOK
<1>16. ActiveFindsWork'
  <2>1. \A d \in Conns : apc'[d] # "none" /\ apc'[d] \in {"start", "need", "lock", "waiting", "read"} =>
          fdof[d] \in Fds /\ apc[d] \in {"start", "need", "lock", "waiting", "read"}
    BY <1>2 DEF ActiveHolds, TypeOK
  <2>2. QED
    BY <1>2, <1>14, <2>1 DEF ActiveFindsWork
<1>17. QED
  BY <1>4, <1>5, <1>9, <1>10, <1>11, <1>12, <1>13, <1>15, <1>16

\* ActiveUndefined keeps the inductive invariant.
LEMMA ActiveUndefinedKeeps ==
    ASSUME Inductive, NEW c \in Conns, ActiveUndefined(c)
    PROVE  Inductive'
<1> USE EpollWorkerAssumption, NoneIsNoTask DEF Inductive, ActiveUndefined
<1>1. TypeOK'
  BY SMTT(30), Places DEF TypeOK, Pool!TypeOK
<1>2. ActiveHolds'
  BY DEF ActiveHolds, TypeOK, LoopHolds
<1>3. ActiveFindsWork'
  BY DEF ActiveFindsWork, ReadResult, TypeOK, ActiveHolds, EntriesMatchSockets
<1>4. (EntriesMatchSockets /\ LoopHolds /\ WorkersHold
         /\ OneTaskPerConnection /\ TaskMeetsItsConnection /\ BatchIsFresh)'
  BY DEF EntriesMatchSockets, LoopHolds, WorkersHold, OneTaskPerConnection,
         TaskMeetsItsConnection, BatchIsFresh, Queued, Executing, HeldByLoop,
         ReadResult
<1>5. QED
  BY <1>1, <1>2, <1>3, <1>4

\* ActiveStart keeps the inductive invariant.
LEMMA ActiveStartKeeps ==
    ASSUME Inductive, NEW c \in Conns, ActiveStart(c)
    PROVE  Inductive'
<1> USE EpollWorkerAssumption, NoneIsNoTask DEF Inductive, ActiveStart
<1>1. TypeOK'
  BY SMTT(30), Places DEF TypeOK, Pool!TypeOK
<1>2. ActiveHolds'
  BY DEF ActiveHolds, TypeOK, LoopHolds
<1>3. ActiveFindsWork'
  BY DEF ActiveFindsWork, ReadResult, TypeOK, ActiveHolds, EntriesMatchSockets
<1>4. (EntriesMatchSockets /\ LoopHolds /\ WorkersHold
         /\ OneTaskPerConnection /\ TaskMeetsItsConnection /\ BatchIsFresh)'
  BY DEF EntriesMatchSockets, LoopHolds, WorkersHold, OneTaskPerConnection,
         TaskMeetsItsConnection, BatchIsFresh, Queued, Executing, HeldByLoop,
         ReadResult
<1>5. QED
  BY <1>1, <1>2, <1>3, <1>4

\* ActiveNeed keeps the inductive invariant.
LEMMA ActiveNeedKeeps ==
    ASSUME Inductive, NEW c \in Conns, ActiveNeed(c)
    PROVE  Inductive'
<1> USE EpollWorkerAssumption, NoneIsNoTask DEF Inductive, ActiveNeed
<1>1. TypeOK'
  BY Places DEF TypeOK, Pool!TypeOK
<1>2. ActiveHolds'
  BY DEF ActiveHolds, TypeOK, LoopHolds
<1>3. ActiveFindsWork'
  BY DEF ActiveFindsWork, ReadResult, TypeOK, ActiveHolds, EntriesMatchSockets
<1>4. (EntriesMatchSockets /\ LoopHolds /\ WorkersHold
         /\ OneTaskPerConnection /\ TaskMeetsItsConnection /\ BatchIsFresh)'
  BY DEF EntriesMatchSockets, LoopHolds, WorkersHold, OneTaskPerConnection,
         TaskMeetsItsConnection, BatchIsFresh, Queued, Executing, HeldByLoop,
         ReadResult
<1>5. QED
  BY <1>1, <1>2, <1>3, <1>4

\* ActiveLock keeps the inductive invariant.
LEMMA ActiveLockKeeps ==
    ASSUME Inductive, NEW c \in Conns, ActiveLock(c)
    PROVE  Inductive'
<1> USE EpollWorkerAssumption, NoneIsNoTask DEF Inductive, ActiveLock, AtLock
<1>1. TypeOK'
  <2>1. CASE fd_inthreadpool[c]
    <3>1. /\ apc' = [apc EXCEPT ![c] = "waiting"]
          /\ fd_cond' = [fd_cond EXCEPT ![c] = fd_cond[c] \union {"active"}]
          /\ UNCHANGED fd_mutex
      BY <2>1
    <3>2. fd_cond[c] \union {"active"} \in SUBSET {"active", "dtor"}
      BY DEF TypeOK
    <3>3. fd_cond' \in [Conns -> SUBSET {"active", "dtor"}]
      <4> HIDE DEF ActiveLock
      <4> QED BY <3>1, <3>2 DEF TypeOK
    <3>4. apc' \in [Conns -> ActivePlaces]
      <4> HIDE DEF ActiveLock
      <4> QED BY <3>1 DEF TypeOK, ActivePlaces
    <3>5. QED
      BY SMTT(30), <3>1, <3>3, <3>4 DEF TypeOK, Pool!TypeOK
  <2>2. CASE ~fd_inthreadpool[c]
    <3>1. /\ apc' = [apc EXCEPT ![c] = "read"]
          /\ fd_mutex' = [fd_mutex EXCEPT ![c] = "active"]
          /\ UNCHANGED fd_cond
      BY <2>2
    <3>2. fd_mutex' \in [Conns -> PoolWorkers \union {"active", None}]
      <4> HIDE DEF ActiveLock
      <4> QED BY <3>1 DEF TypeOK
    <3>3. apc' \in [Conns -> ActivePlaces]
      <4> HIDE DEF ActiveLock
      <4> QED BY <3>1 DEF TypeOK, ActivePlaces
    <3>4. QED
      BY SMTT(30), <3>1, <3>2, <3>3 DEF TypeOK, Pool!TypeOK
  <2>3. QED
    BY <2>1, <2>2
<1>2. ActiveHolds'
  BY SMTT(30) DEF ActiveHolds, TypeOK, LoopHolds
<1>3. ActiveFindsWork'
  BY SMTT(30) DEF ActiveFindsWork, ReadResult, TypeOK, ActiveHolds, EntriesMatchSockets
<1>4. (EntriesMatchSockets /\ LoopHolds /\ WorkersHold
         /\ OneTaskPerConnection /\ TaskMeetsItsConnection /\ BatchIsFresh)'
  BY DEF EntriesMatchSockets, LoopHolds, WorkersHold, OneTaskPerConnection,
         TaskMeetsItsConnection, BatchIsFresh, Queued, Executing, HeldByLoop,
         ReadResult
<1>5. QED
  BY <1>1, <1>2, <1>3, <1>4

\* ActiveRead keeps the inductive invariant.
LEMMA ActiveReadKeeps ==
    ASSUME Inductive, NEW c \in Conns, ActiveRead(c)
    PROVE  Inductive'
<1> DEFINE f == fdof[c]
<1> USE EpollWorkerAssumption, NoneIsNoTask DEF Inductive, ActiveRead
<1>1. /\ f \in Fds
      /\ fd_infos[f] = c
      /\ thread_running[c]
      /\ sock[f] \in {None, c}
  BY DEF ActiveHolds, EntriesMatchSockets, TypeOK
<1>2. ReadResult(f) \in {"data", "error"}
  BY <1>1 DEF ActiveFindsWork, ReadResult
<1>3. /\ apc' = [apc EXCEPT ![c] = IF ReadResult(f) = "data" THEN "relock"
                                                             ELSE "close"]
      /\ ReadResult(f) = "data" => /\ sock[f] = c
                                   /\ inbox' = [inbox EXCEPT ![c] = <<>>]
      /\ ReadResult(f) = "error" => UNCHANGED inbox
  <2>1. CASE ReadResult(f) = "data"
    BY <1>1, <2>1 DEF ReadResult
  <2>2. CASE ReadResult(f) = "error"
    BY <2>2
  <2>3. QED
    BY <1>2, <2>1, <2>2
<1>4. TypeOK'
  <2>1. inbox' \in [Conns -> Seq(Packages)]
    BY <1>2, <1>3 DEF TypeOK
  <2>2. fd_mutex' \in [Conns -> PoolWorkers \union {"active", None}]
    BY DEF TypeOK
  <2>3. apc' \in [Conns -> ActivePlaces]
    <3> HIDE DEF ActiveRead
    <3> QED BY <1>3 DEF TypeOK, ActivePlaces
  <2>4. QED
    BY ZenonT(40), <2>1, <2>2, <2>3 DEF TypeOK, Pool!TypeOK
<1>5. OneTaskPerConnection'
  BY NoRequestMoved
<1>6. \A g \in Fds : g # f => ReadResult(g)' = ReadResult(g)
  BY <1>1, <1>2, <1>3 DEF ReadResult, EntriesMatchSockets, TypeOK
<1>7. (EntriesMatchSockets /\ LoopHolds /\ WorkersHold
         /\ TaskMeetsItsConnection)'
  BY DEF EntriesMatchSockets, LoopHolds, WorkersHold, TaskMeetsItsConnection
<1>8. ActiveHolds'
  BY <1>3 DEF ActiveHolds, TypeOK
<1>9. BatchIsFresh'
  BY <1>1, <1>6 DEF BatchIsFresh, TypeOK
<1>10. ActiveFindsWork'
  <2>1. \A d \in Conns :
          apc[d] \in {"start", "need", "lock", "waiting", "read"} /\ d # c =>
             fdof[d] \in Fds /\ fdof[d] # f
    BY <1>1 DEF ActiveHolds, TypeOK
  <2>2. apc'[c] \in {"relock", "close"}
    BY <1>3 DEF TypeOK
  <2>3. \A d \in Conns : d # c => apc'[d] = apc[d]
    BY <1>3 DEF TypeOK
  <2>4. QED
    BY <1>6, <2>1, <2>2, <2>3 DEF ActiveFindsWork
<1>11. QED
  BY <1>4, <1>5, <1>7, <1>8, <1>9, <1>10

\* ActiveClose keeps the inductive invariant.
LEMMA ActiveCloseKeeps ==
    ASSUME Inductive, NEW c \in Conns, ActiveClose(c)
    PROVE  Inductive'
<1> USE EpollWorkerAssumption, NoneIsNoTask DEF Inductive, ActiveClose, CloseFd
<1>1. TypeOK'
  BY Places DEF TypeOK, Pool!TypeOK
<1>2. EntriesMatchSockets'
  <2>1. /\ fdof[c] \in Fds
        /\ fd_infos[fdof[c]] = c
        /\ thread_running[c]
    BY DEF ActiveHolds, TypeOK

  <2>2. QED
    BY <2>1 DEF EntriesMatchSockets, TypeOK
<1>3. LoopHolds'
  <2>1. /\ fdof[c] \in Fds
        /\ fd_infos[fdof[c]] = c
        /\ thread_running[c]
    BY DEF ActiveHolds, TypeOK

  <2>2. lpc \in {"handle", "mark", "enqueue", "close"} => cur # fdof[c]
    BY <2>1 DEF LoopHolds
  <2>3. QED
    BY <2>1, <2>2 DEF LoopHolds, TypeOK
<1>4. ActiveHolds'
  BY DEF ActiveHolds, TypeOK, LoopHolds
<1>5. TaskMeetsItsConnection'
  BY DEF TaskMeetsItsConnection, TypeOK, Pool!TypeOK, WorkersHold, LoopHolds,
       ActiveHolds
<1>6. BatchIsFresh'
  <2>1. /\ fdof[c] \in Fds
        /\ fd_infos[fdof[c]] = c
        /\ thread_running[c]
    BY DEF ActiveHolds, TypeOK

  <2>2. \A g \in Fds : g # fdof[c] => ReadResult(g)' = ReadResult(g)
    BY <2>1 DEF ReadResult, TypeOK
  <2>3. adding # None => adding # fdof[c]
    BY <2>1 DEF EntriesMatchSockets
  <2>4. QED
    BY <2>1, <2>2, <2>3 DEF BatchIsFresh, TypeOK
<1>7. ActiveFindsWork'
  <2>1. /\ fdof[c] \in Fds
        /\ fd_infos[fdof[c]] = c
        /\ thread_running[c]
    BY DEF ActiveHolds, TypeOK

  <2>2. \A g \in Fds : g # fdof[c] => ReadResult(g)' = ReadResult(g)
    BY <2>1 DEF ReadResult, TypeOK
  <2>3. \A d \in Conns :
          apc[d] \in {"start", "need", "lock", "waiting", "read"} /\ d # c =>
             fdof[d] \in Fds /\ fdof[d] # fdof[c]
    BY <2>1 DEF ActiveHolds, TypeOK
  <2>4. QED
    BY <2>2, <2>3 DEF ActiveFindsWork, TypeOK
<1>8. (WorkersHold /\ OneTaskPerConnection)'
  BY DEF WorkersHold, OneTaskPerConnection, Queued, Executing, HeldByLoop
<1>9. QED
  BY <1>1, <1>2, <1>3, <1>4, <1>5, <1>6, <1>7, <1>8

\* ActiveDel keeps the inductive invariant.
LEMMA ActiveDelKeeps ==
    ASSUME Inductive, NEW c \in Conns, ActiveDel(c)
    PROVE  Inductive'
<1> USE EpollWorkerAssumption, NoneIsNoTask DEF Inductive, ActiveDel, DelFd
<1>1. TypeOK'
  BY Places DEF TypeOK, Pool!TypeOK
<1>2. ActiveHolds'
  BY DEF ActiveHolds, TypeOK, LoopHolds
<1>3. ActiveFindsWork'
  BY DEF ActiveFindsWork, ReadResult, TypeOK, ActiveHolds, EntriesMatchSockets
<1>4. (EntriesMatchSockets /\ LoopHolds /\ WorkersHold
         /\ OneTaskPerConnection /\ TaskMeetsItsConnection /\ BatchIsFresh)'
  BY DEF EntriesMatchSockets, LoopHolds, WorkersHold, OneTaskPerConnection,
         TaskMeetsItsConnection, BatchIsFresh, Queued, Executing, HeldByLoop,
         ReadResult
<1>5. QED
  BY <1>1, <1>2, <1>3, <1>4

\* ActiveSpuriousWakeup keeps the inductive invariant.
LEMMA ActiveSpuriousWakeupKeeps ==
    ASSUME Inductive, NEW c \in Conns, ActiveSpuriousWakeup(c)
    PROVE  Inductive'
<1> USE EpollWorkerAssumption, NoneIsNoTask DEF Inductive, ActiveSpuriousWakeup
<1>1. TypeOK'
  BY Places DEF TypeOK, Pool!TypeOK
<1>2. ActiveHolds'
  BY DEF ActiveHolds, TypeOK, LoopHolds
<1>3. ActiveFindsWork'
  BY DEF ActiveFindsWork, ReadResult, TypeOK, ActiveHolds, EntriesMatchSockets
<1>4. (EntriesMatchSockets /\ LoopHolds /\ WorkersHold
         /\ OneTaskPerConnection /\ TaskMeetsItsConnection /\ BatchIsFresh)'
  BY DEF EntriesMatchSockets, LoopHolds, WorkersHold, OneTaskPerConnection,
         TaskMeetsItsConnection, BatchIsFresh, Queued, Executing, HeldByLoop,
         ReadResult
<1>5. QED
  BY <1>1, <1>2, <1>3, <1>4

\* SetStopAll keeps the inductive invariant.
LEMMA SetStopAllKeeps ==
    ASSUME Inductive, SetStopAll
    PROVE  Inductive'
<1> USE EpollWorkerAssumption, NoneIsNoTask DEF Inductive, SetStopAll
<1>1. TypeOK'
  BY Places DEF TypeOK, Pool!TypeOK
<1>2. (EntriesMatchSockets /\ LoopHolds /\ ActiveHolds /\ WorkersHold
         /\ OneTaskPerConnection /\ TaskMeetsItsConnection /\ BatchIsFresh /\ ActiveFindsWork)'
  BY DEF EntriesMatchSockets, LoopHolds, ActiveHolds, WorkersHold,
         OneTaskPerConnection, TaskMeetsItsConnection, BatchIsFresh,
         ActiveFindsWork, Queued, Executing, HeldByLoop, ReadResult
<1>3. QED
  BY <1>1, <1>2

\* StopAccepting keeps the inductive invariant.
LEMMA StopAcceptingKeeps ==
    ASSUME Inductive, StopAccepting
    PROVE  Inductive'
<1> USE EpollWorkerAssumption, NoneIsNoTask DEF Inductive, StopAccepting
<1>1. TypeOK'
  BY Places DEF TypeOK, Pool!TypeOK
<1>2. EntriesMatchSockets'
  BY DEF EntriesMatchSockets, TypeOK
<1>3. ActiveHolds'
  BY DEF ActiveHolds, TypeOK, LoopHolds
<1>4. (LoopHolds /\ WorkersHold /\ OneTaskPerConnection
         /\ TaskMeetsItsConnection /\ BatchIsFresh /\ ActiveFindsWork)'
  BY DEF LoopHolds, WorkersHold, OneTaskPerConnection,
         TaskMeetsItsConnection, BatchIsFresh, ActiveFindsWork, Queued,
         Executing, HeldByLoop, ReadResult
<1>5. QED
  BY <1>1, <1>2, <1>3, <1>4

\* StopClose keeps the inductive invariant.
LEMMA StopCloseKeeps ==
    ASSUME Inductive, NEW f \in Fds, StopClose(f)
    PROVE  Inductive'
<1> USE EpollWorkerAssumption, NoneIsNoTask DEF Inductive, StopClose
<1>1. TypeOK'
  BY SMTT(30), Places DEF TypeOK, Pool!TypeOK
<1>2. EntriesMatchSockets'
  BY DEF EntriesMatchSockets, TypeOK
<1>3. BatchIsFresh'
  BY DEF BatchIsFresh, ReadResult, TypeOK, EntriesMatchSockets, LoopHolds
<1>4. ActiveFindsWork'
  BY DEF ActiveFindsWork, ReadResult, TypeOK, ActiveHolds, EntriesMatchSockets
<1>5. (LoopHolds /\ ActiveHolds /\ WorkersHold
         /\ OneTaskPerConnection /\ TaskMeetsItsConnection)'
  BY DEF LoopHolds, ActiveHolds, WorkersHold, OneTaskPerConnection,
         TaskMeetsItsConnection, Queued, Executing, HeldByLoop
<1>6. QED
  BY <1>1, <1>2, <1>3, <1>4, <1>5

\* StopWorker keeps the inductive invariant.
LEMMA StopWorkerKeeps ==
    ASSUME Inductive, StopWorker
    PROVE  Inductive'
<1> USE EpollWorkerAssumption, NoneIsNoTask DEF Inductive, StopWorker
<1>1. TypeOK'
  BY Places DEF TypeOK, Pool!TypeOK
<1>2. EntriesMatchSockets'
  BY DEF EntriesMatchSockets, TypeOK
<1>3. ActiveHolds'
  BY DEF ActiveHolds, TypeOK, LoopHolds
<1>4. (LoopHolds /\ WorkersHold /\ OneTaskPerConnection
         /\ TaskMeetsItsConnection /\ BatchIsFresh /\ ActiveFindsWork)'
  BY DEF LoopHolds, WorkersHold, OneTaskPerConnection,
         TaskMeetsItsConnection, BatchIsFresh, ActiveFindsWork, Queued,
         Executing, HeldByLoop, ReadResult
<1>5. QED
  BY <1>1, <1>2, <1>3, <1>4

\* DtorJoin keeps the inductive invariant.
LEMMA DtorJoinKeeps ==
    ASSUME Inductive, DtorJoin
    PROVE  Inductive'
<1> USE EpollWorkerAssumption, NoneIsNoTask DEF Inductive, DtorJoin
<1>1. TypeOK'
  BY Places DEF TypeOK, Pool!TypeOK
<1>2. EntriesMatchSockets'
  BY DEF EntriesMatchSockets, TypeOK
<1>3. ActiveHolds'
  BY DEF ActiveHolds, TypeOK, LoopHolds
<1>4. (LoopHolds /\ WorkersHold /\ OneTaskPerConnection
         /\ TaskMeetsItsConnection /\ BatchIsFresh /\ ActiveFindsWork)'
  BY DEF LoopHolds, WorkersHold, OneTaskPerConnection,
         TaskMeetsItsConnection, BatchIsFresh, ActiveFindsWork, Queued,
         Executing, HeldByLoop, ReadResult
<1>5. QED
  BY <1>1, <1>2, <1>3, <1>4

\* DtorVisit keeps the inductive invariant.
LEMMA DtorVisitKeeps ==
    ASSUME Inductive, NEW f \in Fds, DtorVisit(f)
    PROVE  Inductive'
<1> USE EpollWorkerAssumption, NoneIsNoTask DEF Inductive, DtorVisit
<1>1. TypeOK'
  BY Places DEF TypeOK, Pool!TypeOK
<1>2. EntriesMatchSockets'
  BY DEF EntriesMatchSockets, TypeOK
<1>3. ActiveHolds'
  BY DEF ActiveHolds, TypeOK, LoopHolds
<1>4. (LoopHolds /\ WorkersHold /\ OneTaskPerConnection
         /\ TaskMeetsItsConnection /\ BatchIsFresh /\ ActiveFindsWork)'
  BY DEF LoopHolds, WorkersHold, OneTaskPerConnection,
         TaskMeetsItsConnection, BatchIsFresh, ActiveFindsWork, Queued,
         Executing, HeldByLoop, ReadResult
<1>5. QED
  BY <1>1, <1>2, <1>3, <1>4

\* DtorCheck keeps the inductive invariant.
LEMMA DtorCheckKeeps ==
    ASSUME Inductive, DtorCheck
    PROVE  Inductive'
<1> USE EpollWorkerAssumption, NoneIsNoTask DEF Inductive, DtorCheck
<1>1. TypeOK'
  <2>1. fd_cond' \in [Conns -> SUBSET {"active", "dtor"}]
    <3>1. CASE dcur \in Conns
      <4>1. fd_cond' \in {fd_cond,
                           [fd_cond EXCEPT ![dcur] = fd_cond[dcur] \union {"dtor"}]}
        OBVIOUS
      <4>2. fd_cond[dcur] \union {"dtor"} \in SUBSET {"active", "dtor"}
        BY <3>1 DEF TypeOK
      <4>3. [fd_cond EXCEPT ![dcur] = fd_cond[dcur] \union {"dtor"}]
               \in [Conns -> SUBSET {"active", "dtor"}]
        <5> HIDE DEF DtorCheck
        <5> QED BY <3>1, <4>2 DEF TypeOK
      <4>4. QED
        BY <4>1, <4>3 DEF TypeOK
    <3>2. CASE dcur \notin Conns
      <4>1. fd_cond' = fd_cond
        BY <3>2 DEF TypeOK
      <4>2. QED
        BY <4>1 DEF TypeOK
    <3>3. QED
      BY <3>1, <3>2
  <2>2. dpc' \in StopPlaces
    BY Places
  <2>3. QED
    BY <2>1, <2>2 DEF TypeOK, Pool!TypeOK
<1>2. EntriesMatchSockets'
  BY DEF EntriesMatchSockets, TypeOK
<1>3. ActiveHolds'
  <2>1. CASE dcur \in Conns /\ thread_running[dcur]
    BY <2>1 DEF ActiveHolds, TypeOK
  <2>2. CASE ~thread_running[dcur]
    BY <2>2 DEF ActiveHolds
  <2>3. CASE dcur \notin Conns
    BY <2>3 DEF ActiveHolds, TypeOK
  <2>4. QED
    BY <2>1, <2>2, <2>3
<1>4. (LoopHolds /\ WorkersHold /\ OneTaskPerConnection
         /\ TaskMeetsItsConnection /\ BatchIsFresh /\ ActiveFindsWork)'
  BY DEF LoopHolds, WorkersHold, OneTaskPerConnection,
         TaskMeetsItsConnection, BatchIsFresh, ActiveFindsWork, Queued,
         Executing, HeldByLoop, ReadResult
<1>5. QED
  BY <1>1, <1>2, <1>3, <1>4

\* DtorEnd keeps the inductive invariant.
LEMMA DtorEndKeeps ==
    ASSUME Inductive, DtorEnd
    PROVE  Inductive'
<1> USE EpollWorkerAssumption, NoneIsNoTask DEF Inductive, DtorEnd
<1>1. TypeOK'
  BY Places DEF TypeOK, Pool!TypeOK
<1>2. EntriesMatchSockets'
  BY DEF EntriesMatchSockets, TypeOK
<1>3. ActiveHolds'
  BY DEF ActiveHolds, TypeOK, LoopHolds
<1>4. (LoopHolds /\ WorkersHold /\ OneTaskPerConnection
         /\ TaskMeetsItsConnection /\ BatchIsFresh /\ ActiveFindsWork)'
  BY DEF LoopHolds, WorkersHold, OneTaskPerConnection,
         TaskMeetsItsConnection, BatchIsFresh, ActiveFindsWork, Queued,
         Executing, HeldByLoop, ReadResult
<1>5. QED
  BY <1>1, <1>2, <1>3, <1>4
-----------------------------------------------------------------------------

\* The server starts in an Inductive state.
LEMMA InitMakesInductive == Init => Inductive
<1> SUFFICES ASSUME Init PROVE Inductive
  OBVIOUS
<1> USE EpollWorkerAssumption DEF Init
<1>1. TypeOK
  <2>1. Pool!TypeOK
    BY DEF Pool!Init, Pool!TypeOK
  <2>2. inbox \in [Conns -> Seq(Packages)]
    OBVIOUS
  <2>3. /\ lpc \in LoopPlaces
        /\ wpc \in [PoolWorkers -> TaskPlaces]
        /\ apc \in [Conns -> ActivePlaces]
        /\ dpc \in StopPlaces
    BY DEF LoopPlaces, TaskPlaces, ActivePlaces, StopPlaces
  <2>4. /\ fd_cond \in [Conns -> SUBSET {"active", "dtor"}]
        /\ fd_mutex \in [Conns -> PoolWorkers \union {"active", None}]
    OBVIOUS
  <2>5. sent \in [Conns -> 0..MaxSend] /\ last \in [Conns -> 0..MaxSend]
    OBVIOUS
  <2>6. QED
    BY <2>1, <2>2, <2>3, <2>4, <2>5 DEF TypeOK
<1>2. EntriesMatchSockets /\ LoopHolds /\ ActiveHolds /\ WorkersHold
  BY DEF EntriesMatchSockets, LoopHolds, ActiveHolds, WorkersHold, Pool!Init
<1>3. OneTaskPerConnection /\ TaskMeetsItsConnection
  BY DEF OneTaskPerConnection, TaskMeetsItsConnection, Queued, Executing,
         HeldByLoop, Pool!Init
<1>4. BatchIsFresh /\ ActiveFindsWork
  BY DEF BatchIsFresh, ActiveFindsWork
<1>5. QED
  BY <1>1, <1>2, <1>3, <1>4 DEF Inductive

\* Every step of the server keeps Inductive.
LEMMA NextKeepsInductive == Inductive /\ [Next]_vars => Inductive'
<1> SUFFICES ASSUME Inductive, [Next]_vars PROVE Inductive'
  OBVIOUS
<1>1. CASE ClientStep
  BY <1>1, SendKeeps, HangupKeeps
    DEF ClientStep
<1>2. CASE AcceptStep
  BY <1>2, AddFdRegisterKeeps, AddFdInfoKeeps
    DEF AcceptStep
<1>3. CASE LoopStep
  BY <1>3, EpollWaitKeeps, LoopEndsKeeps, DrainEndsKeeps, DispatchUnknownKeeps,
     DispatchToActiveKeeps, DispatchSpawnKeeps, DispatchHandleKeeps,
     HandleReadKeeps, HandleMarkKeeps, HandleEnqueueKeeps, HandleCloseKeeps,
     HandleDelKeeps
    DEF LoopStep
<1>4. CASE StopStep
  BY <1>4, SetStopAllKeeps, StopAcceptingKeeps
    DEF StopStep
<1>5. CASE DtorStep
  BY <1>5, StopCloseKeeps, DtorVisitKeeps, StopWorkerKeeps, DtorJoinKeeps,
     DtorCheckKeeps, DtorEndKeeps
    DEF DtorStep
<1>6. ASSUME NEW w \in PoolWorkers, TaskStep(w) PROVE Inductive'
  BY <1>6, TaskStartKeeps, TaskUndefinedKeeps, TaskLookupKeeps, TaskLockKeeps,
     TaskFailsKeeps, TaskHandleKeeps, TaskClearKeeps
    DEF TaskStep
<1>7. ASSUME NEW c \in Conns, ActiveStep(c) \/ ActiveSpuriousWakeup(c)
     PROVE  Inductive'
  BY <1>7, ActiveUndefinedKeeps, ActiveStartKeeps, ActiveNeedKeeps,
     ActiveLockKeeps, ActiveReadKeeps, ActiveCloseKeeps, ActiveDelKeeps,
     ActiveSpuriousWakeupKeeps
    DEF ActiveStep
<1>8. CASE UNCHANGED vars
  <2> USE <1>8 DEF vars, Inductive
  <2>1. TypeOK'
    BY DEF TypeOK, Pool!TypeOK
  <2>2. (EntriesMatchSockets /\ LoopHolds /\ ActiveHolds /\ WorkersHold)'
    BY DEF EntriesMatchSockets, LoopHolds, ActiveHolds, WorkersHold
  <2>3. (OneTaskPerConnection /\ TaskMeetsItsConnection)'
    BY DEF OneTaskPerConnection, TaskMeetsItsConnection, Queued, Executing,
           HeldByLoop
  <2>4. (BatchIsFresh /\ ActiveFindsWork)'
    BY DEF BatchIsFresh, ActiveFindsWork, ReadResult
  <2>5. QED
    BY <2>1, <2>2, <2>3, <2>4
<1>9. QED
  BY <1>1, <1>2, <1>3, <1>4, <1>5, <1>6, <1>7, <1>8 DEF Next

\* So Inductive holds throughout.
LEMMA AlwaysInductive == SafeSpec => []Inductive
  BY InitMakesInductive, NextKeepsInductive, PTL DEF SafeSpec

\* The connection's two would-be readers exclude each other.
LEMMA InductiveMeansOneReader == Inductive => OneReader
<1> SUFFICES ASSUME Inductive, NEW c \in Conns
             PROVE  /\ apc[c] \in {"start", "need", "lock", "waiting", "read",
                                   "relock", "close"} =>
                          ~(/\ lpc \in {"handle", "mark", "enqueue", "close"}
                            /\ cur = fdof[c])
                    /\ apc[c] = "read" => ~Outstanding(c)
  BY DEF OneReader
<1> USE DEF Inductive
<1>1. apc[c] # "none" => thread_running[c]
  BY DEF ActiveHolds
<1>2. lpc \in {"handle", "mark", "enqueue", "close"} => fd_infos[cur] # c \/ ~thread_running[c]
  BY DEF LoopHolds
<1>3. ASSUME apc[c] = "read" PROVE ~Outstanding(c)
  <2>1. ~HeldByLoop(c)
    BY <1>1, <1>2, <1>3 DEF HeldByLoop, LoopHolds
  <2>2. ~fd_inthreadpool[c]
    BY <1>3 DEF ActiveHolds
  <2>3. Queued(c) = {} /\ Executing(c) = {}
    BY <2>2 DEF Queued, Executing, TaskMeetsItsConnection
  <2>4. QED
    BY <2>1, <2>3 DEF Outstanding
<1>4. QED
  BY <1>1, <1>2, <1>3 DEF ActiveHolds

-----------------------------------------------------------------------------
(* The theorems. *)

\* Type correctness of the worker, with any number of connections, fds and pool
\* threads (EpollWorker.cpp, TCPServer.cpp stop and accept_loop).
THEOREM TypeCorrect == SafeSpec => []TypeOK
  BY AlwaysInductive, PTL DEF Inductive

\* fd_inthreadpool works: the loop never submits a second request of a connection
\* while one is queued or running, although it reads the flag without fd_mutex
\* (EpollWorker.cpp, loop and handle_event).
THEOREM ConnectionHasOneTask == SafeSpec => []OneTaskPerConnection
  BY AlwaysInductive, PTL DEF Inductive

\* A task finds in fd_infos the connection it was read from, even though it looks
\* its fd up again and fd numbers are reused (enqueue_event_wrapper_nonstatic).
THEOREM TaskMeetsConnection == SafeSpec => []TaskMeetsItsConnection
  BY AlwaysInductive, PTL DEF Inductive

\* The active thread always has something to read, so the loop it would sleep in
\* is dead code (EpollWorker.cpp, activefd_handle_event).
THEOREM ActiveThreadsFindWork == SafeSpec => []ActiveFindsWork
  BY AlwaysInductive, PTL DEF Inductive

\* The loop thread and an active thread never read one connection together
\* (EpollWorker.cpp, handle_event and activefd_handle_event).
THEOREM ConnectionHasOneReader == SafeSpec => []OneReader
  BY AlwaysInductive, InductiveMeansOneReader, PTL

-----------------------------------------------------------------------------
(* The order in which handlers run. *)

\* The places of a task before handle_request.
Before == {"lookup", "lock", "parse"}

\* Packages that lose nothing but members keep their order.
LEMMA NothingNew ==
    ASSUME NumbersGrow, UNCHANGED <<sent, last>>,
           \A c \in Conns : Unhandled(c)' \subseteq Unhandled(c),
           \A c \in Conns : inbox'[c] \in {inbox[c], <<>>}
    PROVE  NumbersGrow'
<1> SUFFICES ASSUME NEW c \in Conns
             PROVE  /\ last'[c] <= sent'[c]
                    /\ \A p \in Unhandled(c)' : last'[c] < p.number
                                                /\ p.number <= sent'[c]
                    /\ \A i \in DOMAIN inbox'[c] :
                          /\ last'[c] < inbox'[c][i].number
                          /\ inbox'[c][i].number <= sent'[c]
                          /\ \A p \in Unhandled(c)' :
                                p.number < inbox'[c][i].number
  BY DEF NumbersGrow
<1>1. CASE inbox'[c] = inbox[c]
  BY <1>1 DEF NumbersGrow
<1>2. CASE inbox'[c] = <<>>
  BY <1>2 DEF NumbersGrow
<1>3. QED
  BY <1>1, <1>2

\* A task that ends or goes on takes no new package.
LEMMA TaskGoesOn ==
    ASSUME UNCHANGED <<event, queue>>,
           \A v \in PoolWorkers :
              exec'[v] = None \/ (exec'[v] = exec[v]
                                    /\ (wpc'[v] \in Before => wpc[v] \in Before))
    PROVE  \A c \in Conns : Unhandled(c)' \subseteq Unhandled(c)
  BY DEF Unhandled, HeldByLoop, Queued, Executing, Before

\* What is in flight are packages, and their numbers are naturals.
LEMMA UnhandledArePackages ==
    ASSUME TypeOK, NEW c \in Conns
    PROVE  /\ Unhandled(c) \subseteq Packages
           /\ \A p \in Packages : p.number \in Nat
<1>1. \A t \in Tasks : t.pkg \in Packages
  BY DEF Tasks
<1>2. HeldByLoop(c) => event \in Tasks
  BY DEF TypeOK, HeldByLoop
<1>3. \A i \in Queued(c) : queue[i] \in Tasks
  BY DEF TypeOK, Pool!TypeOK, Queued
<1>4. \A w \in Executing(c) : exec[w] \in Tasks
  BY DEF TypeOK, Pool!TypeOK, Executing
<1>5. \A p \in Packages : p.number \in Nat
  BY EpollWorkerAssumption DEF Packages
<1>6. QED
  BY <1>1, <1>2, <1>3, <1>4, <1>5 DEF Unhandled

\* A client numbers its packages in ascending order.
LEMMA SendKeepsOrder ==
    ASSUME Inductive, NumbersGrow,
           NEW c \in Conns, NEW ok \in BOOLEAN, Send(c, ok)
    PROVE  NumbersGrow'
<1> DEFINE e == [number |-> sent[c] + 1, ok |-> ok]
<1>1. /\ inbox[c] \in Seq(Packages)
      /\ e \in Packages
      /\ inbox'[c] = Append(inbox[c], e)
      /\ sent'[c] = sent[c] + 1
      /\ sent[c] \in Nat /\ last[c] \in Nat
  <2>1. inbox[c] \in Seq(Packages) /\ sent[c] \in 0..MaxSend /\ last[c] \in 0..MaxSend
    BY DEF Inductive, TypeOK
  <2>2. e \in Packages
    BY <2>1, EpollWorkerAssumption DEF Send, Packages
  <2>3. QED
    BY <2>1, <2>2, EpollWorkerAssumption DEF Send, Inductive, TypeOK
<1>2. \A d \in Conns : Unhandled(d)' = Unhandled(d)
  BY DEF Send, Unhandled, HeldByLoop, Queued, Executing
<1>3. \A p \in Unhandled(c) : p.number \in Nat
  BY UnhandledArePackages DEF Inductive
<1>4. \A i \in DOMAIN inbox[c] : inbox[c][i].number \in Nat
  BY <1>1, UnhandledArePackages DEF Inductive
<1>5. /\ last'[c] <= sent'[c]
      /\ \A p \in Unhandled(c)' : last'[c] < p.number /\ p.number <= sent'[c]
  BY <1>1, <1>2, <1>3 DEF NumbersGrow, Send
<1>6. ASSUME NEW i \in DOMAIN inbox'[c]
      PROVE  /\ last'[c] < inbox'[c][i].number
             /\ inbox'[c][i].number <= sent'[c]
             /\ \A p \in Unhandled(c)' : p.number < inbox'[c][i].number
  <2>1. CASE i \in DOMAIN inbox[c]
    <3>1. inbox'[c][i] = inbox[c][i]
      BY <1>1, <2>1, AppendElements
    <3>2. QED
      BY <1>1, <1>2, <1>4, <2>1, <3>1 DEF NumbersGrow, Send
  <2>2. CASE i = Len(inbox[c]) + 1
    <3>1. inbox'[c][i] = e
      BY <1>1, <2>2, AppendElements
    <3>2. QED
      BY <1>1, <1>2, <1>3, <3>1 DEF NumbersGrow, Send
  <2>3. QED
    BY <1>1, <2>1, <2>2, AppendElements
<1>7. \A d \in Conns : d # c => UNCHANGED <<inbox[d], sent[d], last[d]>>
  BY DEF Send, Inductive, TypeOK
<1>8. QED
  BY <1>2, <1>5, <1>6, <1>7 DEF NumbersGrow

\* A read takes a package newer than all those read before and drops the rest.
LEMMA HandleReadKeepsOrder ==
    ASSUME Inductive, NumbersGrow, HandleRead
    PROVE  NumbersGrow'
<1> USE DEF Inductive
<1>1. CASE UNCHANGED <<event, inbox>>
  BY <1>1, NothingNew, TaskGoesOn DEF HandleRead
<1>2. CASE /\ cur \in Fds
           /\ ReadResult(cur) = "data"
           /\ event' = TaskRead(cur)
           /\ inbox' = [inbox EXCEPT ![sock[cur]] = <<>>]
  <2> DEFINE c == sock[cur]
             p == Head(inbox[c])
  <2>1. c \in Conns /\ inbox[c] # <<>> /\ inbox[c] \in Seq(Packages)
    BY <1>2 DEF ReadResult, TypeOK
  <2>2. p = inbox[c][1] /\ 1 \in DOMAIN inbox[c]
    BY <2>1, TailElements
  <2>3. event'.from = c /\ event'.pkg = p
    BY <1>2 DEF TaskRead
  <2>4. \A d \in Conns : /\ Queued(d)' = Queued(d)
                          /\ Executing(d)' = Executing(d)
                          /\ UNCHANGED <<queue, exec, wpc>>
    BY DEF HandleRead, Queued, Executing
  <2>5. \A d \in Conns :
           Unhandled(d)' \subseteq Unhandled(d) \union (IF d = c THEN {p} ELSE {})
    BY <2>3, <2>4 DEF Unhandled, HeldByLoop
  <2>6. /\ inbox'[c] = <<>>
        /\ \A d \in Conns : d # c => inbox'[d] = inbox[d]
        /\ UNCHANGED <<sent, last>>
    BY <1>2, <2>1 DEF HandleRead, TypeOK
  <2>7. last[c] < p.number /\ p.number <= sent[c]
    BY <2>1, <2>2 DEF NumbersGrow
  <2>8. ASSUME NEW d \in Conns, NEW q \in Unhandled(d)'
        PROVE  last[d] < q.number /\ q.number <= sent[d]
    BY <2>5, <2>7 DEF NumbersGrow
  <2>9. \A d \in Conns : d # c => Unhandled(d)' \subseteq Unhandled(d)
    BY <2>5
  <2>10. QED
    BY <2>1, <2>6, <2>8, <2>9 DEF NumbersGrow
<1>3. QED
  BY <1>1, <1>2 DEF HandleRead, LoopHolds, TypeOK

\* The loop thread hands packages on and reorders none.
LEMMA LoopKeepsOrder ==
    ASSUME Inductive, NumbersGrow, LoopStep
    PROVE  NumbersGrow'
<1>1. CASE HandleEnqueue
  <2>1. event \in Tasks /\ queue \in Seq(Tasks)
    BY <1>1 DEF HandleEnqueue, Inductive, LoopHolds, TypeOK, Pool!TypeOK
  <2>2. \A i \in DOMAIN queue' :
           \/ i \in DOMAIN queue /\ queue'[i] = queue[i]
           \/ queue'[i] = event
    BY <1>1, <2>1, AppendElements DEF HandleEnqueue, Pool!Submit
  <2>3. \A c \in Conns : Unhandled(c)' \subseteq Unhandled(c)
    BY <1>1, <2>1, <2>2, NoneIsNoTask
       DEF HandleEnqueue, Pool!Submit, Unhandled, HeldByLoop, Queued, Executing
  <2>4. QED
    BY <1>1, <2>3, NothingNew DEF HandleEnqueue
<1>2. CASE EpollWait \/ LoopEnds \/ DrainEnds \/ HandleMark
  BY <1>2, NothingNew, TaskGoesOn DEF EpollWait, LoopEnds, DrainEnds, HandleMark
<1>3. CASE HandleClose \/ HandleDel
  BY <1>3, NothingNew, TaskGoesOn DEF HandleClose, HandleDel
<1>4. ASSUME NEW f \in Fds,
             DispatchUnknown(f) \/ DispatchToActive(f) \/ DispatchSpawn(f)
               \/ DispatchHandle(f)
      PROVE  NumbersGrow'
  BY <1>4, NothingNew, TaskGoesOn DEF Dispatch, DispatchUnknown,
         DispatchToActive, DispatchSpawn, DispatchHandle, HandOver
<1>5. QED
  BY <1>1, <1>2, <1>3, <1>4, HandleReadKeepsOrder DEF LoopStep

\* handle_request is given a package newer than the last.
LEMMA TaskHandleKeepsOrder ==
    ASSUME Inductive, NumbersGrow, NEW w \in PoolWorkers, TaskHandle(w)
    PROVE  /\ NumbersGrow'
           /\ \A c \in Conns : last'[c] # last[c] => last'[c] > last[c]
<1>0. exec[w] \in Tasks /\ exec[w].from \in Conns
  BY DEF TaskHandle, Inductive, WorkersHold, TypeOK, Pool!TypeOK, Tasks
<1>1. PICK c \in Conns, p \in Packages :
         /\ exec[w] \in Tasks /\ exec[w].from = c /\ exec[w].pkg = p
         /\ w \in Executing(c)
  BY <1>0, NoneIsNoTask DEF Executing, Tasks
<1>2. p \in Unhandled(c)
  BY <1>1 DEF TaskHandle, Unhandled
<1>3. /\ last'[c] = p.number
      /\ \A d \in Conns : d # c => last'[d] = last[d]
      /\ UNCHANGED <<sent, inbox>>
  BY <1>1 DEF TaskHandle, Inductive, TypeOK
<1>4. \A d \in Conns : Unhandled(d)' \subseteq Unhandled(d)
  BY TaskGoesOn DEF TaskHandle, Inductive, TypeOK, Before
<1>5. Unhandled(c)' = {}
  <2>1. Queued(c) = {} /\ Executing(c) = {w} /\ ~HeldByLoop(c)
    BY <1>1 DEF Inductive, OneTaskPerConnection
  <2>2. wpc'[w] = "clear"
    BY DEF TaskHandle, Inductive, TypeOK
  <2>3. QED
    BY <2>1, <2>2 DEF TaskHandle, Unhandled, HeldByLoop, Queued, Executing
<1>6. last[c] < p.number /\ p.number \in Nat /\ last[c] \in Nat
  <2>1. last[c] < p.number
    BY <1>1, <1>2 DEF NumbersGrow
  <2>2. p.number \in Nat /\ last[c] \in 0..MaxSend
    BY <1>1, <1>2, UnhandledArePackages DEF Inductive, TypeOK
  <2>3. QED
    BY <2>1, <2>2, EpollWorkerAssumption
<1>7. NumbersGrow'
  <2>1. \A i \in DOMAIN inbox[c] : p.number < inbox[c][i].number
    BY <1>1, <1>2 DEF NumbersGrow
  <2>2. p.number <= sent[c]
    BY <1>1, <1>2 DEF NumbersGrow
  <2>3. ASSUME NEW d \in Conns, NEW i \in DOMAIN inbox[d]
        PROVE  last'[d] < inbox[d][i].number /\ inbox[d][i].number <= sent[d]
    BY <1>3, <2>1 DEF NumbersGrow
  <2>4. ASSUME NEW d \in Conns
        PROVE  /\ last'[d] <= sent[d]
               /\ \A q \in Unhandled(d)' : last'[d] < q.number
    <3>1. CASE d = c
      BY <1>3, <1>5, <2>2, <3>1
    <3>2. CASE d # c
      BY <1>3, <1>4, <3>2 DEF NumbersGrow
    <3>3. QED
      BY <3>1, <3>2
  <2>5. QED
    BY <1>3, <1>4, <2>3, <2>4 DEF NumbersGrow
<1>8. QED
  BY <1>3, <1>6, <1>7

\* A pool thread carries one package from the queue to handle_request.
LEMMA TaskKeepsOrder ==
    ASSUME Inductive, NumbersGrow, NEW w \in PoolWorkers, TaskStep(w)
    PROVE  NumbersGrow'
<1> USE DEF Inductive
<1>1. CASE TaskStart(w)
  <2>1. /\ queue \in Seq(Tasks)
        /\ queue # <<>>
        /\ exec'[w] = queue[1]
        /\ 1 \in DOMAIN queue
        /\ \A v \in PoolWorkers : v # w => exec'[v] = exec[v] /\ wpc'[v] = wpc[v]
    BY <1>1, TailElements DEF TaskStart, Pool!Start, TypeOK, Pool!TypeOK
  <2>2. \A i \in DOMAIN queue' : i + 1 \in DOMAIN queue
                                  /\ queue'[i] = queue[i + 1]
    BY <1>1, <2>1, TailElements DEF TaskStart, Pool!Start
  <2>3. \A c \in Conns : Unhandled(c)' \subseteq Unhandled(c)
    BY <1>1, <2>1, <2>2
       DEF TaskStart, Unhandled, HeldByLoop, Queued, Executing
  <2>4. QED
    BY <1>1, <2>3, NothingNew DEF TaskStart
<1>2. CASE TaskUndefined(w)
  BY <1>2, NothingNew, TaskGoesOn DEF TaskUndefined, TypeOK, Before
<1>3. CASE TaskLookup(w)
  BY <1>3, NothingNew, TaskGoesOn
     DEF TaskLookup, Pool!Finish, TypeOK, Pool!TypeOK, Before
<1>4. CASE TaskLock(w)
  BY <1>4, NothingNew, TaskGoesOn DEF TaskLock, TypeOK, Before
<1>5. CASE TaskFails(w) \/ TaskClear(w)
  BY <1>5, NothingNew, TaskGoesOn
     DEF TaskFails, TaskClear, TaskOver, TaskReturn, Pool!Finish, TypeOK,
          Pool!TypeOK,
         Before
<1>6. QED
  BY <1>1, <1>2, <1>3, <1>4, <1>5, TaskHandleKeepsOrder DEF TaskStep

\* Every step keeps NumbersGrow.
LEMMA NextKeepsOrder ==
    Inductive /\ NumbersGrow /\ [Next]_vars => NumbersGrow'
<1> SUFFICES ASSUME Inductive, NumbersGrow, [Next]_vars PROVE NumbersGrow'
  OBVIOUS
<1>1. ASSUME NEW c \in Conns, NEW reset \in BOOLEAN, Hangup(c, reset)
      PROVE  NumbersGrow'
  BY <1>1, NothingNew, TaskGoesOn DEF Hangup, Inductive, TypeOK
<1>2. CASE AcceptStep
  BY <1>2, NothingNew, TaskGoesOn DEF AcceptStep, AddFdRegister, AddFdInfo
<1>3. ASSUME NEW c \in Conns, ActiveStep(c) \/ ActiveSpuriousWakeup(c)
      PROVE  NumbersGrow'
  <2>1. CASE ActiveRead(c)
    BY <2>1, NothingNew, TaskGoesOn DEF ActiveRead, Inductive, TypeOK
  <2>2. CASE ActiveClose(c) \/ ActiveDel(c)
    BY <2>2, NothingNew, TaskGoesOn DEF ActiveClose, ActiveDel
  <2>3. CASE ActiveUndefined(c) \/ ActiveStart(c) \/ ActiveNeed(c)
               \/ ActiveLock(c) \/ ActiveSpuriousWakeup(c)
    BY <2>3, NothingNew, TaskGoesOn DEF ActiveUndefined, ActiveStart,
           ActiveNeed, ActiveLock, AtLock, ActiveSpuriousWakeup
  <2>4. QED
    BY <1>3, <2>1, <2>2, <2>3 DEF ActiveStep
<1>4. CASE StopStep
  BY <1>4, NothingNew, TaskGoesOn DEF StopStep, SetStopAll, StopAccepting
<1>5. CASE DtorStep
  BY <1>5, NothingNew, TaskGoesOn DEF DtorStep, StopClose, DtorVisit,
         StopWorker, DtorJoin, DtorCheck, DtorEnd
<1>6. CASE UNCHANGED vars
  BY <1>6, NothingNew, TaskGoesOn DEF vars
<1>7. QED
  BY <1>1, <1>2, <1>3, <1>4, <1>5, <1>6, SendKeepsOrder, LoopKeepsOrder,
     TaskKeepsOrder DEF Next, ClientStep

\* Nothing but TaskHandle records a package as handled.
LEMMA OnlyTaskHandleHandles ==
    ASSUME Inductive, [Next]_vars,
           \A w \in PoolWorkers : ~TaskHandle(w)
    PROVE  UNCHANGED last
<1>1. CASE ClientStep \/ AcceptStep \/ StopStep \/ DtorStep
  BY <1>1 DEF ClientStep, Send, Hangup, AcceptStep, AddFdRegister, AddFdInfo,
         StopStep, SetStopAll, StopAccepting, DtorStep, StopClose, DtorVisit,
         StopWorker, DtorJoin, DtorCheck, DtorEnd
<1>2. CASE LoopStep
  BY <1>2 DEF LoopStep, EpollWait, LoopEnds, DrainEnds, Dispatch,
         DispatchUnknown, DispatchToActive, DispatchSpawn, DispatchHandle, HandOver,
         HandleRead, HandleMark, HandleEnqueue, HandleClose, HandleDel
<1>3. ASSUME NEW w \in PoolWorkers, TaskStep(w) PROVE UNCHANGED last
  BY <1>3 DEF TaskStep, TaskStart, TaskUndefined, TaskLookup, TaskLock,
         TaskFails, TaskClear, TaskOver
<1>4. ASSUME NEW c \in Conns, ActiveStep(c) \/ ActiveSpuriousWakeup(c)
      PROVE  UNCHANGED last
  BY <1>4 DEF ActiveStep, ActiveUndefined, ActiveStart, ActiveNeed, ActiveLock,
       AtLock,
         ActiveRead, ActiveClose, ActiveDel, ActiveSpuriousWakeup
<1>5. CASE UNCHANGED vars
  BY <1>5 DEF vars
<1>6. QED
  BY <1>1, <1>2, <1>3, <1>4, <1>5 DEF Next

\* Requests are handled in the order their client sent them, although they pass
\* through the kernel buffer, the loop thread and any number of pool threads
\* (EpollWorker.cpp, handle_event and enqueue_event_wrapper_nonstatic).
THEOREM RequestsHandledInOrder == SafeSpec => HandledInOrder
<1>1. Init => NumbersGrow
  BY EpollWorkerAssumption DEF Init, NumbersGrow, Unhandled, HeldByLoop, Queued,
     Executing, Pool!Init
<1>2. Inductive /\ NumbersGrow /\ [Next]_vars
        => [\A c \in Conns : last'[c] # last[c] => last'[c] > last[c]]_vars
  BY TaskHandleKeepsOrder, OnlyTaskHandleHandles
<1>3. QED
  BY AlwaysInductive, NextKeepsOrder, <1>1, <1>2, PTL DEF SafeSpec,
       HandledInOrder

-----------------------------------------------------------------------------

\* While a step moves neither the destructor nor the loop thread, active threads
\* may only finish.
LEMMA ThreadsFinish ==
    ASSUME StopAccounts, UNCHANGED <<lpc, dpc, dleft, dcur, fdof>>,
           \A c \in Conns :
              apc'[c] \notin {"none", "del", "done", "undefined"} =>
                 apc[c] \notin {"none", "del", "done", "undefined"}
    PROVE  StopAccounts'
  BY DEF StopAccounts

\* A thread that may still use fd_infos has its entry there.
LEMMA BusyHasEntry ==
    ASSUME Inductive
    PROVE  \A c \in Conns : apc[c] \notin {"none", "del", "done", "undefined"} =>
                              fdof[c] \in Fds /\ fd_infos[fdof[c]] = c
<1> SUFFICES ASSUME NEW c \in Conns,
                    apc[c] \notin {"none", "del", "done", "undefined"}
             PROVE  fdof[c] \in Fds /\ fd_infos[fdof[c]] = c
  OBVIOUS
<1>1. apc[c] \in ActivePlaces /\ apc[c] # "sleep"
  BY DEF Inductive, TypeOK, ActiveFindsWork
<1>2. apc[c] \in {"start", "need", "lock", "waiting", "read", "relock", "close"}
  BY <1>1 DEF ActivePlaces
<1>3. fdof[c] # None /\ fd_infos[fdof[c]] = c
  BY <1>2 DEF Inductive, ActiveHolds
<1>4. QED
  BY <1>3 DEF Inductive, TypeOK

\* The loop thread moves only before ~EpollWorker has joined it.
LEMMA LoopKeepsStopAccounts ==
    ASSUME Inductive, StopAccounts, LoopStep
    PROVE  StopAccounts'
<1>1. dpc \notin {"visit", "check", "waiting", "destroyed"} \/ lpc = "exited"
  BY DEF StopAccounts
<1>2. lpc # "exited" /\ UNCHANGED dpc
  BY DEF LoopStep, EpollWait, LoopEnds, DrainEnds, Dispatch, DispatchUnknown,
         DispatchToActive, DispatchSpawn, DispatchHandle, HandOver, HandleRead,
         HandleMark, HandleEnqueue, HandleClose, HandleDel
<1>3. QED
  BY <1>1, <1>2 DEF StopAccounts

\* A task may wake the destructor or an active thread; neither is forgotten.
LEMMA TaskKeepsStopAccounts ==
    ASSUME Inductive, StopAccounts, NEW w \in PoolWorkers, TaskStep(w)
    PROVE  StopAccounts'
<1>1. CASE TaskClear(w)
  <2>1. winfo[w] \in Conns
    BY <1>1 DEF TaskClear, TaskOver, Inductive, WorkersHold, TypeOK,
         Pool!TypeOK, Tasks
  <2>2. CASE UNCHANGED <<fd_cond, apc, dpc>>
    BY <1>1, <2>2, ThreadsFinish DEF TaskClear, TaskOver
  <2>3. ASSUME NEW t \in fd_cond[winfo[w]],
               apc' = IF t = "active" THEN [apc EXCEPT ![winfo[w]] = "lock"]
                                      ELSE apc,
               dpc' = IF t = "dtor" THEN "check" ELSE dpc
        PROVE  StopAccounts'
    <3>1. t \in {"active", "dtor"}
      BY <2>1 DEF Inductive, TypeOK
    <3>2. CASE t = "active"
      <4>1. apc[winfo[w]] = "waiting"
        BY <2>1, <3>2 DEF Inductive, ActiveHolds
      <4>2. QED
        BY <1>1, <2>1, <2>3, <3>2, <4>1, ThreadsFinish
           DEF TaskClear, TaskOver, Inductive, TypeOK
    <3>3. CASE t = "dtor"
      <4>1. dpc = "waiting"
        BY <2>1, <3>3 DEF Inductive, ActiveHolds
      <4>2. QED
        BY <1>1, <2>3, <3>3, <4>1 DEF TaskClear, TaskOver, StopAccounts
    <3>4. QED
      BY <3>1, <3>2, <3>3
  <2>4. QED
    BY <1>1, <2>2, <2>3 DEF TaskClear, TaskOver, NotifyOne
<1>2. CASE TaskStart(w) \/ TaskUndefined(w) \/ TaskLookup(w) \/ TaskLock(w)
             \/ TaskFails(w) \/ TaskHandle(w)
  BY <1>2, ThreadsFinish DEF TaskStart, TaskUndefined, TaskLookup, TaskLock,
         TaskFails, TaskHandle
<1>3. QED
  BY <1>1, <1>2 DEF TaskStep

\* An active thread stays accounted for until it has erased its entry.
LEMMA ActiveKeepsStopAccounts ==
    ASSUME Inductive, StopAccounts, NEW c \in Conns,
           ActiveStep(c) \/ ActiveSpuriousWakeup(c)
    PROVE  StopAccounts'
<1>1. /\ UNCHANGED <<lpc, dpc, dleft, dcur, fdof>>
      /\ apc[c] \notin {"none", "done", "undefined"}
      /\ apc[c] = "del" => apc'[c] \in {"done", "undefined"}
      /\ \A d \in Conns : d # c => apc'[d] = apc[d]
  <2> USE DEF Inductive, TypeOK
  <2>1. CASE ActiveLock(c)
    BY <2>1 DEF ActiveLock, AtLock
  <2>2. CASE ActiveRead(c)
    BY <2>2 DEF ActiveRead
  <2>3. CASE ActiveClose(c) \/ ActiveDel(c)
    BY <2>3 DEF ActiveClose, ActiveDel
  <2>4. CASE ActiveUndefined(c) \/ ActiveStart(c) \/ ActiveNeed(c)
               \/ ActiveSpuriousWakeup(c)
    BY <2>4 DEF ActiveUndefined, ActiveStart, ActiveNeed, ActiveSpuriousWakeup
  <2>5. QED
    BY <2>1, <2>2, <2>3, <2>4 DEF ActiveStep
<1>2. QED
  BY <1>1, ThreadsFinish

\* ~EpollWorker leaves a connection only when no thread runs for it.
LEMMA DtorKeepsStopAccounts ==
    ASSUME Inductive, StopAccounts, DtorStep
    PROVE  StopAccounts'
<1>1. ASSUME NEW f \in Fds, StopClose(f) PROVE StopAccounts'
  BY <1>1, ThreadsFinish DEF StopClose
<1>2. CASE StopWorker
  BY <1>2 DEF StopWorker, StopAccounts
<1>3. CASE DtorJoin
  <2>1. lpc' = "exited" /\ dpc' = "visit"
    BY <1>3 DEF DtorJoin
  <2>2. \A c \in Conns : apc'[c] \notin {"none", "del", "done", "undefined"} =>
                           fdof'[c] \in dleft'
    BY <1>3, BusyHasEntry, EpollWorkerAssumption DEF DtorJoin
  <2>3. QED
    BY <2>1, <2>2 DEF StopAccounts
<1>4. ASSUME NEW f \in Fds, DtorVisit(f) PROVE StopAccounts'
  <2>1. lpc' = "exited" /\ dpc' \in {"visit", "check"}
    BY <1>4 DEF DtorVisit, StopAccounts
  <2>2. ASSUME NEW c \in Conns,
               apc'[c] \notin {"none", "del", "done", "undefined"}
        PROVE  fdof'[c] \in dleft' \/ (dpc' \in {"check", "waiting"} /\ dcur' = c)
    <3>1. fdof[c] \in dleft /\ fd_infos[fdof[c]] = c
      BY <1>4, <2>2, BusyHasEntry DEF DtorVisit, StopAccounts
    <3>2. CASE fdof[c] = f
      BY <1>4, <3>1, <3>2, EpollWorkerAssumption DEF DtorVisit
    <3>3. CASE fdof[c] # f
      BY <1>4, <3>1, <3>3 DEF DtorVisit
    <3>4. QED
      BY <3>2, <3>3
  <2>3. QED
    BY <2>1, <2>2 DEF StopAccounts
<1>5. CASE DtorCheck
  BY <1>5 DEF DtorCheck, StopAccounts, Inductive, ActiveHolds, TypeOK
<1>6. CASE DtorEnd
  BY <1>6 DEF DtorEnd, StopAccounts
<1>7. QED
  BY <1>1, <1>2, <1>3, <1>4, <1>5, <1>6 DEF DtorStep

\* Every step keeps StopAccounts.
LEMMA NextKeepsStopAccounts ==
    Inductive /\ StopAccounts /\ [Next]_vars => StopAccounts'
<1> SUFFICES ASSUME Inductive, StopAccounts, [Next]_vars PROVE StopAccounts'
  OBVIOUS
<1>1. CASE ClientStep
  BY <1>1, ThreadsFinish DEF ClientStep, Send, Hangup
<1>2. CASE AcceptStep
  <2>1. ASSUME NEW c \in Conns, NEW f \in Fds, AddFdRegister(c, f)
        PROVE  StopAccounts'
    BY <2>1 DEF AddFdRegister, StopAccounts
  <2>2. CASE AddFdInfo
    BY <2>2, ThreadsFinish DEF AddFdInfo
  <2>3. QED
    BY <1>2, <2>1, <2>2 DEF AcceptStep
<1>3. CASE StopStep
  BY <1>3 DEF StopStep, SetStopAll, StopAccepting, StopAccounts
<1>4. CASE UNCHANGED vars
  BY <1>4, ThreadsFinish DEF vars
<1>5. QED
  BY <1>1, <1>2, <1>3, <1>4, LoopKeepsStopAccounts, TaskKeepsStopAccounts,
     ActiveKeepsStopAccounts, DtorKeepsStopAccounts DEF Next

\* The wait of ~EpollWorker is not in vain: the only active threads that outlive
\* the worker are past the erase in close_fd (EpollWorker.cpp, ~EpollWorker).
THEOREM DestructorOutlastsThreads == SafeSpec => []DestroyedAfterThreads
<1>1. Init => StopAccounts
  BY DEF Init, StopAccounts
<1>2. StopAccounts => DestroyedAfterThreads
  BY DEF StopAccounts, DestroyedAfterThreads
<1>3. QED
  BY AlwaysInductive, NextKeepsStopAccounts, <1>1, <1>2, PTL DEF SafeSpec
-----------------------------------------------------------------------------
(* Who waits for whom.  MutexHeld, FdMapHeld and the two parts of what holds   *)
(* if nothing fails are kept one by one.                                       *)

\* fd_mutex stays with its holder while that one does not move.
LEMMA MutexStays ==
    ASSUME MutexHeld, UNCHANGED <<fd_mutex, winfo, wpc>>,
           \A c \in Conns :
              apc[c] \in {"read", "relock", "undefined"} => apc'[c] = apc[c],
           dpc = "destroyed" => dpc' = "destroyed"
    PROVE  MutexHeld'
  BY DEF MutexHeld

\* The loop thread never takes fd_mutex for longer than a step, nor does the
\* destructor.
LEMMA OthersKeepMutex ==
    ASSUME Inductive, MutexHeld,
           ClientStep \/ AcceptStep \/ LoopStep \/ StopStep \/ DtorStep
             \/ UNCHANGED vars
    PROVE  MutexHeld'
<1>1. CASE ClientStep \/ AcceptStep \/ StopStep \/ UNCHANGED vars
  BY <1>1, MutexStays DEF ClientStep, AcceptStep, StopStep, vars, Send, Hangup,
     AddFdRegister, AddFdInfo, SetStopAll, StopAccepting
<1>2. CASE LoopStep
  <2>1. ASSUME NEW f \in Fds, DispatchSpawn(f) PROVE MutexHeld'
    <3>1. fd_infos[f] \in Conns /\ apc[fd_infos[f]] = "none"
      BY <2>1 DEF DispatchSpawn, Dispatch, Inductive, TypeOK, ActiveHolds
    <3>2. \A c \in Conns :
             apc[c] \in {"read", "relock", "undefined"} => apc'[c] = apc[c]
      BY <2>1, <3>1 DEF DispatchSpawn, Inductive, TypeOK
    <3>3. QED
      BY <2>1, <3>2, MutexStays DEF DispatchSpawn, Dispatch
  <2>2. ASSUME ~\E f \in Fds : DispatchSpawn(f) PROVE MutexHeld'
    BY <1>2, <2>2, MutexStays DEF LoopStep, EpollWait, LoopEnds, DrainEnds, Dispatch,
       DispatchUnknown, DispatchToActive, DispatchHandle, HandOver, HandleRead,
       HandleMark, HandleEnqueue, HandleClose, HandleDel
  <2>3. QED
    BY <2>1, <2>2
<1>3. CASE DtorStep
  BY <1>3, MutexStays DEF DtorStep, StopClose, DtorVisit, StopWorker, DtorJoin,
     DtorCheck, DtorEnd
<1>4. QED
  BY <1>1, <1>2, <1>3

\* The types MutexHeld needs.
LEMMA MutexTypes ==
    ASSUME Inductive
    PROVE  /\ fd_mutex \in [Conns -> PoolWorkers \union {"active", None}]
           /\ winfo \in [PoolWorkers -> Conns \union {None}]
           /\ wpc \in [PoolWorkers -> TaskPlaces]
           /\ apc \in [Conns -> ActivePlaces]
           /\ None \notin PoolWorkers \union {"active"} /\ "active" \notin PoolWorkers
  BY EpollWorkerAssumption DEF Inductive, TypeOK

\* A task takes fd_mutex with a lock_guard, and lets go of its own only.
LEMMA TaskKeepsMutex ==
    ASSUME Inductive, MutexHeld, NEW w \in PoolWorkers, TaskStep(w)
    PROVE  MutexHeld'
<1> USE MutexTypes
<1>1. CASE TaskStart(w)
  <2>1. wpc[w] = "idle"
    BY <1>1 DEF TaskStart, Inductive, WorkersHold, Pool!Start
  <2>2. QED
    BY <1>1, <2>1 DEF TaskStart, MutexHeld
<1>2. CASE TaskUndefined(w)
  BY <1>2 DEF TaskUndefined, MutexHeld
<1>3. CASE TaskLookup(w)
  <2>1. /\ wpc[w] = "lookup"
        /\ \A v \in PoolWorkers : v # w => wpc'[v] = wpc[v] /\ winfo'[v] = winfo[v]
    BY <1>3 DEF TaskLookup
  <2>2. QED
    BY <1>3, <2>1 DEF TaskLookup, MutexHeld
<1>4. CASE TaskLock(w)
  <2>1. CASE winfo[w] \in Conns
    BY <1>4, <2>1 DEF TaskLock, MutexHeld
  <2>2. CASE winfo[w] \notin Conns
    BY <1>4, <2>2 DEF TaskLock, MutexHeld
  <2>3. QED
    BY <2>1, <2>2
<1>5. ASSUME TaskFails(w) \/ TaskClear(w)
      PROVE  MutexHeld'
  <2>1. winfo[w] \in Conns
    BY <1>5 DEF TaskFails, TaskClear, TaskOver, Inductive, TypeOK, WorkersHold,
       Pool!TypeOK, Tasks
  <2>2. /\ \A d \in Conns : apc[d] # "waiting" => apc'[d] = apc[d]
        /\ dpc # "waiting" => dpc' = dpc
    BY <1>5, <2>1, Notified DEF TaskFails, TaskClear
  <2>3. /\ fd_mutex' = [fd_mutex EXCEPT ![winfo[w]] = None]
        /\ wpc' = [wpc EXCEPT ![w] = "idle"]
        /\ winfo' = [winfo EXCEPT ![w] = None]
        /\ wpc[w] \in {"parse", "clear"}
    BY <1>5 DEF TaskFails, TaskClear, TaskOver, TaskReturn
  <2>4. \A d \in Conns : d # winfo[w] => fd_mutex[d] # w
    BY DEF MutexHeld
  <2>5. /\ fd_mutex'[winfo[w]] = None
        /\ \A d \in Conns : d # winfo[w] => fd_mutex'[d] = fd_mutex[d]
        /\ \A v \in PoolWorkers : v # w => wpc'[v] = wpc[v] /\ winfo'[v] = winfo[v]
    BY <2>1, <2>3
  <2>6. \A d \in Conns : fd_mutex'[d] = "active" =>
          apc'[d] \in {"read", "relock"} \/ (apc'[d] = "undefined" /\ dpc' = "destroyed")
    BY <2>2, <2>5 DEF MutexHeld
  <2>7. \A d \in Conns, v \in PoolWorkers : fd_mutex'[d] = v =>
          winfo'[v] = d /\ wpc'[v] \in {"parse", "clear", "undefined"}
    BY <2>4, <2>5 DEF MutexHeld
  <2>8. QED
    BY <2>6, <2>7 DEF MutexHeld
<1>6. CASE TaskHandle(w)
  BY <1>6 DEF TaskHandle, MutexHeld
<1>7. QED
  BY <1>1, <1>2, <1>3, <1>4, <1>5, <1>6 DEF TaskStep

\* An active thread holds fd_mutex in its read loop, and in relock for ever.
LEMMA ActiveKeepsMutex ==
    ASSUME Inductive, MutexHeld, NEW c \in Conns,
           ActiveStep(c) \/ ActiveSpuriousWakeup(c)
    PROVE  MutexHeld'
<1>1. ASSUME UNCHANGED <<winfo, wpc, dpc>>,
             \A d \in Conns : d # c => apc'[d] = apc[d] /\ fd_mutex'[d] = fd_mutex[d],
             \/ fd_mutex'[c] = fd_mutex[c] /\ fd_mutex[c] # "active"
             \/ fd_mutex'[c] = fd_mutex[c] /\ apc'[c] \in {"read", "relock"}
             \/ fd_mutex'[c] = fd_mutex[c] /\ apc'[c] = "undefined" /\ dpc = "destroyed"
             \/ fd_mutex'[c] = "active" /\ apc'[c] = "read"
             \/ fd_mutex'[c] = None
      PROVE  MutexHeld'
  <2>1. \A d \in Conns : fd_mutex'[d] = "active" =>
          apc'[d] \in {"read", "relock"} \/ (apc'[d] = "undefined" /\ dpc' = "destroyed")
    BY <1>1, MutexTypes, EpollWorkerAssumption DEF MutexHeld
  <2>2. \A d \in Conns, v \in PoolWorkers : fd_mutex'[d] = v => fd_mutex[d] = v
    BY <1>1, MutexTypes
  <2>3. QED
    BY <1>1, <2>1, <2>2 DEF MutexHeld
<1>2. apc[c] \notin {"read", "relock", "undefined"} => fd_mutex[c] # "active"
  BY DEF MutexHeld
<1> USE MutexTypes
<1>3. CASE ActiveUndefined(c)
  BY <1>1, <1>3 DEF ActiveUndefined
<1>4. CASE ActiveStart(c) \/ ActiveNeed(c) \/ ActiveSpuriousWakeup(c)
  BY <1>1, <1>2, <1>4 DEF ActiveStart, ActiveNeed, ActiveSpuriousWakeup
<1>5. CASE ActiveLock(c)
  BY <1>1, <1>2, <1>5 DEF ActiveLock, AtLock
<1>6. CASE ActiveRead(c)
  <2>1. ReadResult(fdof[c]) \in {"data", "error", "again"}
    BY DEF ReadResult
  <2>2. CASE ReadResult(fdof[c]) = "data"
    BY <1>1, <1>6, <2>2 DEF ActiveRead
  <2>3. CASE ReadResult(fdof[c]) # "data"
    <3>1. /\ fd_mutex' = [fd_mutex EXCEPT ![c] = None]
          /\ UNCHANGED <<winfo, wpc, dpc>>
      BY <1>6, <2>3 DEF ActiveRead
    <3>2. \A d \in Conns : d # c => apc'[d] = apc[d]
      BY <1>6 DEF ActiveRead
    <3>3. QED
      BY <1>1, <3>1, <3>2
  <2>4. QED
    BY <2>2, <2>3
<1>7. CASE ActiveClose(c) \/ ActiveDel(c)
  BY <1>1, <1>2, <1>7 DEF ActiveClose, ActiveDel
<1>8. QED
  BY <1>3, <1>4, <1>5, <1>6, <1>7 DEF ActiveStep

-----------------------------------------------------------------------------

\* fd_map stays as it is while nobody enters or leaves close_fd.
LEMMA FdMapStays ==
    ASSUME FdMapHeld, UNCHANGED fd_map,
           lpc = "del" \/ lpc' = "del" => UNCHANGED <<lpc, cur>>,
           fresh' \subseteq fresh,
           \A c \in Conns :
              /\ apc[c] = "none" => apc'[c] = "none" \/ c \notin fresh
              /\ apc[c] = "del" <=> apc'[c] = "del"
              /\ apc[c] = "del" => fdof'[c] = fdof[c],
           dpc = "destroyed" => dpc' = "destroyed"
    PROVE  FdMapHeld'
  BY DEF FdMapHeld

\* Only the loop thread's close_fd keeps fd_map from one step to the next.
LEMMA LoopKeepsFdMap ==
    ASSUME Inductive, FdMapHeld, LoopStep
    PROVE  FdMapHeld'
<1>1. CASE EpollWait \/ LoopEnds \/ DrainEnds
  BY <1>1, FdMapStays DEF EpollWait, LoopEnds, DrainEnds
<1>2. ASSUME NEW f \in Fds, DispatchUnknown(f) \/ DispatchToActive(f) \/ DispatchHandle(f)
      PROVE  FdMapHeld'
  BY <1>2, FdMapStays DEF Dispatch, DispatchUnknown, DispatchToActive, DispatchHandle,
     HandOver
<1>3. ASSUME NEW f \in Fds, DispatchSpawn(f) PROVE FdMapHeld'
  <2>1. fd_infos[f] \in Conns /\ apc[fd_infos[f]] = "none" /\ fd_infos[f] \notin fresh
    BY <1>3 DEF DispatchSpawn, Dispatch, Inductive, TypeOK, ActiveHolds,
       EntriesMatchSockets
  <2>2. QED
    BY <1>3, <2>1, FdMapStays DEF DispatchSpawn, Dispatch, Inductive, TypeOK
<1>4. CASE HandleRead \/ HandleMark \/ HandleEnqueue
  BY <1>4, FdMapStays DEF HandleRead, HandleReturns, HandleMark, HandleEnqueue
<1>5. CASE HandleClose
  BY <1>5 DEF HandleClose, CloseFd, FdMapHeld, Inductive, LoopHolds
<1>6. CASE HandleDel
  BY <1>6 DEF HandleDel, DelFd, HandleReturns, FdMapHeld
<1>7. QED
  BY <1>1, <1>2, <1>3, <1>4, <1>5, <1>6 DEF LoopStep

\* Tasks look at fd_map and wake threads that do not hold it.
LEMMA TaskKeepsFdMap ==
    ASSUME Inductive, FdMapHeld, NEW w \in PoolWorkers, TaskStep(w)
    PROVE  FdMapHeld'
<1>1. CASE TaskClear(w)
  <2>1. winfo[w] \in Conns
    BY <1>1 DEF TaskClear, TaskOver, Inductive, TypeOK, WorkersHold, Pool!TypeOK, Tasks
  <2>2. /\ \A d \in Conns :
              apc'[d] = apc[d] \/ (apc[d] = "waiting" /\ apc'[d] = "lock")
        /\ dpc # "waiting" => dpc' = dpc
    BY <1>1, <2>1, Notified DEF TaskClear
  <2>3. QED
    BY <1>1, <2>2, FdMapStays DEF TaskClear, TaskOver
<1>2. CASE TaskStart(w) \/ TaskUndefined(w) \/ TaskLookup(w) \/ TaskLock(w)
             \/ TaskFails(w) \/ TaskHandle(w)
  BY <1>2, FdMapStays DEF TaskStart, TaskUndefined, TaskLookup, TaskLock, TaskFails,
     TaskHandle
<1>3. QED
  BY <1>1, <1>2 DEF TaskStep

\* An active thread enters close_fd only with fd_map free.
LEMMA ActiveKeepsFdMap ==
    ASSUME Inductive, FdMapHeld, NEW c \in Conns,
           ActiveStep(c) \/ ActiveSpuriousWakeup(c)
    PROVE  FdMapHeld'
<1> USE DEF Inductive, TypeOK
<1>1. CASE ActiveUndefined(c)
  BY <1>1 DEF ActiveUndefined, FdMapHeld
<1>2. CASE ActiveStart(c) \/ ActiveNeed(c) \/ ActiveSpuriousWakeup(c)
  BY <1>2, FdMapStays DEF ActiveStart, ActiveNeed, ActiveSpuriousWakeup
<1>3. CASE ActiveLock(c)
  BY <1>3, FdMapStays DEF ActiveLock, AtLock
<1>4. CASE ActiveRead(c)
  BY <1>4, FdMapStays DEF ActiveRead, ReadResult
<1>5. CASE ActiveClose(c)
  <2>1. /\ fdof[c] # None /\ fd_map' = fdof[c] /\ lpc # "del"
        /\ \A b \in Conns : apc[b] # "del"
        /\ apc' = [apc EXCEPT ![c] = "del"]
    BY <1>5 DEF ActiveClose, CloseFd, FdMapHeld, ActiveHolds
  <2>2. UNCHANGED <<lpc, cur, fresh, fdof>> /\ c \notin fresh
    BY <1>5 DEF ActiveClose, FdMapHeld
  <2>3. \A b \in Conns : b # c => apc'[b] = apc[b]
    BY <2>1
  <2>4. QED
    BY <2>1, <2>2, <2>3 DEF FdMapHeld
<1>6. CASE ActiveDel(c)
  BY <1>6 DEF ActiveDel, DelFd, FdMapHeld
<1>7. QED
  BY <1>1, <1>2, <1>3, <1>4, <1>5, <1>6 DEF ActiveStep

\* The others do not hold it.
LEMMA OthersKeepFdMap ==
    ASSUME Inductive, FdMapHeld,
           ClientStep \/ AcceptStep \/ StopStep \/ DtorStep \/ UNCHANGED vars
    PROVE  FdMapHeld'
<1>1. CASE ClientStep \/ AcceptStep \/ StopStep \/ UNCHANGED vars
  <2>1. ASSUME NEW c \in Conns, NEW f \in Fds, AddFdRegister(c, f)
        PROVE  FdMapHeld'
    <3>1. \A d \in Conns : apc[d] = "del" => fdof'[d] = fdof[d]
      BY <2>1 DEF AddFdRegister, FdMapHeld, Inductive, TypeOK
    <3>2. QED
      BY <2>1, <3>1, FdMapStays DEF AddFdRegister
  <2>2. QED
    BY <1>1, <2>1, FdMapStays DEF ClientStep, AcceptStep, StopStep, vars, Send, Hangup,
       AddFdInfo, SetStopAll, StopAccepting
<1>2. CASE DtorStep
  BY <1>2, FdMapStays DEF DtorStep, StopClose, DtorVisit, StopWorker, DtorJoin,
     DtorCheck, DtorEnd
<1>3. QED
  BY <1>1, <1>2
-----------------------------------------------------------------------------

\* Packages that nobody moves stay as they are.
LEMMA PackagesStay ==
    ASSUME AllOk, UNCHANGED <<inbox, event, queue, exec>>
    PROVE  AllOk'
  BY DEF AllOk

\* Without faults clients send what parses, and packages move unchanged from the
\* inbox to the loop thread, the queue and the pool.
LEMMA NextKeepsAllOk ==
    ASSUME Inductive, AllOk, Faults = {}, [Next]_vars
    PROVE  AllOk'
<1> USE DEF Inductive
<1>1. ASSUME NEW c \in Conns, NEW ok \in BOOLEAN, Send(c, ok)
      PROVE  AllOk'
  <2> DEFINE package == [number |-> sent[c] + 1, ok |-> ok]
  <2>1. package.ok
    BY <1>1 DEF Send
  <2>2. /\ inbox[c] \in Seq(Packages)
        /\ inbox'[c] = Append(inbox[c], package)
        /\ \A d \in Conns : d # c => inbox'[d] = inbox[d]
        /\ UNCHANGED <<event, queue, exec>>
    BY <1>1 DEF Send, TypeOK
  <2> HIDE DEF package
  <2>3. \A i \in DOMAIN inbox'[c] :
          inbox'[c][i] = package \/ (i \in DOMAIN inbox[c] /\ inbox'[c][i] = inbox[c][i])
    BY <2>2
  <2>4. \A d \in Conns : \A i \in DOMAIN inbox'[d] : inbox'[d][i].ok
    BY <2>1, <2>2, <2>3 DEF AllOk
  <2>5. QED
    BY <2>2, <2>4 DEF AllOk
<1>2. ASSUME NEW c \in Conns, NEW reset \in BOOLEAN, Hangup(c, reset)
      PROVE  AllOk'
  BY <1>2 DEF Hangup, AllOk, TypeOK
<1>3. CASE AcceptStep \/ StopStep \/ DtorStep \/ UNCHANGED vars
  BY <1>3, PackagesStay DEF AcceptStep, StopStep, DtorStep, vars, AddFdRegister, AddFdInfo,
     SetStopAll, StopAccepting, StopClose, DtorVisit, StopWorker, DtorJoin, DtorCheck,
     DtorEnd
<1>4. CASE HandleRead
  <2>1. CASE UNCHANGED <<inbox, event>>
    BY <1>4, <2>1, PackagesStay DEF HandleRead
  <2>2. CASE /\ fd_infos[cur] # None
             /\ ReadResult(cur) = "data"
             /\ event' = TaskRead(cur)
             /\ inbox' = [inbox EXCEPT ![sock[cur]] = <<>>]
    <3>1. cur \in Fds /\ sock[cur] \in Conns /\ inbox[sock[cur]] # <<>>
      BY <1>4, <2>2 DEF HandleRead, LoopHolds, TypeOK, ReadResult
    <3>2. event'.pkg = inbox[sock[cur]][1] /\ 1 \in DOMAIN inbox[sock[cur]]
      BY <2>2, <3>1 DEF TaskRead, TypeOK
    <3>3. event'.pkg.ok
      BY <3>1, <3>2 DEF AllOk
    <3>4. \A d \in Conns : inbox'[d] = inbox[d] \/ inbox'[d] = <<>>
      BY <2>2, <3>1 DEF TypeOK
    <3>5. UNCHANGED <<queue, exec>>
      BY <1>4 DEF HandleRead
    <3>6. QED
      BY <3>3, <3>4, <3>5 DEF AllOk
  <2>3. QED
    BY <1>4, <2>1, <2>2 DEF HandleRead
<1>5. CASE HandleEnqueue
  <2>1. /\ event # None /\ event.pkg.ok
        /\ queue' = Append(queue, event)
        /\ queue \in Seq(Tasks)
        /\ event' = None
        /\ UNCHANGED <<inbox, exec>>
    BY <1>5 DEF HandleEnqueue, AllOk, Pool!Submit, Pool!TypeOK, TypeOK, LoopHolds
  <2>2. \A i \in DOMAIN queue' : queue'[i].pkg.ok
    BY <2>1, AppendElements DEF AllOk
  <2>3. QED
    BY <2>1, <2>2 DEF AllOk
<1>6. CASE LoopStep /\ ~HandleRead /\ ~HandleEnqueue
  BY <1>6, PackagesStay DEF LoopStep, EpollWait, LoopEnds, DrainEnds, Dispatch,
     DispatchUnknown, DispatchToActive, DispatchSpawn, DispatchHandle, HandOver,
     HandleMark, HandleClose, HandleDel
<1>7. ASSUME NEW w \in PoolWorkers, TaskStart(w)
      PROVE  AllOk'
  <2>1. /\ queue # <<>> /\ queue \in Seq(Tasks)
        /\ queue' = Tail(queue)
        /\ exec' = [exec EXCEPT ![w] = Head(queue)]
        /\ UNCHANGED <<inbox, event>>
    BY <1>7 DEF TaskStart, Pool!Start, Pool!TypeOK, TypeOK
  <2>2. Head(queue).pkg.ok
    BY <2>1 DEF AllOk
  <2>3. \A i \in DOMAIN queue' : queue'[i].pkg.ok
    BY <2>1, TailElements DEF AllOk
  <2>4. \A v \in PoolWorkers : exec'[v] # None => exec'[v].pkg.ok
    BY <2>1, <2>2 DEF AllOk, Pool!TypeOK, TypeOK
  <2>5. QED
    BY <2>1, <2>3, <2>4 DEF AllOk
<1>8. ASSUME NEW w \in PoolWorkers, TaskStep(w), ~TaskStart(w)
      PROVE  AllOk'
  <2>1. /\ UNCHANGED <<inbox, event, queue>>
        /\ exec' = exec \/ exec' = [exec EXCEPT ![w] = None]
    BY <1>8 DEF TaskStep, TaskUndefined, TaskLookup, TaskLock, TaskFails, TaskHandle,
       TaskClear, TaskOver, TaskReturn, Pool!Finish
  <2>2. \A v \in PoolWorkers : exec'[v] # None => exec'[v] = exec[v]
    BY <2>1 DEF Pool!TypeOK, TypeOK
  <2>3. QED
    BY <2>1, <2>2 DEF AllOk
<1>9. ASSUME NEW c \in Conns, ActiveStep(c) \/ ActiveSpuriousWakeup(c)
      PROVE  AllOk'
  <2>1. CASE ActiveRead(c)
    <3>1. /\ UNCHANGED <<event, queue, exec>>
          /\ \A d \in Conns : inbox'[d] = inbox[d] \/ inbox'[d] = <<>>
      BY <2>1 DEF ActiveRead, TypeOK
    <3>2. QED
      BY <3>1 DEF AllOk
  <2>2. CASE ~ActiveRead(c)
    BY <1>9, <2>2, PackagesStay DEF ActiveStep, ActiveUndefined, ActiveStart, ActiveNeed,
       ActiveLock, AtLock, ActiveClose, ActiveDel, ActiveSpuriousWakeup
  <2>3. QED
    BY <2>1, <2>2
<1>10. QED
  BY <1>1, <1>2, <1>3, <1>4, <1>5, <1>6, <1>7, <1>8, <1>9 DEF Next, ClientStep

-----------------------------------------------------------------------------

\* A connection keeps its request while the pool's tasks stay where they are.
LEMMA RequestsStay ==
    ASSUME UNCHANGED <<queue, exec, event>>
    PROVE  \A c \in Conns : Outstanding(c)' = Outstanding(c)
  BY DEF Outstanding, HeldByLoop, Queued, Executing

\* FlagHasTask lasts while flags and tasks stay and no thread goes to wait.
LEMMA FlagStays ==
    ASSUME FlagHasTask, UNCHANGED <<queue, exec, event, fd_inthreadpool>>,
           \A c \in Conns : apc'[c] = "waiting" =>
              apc[c] = "waiting" /\ ("active" \in fd_cond[c] => "active" \in fd_cond'[c]),
           dpc' \in {"up", "closing", "join"} => dpc \in {"up", "closing", "join"}
    PROVE  FlagHasTask'
  BY RequestsStay DEF FlagHasTask

\* The loop thread sets the flag with a request in its hands, and puts that in
\* the pool.
LEMMA LoopKeepsFlag ==
    ASSUME Inductive, FlagHasTask, LoopStep
    PROVE  FlagHasTask'
<1> USE DEF Inductive
<1>1. CASE EpollWait \/ LoopEnds \/ DrainEnds \/ HandleClose \/ HandleDel
  BY <1>1, FlagStays DEF EpollWait, LoopEnds, DrainEnds, HandleClose, HandleDel
<1>2. ASSUME NEW f \in Fds,
             DispatchUnknown(f) \/ DispatchToActive(f) \/ DispatchHandle(f)
      PROVE  FlagHasTask'
  BY <1>2, FlagStays DEF Dispatch, DispatchUnknown, DispatchToActive, DispatchHandle,
     HandOver
<1>3. ASSUME NEW f \in Fds, DispatchSpawn(f) PROVE FlagHasTask'
  <2>1. \A c \in Conns : apc'[c] = "waiting" => apc[c] = "waiting"
    BY <1>3 DEF DispatchSpawn, Dispatch, TypeOK
  <2>2. QED
    BY <1>3, <2>1, FlagStays DEF DispatchSpawn, Dispatch
<1>4. CASE HandleRead
  <2>1. \A c \in Conns : Outstanding(c) => Outstanding(c)'
    <3>1. event = None /\ UNCHANGED <<queue, exec>>
      BY <1>4 DEF HandleRead, LoopHolds
    <3>2. QED
      BY <3>1 DEF Outstanding, HeldByLoop, Queued, Executing
  <2>2. UNCHANGED <<fd_inthreadpool, apc, fd_cond, dpc>>
    BY <1>4 DEF HandleRead
  <2>3. QED
    BY <2>1, <2>2 DEF FlagHasTask
<1>5. CASE HandleMark
  <2>1. /\ event # None /\ event.from = info /\ info \in Conns
        /\ fd_inthreadpool' = [fd_inthreadpool EXCEPT ![info] = TRUE]
        /\ UNCHANGED <<queue, exec, event, apc, fd_cond, dpc>>
    BY <1>5, EpollWorkerAssumption DEF HandleMark, LoopHolds, TypeOK
  <2>2. Outstanding(info)
    BY <2>1 DEF Outstanding, HeldByLoop
  <2>3. QED
    BY <2>1, <2>2, RequestsStay DEF FlagHasTask, TypeOK
<1>6. CASE HandleEnqueue
  <2>1. /\ event # None /\ event \in Tasks
        /\ queue \in Seq(Tasks) /\ queue' = Append(queue, event)
        /\ UNCHANGED <<exec, fd_inthreadpool, apc, fd_cond, dpc>>
    BY <1>6 DEF HandleEnqueue, Pool!Submit, Pool!TypeOK, TypeOK, LoopHolds
  <2>2. /\ \A i \in DOMAIN queue : i \in DOMAIN queue' /\ queue'[i] = queue[i]
        /\ Len(queue) + 1 \in DOMAIN queue' /\ queue'[Len(queue) + 1] = event
    BY <2>1
  <2>3. \A c \in Conns : Outstanding(c) => Outstanding(c)'
    BY <2>1, <2>2 DEF Outstanding, HeldByLoop, Queued, Executing
  <2>4. QED
    BY <2>1, <2>3 DEF FlagHasTask
<1>7. QED
  BY <1>1, <1>2, <1>3, <1>4, <1>5, <1>6 DEF LoopStep

\* A task that ends clears the flag, and wakes the active thread unless the
\* destructor waits too.
LEMMA TaskKeepsFlag ==
    ASSUME Inductive, AllOk, Faults = {}, FlagHasTask, NEW w \in PoolWorkers,
           TaskStep(w)
    PROVE  FlagHasTask'
<1> USE DEF Inductive
<1>1. CASE TaskStart(w)
  <2>1. /\ exec[w] = None /\ queue # <<>> /\ queue \in Seq(Tasks)
        /\ queue' = Tail(queue)
        /\ exec' = [exec EXCEPT ![w] = Head(queue)]
        /\ UNCHANGED <<event, fd_inthreadpool, apc, fd_cond, dpc>>
    BY <1>1 DEF TaskStart, Pool!Start, Pool!TypeOK, TypeOK
  <2>2. /\ exec'[w] = queue[1] /\ queue[1] \in Tasks
        /\ \A v \in PoolWorkers : exec[v] # None => exec'[v] = exec[v]
    BY <2>1 DEF Pool!TypeOK, TypeOK
  <2>3. \A i \in DOMAIN queue : i = 1 \/ (i - 1 \in DOMAIN queue' /\ queue'[i - 1] = queue[i])
    BY <2>1, TailElements
  <2>4. ASSUME NEW c \in Conns, Outstanding(c)
        PROVE  Outstanding(c)'
    <3>1. CASE HeldByLoop(c)
      BY <2>1, <3>1 DEF Outstanding, HeldByLoop
    <3>2. CASE Executing(c) # {}
      BY <2>2, <3>2 DEF Outstanding, Executing
    <3>3. ASSUME NEW i \in DOMAIN queue, queue[i].from = c
          PROVE  Outstanding(c)'
      <4>1. CASE i = 1
        <5>1. exec'[w] # None /\ exec'[w].from = c
          BY <2>2, <3>3, <4>1, NoneIsNoTask
        <5>2. QED
          BY <5>1 DEF Outstanding, Executing
      <4>2. CASE i # 1
        BY <2>3, <3>3, <4>2 DEF Outstanding, Queued
      <4>3. QED
        BY <4>1, <4>2
    <3>4. QED
      BY <2>4, <3>1, <3>2, <3>3 DEF Outstanding, Queued
  <2>5. QED
    BY <2>1, <2>4 DEF FlagHasTask
<1>2. CASE TaskUndefined(w) \/ TaskLock(w) \/ TaskHandle(w)
  BY <1>2, FlagStays DEF TaskUndefined, TaskLock, TaskHandle
<1>3. CASE TaskLookup(w)
  <2>1. exec[w] # None /\ fd_infos[exec[w].fd] = exec[w].from /\ exec[w].from \in Conns
    BY <1>3 DEF TaskLookup, WorkersHold, TaskMeetsItsConnection, TypeOK, Pool!TypeOK, Tasks
  <2>2. UNCHANGED pool
    BY <1>3, <2>1, EpollWorkerAssumption DEF TaskLookup
  <2>3. QED
    BY <1>3, <2>2, FlagStays DEF TaskLookup
<1>4. CASE TaskFails(w)
  BY <1>4 DEF TaskFails, AllOk, WorkersHold
<1>5. CASE TaskClear(w)
  <2> DEFINE c == winfo[w]
  <2>1. /\ exec[w] \in Tasks /\ exec[w].from = c /\ c \in Conns
        /\ exec' = [exec EXCEPT ![w] = None]
        /\ fd_inthreadpool' = [fd_inthreadpool EXCEPT ![c] = FALSE]
        /\ UNCHANGED <<event, queue>>
        /\ NotifyOne(c)
    BY <1>5 DEF TaskClear, TaskOver, TaskReturn, Pool!Finish, WorkersHold, TypeOK,
       Pool!TypeOK, Tasks
  <2> HIDE DEF c
  <2>2. ASSUME NEW d \in Conns, d # c, Outstanding(d)
        PROVE  Outstanding(d)'
    <3>1. \A v \in Executing(d) : v # w /\ exec'[v] = exec[v]
      BY <2>1, <2>2 DEF Executing, TypeOK, Pool!TypeOK
    <3>2. Executing(d) \subseteq Executing(d)'
      BY <3>1 DEF Executing
    <3>3. QED
      BY <2>1, <2>2, <3>2 DEF Outstanding, HeldByLoop, Queued
  <2>3. /\ ~fd_inthreadpool'[c]
        /\ \A d \in Conns : d # c => fd_inthreadpool'[d] = fd_inthreadpool[d]
    BY <2>1 DEF TypeOK
  <2>4. /\ \A d \in Conns :
              /\ apc'[d] = "waiting" => apc[d] = "waiting"
              /\ "active" \in fd_cond[d] =>
                    \/ "active" \in fd_cond'[d] /\ (d # c \/ dpc = "waiting")
                    \/ apc'[d] = "lock"
        /\ dpc' = dpc \/ (dpc = "waiting" /\ dpc' = "check")
    BY <2>1, Notified
  <2>5. QED
    BY <2>2, <2>3, <2>4 DEF FlagHasTask
<1>6. QED
  BY <1>1, <1>2, <1>3, <1>4, <1>5 DEF TaskStep

\* An active thread waits only while the flag is set.
LEMMA ActiveKeepsFlag ==
    ASSUME Inductive, FlagHasTask, NEW c \in Conns,
           ActiveStep(c) \/ ActiveSpuriousWakeup(c)
    PROVE  FlagHasTask'
<1> USE DEF Inductive, TypeOK
<1>1. CASE ActiveLock(c)
  <2>1. CASE fd_inthreadpool[c]
    BY <1>1, <2>1, RequestsStay DEF ActiveLock, AtLock, FlagHasTask
  <2>2. CASE ~fd_inthreadpool[c]
    BY <1>1, <2>2, FlagStays DEF ActiveLock, AtLock
  <2>3. QED
    BY <2>1, <2>2
<1>2. CASE ActiveRead(c)
  <2>1. apc'[c] # "waiting" /\ \A d \in Conns : d # c => apc'[d] = apc[d]
    BY <1>2 DEF ActiveRead, ReadResult
  <2>2. QED
    BY <1>2, <2>1, FlagStays DEF ActiveRead
<1>3. CASE ActiveSpuriousWakeup(c)
  BY <1>3, FlagStays DEF ActiveSpuriousWakeup
<1>4. CASE ActiveUndefined(c) \/ ActiveStart(c) \/ ActiveNeed(c) \/ ActiveClose(c)
             \/ ActiveDel(c)
  BY <1>4, FlagStays DEF ActiveUndefined, ActiveStart, ActiveNeed, ActiveClose, ActiveDel
<1>5. QED
  BY <1>1, <1>2, <1>3, <1>4 DEF ActiveStep

\* The others leave flags and tasks alone, and the destructor starts to wait only
\* after the join.
LEMMA OthersKeepFlag ==
    ASSUME Inductive, FlagHasTask,
           ClientStep \/ AcceptStep \/ StopStep \/ DtorStep \/ UNCHANGED vars
    PROVE  FlagHasTask'
<1>1. CASE DtorCheck
  <2>1. \A c \in Conns : "active" \in fd_cond[c] => "active" \in fd_cond'[c]
    <3>1. fd_cond \in [Conns -> SUBSET {"active", "dtor"}]
      BY DEF Inductive, TypeOK
    <3>2. fd_cond' = fd_cond \/ fd_cond' = [fd_cond EXCEPT ![dcur] = @ \union {"dtor"}]
      BY <1>1 DEF DtorCheck
    <3>3. QED
      BY <3>1, <3>2
  <2>2. QED
    BY <1>1, <2>1, FlagStays DEF DtorCheck
<1>2. CASE ~DtorCheck
  BY <1>2, FlagStays DEF ClientStep, AcceptStep, StopStep, DtorStep, vars, Send, Hangup,
     AddFdRegister, AddFdInfo, SetStopAll, StopAccepting, StopClose, DtorVisit,
     StopWorker, DtorJoin, DtorEnd
<1>3. QED
  BY <1>1, <1>2

-----------------------------------------------------------------------------

\* Nobody holds or waits for anything at the start, and every step keeps it so
\* that those who hold are about to let go.
LEMMA AlwaysBlockingInductive == SafeSpec => []BlockingInductive
<1>1. Init => BlockingInductive
  <2> SUFFICES ASSUME Init PROVE BlockingInductive
    OBVIOUS
  <2>1. MutexHeld /\ FdMapHeld
    BY EpollWorkerAssumption DEF Init, MutexHeld, FdMapHeld
  <2>2. AllOk /\ FlagHasTask
    BY DEF Init, Pool!Init, AllOk, FlagHasTask
  <2>3. QED
    BY <2>1, <2>2 DEF BlockingInductive
<1>2. Inductive /\ BlockingInductive /\ [Next]_vars => BlockingInductive'
  <2> SUFFICES ASSUME Inductive, BlockingInductive, [Next]_vars
               PROVE  BlockingInductive'
    OBVIOUS
  <2>1. MutexHeld'
    BY OthersKeepMutex, TaskKeepsMutex, ActiveKeepsMutex DEF Next, BlockingInductive
  <2>2. FdMapHeld'
    BY OthersKeepFdMap, LoopKeepsFdMap, TaskKeepsFdMap, ActiveKeepsFdMap
       DEF Next, BlockingInductive
  <2>3. Faults = {} => AllOk'
    BY NextKeepsAllOk DEF BlockingInductive
  <2>4. Faults = {} => FlagHasTask'
    BY OthersKeepFlag, LoopKeepsFlag, TaskKeepsFlag, ActiveKeepsFlag
       DEF Next, BlockingInductive
  <2>5. QED
    BY <2>1, <2>2, <2>3, <2>4 DEF BlockingInductive
<1>3. QED
  BY <1>1, <1>2, AlwaysInductive, PTL DEF SafeSpec

\* The loop thread and the tasks never wait for fd_mutex, though an active thread
\* may keep one for ever; who keeps fd_map is in close_fd; and without faults an
\* active thread waits for a task that will notify it, until ~EpollWorker waits
\* there too (EpollWorker.cpp, handle_event, enqueue_event_wrapper_nonstatic,
\* activefd_handle_event, close_fd).
THEOREM NothingIsBlocked == SafeSpec => []NothingBlocked
<1>1. Inductive /\ BlockingInductive => NothingBlocked
  <2> SUFFICES ASSUME Inductive, BlockingInductive
               PROVE  NothingBlocked
    OBVIOUS
  <2> USE DEF Inductive, BlockingInductive
  <2>1. \A c \in Conns, v \in PoolWorkers : fd_mutex[c] = v =>
          /\ exec[v] # None /\ exec[v].from = c /\ fd_inthreadpool[c]
          /\ wpc[v] # "lock"
    BY EpollWorkerAssumption DEF MutexHeld, WorkersHold, TaskMeetsItsConnection
  <2>2. ASSUME lpc = "mark" PROVE fd_mutex[info] = None
    <3>1. info \in Conns /\ ~fd_inthreadpool[info] /\ ~thread_running[info]
      BY <2>2, EpollWorkerAssumption DEF LoopHolds, TypeOK
    <3>2. fd_mutex[info] # "active"
      BY <3>1 DEF MutexHeld, ActiveHolds
    <3>3. QED
      BY <2>1, <3>1, <3>2 DEF TypeOK
  <2>3. ASSUME NEW w \in PoolWorkers, wpc[w] = "lock", dpc # "destroyed"
        PROVE  fd_mutex[winfo[w]] = None
    <3>1. /\ exec[w] # None /\ exec[w].from = winfo[w] /\ winfo[w] \in Conns
          /\ fd_inthreadpool[winfo[w]]
      BY <2>3, EpollWorkerAssumption
         DEF WorkersHold, TaskMeetsItsConnection, TypeOK, Pool!TypeOK, Tasks
    <3>2. fd_mutex[winfo[w]] # "active"
      BY <2>3, <3>1 DEF MutexHeld, ActiveHolds
    <3>3. ASSUME NEW v \in PoolWorkers, fd_mutex[winfo[w]] = v PROVE FALSE
      BY <2>1, <2>3, <3>1, <3>3 DEF OneTaskPerConnection, Executing
    <3>4. QED
      BY <3>1, <3>2, <3>3 DEF TypeOK
  <2>4. QED
    BY <2>2, <2>3 DEF NothingBlocked, FdMapHeld, FlagHasTask
<1>2. QED
  BY <1>1, AlwaysInductive, AlwaysBlockingInductive, PTL

-----------------------------------------------------------------------------

\* The worker uses the pool as TaskPool allows: it submits requests only, and
\* its tasks start and finish as the pool has them.  PoolRefinesTaskPool of
\* ThreadPoolProofs is the other side of this interface.
THEOREM PoolIsTaskPool == SafeSpec => Pool!Init /\ [][Pool!Next]_(Pool!vars)
<1>1. Init => Pool!Init
  BY DEF Init
<1>2. Inductive /\ [Next]_vars => [Pool!Next]_(Pool!vars)
  <2> SUFFICES ASSUME Inductive, [Next]_vars
               PROVE  [Pool!Next]_(Pool!vars)
    OBVIOUS
  <2>1. CASE HandleEnqueue
    <3>1. event \in Tasks /\ Pool!Submit(event)
      BY <2>1 DEF HandleEnqueue, Inductive, TypeOK, LoopHolds
    <3>2. QED
      BY <3>1 DEF Pool!Next
  <2>2. ASSUME NEW w \in PoolWorkers, TaskStep(w)
        PROVE  [Pool!Next]_(Pool!vars)
    <3>1. Pool!Start(w) \/ Pool!Finish(w) \/ UNCHANGED <<queue, exec>>
      BY <2>2 DEF TaskStep, TaskStart, TaskUndefined, TaskLookup, TaskLock, TaskFails,
         TaskHandle, TaskClear, TaskOver, TaskReturn
    <3>2. QED
      BY <3>1 DEF Pool!Next, Pool!vars
  <2>3. ASSUME ~HandleEnqueue, ~\E w \in PoolWorkers : TaskStep(w)
        PROVE  UNCHANGED <<queue, exec>>
    <3>1. CASE ClientStep \/ AcceptStep \/ StopStep \/ DtorStep \/ UNCHANGED vars
      BY <3>1 DEF ClientStep, AcceptStep, StopStep, DtorStep, vars, Send, Hangup,
         AddFdRegister, AddFdInfo, SetStopAll, StopAccepting, StopClose, DtorVisit,
         StopWorker, DtorJoin, DtorCheck, DtorEnd
    <3>2. CASE LoopStep
      BY <2>3, <3>2 DEF LoopStep, EpollWait, LoopEnds, DrainEnds, Dispatch,
         DispatchUnknown, DispatchToActive, DispatchSpawn, DispatchHandle, HandOver,
         HandleRead, HandleMark, HandleClose, HandleDel
    <3>3. ASSUME NEW c \in Conns, ActiveStep(c) \/ ActiveSpuriousWakeup(c)
          PROVE  UNCHANGED <<queue, exec>>
      BY <3>3 DEF ActiveStep, ActiveUndefined, ActiveStart, ActiveNeed, ActiveLock,
         AtLock, ActiveRead, ActiveClose, ActiveDel, ActiveSpuriousWakeup
    <3>4. QED
      BY <2>3, <3>1, <3>2, <3>3 DEF Next
  <2>4. QED
    BY <2>1, <2>2, <2>3 DEF Pool!vars
<1>3. QED
  BY <1>1, <1>2, AlwaysInductive, PTL DEF SafeSpec
=============================================================================
