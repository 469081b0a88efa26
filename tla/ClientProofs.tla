---------------------------- MODULE ClientProofs ----------------------------
(***************************************************************************)
(* A client's thread and socket end with it: proved for any number of      *)
(* servers and signals.                                                    *)
(***************************************************************************)
EXTENDS Client, TLAPS

\* The invariant holds at the start.
LEMMA InitInductive == Init => Inductive
<1> SUFFICES ASSUME Init
             PROVE  Inductive
  OBVIOUS
<1>1. FlagsOK
  BY DEF Init, FlagsOK
<1>2. TypeOK
  BY <1>1, ClientAssumption DEF Init, TypeOK, ClientAssumption, Running
<1>3. ThreadEndsWithClient /\ SpawnConnected
  BY ClientAssumption DEF Init, ThreadEndsWithClient, SpawnConnected, ClientAssumption
<1> QED
  BY <1>2, <1>3 DEF Inductive

\* The server's steps keep the invariant.
LEMMA ServerKeeps ==
    ASSUME Inductive,
           ServerListens \/ ServerReady \/ ServerAccepts \/ ServerReads
           \/ ServerCloses \/ ServerEnds
    PROVE  Inductive'
<1> USE ClientAssumption
    DEF ClientAssumption, Inductive, other, thread, bytes, ServerStep, Lost
<1>1. CASE ServerListens
  <2>1. FlagsOK'
    BY <1>1 DEF ServerListens, TypeOK, FlagsOK
  <2>2. TypeOK'
    BY <1>1, <2>1 DEF ServerListens, TypeOK, Running
  <2>3. ThreadEndsWithClient' /\ SpawnConnected'
    BY <1>1 DEF ServerListens, TypeOK, ThreadEndsWithClient, SpawnConnected, Console
  <2> QED
    BY <2>2, <2>3
<1>2. CASE ServerReady
  <2>1. FlagsOK'
    BY <1>2 DEF ServerReady, TypeOK, FlagsOK
  <2>2. TypeOK'
    BY <1>2, <2>1 DEF ServerReady, TypeOK, Running
  <2>3. ThreadEndsWithClient' /\ SpawnConnected'
    BY <1>2 DEF ServerReady, TypeOK, ThreadEndsWithClient, SpawnConnected, Console
  <2> QED
    BY <2>2, <2>3
<1>3. CASE ServerAccepts
  <2>1. FlagsOK'
    BY <1>3 DEF ServerAccepts, TypeOK, FlagsOK
  <2>2. TypeOK'
    BY <1>3, <2>1 DEF ServerAccepts, TypeOK, Running
  <2>3. ThreadEndsWithClient' /\ SpawnConnected'
    BY <1>3 DEF ServerAccepts, TypeOK, ThreadEndsWithClient, SpawnConnected, Console
  <2> QED
    BY <2>2, <2>3
<1>4. CASE ServerReads
  <2>1. FlagsOK'
    BY <1>4 DEF ServerReads, TypeOK, FlagsOK
  <2>2. TypeOK'
    BY <1>4, <2>1 DEF ServerReads, TypeOK, Running
  <2>3. ThreadEndsWithClient' /\ SpawnConnected'
    BY <1>4 DEF ServerReads, TypeOK, ThreadEndsWithClient, SpawnConnected, Console
  <2> QED
    BY <2>2, <2>3
<1>5. CASE ServerCloses
  <2>1. FlagsOK'
    BY <1>5 DEF ServerCloses, TypeOK, FlagsOK
  <2>2. TypeOK'
    BY <1>5, <2>1 DEF ServerCloses, TypeOK, Running
  <2>3. ThreadEndsWithClient' /\ SpawnConnected'
    BY <1>5 DEF ServerCloses, TypeOK, ThreadEndsWithClient, SpawnConnected, Console
  <2> QED
    BY <2>2, <2>3
<1>6. CASE ServerEnds
  <2>1. FlagsOK'
    BY <1>6 DEF ServerEnds, TypeOK, FlagsOK
  <2>2. TypeOK'
    BY <1>6, <2>1 DEF ServerEnds, TypeOK, Running
  <2>3. ThreadEndsWithClient' /\ SpawnConnected'
    BY <1>6 DEF ServerEnds, TypeOK, ThreadEndsWithClient, SpawnConnected, Console
  <2> QED
    BY <2>2, <2>3
<1> QED
  BY <1>1, <1>2, <1>3, <1>4, <1>5, <1>6

\* The receiving thread and the signal handler keep the invariant.
LEMMA RecvKeeps ==
    ASSUME Inductive,
           RecvCheck \/ RecvWait \/ RecvData \/ RecvEof \/ RecvReset \/
           RecvNotified \/ RecvNext \/ Signal
    PROVE  Inductive'
<1> USE ClientAssumption
    DEF ClientAssumption, Inductive, other, bytes, RecvStep, RecvEvent, Ready
<1>1. CASE RecvCheck
  <2>1. FlagsOK'
    BY <1>1 DEF RecvCheck, TypeOK, FlagsOK
  <2>2. TypeOK'
    BY <1>1, <2>1 DEF RecvCheck, TypeOK, Running
  <2>3. ThreadEndsWithClient' /\ SpawnConnected'
    BY <1>1 DEF RecvCheck, TypeOK, ThreadEndsWithClient, SpawnConnected, Console
  <2> QED
    BY <2>2, <2>3
<1>2. CASE RecvWait
  <2>1. FlagsOK'
    BY <1>2 DEF RecvWait, TypeOK, FlagsOK
  <2>2. TypeOK'
    BY <1>2, <2>1 DEF RecvWait, TypeOK, Running
  <2>3. ThreadEndsWithClient' /\ SpawnConnected'
    BY <1>2 DEF RecvWait, TypeOK, ThreadEndsWithClient, SpawnConnected, Console
  <2> QED
    BY <2>2, <2>3
<1>3. CASE RecvData
  <2>1. FlagsOK'
    BY <1>3 DEF RecvData, TypeOK, FlagsOK
  <2>2. TypeOK'
    BY <1>3, <2>1 DEF RecvData, TypeOK, Running
  <2>3. ThreadEndsWithClient' /\ SpawnConnected'
    BY <1>3 DEF RecvData, TypeOK, ThreadEndsWithClient, SpawnConnected, Console
  <2> QED
    BY <2>2, <2>3
<1>4. CASE RecvEof
  <2>1. FlagsOK'
    BY <1>4 DEF RecvEof, TypeOK, FlagsOK
  <2>2. TypeOK'
    BY <1>4, <2>1 DEF RecvEof, TypeOK, Running
  <2>3. ThreadEndsWithClient' /\ SpawnConnected'
    BY <1>4 DEF RecvEof, TypeOK, ThreadEndsWithClient, SpawnConnected, Console
  <2> QED
    BY <2>2, <2>3
<1>5. CASE RecvReset
  <2>1. FlagsOK'
    BY <1>5 DEF RecvReset, TypeOK, FlagsOK
  <2>2. TypeOK'
    BY <1>5, <2>1 DEF RecvReset, TypeOK, Running
  <2>3. ThreadEndsWithClient' /\ SpawnConnected'
    BY <1>5 DEF RecvReset, TypeOK, ThreadEndsWithClient, SpawnConnected, Console
  <2> QED
    BY <2>2, <2>3
<1>6. CASE RecvNotified
  <2>1. FlagsOK'
    BY <1>6 DEF RecvNotified, TypeOK, FlagsOK
  <2>2. TypeOK'
    BY <1>6, <2>1 DEF RecvNotified, TypeOK, Running
  <2>3. ThreadEndsWithClient' /\ SpawnConnected'
    BY <1>6 DEF RecvNotified, TypeOK, ThreadEndsWithClient, SpawnConnected, Console
  <2> QED
    BY <2>2, <2>3
<1>7. CASE RecvNext
  <2>1. FlagsOK'
    BY <1>7 DEF RecvNext, TypeOK, FlagsOK
  <2>2. TypeOK'
    BY <1>7, <2>1 DEF RecvNext, TypeOK, Running
  <2>3. ThreadEndsWithClient' /\ SpawnConnected'
    BY <1>7 DEF RecvNext, TypeOK, ThreadEndsWithClient, SpawnConnected, Console
  <2> QED
    BY <2>2, <2>3
<1>8. CASE Signal
  <2>1. FlagsOK'
    BY <1>8 DEF Signal, TypeOK, FlagsOK
  <2>2. TypeOK'
    BY <1>8, <2>1 DEF Signal, TypeOK, Running
  <2>3. ThreadEndsWithClient' /\ SpawnConnected'
    BY <1>8 DEF Signal, TypeOK, ThreadEndsWithClient, SpawnConnected, Console
  <2> QED
    BY <2>2, <2>3
<1> QED
  BY <1>1, <1>2, <1>3, <1>4, <1>5, <1>6, <1>7, <1>8

\* The programs, from main() to the console keep the invariant.
LEMMA StartKeeps ==
    ASSUME Inductive,
           Launch \/ MainCheck \/ RemoveFlag \/ PollTimeout \/
           StartConnects \/ StartRefused \/ StartSpawns \/ StartFails
    PROVE  Inductive'
<1> USE ClientAssumption
    DEF ClientAssumption, Inductive, MainAt, MainStep, OnlyMain, Untouched
<1>1. CASE Launch
  <2>1. FlagsOK'
    BY <1>1 DEF Launch, TypeOK, FlagsOK
  <2>2. TypeOK'
    BY <1>1, <2>1 DEF Launch, TypeOK, Running
  <2>3. ThreadEndsWithClient' /\ SpawnConnected'
    BY <1>1 DEF Launch, TypeOK, ThreadEndsWithClient, SpawnConnected, Console
  <2> QED
    BY <2>2, <2>3
<1>2. CASE MainCheck
  <2>1. FlagsOK'
    BY <1>2 DEF MainCheck, TypeOK, FlagsOK
  <2>2. TypeOK'
    BY <1>2, <2>1 DEF MainCheck, TypeOK, Running
  <2>3. ThreadEndsWithClient' /\ SpawnConnected'
    BY <1>2 DEF MainCheck, TypeOK, ThreadEndsWithClient, SpawnConnected, Console
  <2> QED
    BY <2>2, <2>3
<1>3. CASE RemoveFlag
  <2>1. FlagsOK'
    BY <1>3 DEF RemoveFlag, TypeOK, FlagsOK
  <2>2. TypeOK'
    BY <1>3, <2>1 DEF RemoveFlag, TypeOK, Running
  <2>3. ThreadEndsWithClient' /\ SpawnConnected'
    BY <1>3 DEF RemoveFlag, TypeOK, ThreadEndsWithClient, SpawnConnected, Console
  <2> QED
    BY <2>2, <2>3
<1>4. CASE PollTimeout
  <2>1. FlagsOK'
    BY <1>4 DEF PollTimeout, TypeOK, FlagsOK
  <2>2. TypeOK'
    BY <1>4, <2>1 DEF PollTimeout, TypeOK, Running
  <2>3. ThreadEndsWithClient' /\ SpawnConnected'
    BY <1>4 DEF PollTimeout, TypeOK, ThreadEndsWithClient, SpawnConnected, Console
  <2> QED
    BY <2>2, <2>3
<1>5. CASE StartConnects
  <2>1. FlagsOK'
    BY <1>5 DEF StartConnects, TypeOK, FlagsOK
  <2>2. TypeOK'
    BY <1>5, <2>1 DEF StartConnects, TypeOK, Running
  <2>3. ThreadEndsWithClient' /\ SpawnConnected'
    BY <1>5 DEF StartConnects, TypeOK, ThreadEndsWithClient, SpawnConnected, Console
  <2> QED
    BY <2>2, <2>3
<1>6. CASE StartRefused
  <2>1. FlagsOK'
    BY <1>6 DEF StartRefused, TypeOK, FlagsOK
  <2>2. TypeOK'
    BY <1>6, <2>1 DEF StartRefused, TypeOK, Running
  <2>3. ThreadEndsWithClient' /\ SpawnConnected'
    BY <1>6 DEF StartRefused, TypeOK, ThreadEndsWithClient, SpawnConnected, Console
  <2> QED
    BY <2>2, <2>3
<1>7. CASE StartSpawns
  <2>1. FlagsOK'
    BY <1>7 DEF StartSpawns, TypeOK, FlagsOK
  <2>2. TypeOK'
    BY <1>7, <2>1 DEF StartSpawns, TypeOK, Running, SpawnConnected
  <2>3. ThreadEndsWithClient' /\ SpawnConnected'
    BY <1>7 DEF StartSpawns, TypeOK, ThreadEndsWithClient, SpawnConnected, Console
  <2> QED
    BY <2>2, <2>3
<1>8. CASE StartFails
  <2>1. FlagsOK'
    BY <1>8 DEF StartFails, TypeOK, FlagsOK
  <2>2. TypeOK'
    BY <1>8, <2>1 DEF StartFails, TypeOK, Running
  <2>3. ThreadEndsWithClient' /\ SpawnConnected'
    BY <1>8 DEF StartFails, TypeOK, ThreadEndsWithClient, SpawnConnected, Console
  <2> QED
    BY <2>2, <2>3
<1> QED
  BY <1>1, <1>2, <1>3, <1>4, <1>5, <1>6, <1>7, <1>8

\* The console and stop() keep the invariant.
LEMMA ConsoleKeeps ==
    ASSUME Inductive,
           ConsoleTop \/ UserLine \/ UserField \/ ConsoleSends \/
           ConsoleKilled \/ ConsolePause \/ Leave \/ StopNotify \/
           StopJoin \/ Decide
    PROVE  Inductive'
<1> USE ClientAssumption
    DEF ClientAssumption, Inductive, MainAt, MainStep, OnlyMain, Untouched, Closed, other, bytes
<1>1. CASE ConsoleTop
  <2>1. FlagsOK'
    BY <1>1 DEF ConsoleTop, TypeOK, FlagsOK
  <2>2. TypeOK'
    BY <1>1, <2>1 DEF ConsoleTop, TypeOK, Running
  <2>3. ThreadEndsWithClient' /\ SpawnConnected'
    BY <1>1 DEF ConsoleTop, TypeOK, ThreadEndsWithClient, SpawnConnected, Console
  <2> QED
    BY <2>2, <2>3
<1>2. CASE UserLine
  <2>1. FlagsOK'
    BY <1>2 DEF UserLine, TypeOK, FlagsOK
  <2>2. TypeOK'
    BY <1>2, <2>1 DEF UserLine, TypeOK, Running
  <2>3. ThreadEndsWithClient' /\ SpawnConnected'
    BY <1>2 DEF UserLine, TypeOK, ThreadEndsWithClient, SpawnConnected, Console
  <2> QED
    BY <2>2, <2>3
<1>3. CASE UserField
  <2>1. FlagsOK'
    BY <1>3 DEF UserField, TypeOK, FlagsOK
  <2>2. TypeOK'
    BY <1>3, <2>1 DEF UserField, TypeOK, Running
  <2>3. ThreadEndsWithClient' /\ SpawnConnected'
    BY <1>3 DEF UserField, TypeOK, ThreadEndsWithClient, SpawnConnected, Console
  <2> QED
    BY <2>2, <2>3
<1>4. CASE ConsoleSends
  <2>1. FlagsOK'
    BY <1>4 DEF ConsoleSends, TypeOK, FlagsOK
  <2>2. TypeOK'
    BY <1>4, <2>1 DEF ConsoleSends, TypeOK, Running
  <2>3. ThreadEndsWithClient' /\ SpawnConnected'
    BY <1>4 DEF ConsoleSends, TypeOK, ThreadEndsWithClient, SpawnConnected, Console
  <2> QED
    BY <2>2, <2>3
<1>5. CASE ConsoleKilled
  <2>1. FlagsOK'
    BY <1>5 DEF ConsoleKilled, TypeOK, FlagsOK
  <2>2. TypeOK'
    BY <1>5, <2>1 DEF ConsoleKilled, TypeOK, Running
  <2>3. ThreadEndsWithClient' /\ SpawnConnected'
    BY <1>5 DEF ConsoleKilled, TypeOK, ThreadEndsWithClient, SpawnConnected, Console
  <2> QED
    BY <2>2, <2>3
<1>6. CASE ConsolePause
  <2>1. FlagsOK'
    BY <1>6 DEF ConsolePause, TypeOK, FlagsOK
  <2>2. TypeOK'
    BY <1>6, <2>1 DEF ConsolePause, TypeOK, Running
  <2>3. ThreadEndsWithClient' /\ SpawnConnected'
    BY <1>6 DEF ConsolePause, TypeOK, ThreadEndsWithClient, SpawnConnected, Console
  <2> QED
    BY <2>2, <2>3
<1>7. CASE Leave
  <2>1. FlagsOK'
    BY <1>7 DEF Leave, TypeOK, FlagsOK
  <2>2. TypeOK'
    BY <1>7, <2>1 DEF Leave, TypeOK, Running
  <2>3. ThreadEndsWithClient' /\ SpawnConnected'
    BY <1>7 DEF Leave, TypeOK, ThreadEndsWithClient, SpawnConnected, Console
  <2> QED
    BY <2>2, <2>3
<1>8. CASE StopNotify
  <2>1. FlagsOK'
    BY <1>8 DEF StopNotify, TypeOK, FlagsOK
  <2>2. TypeOK'
    BY <1>8, <2>1 DEF StopNotify, TypeOK, Running
  <2>3. ThreadEndsWithClient' /\ SpawnConnected'
    BY <1>8 DEF StopNotify, TypeOK, ThreadEndsWithClient, SpawnConnected, Console
  <2> QED
    BY <2>2, <2>3
<1>9. CASE StopJoin
  <2>1. FlagsOK'
    BY <1>9 DEF StopJoin, TypeOK, FlagsOK
  <2>2. TypeOK'
    BY <1>9, <2>1 DEF StopJoin, TypeOK, Running
  <2>3. ThreadEndsWithClient' /\ SpawnConnected'
    BY <1>9 DEF StopJoin, TypeOK, ThreadEndsWithClient, SpawnConnected, Console
  <2> QED
    BY <2>2, <2>3
<1>10. CASE Decide
  <2>1. FlagsOK'
    BY <1>10 DEF Decide, TypeOK, FlagsOK
  <2>2. TypeOK'
    BY <1>10, <2>1 DEF Decide, TypeOK, Running
  <2>3. ThreadEndsWithClient' /\ SpawnConnected'
    BY <1>10 DEF Decide, TypeOK, ThreadEndsWithClient, SpawnConnected, Console
  <2> QED
    BY <2>2, <2>3
<1> QED
  BY <1>1, <1>2, <1>3, <1>4, <1>5, <1>6, <1>7, <1>8, <1>9, <1>10

\* A step that changes nothing.
LEMMA StutterKeeps ==
    ASSUME Inductive, UNCHANGED vars
    PROVE  Inductive'
BY DEF Inductive, vars, other, bytes, thread, TypeOK, FlagsOK, ThreadEndsWithClient,
       SpawnConnected, Running, Console

\* Every step keeps the inductive invariant.
LEMMA NextInductive ==
    ASSUME Inductive, [Next]_vars
    PROVE  Inductive'
<1>1. CASE Server
  BY <1>1, ServerKeeps DEF Server
<1>2. CASE Recv \/ Signal
  BY <1>2, RecvKeeps DEF Recv
<1>3. CASE Main
  BY <1>3, StartKeeps, ConsoleKeeps DEF Main
<1>4. CASE User
  BY <1>4, ConsoleKeeps DEF User
<1>5. CASE UNCHANGED vars
  BY <1>5, StutterKeeps
<1> QED
  BY <1>1, <1>2, <1>3, <1>4, <1>5 DEF Next

\* In every state of every program the invariant holds.
THEOREM SpecInductive == Spec => []Inductive
<1>1. Init => Inductive
  BY InitInductive
<1>2. Inductive /\ [Next]_vars => Inductive'
  BY NextInductive
<1> QED
  BY <1>1, <1>2, PTL DEF Spec

\* Every variable of the client keeps its type.
THEOREM TypeCorrect == Spec => []TypeOK
<1>1. Inductive => TypeOK
  BY DEF Inductive
<1> QED
  BY <1>1, SpecInductive, PTL

\* TCPClient.cpp, stop(): when a program makes its next ClientTCP, or ends, the
\* thread and the socket of the last one are gone, and the thread never polls
\* sockets that are closed.
THEOREM ThreadEnds == Spec => []ThreadEndsWithClient
<1>1. Inductive => ThreadEndsWithClient
  BY DEF Inductive
<1> QED
  BY <1>1, SpecInductive, PTL
-----------------------------------------------------------------------------
(* What the two threads know of each other.                                    *)

\* There is no thread at the start.
LEMMA WakeupInit == Init => WakeupInductive
  BY ClientAssumption
     DEF Init, ClientAssumption, WakeupInductive, NotifiedToStop, OnWhileRunning,
         EndedForAReason, NothingMissed, WithThread, Console

\* The server takes no part.
LEMMA WakeupServer ==
    ASSUME Inductive, WakeupInductive,
           \/ ServerListens
           \/ ServerReady
           \/ ServerAccepts
           \/ ServerReads
           \/ ServerCloses
           \/ ServerEnds
    PROVE  WakeupInductive'
<1> USE DEF Inductive, TypeOK, FlagsOK, ThreadEndsWithClient, SpawnConnected,
            WakeupInductive, NotifiedToStop, OnWhileRunning, EndedForAReason,
            NothingMissed, WithThread, Console, other, thread, bytes, ServerStep,
            Lost, RecvStep, RecvEvent, MainAt, MainStep, OnlyMain, Untouched
<1>1. CASE ServerListens
  BY <1>1 DEF ServerListens
<1>2. CASE ServerReady
  BY <1>2 DEF ServerReady
<1>3. CASE ServerAccepts
  BY <1>3 DEF ServerAccepts
<1>4. CASE ServerReads
  BY <1>4 DEF ServerReads
<1>5. CASE ServerCloses
  BY <1>5 DEF ServerCloses
<1>6. CASE ServerEnds
  BY <1>6 DEF ServerEnds
<1> QED
  BY <1>1, <1>2, <1>3, <1>4, <1>5, <1>6

\* recv_loop: it clears server_on with running at an end of file, and ends at its
\* test only.
LEMMA WakeupRecv ==
    ASSUME Inductive, WakeupInductive,
           \/ RecvCheck
           \/ RecvWait
           \/ RecvData
           \/ RecvEof
           \/ RecvReset
           \/ RecvNotified
           \/ RecvNext
           \/ Signal
    PROVE  WakeupInductive'
<1> USE DEF Inductive, TypeOK, FlagsOK, ThreadEndsWithClient, SpawnConnected,
            WakeupInductive, NotifiedToStop, OnWhileRunning, EndedForAReason,
            NothingMissed, WithThread, Console, other, thread, bytes, ServerStep,
            Lost, RecvStep, RecvEvent, MainAt, MainStep, OnlyMain, Untouched
<1>1. CASE RecvCheck
  BY <1>1 DEF RecvCheck
<1>2. CASE RecvWait
  BY <1>2 DEF RecvWait, Ready
<1>3. CASE RecvData
  BY <1>3 DEF RecvData
<1>4. CASE RecvEof
  BY <1>4 DEF RecvEof
<1>5. CASE RecvReset
  BY <1>5 DEF RecvReset
<1>6. CASE RecvNotified
  BY <1>6 DEF RecvNotified
<1>7. CASE RecvNext
  BY <1>7 DEF RecvNext
<1>8. CASE Signal
  BY <1>8 DEF Signal, Running
<1> QED
  BY <1>1, <1>2, <1>3, <1>4, <1>5, <1>6, <1>7, <1>8

\* A new client starts with neither flag, and spawns its thread with both.
LEMMA WakeupStart ==
    ASSUME Inductive, WakeupInductive,
           \/ Launch
           \/ MainCheck
           \/ RemoveFlag
           \/ PollTimeout
           \/ StartConnects
           \/ StartRefused
           \/ StartSpawns
           \/ StartFails
    PROVE  WakeupInductive'
<1> USE DEF Inductive, TypeOK, FlagsOK, ThreadEndsWithClient, SpawnConnected,
            WakeupInductive, NotifiedToStop, OnWhileRunning, EndedForAReason,
            NothingMissed, WithThread, Console, other, thread, bytes, ServerStep,
            Lost, RecvStep, RecvEvent, MainAt, MainStep, OnlyMain, Untouched
<1>1. CASE Launch
  BY <1>1 DEF Launch
<1>2. CASE MainCheck
  BY <1>2 DEF MainCheck
<1>3. CASE RemoveFlag
  BY <1>3 DEF RemoveFlag
<1>4. CASE PollTimeout
  BY <1>4 DEF PollTimeout
<1>5. CASE StartConnects
  BY <1>5 DEF StartConnects
<1>6. CASE StartRefused
  BY <1>6 DEF StartRefused
<1>7. CASE StartSpawns
  BY <1>7 DEF StartSpawns
<1>8. CASE StartFails
  BY <1>8 DEF StartFails
<1> QED
  BY <1>1, <1>2, <1>3, <1>4, <1>5, <1>6, <1>7, <1>8

\* The console, and stop(), which clears running and then writes the eventfd.
LEMMA WakeupConsole ==
    ASSUME Inductive, WakeupInductive,
           \/ ConsoleTop
           \/ UserLine
           \/ UserField
           \/ ConsoleSends
           \/ ConsoleKilled
           \/ ConsolePause
           \/ Leave
           \/ StopNotify
           \/ StopJoin
           \/ Decide
    PROVE  WakeupInductive'
<1> USE DEF Inductive, TypeOK, FlagsOK, ThreadEndsWithClient, SpawnConnected,
            WakeupInductive, NotifiedToStop, OnWhileRunning, EndedForAReason,
            NothingMissed, WithThread, Console, other, thread, bytes, ServerStep,
            Lost, RecvStep, RecvEvent, MainAt, MainStep, OnlyMain, Untouched
<1>1. CASE ConsoleTop
  BY <1>1 DEF ConsoleTop
<1>2. CASE UserLine
  BY <1>2 DEF UserLine
<1>3. CASE UserField
  BY <1>3 DEF UserField
<1>4. CASE ConsoleSends
  BY <1>4 DEF ConsoleSends
<1>5. CASE ConsoleKilled
  BY <1>5 DEF ConsoleKilled
<1>6. CASE ConsolePause
  BY <1>6 DEF ConsolePause
<1>7. CASE Leave
  BY <1>7 DEF Leave
<1>8. CASE StopNotify
  BY <1>8 DEF StopNotify
<1>9. CASE StopJoin
  BY <1>9 DEF StopJoin, Closed
<1>10. CASE Decide
  BY <1>10 DEF Decide
<1> QED
  BY <1>1, <1>2, <1>3, <1>4, <1>5, <1>6, <1>7, <1>8, <1>9, <1>10

\* In every state of every program.
THEOREM WakeupInvariance == Spec => []WakeupInductive
<1>1. Inductive /\ WakeupInductive /\ [Next]_vars => WakeupInductive'
  <2> SUFFICES ASSUME Inductive, WakeupInductive, [Next]_vars
               PROVE  WakeupInductive'
    OBVIOUS
  <2>1. CASE Server
    BY <2>1, WakeupServer DEF Server
  <2>2. CASE Recv \/ Signal
    BY <2>2, WakeupRecv DEF Recv
  <2>3. CASE Main \/ User
    BY <2>3, WakeupStart, WakeupConsole DEF Main, User
  <2>4. CASE UNCHANGED vars
    BY <2>4 DEF vars, thread, WakeupInductive, NotifiedToStop, OnWhileRunning,
                EndedForAReason, NothingMissed, WithThread
  <2> QED
    BY <2>1, <2>2, <2>3, <2>4 DEF Next
<1> QED
  BY <1>1, WakeupInit, SpecInductive, PTL DEF Spec

\* stop() joins a thread that it has woken; the console is told when its thread
\* is over, a reset and the flag apart, and only of a lost connection.
THEOREM NothingIsMissed == Spec => []NothingMissed
<1>1. WakeupInductive => NothingMissed
  BY DEF WakeupInductive
<1> QED
  BY <1>1, WakeupInvariance, PTL
=============================================================================
