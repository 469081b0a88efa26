-------------------------- MODULE ServerMainProofs --------------------------
(***************************************************************************)
(* Servers leave nothing behind: proved for any number of connections,     *)
(* failures and signals.                                                   *)
(***************************************************************************)
EXTENDS ServerMain, TLAPS

\* The invariant holds at the start.
LEMMA InitInductive == Init => Inductive
<1> SUFFICES ASSUME Init
             PROVE  Inductive
  OBVIOUS
<1>1. FlagsOK
  BY DEF Init, FlagsOK
<1>2. TypeOK
  BY <1>1, ServerAssumption DEF Init, TypeOK, ServerAssumption
<1>3. AcceptWithServer /\ AcceptedAreKept
  BY DEF Init, AcceptWithServer, AcceptedAreKept
<1> QED
  BY <1>2, <1>3 DEF Inductive

\* Signals, spurious wakeups, descriptors and main() of final_main.
LEMMA OthersKeep ==
    ASSUME Inductive,
           \/ Signal
           \/ SignalNotifies
           \/ DescriptorsChange
           \/ LoopSpuriousWakeup
           \/ TesterSpuriousWakeup
           \/ TesterLock \/ TesterTest \/ TesterBlock
           \/ TesterEnds \/ TesterNotifies \/ TesterJoins
    PROVE  Inductive'
<1> USE ServerAssumption
    DEF Inductive, ServerAssumption, sockets, acceptor, bounds, NotifyOne, BothMoved,
        LoopAt, LoopStep, TesterAt, TesterStep
<1>1. CASE Signal
  <2>1. FlagsOK'
    BY <1>1 DEF Signal, TypeOK, FlagsOK
  <2>2. TypeOK'
    BY <1>1, <2>1 DEF Signal, TypeOK
  <2>3. AcceptWithServer' /\ AcceptedAreKept'
    BY <1>1 DEF Signal, TypeOK, AcceptWithServer,
       AcceptedAreKept
  <2> QED
    BY <2>2, <2>3
<1>2. CASE SignalNotifies
  <2>1. FlagsOK'
    BY <1>2 DEF SignalNotifies, TypeOK, FlagsOK
  <2>2. TypeOK'
    BY <1>2, <2>1 DEF SignalNotifies, TypeOK
  <2>3. AcceptWithServer' /\ AcceptedAreKept'
    BY <1>2 DEF SignalNotifies, TypeOK, AcceptWithServer,
       AcceptedAreKept
  <2> QED
    BY <2>2, <2>3
<1>3. CASE LoopSpuriousWakeup
  <2>1. FlagsOK'
    BY <1>3 DEF LoopSpuriousWakeup, TypeOK, FlagsOK
  <2>2. TypeOK'
    BY <1>3, <2>1 DEF LoopSpuriousWakeup, TypeOK
  <2>3. AcceptWithServer' /\ AcceptedAreKept'
    BY <1>3 DEF LoopSpuriousWakeup, TypeOK, AcceptWithServer,
       AcceptedAreKept
  <2> QED
    BY <2>2, <2>3
<1>4. CASE TesterSpuriousWakeup
  <2>1. FlagsOK'
    BY <1>4 DEF TesterSpuriousWakeup, TypeOK, FlagsOK
  <2>2. TypeOK'
    BY <1>4, <2>1 DEF TesterSpuriousWakeup, TypeOK
  <2>3. AcceptWithServer' /\ AcceptedAreKept'
    BY <1>4 DEF TesterSpuriousWakeup, TypeOK, AcceptWithServer,
       AcceptedAreKept
  <2> QED
    BY <2>2, <2>3
<1>5. CASE TesterLock \/ TesterTest \/ TesterBlock
  <2>1. FlagsOK'
    BY <1>5 DEF TesterLock, TesterTest, TesterBlock, TypeOK, FlagsOK
  <2>2. TypeOK'
    <3>1. CASE TesterLock
      BY <2>1, <3>1 DEF TesterLock, TypeOK
    <3>2. CASE TesterTest
      BY <2>1, <3>2 DEF TesterTest, TypeOK
    <3>3. CASE TesterBlock
      BY <2>1, <3>3 DEF TesterBlock, TypeOK
    <3> QED
      BY <1>5, <3>1, <3>2, <3>3
  <2>3. AcceptWithServer' /\ AcceptedAreKept'
    BY <1>5 DEF TesterLock, TesterTest, TesterBlock, TypeOK, AcceptWithServer,
       AcceptedAreKept
  <2> QED
    BY <2>2, <2>3
<1>6. CASE TesterEnds \/ TesterNotifies \/ TesterJoins
  <2>1. FlagsOK'
    BY <1>6 DEF TesterEnds, TesterNotifies, TesterJoins, TypeOK, FlagsOK
  <2>2. TypeOK'
    <3>1. CASE TesterEnds
      BY <2>1, <3>1 DEF TesterEnds, TypeOK
    <3>2. CASE TesterNotifies
      BY <2>1, <3>2 DEF TesterNotifies, TypeOK
    <3>3. CASE TesterJoins
      BY <2>1, <3>3 DEF TesterJoins, TypeOK
    <3> QED
      BY <1>6, <3>1, <3>2, <3>3
  <2>3. AcceptWithServer' /\ AcceptedAreKept'
    BY <1>6 DEF TesterEnds, TesterNotifies, TesterJoins, TypeOK, AcceptWithServer,
       AcceptedAreKept
  <2> QED
    BY <2>2, <2>3
<1>7. CASE DescriptorsChange
  <2>1. FlagsOK'
    BY <1>7 DEF DescriptorsChange, TypeOK, FlagsOK
  <2>2. TypeOK'
    BY <1>7, <2>1 DEF DescriptorsChange, TypeOK
  <2>3. AcceptWithServer' /\ AcceptedAreKept'
    BY <1>7 DEF DescriptorsChange, TypeOK, AcceptWithServer,
       AcceptedAreKept
  <2> QED
    BY <2>2, <2>3
<1> QED
  BY <1>1, <1>2, <1>3, <1>4, <1>5, <1>6, <1>7

\* Connections and the accept thread.
LEMMA AcceptKeeps ==
    ASSUME Inductive,
           \/ \E c \in Conns : Connect(c)
           \/ \E c \in Conns : AcceptOne(c)
           \/ AcceptInterrupted \/ AcceptFails \/ AcceptCheck
           \/ AcceptPoll
           \/ AcceptAgain \/ AcceptError \/ AcceptNotified \/ AcceptNext
           \/ NotifyFalse
    PROVE  Inductive'
<1> USE ServerAssumption
    DEF Inductive, ServerAssumption, sockets, acceptor, bounds, NotifyOne, BothMoved,
        AcceptorStep
<1>1. ASSUME NEW c \in Conns, Connect(c)
      PROVE  Inductive'
  <2>1. FlagsOK'
    BY <1>1 DEF Connect, TypeOK, FlagsOK
  <2>2. TypeOK'
    BY <1>1, <2>1 DEF Connect, TypeOK
  <2>3. AcceptWithServer' /\ AcceptedAreKept'
    BY <1>1 DEF Connect, TypeOK, AcceptWithServer,
       AcceptedAreKept
  <2> QED
    BY <2>2, <2>3
<1>2. ASSUME NEW c \in Conns, AcceptOne(c)
      PROVE  Inductive'
  <2>1. FlagsOK'
    BY <1>2 DEF AcceptOne, TypeOK, FlagsOK
  <2>2. TypeOK'
    BY <1>2, <2>1 DEF AcceptOne, TypeOK
  <2>3. AcceptWithServer' /\ AcceptedAreKept'
    BY <1>2 DEF AcceptOne, TypeOK, AcceptWithServer,
       AcceptedAreKept
  <2> QED
    BY <2>2, <2>3
<1>3. CASE AcceptInterrupted \/ AcceptFails \/ AcceptCheck
  <2>1. FlagsOK'
    BY <1>3 DEF AcceptInterrupted, AcceptFails, AcceptCheck, TypeOK, FlagsOK
  <2>2. TypeOK'
    <3>1. CASE AcceptInterrupted \/ AcceptCheck
      <4>1. CASE AcceptInterrupted
        BY <2>1, <4>1 DEF AcceptInterrupted, TypeOK
      <4>2. CASE AcceptCheck
        BY <2>1, <4>2 DEF AcceptCheck, TypeOK
      <4> QED
        BY <3>1, <4>1, <4>2
    <3>2. CASE AcceptFails
      BY <2>1, <3>2 DEF AcceptFails, TypeOK
    <3> QED
      BY <1>3, <3>1, <3>2
  <2>3. AcceptWithServer' /\ AcceptedAreKept'
    BY <1>3 DEF AcceptInterrupted, AcceptFails, AcceptCheck, TypeOK, AcceptWithServer,
       AcceptedAreKept
  <2> QED
    BY <2>2, <2>3
<1>4. CASE AcceptPoll
  <2>1. FlagsOK'
    BY <1>4 DEF AcceptPoll, Ready, TypeOK, FlagsOK
  <2>2. TypeOK'
    BY <1>4, <2>1 DEF AcceptPoll, Ready, TypeOK
  <2>3. AcceptWithServer' /\ AcceptedAreKept'
    BY <1>4 DEF AcceptPoll, Ready, TypeOK, AcceptWithServer,
       AcceptedAreKept
  <2> QED
    BY <2>2, <2>3
<1>5. CASE AcceptAgain \/ AcceptError \/ AcceptNotified \/ AcceptNext
  <2>1. FlagsOK'
    BY <1>5 DEF AcceptAgain, AcceptError, AcceptNotified, AcceptNext, TypeOK, FlagsOK
  <2>2. TypeOK'
    <3>1. CASE AcceptAgain
      BY <2>1, <3>1 DEF AcceptAgain, TypeOK
    <3>2. CASE AcceptNotified
      BY <2>1, <3>2 DEF AcceptNotified, TypeOK
    <3>3. CASE AcceptNext
      BY <2>1, <3>3 DEF AcceptNext, TypeOK
    <3>4. CASE AcceptError
      BY <2>1, <3>4 DEF AcceptError, TypeOK
    <3> QED
      BY <1>5, <3>1, <3>2, <3>3, <3>4
  <2>3. AcceptWithServer' /\ AcceptedAreKept'
    BY <1>5 DEF AcceptAgain, AcceptError, AcceptNotified, AcceptNext, TypeOK, AcceptWithServer,
       AcceptedAreKept
  <2> QED
    BY <2>2, <2>3
<1>6. CASE NotifyFalse
  <2>1. FlagsOK'
    BY <1>6 DEF NotifyFalse, TypeOK, FlagsOK
  <2>2. TypeOK'
    BY <1>6, <2>1 DEF NotifyFalse, TypeOK
  <2>3. AcceptWithServer' /\ AcceptedAreKept'
    BY <1>6 DEF NotifyFalse, TypeOK, AcceptWithServer,
       AcceptedAreKept
  <2> QED
    BY <2>2, <2>3
<1> QED
  BY <1>1, <1>2, <1>3, <1>4, <1>5, <1>6

\* The server loop and the destructor.
LEMMA LoopKeeps ==
    ASSUME Inductive,
           \/ LoopCheck \/ LoopStart \/ LoopTellsStart
           \/ LoopBlock \/ LoopRelock
           \/ LoopStartFails
           \/ LoopTellsFailure \/ LoopLock \/ LoopTest
           \/ StopNotify \/ StopJoin
           \/ StopCloseClients
           \/ StopClear
    PROVE  Inductive'
<1> USE ServerAssumption
    DEF Inductive, ServerAssumption, sockets, acceptor, bounds, NotifyOne, BothMoved,
        LoopAt, LoopStep
<1>1. CASE LoopCheck \/ LoopStart \/ LoopTellsStart
  <2>1. FlagsOK'
    BY <1>1 DEF LoopCheck, LoopStart, LoopTellsStart, TypeOK, FlagsOK
  <2>2. TypeOK'
    BY <1>1, <2>1 DEF LoopCheck, LoopStart, LoopTellsStart, TypeOK
  <2>3. AcceptWithServer' /\ AcceptedAreKept'
    BY <1>1 DEF LoopCheck, LoopStart, LoopTellsStart, TypeOK, AcceptWithServer,
       AcceptedAreKept
  <2> QED
    BY <2>2, <2>3
<1>2. CASE LoopBlock \/ LoopRelock
  <2>1. FlagsOK'
    BY <1>2 DEF LoopBlock, LoopRelock, TypeOK, FlagsOK
  <2>2. TypeOK'
    BY <1>2, <2>1 DEF LoopBlock, LoopRelock, TypeOK
  <2>3. AcceptWithServer' /\ AcceptedAreKept'
    BY <1>2 DEF LoopBlock, LoopRelock, TypeOK, AcceptWithServer,
       AcceptedAreKept
  <2> QED
    BY <2>2, <2>3
<1>3. CASE LoopStartFails
  <2>1. FlagsOK'
    BY <1>3 DEF LoopStartFails, TypeOK, FlagsOK
  <2>2. TypeOK'
    BY <1>3, <2>1 DEF LoopStartFails, TypeOK
  <2>3. AcceptWithServer' /\ AcceptedAreKept'
    BY <1>3 DEF LoopStartFails, TypeOK, AcceptWithServer,
       AcceptedAreKept
  <2> QED
    BY <2>2, <2>3
<1>4. CASE LoopTellsFailure \/ LoopLock \/ LoopTest
  <2>1. FlagsOK'
    BY <1>4 DEF LoopTellsFailure, LoopLock, LoopTest, TypeOK, FlagsOK
  <2>2. TypeOK'
    BY <1>4, <2>1 DEF LoopTellsFailure, LoopLock, LoopTest, TypeOK
  <2>3. AcceptWithServer' /\ AcceptedAreKept'
    BY <1>4 DEF LoopTellsFailure, LoopLock, LoopTest, TypeOK, AcceptWithServer,
       AcceptedAreKept
  <2> QED
    BY <2>2, <2>3
<1>5. CASE StopNotify \/ StopJoin
  <2>1. FlagsOK'
    BY <1>5 DEF StopNotify, StopJoin, TypeOK, FlagsOK
  <2>2. TypeOK'
    BY <1>5, <2>1 DEF StopNotify, StopJoin, TypeOK
  <2>3. AcceptWithServer' /\ AcceptedAreKept'
    BY <1>5 DEF StopNotify, StopJoin, TypeOK, AcceptWithServer,
       AcceptedAreKept
  <2> QED
    BY <2>2, <2>3
<1>6. CASE StopCloseClients
  <2>1. FlagsOK'
    BY <1>6 DEF StopCloseClients, TypeOK, FlagsOK
  <2>2. TypeOK'
    BY <1>6, <2>1 DEF StopCloseClients, TypeOK
  <2>3. AcceptWithServer' /\ AcceptedAreKept'
    BY <1>6 DEF StopCloseClients, TypeOK, AcceptWithServer,
       AcceptedAreKept
  <2> QED
    BY <2>2, <2>3
<1>7. CASE StopClear
  <2>1. FlagsOK'
    BY <1>7 DEF StopClear, TypeOK, FlagsOK
  <2>2. TypeOK'
    BY <1>7, <2>1 DEF StopClear, TypeOK
  <2>3. AcceptWithServer' /\ AcceptedAreKept'
    BY <1>7 DEF StopClear, TypeOK, AcceptWithServer,
       AcceptedAreKept
  <2> QED
    BY <2>2, <2>3
<1> QED
  BY <1>1, <1>2, <1>3, <1>4, <1>5, <1>6, <1>7

\* The invariant holds in every state of every behaviour.
THEOREM Invariance == Spec => []Inductive
<1>1. Inductive /\ [Next]_vars => Inductive'
  <2> SUFFICES ASSUME Inductive, [Next]_vars
               PROVE  Inductive'
    OBVIOUS
  <2>1. CASE Next
    BY <2>1, OthersKeep, AcceptKeeps, LoopKeeps DEF Next, Acceptor, Loop, Stop, Tester
  <2>2. CASE UNCHANGED vars
    <3>1. FlagsOK'
      BY <2>2 DEF vars, Inductive, TypeOK, FlagsOK
    <3>2. TypeOK'
      BY <2>2, <3>1 DEF vars, sockets, acceptor, bounds, Inductive, TypeOK
    <3> QED
      BY <2>2, <3>2 DEF vars, sockets, acceptor, Inductive, AcceptWithServer,
                        AcceptedAreKept
  <2> QED
    BY <2>1, <2>2
<1> QED
  BY <1>1, InitInductive, PTL DEF Spec

\* The variables keep their types.
THEOREM TypeCorrect == Spec => []TypeOK
<1>1. Inductive => TypeOK
  BY DEF Inductive
<1> QED
  BY <1>1, Invariance, PTL

\* Between two servers, and after the last, no connection a server accepted is
\* open and no accept thread runs.
THEOREM ServersLeaveNothing == Spec => []NothingLeftBehind
<1>1. Inductive => NothingLeftBehind
  BY DEF Inductive, TypeOK, AcceptWithServer, AcceptedAreKept, NothingLeftBehind
<1> QED
  BY <1>1, Invariance, PTL
-----------------------------------------------------------------------------
(* Wakeups.  Where a thread waits depends on what the others have done, and    *)
(* on mtx: the parts of WakeupInductive are kept together.                     *)

\* Nobody holds mtx, waits or has been told anything at the start.
LEMMA WakeupInit == Init => WakeupInductive
  BY DEF Init, WakeupInductive, Held, NotifiedToStop, Stopping, EndedForAReason,
         ServerRunningIsTold, NothingMissed

\* Signals, spurious wakeups, connections and descriptors miss nothing.
LEMMA WakeupSignals ==
    ASSUME Inductive, WakeupInductive,
           \/ Signal
           \/ SignalNotifies
           \/ LoopSpuriousWakeup
           \/ TesterSpuriousWakeup
           \/ \E c \in Conns : Connect(c)
           \/ DescriptorsChange
    PROVE  WakeupInductive'
<1> USE DEF Inductive, TypeOK, FlagsOK, AcceptWithServer, WakeupInductive, Held,
            NotifiedToStop, Stopping, EndedForAReason, ServerRunningIsTold,
            NothingMissed, sockets, acceptor, bounds, NotifyOne, BothMoved,
            AcceptorStep, LoopAt, LoopStep, TesterAt, TesterStep
<1>1. CASE Signal
  BY <1>1 DEF Signal
<1>2. CASE SignalNotifies
  BY <1>2 DEF SignalNotifies
<1>3. CASE LoopSpuriousWakeup
  BY <1>3 DEF LoopSpuriousWakeup
<1>4. CASE TesterSpuriousWakeup
  BY <1>4 DEF TesterSpuriousWakeup
<1>5. ASSUME NEW c \in Conns, Connect(c)
      PROVE  WakeupInductive'
  BY <1>5 DEF Connect
<1>6. CASE DescriptorsChange
  BY <1>6 DEF DescriptorsChange
<1> QED
  BY <1>1, <1>2, <1>3, <1>4, <1>5, <1>6

\* main() of final_main: it waits only where Server_loop has yet to notify.
LEMMA WakeupTester ==
    ASSUME Inductive, WakeupInductive,
           \/ TesterLock
           \/ TesterTest
           \/ TesterBlock
           \/ TesterEnds
           \/ TesterNotifies
           \/ TesterJoins
    PROVE  WakeupInductive'
<1> USE DEF Inductive, TypeOK, FlagsOK, AcceptWithServer, WakeupInductive, Held,
            NotifiedToStop, Stopping, EndedForAReason, ServerRunningIsTold,
            NothingMissed, sockets, acceptor, bounds, NotifyOne, BothMoved,
            AcceptorStep, LoopAt, LoopStep, TesterAt, TesterStep
<1>1. CASE TesterLock
  BY <1>1 DEF TesterLock
<1>2. CASE TesterTest
  BY <1>2 DEF TesterTest
<1>3. CASE TesterBlock
  BY <1>3 DEF TesterBlock
<1>4. CASE TesterEnds
  BY <1>4 DEF TesterEnds
<1>5. CASE TesterNotifies
  BY <1>5 DEF TesterNotifies
<1>6. CASE TesterJoins
  BY <1>6 DEF TesterJoins
<1> QED
  BY <1>1, <1>2, <1>3, <1>4, <1>5, <1>6

\* The accept thread: notify_false cannot come between the test and the wait, as
\* mtx is held there, and the eventfd is emptied only where the thread then ends.
LEMMA WakeupAccept ==
    ASSUME Inductive, WakeupInductive,
           \/ AcceptInterrupted
           \/ AcceptFails
           \/ AcceptCheck
           \/ AcceptPoll
           \/ \E c \in Conns : AcceptOne(c)
           \/ AcceptAgain
           \/ AcceptError
           \/ AcceptNotified
           \/ AcceptNext
           \/ NotifyFalse
    PROVE  WakeupInductive'
<1> USE DEF Inductive, TypeOK, FlagsOK, AcceptWithServer, WakeupInductive, Held,
            NotifiedToStop, Stopping, EndedForAReason, ServerRunningIsTold,
            NothingMissed, sockets, acceptor, bounds, NotifyOne, BothMoved,
            AcceptorStep, LoopAt, LoopStep, TesterAt, TesterStep
<1>1. CASE AcceptInterrupted
  BY <1>1 DEF AcceptInterrupted
<1>2. CASE AcceptFails
  BY <1>2 DEF AcceptFails
<1>3. CASE AcceptCheck
  BY <1>3 DEF AcceptCheck
<1>4. CASE AcceptPoll
  BY <1>4 DEF AcceptPoll, Ready
<1>5. ASSUME NEW c \in Conns, AcceptOne(c)
      PROVE  WakeupInductive'
  BY <1>5 DEF AcceptOne
<1>6. CASE AcceptAgain
  BY <1>6 DEF AcceptAgain
<1>7. CASE AcceptNotified
  BY <1>7 DEF AcceptNotified
<1>8. CASE AcceptNext
  BY <1>8 DEF AcceptNext
<1>9. CASE NotifyFalse
  BY <1>9 DEF NotifyFalse
<1>10. CASE AcceptError
  BY <1>10 DEF AcceptError
<1> QED
  BY <1>1, <1>2, <1>3, <1>4, <1>5, <1>6, <1>7, <1>8, <1>9, <1>10

\* The server loop: it waits having seen running with mtx held.
LEMMA WakeupLoop ==
    ASSUME Inductive, WakeupInductive,
           \/ LoopCheck
           \/ LoopStart
           \/ LoopStartFails
           \/ LoopTellsFailure
           \/ LoopTellsStart
           \/ LoopLock
           \/ LoopTest
           \/ LoopBlock
           \/ LoopRelock
    PROVE  WakeupInductive'
<1> USE DEF Inductive, TypeOK, FlagsOK, AcceptWithServer, WakeupInductive, Held,
            NotifiedToStop, Stopping, EndedForAReason, ServerRunningIsTold,
            NothingMissed, sockets, acceptor, bounds, NotifyOne, BothMoved,
            AcceptorStep, LoopAt, LoopStep, TesterAt, TesterStep
<1>1. CASE LoopCheck
  BY <1>1 DEF LoopCheck
<1>2. CASE LoopStart
  BY <1>2 DEF LoopStart
<1>3. CASE LoopStartFails
  BY <1>3 DEF LoopStartFails
<1>4. CASE LoopTellsFailure
  BY <1>4 DEF LoopTellsFailure
<1>5. CASE LoopTellsStart
  BY <1>5 DEF LoopTellsStart
<1>6. CASE LoopLock
  BY <1>6 DEF LoopLock
<1>7. CASE LoopTest
  BY <1>7 DEF LoopTest
<1>8. CASE LoopBlock
  BY <1>8 DEF LoopBlock
<1>9. CASE LoopRelock
  BY <1>9 DEF LoopRelock
<1> QED
  BY <1>1, <1>2, <1>3, <1>4, <1>5, <1>6, <1>7, <1>8, <1>9

\* stop(): the eventfd is readable before the join.
LEMMA WakeupStop ==
    ASSUME Inductive, WakeupInductive,
           \/ StopNotify
           \/ StopJoin
           \/ StopCloseClients
           \/ StopClear
    PROVE  WakeupInductive'
<1> USE DEF Inductive, TypeOK, FlagsOK, AcceptWithServer, WakeupInductive, Held,
            NotifiedToStop, Stopping, EndedForAReason, ServerRunningIsTold,
            NothingMissed, sockets, acceptor, bounds, NotifyOne, BothMoved,
            AcceptorStep, LoopAt, LoopStep, TesterAt, TesterStep
<1>1. CASE StopNotify
  BY <1>1 DEF StopNotify
<1>2. CASE StopJoin
  BY <1>2 DEF StopJoin
<1>3. CASE StopCloseClients
  BY <1>3 DEF StopCloseClients
<1>4. CASE StopClear
  BY <1>4 DEF StopClear
<1> QED
  BY <1>1, <1>2, <1>3, <1>4

\* The invariant of wakeups holds in every state of every behaviour.
THEOREM WakeupInvariance == Spec => []WakeupInductive
<1>1. Inductive /\ WakeupInductive /\ [Next]_vars => WakeupInductive'
  <2> SUFFICES ASSUME Inductive, WakeupInductive, [Next]_vars
               PROVE  WakeupInductive'
    OBVIOUS
  <2>1. CASE Next
    BY <2>1, WakeupSignals, WakeupTester, WakeupAccept, WakeupLoop, WakeupStop
       DEF Next, Acceptor, Loop, Stop, Tester
  <2>2. CASE UNCHANGED vars
    BY <2>2 DEF vars, acceptor, WakeupInductive, Held, NotifiedToStop, Stopping,
                EndedForAReason, ServerRunningIsTold, NothingMissed
  <2> QED
    BY <2>1, <2>2
<1> QED
  BY <1>1, WakeupInit, Invariance, PTL DEF Spec

\* A server loop that waits has a server to wait for, main() of final_main has
\* yet to be notified, and stop() joins a thread that it has woken.
THEOREM NothingIsMissed == Spec => []NothingMissed
<1>1. WakeupInductive => NothingMissed
  BY DEF WakeupInductive
<1> QED
  BY <1>1, WakeupInvariance, PTL
=============================================================================
