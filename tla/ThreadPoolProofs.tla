-------------------------- MODULE ThreadPoolProofs --------------------------
(***************************************************************************)
(* The safety properties of ThreadPool, for any tasks, workers and         *)
(* producers: type correctness, exactly-once execution, no lost wakeup,    *)
(* an empty queue at exit, and that each step is a step of TaskPool.       *)
(***************************************************************************)
EXTENDS ThreadPool, Lemmas, TLAPS

-----------------------------------------------------------------------------
(* The inductive invariant holds initially... *)

\* The pool starts in an Inductive state.
LEMMA InitInductive == Init => Inductive
<1> SUFFICES ASSUME Init PROVE Inductive
  OBVIOUS
<1> USE DEF Init
<1>1. TypeOK
  <2>1. wpc \in [Workers -> {"ready", "waiting", "running", "thrown", "exited"}]
    OBVIOUS
  <2>2. task \in [Workers -> Tasks \union {None}]
    OBVIOUS
  <2>3. tasks \in Seq(Tasks)
    OBVIOUS
  <2>4. ppc \in [Producers -> {"idle", "signal"}]
    OBVIOUS
  <2>5. QED
    BY <2>1, <2>2, <2>3, <2>4 DEF TypeOK
<1>2. Queued = {} /\ Running = {}
  BY DEF Queued, Running
<1>3. ExactlyOnce
  BY <1>2 DEF ExactlyOnce
<1>4. QED
  BY <1>1, <1>3
     DEF Inductive, RunningHasTask, DestroyPhase, ExitedWhenDrained,
         JoinedAll, NoLostWakeup, Waiting

-----------------------------------------------------------------------------
(* ... and every action keeps it.  One lemma per action that moves a task. *)

\* enqueue adds a task that was nowhere before.
LEMMA EnqueueKeeps ==
    ASSUME Inductive, NEW p \in Producers, NEW t \in Tasks, Enqueue(p, t)
    PROVE  Inductive'
<1> USE DEF Inductive, Enqueue
<1>1. TypeOK'
  BY AppendElements DEF TypeOK
<1>2. Queued' = Queued \union {t}
  BY AppendElements DEF Queued, TypeOK
<1>3. Running' = Running
  BY DEF Running
<1>4. t \notin Queued
  BY DEF ExactlyOnce
<1>5. \A i, j \in DOMAIN tasks' : tasks'[i] = tasks'[j] => i = j
  BY <1>4, AppendElements DEF ExactlyOnce, Queued, TypeOK
<1>6. ExactlyOnce'
  BY <1>2, <1>3, <1>5 DEF ExactlyOnce, TypeOK
<1>7. (RunningHasTask /\ DestroyPhase /\ ExitedWhenDrained /\ JoinedAll)'
  BY DEF RunningHasTask, DestroyPhase, ExitedWhenDrained, JoinedAll, TypeOK
<1>8. NoLostWakeup'
  BY DEF NoLostWakeup, Waiting, DestroyPhase, TypeOK
<1>9. QED
  BY <1>1, <1>6, <1>7, <1>8

\* Popping the queue moves one task to one worker.
LEMMA TakeKeeps ==
    ASSUME Inductive, NEW w \in Workers, Take(w)
    PROVE  Inductive'
<1> USE DEF Inductive, Take
<1>1. /\ Head(tasks) \in Tasks
      /\ tasks' \in Seq(Tasks)
  BY TailElements DEF TypeOK
<1>2. TypeOK'
  BY <1>1 DEF TypeOK
<1>3. Head(tasks) # None
  BY <1>1, ThreadPoolAssumption
<1>4. task[w] = None
  BY DEF RunningHasTask
<1>5. /\ Queued = Queued' \union {Head(tasks)}
      /\ Head(tasks) \notin Queued'
  <2>1. Head(tasks) \in Queued /\ Queued' \subseteq Queued
    BY TailElements DEF Queued, TypeOK
  <2>2. Queued \subseteq Queued' \union {Head(tasks)}
    <3>1. ASSUME NEW i \in DOMAIN tasks
          PROVE  tasks[i] = Head(tasks) \/ tasks[i] \in Queued'
      <4>1. i = 1 \/ (i - 1 \in DOMAIN tasks' /\ tasks'[i - 1] = tasks[i])
        BY TailElements DEF TypeOK
      <4>2. QED
        BY <4>1, TailElements DEF Queued, TypeOK
    <3>2. QED
      BY <3>1 DEF Queued
  <2>3. Head(tasks) \notin Queued'
    BY TailElements DEF Queued, TypeOK, ExactlyOnce
  <2>4. QED
    BY <2>1, <2>2, <2>3
<1>6. Running' = Running \union {Head(tasks)}
  BY <1>3, <1>4 DEF Running, TypeOK
<1>7. \A i, j \in DOMAIN tasks' : tasks'[i] = tasks'[j] => i = j
  <2> SUFFICES ASSUME NEW i \in DOMAIN tasks', NEW j \in DOMAIN tasks',
                      tasks'[i] = tasks'[j]
               PROVE  i = j
    OBVIOUS
  <2>1. /\ i + 1 \in DOMAIN tasks /\ tasks'[i] = tasks[i + 1]
        /\ j + 1 \in DOMAIN tasks /\ tasks'[j] = tasks[j + 1]
        /\ i \in Nat /\ j \in Nat
    BY TailElements DEF TypeOK
  <2>2. i + 1 = j + 1
    BY <2>1 DEF ExactlyOnce
  <2>3. QED
    BY <2>1, <2>2
<1>8. \A u, v \in Workers : task'[u] # None /\ task'[u] = task'[v] => u = v
  <2>1. Head(tasks) \notin Running
    BY <1>5 DEF ExactlyOnce
  <2>2. \A v \in Workers : task[v] # Head(tasks)
    BY <2>1, <1>3 DEF Running
  <2>3. QED
    BY <2>2, <1>4 DEF ExactlyOnce, TypeOK
<1>9. ExactlyOnce'
  BY <1>5, <1>6, <1>7, <1>8 DEF ExactlyOnce
<1>10. (RunningHasTask /\ DestroyPhase /\ ExitedWhenDrained /\ JoinedAll)'
  BY <1>3 DEF RunningHasTask, DestroyPhase, ExitedWhenDrained, JoinedAll, TypeOK
<1>11. NoLostWakeup'
  BY DEF NoLostWakeup, Waiting, TypeOK
<1>12. QED
  BY <1>2, <1>9, <1>10, <1>11

\* The end of a task, returned or thrown, frees its worker.
LEMMA TaskOverKeeps ==
    ASSUME Inductive, NEW w \in Workers, Run(w) \/ Catch(w)
    PROVE  Inductive'
<1> USE DEF Inductive, Run, Catch, TaskOver
<1>1. task[w] # None /\ task[w] \in Tasks
  BY DEF RunningHasTask, TypeOK
<1>2. TypeOK'
  BY <1>1 DEF TypeOK
<1>3. Queued' = Queued
  BY DEF Queued
<1>4. task[w] \in Running
  BY <1>1 DEF Running
<1>5. Running' = Running \ {task[w]}
  BY <1>1 DEF Running, ExactlyOnce, TypeOK
<1>6. \A u, v \in Workers : task'[u] # None /\ task'[u] = task'[v] => u = v
  BY DEF ExactlyOnce, TypeOK
<1>7. ExactlyOnce'
  BY <1>3, <1>4, <1>5, <1>6 DEF ExactlyOnce
<1>8. (RunningHasTask /\ DestroyPhase /\ ExitedWhenDrained /\ JoinedAll)'
  BY <1>1 DEF RunningHasTask, DestroyPhase, ExitedWhenDrained, JoinedAll, TypeOK
<1>9. NoLostWakeup'
  BY DEF NoLostWakeup, Waiting, TypeOK
<1>10. QED
  BY <1>2, <1>7, <1>8, <1>9

\* The other actions move no task.
LEMMA NoTaskMoved ==
    ASSUME ExactlyOnce, UNCHANGED <<tasks, task, todo, done>>
    PROVE  ExactlyOnce'
  BY DEF ExactlyOnce, Queued, Running

\* The signal after the unlock keeps the invariant.
LEMMA SignalKeeps ==
    ASSUME Inductive, NEW p \in Producers, Signal(p)
    PROVE  Inductive'
<1> USE DEF Inductive, Signal
<1>1. ExactlyOnce'
  BY NoTaskMoved
<1>2. CASE Waiting = {}
  <2>1. (TypeOK /\ RunningHasTask /\ DestroyPhase /\ ExitedWhenDrained
           /\ JoinedAll)'
    BY <1>2 DEF TypeOK, RunningHasTask, DestroyPhase, ExitedWhenDrained,
                JoinedAll
  <2>2. NoLostWakeup'
    BY <1>2 DEF NoLostWakeup, Waiting
  <2>3. QED
    BY <1>1, <2>1, <2>2
<1>3. CASE Waiting # {}
  <2>1. PICK w \in Waiting : wpc' = [wpc EXCEPT ![w] = "ready"]
    BY <1>3
  <2>2. w \in Workers /\ wpc[w] = "waiting" /\ wpc'[w] = "ready"
    BY <2>1 DEF Waiting, TypeOK
  <2>3. TypeOK'
    BY <2>1, <2>2 DEF TypeOK
  <2>4. (RunningHasTask /\ DestroyPhase /\ ExitedWhenDrained /\ JoinedAll)'
    BY <2>1, <2>2 DEF TypeOK, RunningHasTask, DestroyPhase, ExitedWhenDrained,
                      JoinedAll
  <2>5. NoLostWakeup'
    <3>1. Waiting' \subseteq Waiting
      BY <2>1, <2>2 DEF Waiting, TypeOK
    <3>2. QED
      BY <3>1, <2>2 DEF NoLostWakeup
  <2>6. QED
    BY <1>1, <2>3, <2>4, <2>5
<1>4. QED
  BY <1>2, <1>3

\* Going to wait on an empty queue keeps the invariant.
LEMMA WaitKeeps ==
    ASSUME Inductive, NEW w \in Workers, Wait(w)
    PROVE  Inductive'
<1> USE DEF Inductive, Wait
<1>1. ExactlyOnce'
  BY NoTaskMoved
<1>2. (TypeOK /\ RunningHasTask /\ DestroyPhase /\ ExitedWhenDrained
         /\ JoinedAll)'
  BY DEF TypeOK, RunningHasTask, DestroyPhase, ExitedWhenDrained, JoinedAll
<1>3. NoLostWakeup'
  BY DEF NoLostWakeup
<1>4. QED
  BY <1>1, <1>2, <1>3

\* An exception on its way to the catch keeps the invariant.
LEMMA ThrowKeeps ==
    ASSUME Inductive, NEW w \in Workers, Throw(w)
    PROVE  Inductive'
<1> USE DEF Inductive, Throw
<1>1. ExactlyOnce'
  BY NoTaskMoved
<1>2. (TypeOK /\ RunningHasTask /\ DestroyPhase /\ ExitedWhenDrained
         /\ JoinedAll)'
  BY DEF TypeOK, RunningHasTask, DestroyPhase, ExitedWhenDrained, JoinedAll
<1>3. NoLostWakeup'
  BY DEF NoLostWakeup, Waiting, TypeOK
<1>4. QED
  BY <1>1, <1>2, <1>3

\* A spurious wakeup keeps the invariant.
LEMMA SpuriousWakeupKeeps ==
    ASSUME Inductive, NEW w \in Workers, SpuriousWakeup(w)
    PROVE  Inductive'
<1> USE DEF Inductive, SpuriousWakeup
<1>1. ExactlyOnce'
  BY NoTaskMoved
<1>2. (TypeOK /\ RunningHasTask /\ DestroyPhase /\ ExitedWhenDrained
         /\ JoinedAll)'
  BY DEF TypeOK, RunningHasTask, DestroyPhase, ExitedWhenDrained, JoinedAll
<1>3. NoLostWakeup'
  BY DEF NoLostWakeup, Waiting, TypeOK
<1>4. QED
  BY <1>1, <1>2, <1>3

\* A worker that exits leaves an empty queue behind.
LEMMA ExitKeeps ==
    ASSUME Inductive, NEW w \in Workers, Exit(w)
    PROVE  Inductive'
<1> USE DEF Inductive, Exit
<1>1. ExactlyOnce'
  BY NoTaskMoved
<1>2. (TypeOK /\ RunningHasTask /\ DestroyPhase /\ ExitedWhenDrained
         /\ JoinedAll)'
  BY DEF TypeOK, RunningHasTask, DestroyPhase, ExitedWhenDrained, JoinedAll
<1>3. NoLostWakeup'
  BY DEF NoLostWakeup, Waiting, TypeOK
<1>4. QED
  BY <1>1, <1>2, <1>3

\* The three phases of ~ThreadPool keep the invariant.
LEMMA DestroyKeeps ==
    ASSUME Inductive, DestroyStop \/ DestroyBroadcast \/ DestroyJoin
    PROVE  Inductive'
<1> USE DEF Inductive
<1>1. ExactlyOnce'
  BY NoTaskMoved DEF DestroyStop, DestroyBroadcast, DestroyJoin
<1>2. CASE DestroyStop
  <2>1. (TypeOK /\ RunningHasTask /\ DestroyPhase /\ ExitedWhenDrained
           /\ JoinedAll /\ NoLostWakeup)'
    BY <1>2 DEF DestroyStop, TypeOK, RunningHasTask, DestroyPhase,
                ExitedWhenDrained, JoinedAll, NoLostWakeup, Waiting
  <2>2. QED
    BY <1>1, <2>1
<1>3. CASE DestroyBroadcast
  <2> USE <1>3 DEF DestroyBroadcast
  <2>1. \A w \in Workers :
          /\ wpc[w] = "waiting" => wpc'[w] = "ready"
          /\ wpc[w] # "waiting" => wpc'[w] = wpc[w]
    BY DEF Waiting
  <2>2. wpc' \in [Workers -> {"ready", "waiting", "running", "thrown", "exited"}]
    BY DEF Waiting, TypeOK
  <2>3. (TypeOK /\ RunningHasTask /\ DestroyPhase /\ ExitedWhenDrained
           /\ JoinedAll)'
    BY <2>1, <2>2 DEF TypeOK, RunningHasTask, DestroyPhase, ExitedWhenDrained,
                      JoinedAll
  <2>4. Waiting' = {}
    BY <2>1 DEF Waiting
  <2>5. QED
    BY <1>1, <2>3, <2>4 DEF NoLostWakeup
<1>4. CASE DestroyJoin
  <2>1. (TypeOK /\ RunningHasTask /\ DestroyPhase /\ ExitedWhenDrained
           /\ JoinedAll /\ NoLostWakeup)'
    BY <1>4 DEF DestroyJoin, TypeOK, RunningHasTask, DestroyPhase,
                ExitedWhenDrained, JoinedAll, NoLostWakeup, Waiting
  <2>2. QED
    BY <1>1, <2>1
<1>5. QED
  BY <1>2, <1>3, <1>4

\* Every step of the pool keeps the invariant.
LEMMA NextKeeps == Inductive /\ [Next]_vars => Inductive'
<1> SUFFICES ASSUME Inductive, [Next]_vars
             PROVE  Inductive'
  OBVIOUS
<1>1. CASE UNCHANGED vars
  <2>1. ExactlyOnce'
    BY <1>1, NoTaskMoved DEF vars, Inductive
  <2>2. (TypeOK /\ RunningHasTask /\ DestroyPhase /\ ExitedWhenDrained
           /\ JoinedAll)'
    BY <1>1 DEF vars, Inductive, TypeOK, RunningHasTask, DestroyPhase,
                ExitedWhenDrained, JoinedAll
  <2>3. NoLostWakeup'
    BY <1>1 DEF vars, Inductive, NoLostWakeup, Waiting
  <2>4. QED
    BY <2>1, <2>2, <2>3 DEF Inductive
<1>2. CASE Next
  BY <1>2, EnqueueKeeps, SignalKeeps, WaitKeeps, ExitKeeps, TakeKeeps, TaskOverKeeps,
     ThrowKeeps, SpuriousWakeupKeeps, DestroyKeeps
     DEF Next, WorkerStep
<1>3. QED
  BY <1>1, <1>2

\* So Inductive holds throughout.
LEMMA AlwaysInductive == SafeSpec => []Inductive
  BY InitInductive, NextKeeps, PTL DEF SafeSpec

-----------------------------------------------------------------------------
(* The theorems. *)

\* Every variable keeps its type: what enqueue, worker and ~ThreadPool write.
THEOREM TypeCorrect == SafeSpec => []TypeOK
<1>1. Inductive => TypeOK
  BY DEF Inductive
<1>2. QED
  BY <1>1, AlwaysInductive, PTL

\* Each task is in one place only, so it runs at most once and is never lost
\* between enqueue, the queue and the worker that pops it.
THEOREM TasksRunExactlyOnce == SafeSpec => []ExactlyOnce
<1>1. Inductive => ExactlyOnce
  BY DEF Inductive
<1>2. QED
  BY <1>1, AlwaysInductive, PTL

\* Signalling after the unlock loses no wakeup, of a task or of the stop flag.
THEOREM WakeupsAreNotLost == SafeSpec => []NoLostWakeup
<1>1. Inductive => NoLostWakeup
  BY DEF Inductive
<1>2. QED
  BY <1>1, AlwaysInductive, PTL

\* When ~ThreadPool has joined its threads every submitted task has run.
THEOREM PoolDrainsBeforeItEnds == SafeSpec => []DrainedAtExit
<1>1. Inductive => DrainedAtExit
  <2> SUFFICES ASSUME Inductive, dpc = "gone"
               PROVE  Tasks = todo \union done
    BY DEF DrainedAtExit
  <2> USE DEF Inductive
  <2>1. \A w \in Workers : wpc[w] = "exited"
    BY DEF JoinedAll
  <2>2. tasks = <<>>
    BY <2>1, ThreadPoolAssumption DEF ExitedWhenDrained
  <2>3. \A w \in Workers : task[w] = None
    BY <2>1 DEF RunningHasTask
  <2>4. Queued = {} /\ Running = {}
    BY <2>2, <2>3 DEF Queued, Running
  <2>5. QED
    BY <2>4 DEF ExactlyOnce
<1>2. QED
  BY <1>1, AlwaysInductive, PTL

\* The pool implements TaskPool, its liveness aside: enqueue submits, the pop
\* under the mutex starts the oldest task, its return or the catch finishes it,
\* and every other step of the locks and wakeups is invisible to the caller.
THEOREM PoolRefinesTaskPool == SafeSpec => Abstract!Init /\ [][Abstract!Next]_(Abstract!vars)
<1>1. Init => Abstract!Init
  BY DEF Init, Abstract!Init
<1>2. Inductive /\ [Next]_vars => [Abstract!Next]_(Abstract!vars)
  <2> SUFFICES ASSUME Inductive, [Next]_vars
               PROVE  [Abstract!Next]_(Abstract!vars)
    OBVIOUS
  <2>1. ASSUME NEW p \in Producers, NEW t \in Tasks, Enqueue(p, t)
        PROVE  Abstract!Submit(t)
    BY <2>1 DEF Enqueue, Abstract!Submit
  <2>2. ASSUME NEW w \in Workers, Take(w)
        PROVE  Abstract!Start(w)
    BY <2>2 DEF Take, Abstract!Start, Inductive, RunningHasTask
  <2>3. ASSUME NEW w \in Workers, Run(w) \/ Catch(w)
        PROVE  Abstract!Finish(w)
    BY <2>3 DEF Run, Catch, TaskOver, Abstract!Finish, Inductive, RunningHasTask
  <2>4. ASSUME \/ \E p \in Producers : Signal(p)
               \/ \E w \in Workers : Wait(w) \/ Exit(w) \/ Throw(w)
                                        \/ SpuriousWakeup(w)
               \/ DestroyStop \/ DestroyBroadcast \/ DestroyJoin
               \/ UNCHANGED vars
        PROVE  UNCHANGED Abstract!vars
    BY <2>4 DEF Signal, Wait, Exit, Throw, SpuriousWakeup, DestroyStop,
                DestroyBroadcast, DestroyJoin, vars, Abstract!vars
  <2>5. QED
    BY <2>1, <2>2, <2>3, <2>4 DEF Next, WorkerStep, Abstract!Next
<1>3. QED
  BY <1>1, <1>2, AlwaysInductive, PTL DEF SafeSpec
=============================================================================
