----------------------------- MODULE ThreadPool -----------------------------
(***************************************************************************)
(* ThreadPool.cpp: worker threads, one queue, one mutex and one condition  *)
(* variable.                                                               *)
(*                                                                         *)
(* Each critical section of queue_mutex is one action.  pthread_cond_wait  *)
(* releases the mutex and joins the wait set in one step, so the check and *)
(* the wait are one action too.  enqueue signals, and the destructor       *)
(* broadcasts, after unlocking: those are actions of their own, and any    *)
(* step of the workers may come in between.                                *)
(*                                                                         *)
(* Operators named Bad... are the mistakes the properties are there to     *)
(* catch: nothing uses them, they replace the action that follows them     *)
(* when a property is tested.                                              *)
(*                                                                         *)
(* The initial state is the one after the constructor.  As C++ requires of *)
(* any object, no enqueue is under way or starts once the destructor has   *)
(* begun.                                                                  *)
(***************************************************************************)
EXTENDS Naturals, Sequences, FiniteSets

CONSTANTS
    Tasks,      \* the tasks submitted in a run, each of them once
    Workers,    \* the threads made by the constructor
    Producers,  \* the threads that call enqueue
    None

ASSUME ThreadPoolAssumption ==
    /\ None \notin Tasks
    /\ Workers # {}

VARIABLES
    tasks,      \* the queue
    stop,       \* the flag set by the destructor
    wpc,        \* where each worker is
    task,       \* the local variable task of each worker
    ppc,        \* whether a producer is between its unlock and its signal
    dpc,        \* where the destructor is
    todo,       \* the tasks not yet submitted
    done        \* the tasks that have run

vars == <<tasks, stop, wpc, task, ppc, dpc, todo, done>>

Waiting == {w \in Workers : wpc[w] = "waiting"}

Init ==
    /\ tasks = <<>>
    /\ stop = FALSE
    /\ wpc = [w \in Workers |-> "ready"]
    /\ task = [w \in Workers |-> None]
    /\ ppc = [p \in Producers |-> "idle"]
    /\ dpc = "alive"
    /\ todo = Tasks
    /\ done = {}

-----------------------------------------------------------------------------
(* enqueue: push under the mutex, then signal without it. *)

Enqueue(p, t) ==
    /\ dpc = "alive"
    /\ ppc[p] = "idle"
    /\ t \in todo
    /\ tasks' = Append(tasks, t)
    /\ todo' = todo \ {t}
    /\ ppc' = [ppc EXCEPT ![p] = "signal"]
    /\ UNCHANGED <<stop, wpc, task, dpc, done>>

BadSignalIgnored(p) ==
    /\ ppc[p] = "signal"
    /\ ppc' = [ppc EXCEPT ![p] = "idle"]
    /\ UNCHANGED <<tasks, stop, wpc, task, dpc, todo, done>>

\* A signal wakes one waiting worker, whichever, and is lost if there is none.
Signal(p) ==
    /\ ppc[p] = "signal"
    /\ ppc' = [ppc EXCEPT ![p] = "idle"]
    /\ IF Waiting = {}
       THEN UNCHANGED wpc
       ELSE \E w \in Waiting : wpc' = [wpc EXCEPT ![w] = "ready"]
    /\ UNCHANGED <<tasks, stop, task, dpc, todo, done>>

-----------------------------------------------------------------------------
(* worker: the three ways out of the critical section, and the task. *)

Wait(w) ==
    /\ wpc[w] = "ready"
    /\ ~stop
    /\ tasks = <<>>
    /\ wpc' = [wpc EXCEPT ![w] = "waiting"]
    /\ UNCHANGED <<tasks, stop, task, ppc, dpc, todo, done>>

\* The while loop checks again whatever woke the worker.
SpuriousWakeup(w) ==
    /\ wpc[w] = "waiting"
    /\ wpc' = [wpc EXCEPT ![w] = "ready"]
    /\ UNCHANGED <<tasks, stop, task, ppc, dpc, todo, done>>

BadExitWithTasksLeft(w) ==
    /\ wpc[w] = "ready"
    /\ stop
    /\ wpc' = [wpc EXCEPT ![w] = "exited"]
    /\ UNCHANGED <<tasks, stop, task, ppc, dpc, todo, done>>

Exit(w) ==
    /\ wpc[w] = "ready"
    /\ stop
    /\ tasks = <<>>
    /\ wpc' = [wpc EXCEPT ![w] = "exited"]
    /\ UNCHANGED <<tasks, stop, task, ppc, dpc, todo, done>>

BadTakeWithoutPop(w) ==
    /\ wpc[w] = "ready"
    /\ tasks # <<>>
    /\ task' = [task EXCEPT ![w] = Head(tasks)]
    /\ wpc' = [wpc EXCEPT ![w] = "running"]
    /\ UNCHANGED <<tasks, stop, ppc, dpc, todo, done>>

Take(w) ==
    /\ wpc[w] = "ready"
    /\ tasks # <<>>
    /\ task' = [task EXCEPT ![w] = Head(tasks)]
    /\ tasks' = Tail(tasks)
    /\ wpc' = [wpc EXCEPT ![w] = "running"]
    /\ UNCHANGED <<stop, ppc, dpc, todo, done>>

BadRunForgets(w) ==
    /\ wpc[w] = "running"
    /\ wpc' = [wpc EXCEPT ![w] = "ready"]
    /\ task' = [task EXCEPT ![w] = None]
    /\ done' = done \union {task'[w]}
    /\ UNCHANGED <<tasks, stop, ppc, dpc, todo>>

\* The task is over; the worker goes on.
TaskOver(w, next) ==
    /\ wpc' = [wpc EXCEPT ![w] = next]
    /\ task' = [task EXCEPT ![w] = None]
    /\ done' = done \union {task[w]}
    /\ UNCHANGED <<tasks, stop, ppc, dpc, todo>>

Run(w) ==
    /\ wpc[w] = "running"
    /\ TaskOver(w, "ready")

Throw(w) ==
    /\ wpc[w] = "running"
    /\ wpc' = [wpc EXCEPT ![w] = "thrown"]
    /\ UNCHANGED <<tasks, stop, task, ppc, dpc, todo, done>>

BadCatchEndsWorker(w) ==
    /\ wpc[w] = "thrown"
    /\ TaskOver(w, "exited")

\* catch (...): a task that throws is over like one that returns.
Catch(w) ==
    /\ wpc[w] = "thrown"
    /\ TaskOver(w, "ready")

-----------------------------------------------------------------------------
(* The destructor. *)

DestroyStop ==
    /\ dpc = "alive"
    /\ \A p \in Producers : ppc[p] = "idle"
    /\ stop' = TRUE
    /\ dpc' = "broadcast"
    /\ UNCHANGED <<tasks, wpc, task, ppc, todo, done>>

BadBroadcastWakesOne ==
    /\ dpc = "broadcast"
    /\ IF Waiting = {}
       THEN UNCHANGED wpc
       ELSE \E w \in Waiting : wpc' = [wpc EXCEPT ![w] = "ready"]
    /\ dpc' = "join"
    /\ UNCHANGED <<tasks, stop, task, ppc, todo, done>>

DestroyBroadcast ==
    /\ dpc = "broadcast"
    /\ wpc' = [w \in Workers |-> IF w \in Waiting THEN "ready" ELSE wpc[w]]
    /\ dpc' = "join"
    /\ UNCHANGED <<tasks, stop, task, ppc, todo, done>>

DestroyJoin ==
    /\ dpc = "join"
    /\ \A w \in Workers : wpc[w] = "exited"
    /\ dpc' = "gone"
    /\ UNCHANGED <<tasks, stop, wpc, task, ppc, todo, done>>

-----------------------------------------------------------------------------

WorkerStep(w) == Wait(w) \/ Exit(w) \/ Take(w) \/ Run(w) \/ Throw(w) \/ Catch(w)

Next ==
    \/ \E p \in Producers :
          \/ \E t \in Tasks : Enqueue(p, t)
          \/ Signal(p)
    \/ \E w \in Workers : WorkerStep(w) \/ SpuriousWakeup(w)
    \/ DestroyStop
    \/ DestroyBroadcast
    \/ DestroyJoin

\* Threads are scheduled and tasks return or throw; nobody has to enqueue or destroy.
Fairness ==
    /\ \A w \in Workers : WF_vars(WorkerStep(w))
    /\ \A p \in Producers : WF_vars(Signal(p))
    /\ WF_vars(DestroyBroadcast)
    /\ WF_vars(DestroyJoin)

SafeSpec == Init /\ [][Next]_vars

Spec == SafeSpec /\ Fairness

-----------------------------------------------------------------------------
(* Properties. *)

TypeOK ==
    /\ tasks \in Seq(Tasks)
    /\ stop \in BOOLEAN
    /\ wpc \in [Workers -> {"ready", "waiting", "running", "thrown", "exited"}]
    /\ task \in [Workers -> Tasks \union {None}]
    /\ ppc \in [Producers -> {"idle", "signal"}]
    /\ dpc \in {"alive", "broadcast", "join", "gone"}
    /\ todo \subseteq Tasks
    /\ done \subseteq Tasks

Queued == {tasks[i] : i \in DOMAIN tasks}

Running == {task[w] : w \in {v \in Workers : task[v] # None}}

\* Every task is in exactly one place: not submitted, queued once, run by one
\* worker, or done.  So no task is lost between front() and pop(), and no task
\* runs twice.
ExactlyOnce ==
    /\ todo \union Queued \union Running \union done = Tasks
    /\ todo \intersect (Queued \union Running \union done) = {}
    /\ Queued \intersect (Running \union done) = {}
    /\ Running \intersect done = {}
    /\ \A i, j \in DOMAIN tasks : tasks[i] = tasks[j] => i = j
    /\ \A v, w \in Workers : task[v] # None /\ task[v] = task[w] => v = w

\* A worker that sleeps while there is something for it to see (a task, or the
\* stop flag) is not forgotten: for a task, another worker is awake or a signal
\* is still to come; for the flag, the broadcast is still to come.
NoLostWakeup ==
    /\ Waiting # {} /\ tasks # <<>> =>
          \/ \E w \in Workers : wpc[w] \in {"ready", "running", "thrown"}
          \/ \E p \in Producers : ppc[p] = "signal"
          \/ dpc = "broadcast"
    /\ stop /\ Waiting # {} => dpc = "broadcast"

\* The comment on worker(): it ends when the program stops AND no task is left.
\* When the destructor has joined the threads, every submitted task has run.
DrainedAtExit == dpc = "gone" => Tasks = todo \union done

\* What makes the properties above inductive: a worker holds a task exactly
\* until it returns or its exception is caught; enqueue is over once the destructor has begun; a worker
\* exits only after the flag was set and the queue was empty, which then stays
\* empty; the destructor ends only after every worker.
RunningHasTask ==
    \A w \in Workers : wpc[w] \in {"running", "thrown"} <=> task[w] # None

DestroyPhase ==
    /\ stop <=> dpc # "alive"
    /\ stop => \A p \in Producers : ppc[p] = "idle"

ExitedWhenDrained ==
    \A w \in Workers : wpc[w] = "exited" => stop /\ tasks = <<>>

JoinedAll == dpc = "gone" => \A w \in Workers : wpc[w] = "exited"

Inductive ==
    /\ TypeOK
    /\ RunningHasTask
    /\ DestroyPhase
    /\ ExitedWhenDrained
    /\ JoinedAll
    /\ ExactlyOnce
    /\ NoLostWakeup

\* The joins of the destructor return.
DestructorReturns == (dpc = "broadcast") ~> (dpc = "gone")

\* The pool does what TaskPool promises.
Abstract == INSTANCE TaskPool WITH queue <- tasks, exec <- task

ImplementsTaskPool == Abstract!Spec
=============================================================================
