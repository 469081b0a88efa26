------------------------------ MODULE TaskPool ------------------------------
(***************************************************************************)
(* What a user of the thread pool may rely on, with no locks and no        *)
(* condition variable: a submitted task waits in a queue, workers start    *)
(* tasks in the order of submission, each task is started once, and every  *)
(* submitted task is eventually started and finished.                      *)
(*                                                                         *)
(* ThreadPool.tla implements it; EpollWorker.tla is built on its actions.  *)
(***************************************************************************)
EXTENDS Sequences

CONSTANTS
    Tasks,      \* what can be submitted: Task{func, arg} of ThreadPool.hpp
    Workers,    \* the threads of the pool
    None        \* a worker that runs no task: not in Tasks

VARIABLES
    queue,      \* the tasks submitted and not started, oldest first
    exec        \* the task each worker runs

vars == <<queue, exec>>

TypeOK ==
    /\ queue \in Seq(Tasks)
    /\ exec \in [Workers -> Tasks \union {None}]

Init ==
    /\ queue = <<>>
    /\ exec = [w \in Workers |-> None]

Submit(t) ==
    /\ queue' = Append(queue, t)
    /\ UNCHANGED exec

Start(w) ==
    /\ exec[w] = None
    /\ queue # <<>>
    /\ exec' = [exec EXCEPT ![w] = Head(queue)]
    /\ queue' = Tail(queue)

Finish(w) ==
    /\ exec[w] # None
    /\ exec' = [exec EXCEPT ![w] = None]
    /\ UNCHANGED queue

Next ==
    \/ \E t \in Tasks : Submit(t)
    \/ \E w \in Workers : Start(w) \/ Finish(w)

Spec ==
    /\ Init
    /\ [][Next]_vars
    /\ WF_vars(\E w \in Workers : Start(w))
    /\ \A w \in Workers : WF_vars(Finish(w))
=============================================================================
