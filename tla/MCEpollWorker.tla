--------------------------- MODULE MCEpollWorker ---------------------------
(* Instances of EpollWorker for TLC. *)
EXTENDS EpollWorker, TLC

CONSTANTS c1, c2, f1, f2

\* Every number for every connection: an fd may be used again.
AnyFd == [c \in Conns |-> Fds]

\* Each connection its own number.
OwnFd == (c1 :> {f1}) @@ (c2 :> {f2})

\* Sound for safety properties where FdChoices is AnyFd.
Symmetry == Permutations(Conns) \union Permutations(Fds)
              \union Permutations(PoolWorkers)
=============================================================================
