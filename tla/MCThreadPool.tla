---------------------------- MODULE MCThreadPool ----------------------------
(* ThreadPool with four tasks, three workers and two producers: with a task  *)
(* to spare the loss of every worker would be felt, with one producer no two *)
(* signals could be pending.  The values are in MCThreadPool.cfg.            *)
EXTENDS ThreadPool

ASSUME InterestingInstance ==
    /\ Cardinality(Workers) >= 2
    /\ Cardinality(Producers) >= 2
    /\ Cardinality(Tasks) > Cardinality(Workers)
=============================================================================
