----------------------------- MODULE MCSessions -----------------------------
(* Sessions for two users and two connections on one worker, both at once or  *)
(* one after the other with the same fd number.  The one time is a solved    *)
(* submission of 20 minutes; the garbage in special_id is no user's id.      *)
EXTENDS Sessions, TLC

SomeTimes == {<<0, 20, 0>>}
SomeGarbage == {-7}
Symmetry == Permutations(Conns)
=============================================================================
