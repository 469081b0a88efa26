---------------------------- MODULE MCStatistics ----------------------------
(* Statistics with two users, two problems and two units.  The times are the *)
(* two limits, more than either, and one that is not hh:mm:ss.               *)
EXTENDS Statistics, TLC

SomeTimes == {<<0, 20, 59>>, <<0, 30, 0>>, <<1, 5, 0>>, <<15, 30>>}

\* Names, titles and types are told apart by nothing else.
Symmetry == Permutations(Names) \union Permutations(Titles)
              \union Permutations(Types)
=============================================================================
