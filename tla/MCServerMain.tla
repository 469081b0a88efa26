---------------------------- MODULE MCServerMain ----------------------------
(* ServerMain with two connections, one failure and two signals: a server is  *)
(* replaced, and a signal comes on either side of that, or both.              *)
EXTENDS ServerMain, TLC
=============================================================================
