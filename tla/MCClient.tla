------------------------------ MODULE MCClient ------------------------------
(* Client with every program, two servers after the first and two signals. *)
EXTENDS Client, TLC
=============================================================================
