------------------------------- MODULE MCWire -------------------------------
(* Wire with packages of at most 16 bytes.  The codes of the types, END and   *)
(* SEP are the real ones; START is 4, which no type is, so that it can be the *)
(* length of a payload, as 42 can.  One line has a START and a SEP, makes a   *)
(* payload of that length for login, and lets the rest of an insert_problem   *)
(* look like a package; the other is one byte too long for login.  The        *)
(* answers have a START and the length 4, and one byte too many.              *)
EXTENDS Wire, TLC

a == 97
SomeLines == {<<START, SEP, a>>, [i \in 1..9 |-> a]}
SomeEntry == [number |-> <<49>>, difficulty |-> <<72, 72>>, status |-> <<48>>,
              time |-> <<50>>]
SomeAnswers == {<<a, START, a, a>>, [i \in 1..10 |-> a]}
=============================================================================
