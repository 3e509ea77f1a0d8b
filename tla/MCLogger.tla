------------------------------ MODULE MCLogger ------------------------------
(* Instances of the logger for TLC. *)
EXTENDS Logger

CONSTANTS t1, t2, t3

\* How often each thread logs.
Twice == [t \in Threads |-> 2]
OnceOrTwice == [t \in Threads |-> IF t = t3 THEN 1 ELSE 2]
=============================================================================
