------------------------------ MODULE MCServer ------------------------------
(* Instances of the server for TLC. *)
EXTENDS ServerRoom, TLC

CONSTANTS c1, c2, c3

\* How many messages c1 sends, and how many each of the others.
Talk10 == [c \in Conns |-> IF c = c1 THEN 1 ELSE 0]
Talk20 == [c \in Conns |-> IF c = c1 THEN 2 ELSE 0]
Talk21 == [c \in Conns |-> IF c = c1 THEN 2 ELSE 1]
Talk30 == [c \in Conns |-> IF c = c1 THEN 3 ELSE 0]

\* c1 sends everything there is, the others nothing but words; or all of them send words.
OneCommands == [c \in Conns |-> IF c = c1 THEN Forms ELSE {"word"}]
AllWords    == [c \in Conns |-> {"word"}]

\* Bound of two_workers: TLC goes no further from a state in which the connection of a client
\* that sends nothing is reset.  c1's may be reset at any time, and all may have an RST under way.
OnlySpeakerReset == \A c \in Conns \ {c1} : conn[c].peer \notin {"rsterr", "rst"}

\* Workers are alike, and so are the clients that send nothing; not for the runs with a
\* liveness property.
AlikeWorkers == Permutations(Workers)
AlikeClients == Permutations(Conns \ {c1})
=============================================================================
