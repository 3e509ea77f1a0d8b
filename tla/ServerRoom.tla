----------------------------- MODULE ServerRoom -----------------------------
(***************************************************************************)
(* The server with one worker as an implementation of ChatRoom.  The room  *)
(* keeps its books by user, the server by descriptor; the mapping goes     *)
(* through the address an entry was made for and never through the         *)
(* descriptor table, so that an entry which outlives its connection, or a  *)
(* reused descriptor, shows as a wrong step of the room.                   *)
(*                                                                         *)
(* When a connection is reset the room is closed: what the error branch    *)
(* leaves behind is the subject of RegistryExact and SpokenByOwner.        *)
(***************************************************************************)
EXTENDS ServerProperties

CONSTANT Idle

\* Nobody's announcement.
ASSUME IdleAssumption == Idle \notin [notice : Notice, left : SUBSET Conns]

TheWorker == CHOOSE w \in Workers : TRUE
me == th[TheWorker]

EntriesOf(c) == {f \in Keys : clients[f].origin = c}
EntryOf(c) == CHOOSE f \in EntriesOf(c) : TRUE
Registered == {c \in Conns : EntriesOf(c) # {}}
Owners(fds) == {clients[f].origin : f \in fds}

\* The text a handler has read of c and not yet acted on.
InHand(c) ==
  IF /\ me.pc \in {"recv", "close", "readname", "erase", "dispatch", "setnick", "talk"}
     /\ me.fd \in EntriesOf(c)
  THEN me.buf ELSE <<>>

\* The books of the room.
Nicks   == [c \in Conns |-> IF c \in Registered THEN clients[EntryOf(c)].nick ELSE <<>>]
Unheard == [c \in Conns |-> InHand(c) \o conn[c].rx]
HungUp  == {c \in Conns : conn[c].peer \notin {"idle", "up"}}
Inboxes == [c \in Conns |-> conn[c].inbox]

\* Where the loop over clients is says who has still to be told.
Pending == Ahead(TheWorker)

Floor ==
  CASE me.pc = "welcome" -> [notice |-> Note("welcome", clients[me.fd].nick, <<>>, {}),
                             left |-> Owners(Keys \ {me.fd})]
    [] me.pc = "say"     -> [notice |-> Note("say", clients[me.fd].nick, me.buf, {}),
                             left |-> Owners(Keys \ {me.fd})]
    [] me.pc = "bcast"   -> [notice |-> me.out, left |-> Owners(Pending \ {me.fd})]
    [] me.pc = "private" -> [notice |-> me.out,
                             left |-> Owners({f \in Pending : clients[f].nick = me.out.nick})]
    [] me.pc = "show"    -> [notice |-> Note("users", <<>>, <<>>, Registered),
                             left |-> Owners({me.fd})]
    [] OTHER             -> Idle

Disturbed == ResetConns # {}
Nobody == [c \in Conns |-> <<>>]

Room == INSTANCE ChatRoom WITH
  Users    <- Conns,
  Messages <- UNION {[src: {c}, no: 1..MaxSent[c], form: Forms, to: Conns] : c \in Conns},
  present  <- IF Disturbed THEN {} ELSE Registered,
  name     <- IF Disturbed THEN Nobody ELSE Nicks,
  queue    <- IF Disturbed THEN Nobody ELSE Unheard,
  floor    <- IF Disturbed THEN Idle ELSE Floor,
  gone     <- IF Disturbed THEN {} ELSE HungUp,
  heard    <- IF Disturbed THEN Nobody ELSE Inboxes,
  closed   <- Disturbed

\* Seen from its users, the server with one worker is the chat room as long as no connection
\* is reset: names, lines, private messages, lists and leaves reach those they are meant for,
\* one announcement after the other, whatever the descriptors and the events do.
ImplementsRoom == Room!Spec
=============================================================================
