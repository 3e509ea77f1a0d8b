------------------------------- MODULE Client -------------------------------
(***************************************************************************)
(* qiaqia_client after the fork in Client::start (client/client.hpp).  The *)
(* child reads the keyboard and writes the lines into a pipe; the parent   *)
(* waits on the pipe and on the socket, both edge-triggered, sends the     *)
(* lines and shows what the server sends.  The two share the descriptors:  *)
(* pipe and connection end for the other side when no process holds them.  *)
(*                                                                         *)
(* A step goes from one system call to the next.  The user, the network    *)
(* and the server are the environment.  An EINTR changes nothing here.     *)
(* Operators marked "Mutant" are no part of the model.                     *)
(***************************************************************************)
EXTENDS Integers, Sequences, FiniteSets, FiniteSetsExt, SequencesExt

CONSTANTS
  Users,     \* the other users of the chat room
  Kinds,     \* what the user types: a subset of LineKinds
  Forms,     \* what the server sends: a subset of TextForms
  Holds,     \* how many lines MAXLINE bytes hold, which depends on their lengths
  MaxLines,  \* bound: lines typed
  MaxTexts,  \* bound: texts from the server
  Slow,      \* TRUE: the send buffer of the socket may be full
  Resets     \* TRUE: the server may go with a reset

LineKinds == {"text", "block", "unblock", "list", "clear", "blank", "exit"}
TextForms == {"chat", "notice", "short"}

ASSUME ClientAssumption ==
  /\ Users # {}
  /\ Kinds \subseteq LineKinds
  /\ Forms \subseteq TextForms
  /\ Holds # {} /\ Holds \subseteq Nat \ {0}
  /\ MaxLines \in Nat /\ MaxTexts \in Nat
  /\ Slow \in BOOLEAN /\ Resets \in BOOLEAN

VARIABLES
  held,    \* per process: "r" pipe_fd[0], "w" pipe_fd[1], "s" clientsock
  pipe,    \* the lines in the pipe
  rx,      \* the cells that have come in on the socket
  wire,    \* the cells still on their way
  peer,    \* the server's side: "up", "fin" or "rst"
  ready,   \* epoll's ready list
  child,   \* the child: where it is, the line it writes, the lines typed so far
  parent,  \* the parent: where it is, and its locals and members
  told,    \* how many texts the server has sent
  tx,      \* what has been sent: per send, the lines in what the socket took of it
  shown    \* what has been shown: per print, the texts in it

envVars == <<wire, peer, told>>
vars == <<held, pipe, rx, envVars, ready, child, parent, tx, shown>>

(***************************************************************************)
(* A text of the server comes as a block of MAXLINE bytes, half text and   *)
(* half zeros here, or, when it is sent with its own length (a private     *)
(* message, the list of users, CAUTION), as its characters alone.  A cell  *)
(* is half a block; a read takes two.                                      *)
(***************************************************************************)
Line == [no: Nat, kind: LineKinds, user: Users]
Text == [no: Nat, form: TextForms, from: Users]
Zero == [no |-> 0, form |-> "notice", from |-> CHOOSE u \in Users : TRUE]
Cells(text) == IF text.form = "short" THEN <<text>> ELSE <<text, Zero>>
Half == 2

ChildPCs == {"close", "read", "write", "ended"}
ParentPCs == {"close", "wait", "next", "recv", "pipe", "send", "ended"}

ClientTypeOK ==
  /\ held \in [{"child", "parent"} -> SUBSET {"r", "w", "s"}]
  /\ pipe \in Seq(Line)
  /\ rx \in Seq(Text) /\ wire \in Seq(Text)
  /\ peer \in {"up", "fin", "rst"}
  /\ ready \subseteq {"pipe", "sock"}
  /\ child \in [pc: ChildPCs, line: Line, typed: 0..MaxLines]
  /\ parent \in [pc: ParentPCs, batch: Seq({"pipe", "sock"}), work: BOOLEAN, named: BOOLEAN,
                 blocked: SUBSET Users, message: Seq(Line), stream: Seq(Text)]
  /\ told \in 0..MaxTexts
  /\ tx \in Seq(Seq(Line)) /\ shown \in Seq(Seq(Text))

AnyLine == [no |-> 0, kind |-> "blank", user |-> CHOOSE u \in Users : TRUE]

Init ==
  /\ held = [x \in {"child", "parent"} |-> {"r", "w", "s"}]
  /\ pipe = <<>> /\ rx = <<>> /\ wire = <<>>
  /\ peer = "up"
  /\ ready = {}
  /\ child = [pc |-> "close", line |-> AnyLine, typed |-> 0]
  /\ parent = [pc |-> "close", batch |-> <<>>, work |-> TRUE, named |-> FALSE,
               blocked |-> {}, message |-> <<>>, stream |-> <<>>]
  /\ told = 0
  /\ tx = <<>> /\ shown = <<>>

Somebody(d) == \E x \in DOMAIN held : d \in held[x]
Hangup == ~Somebody("w")
SockInput == rx # <<>> \/ peer # "up"
PipeInput == pipe # <<>> \/ Hangup
Pollable(f) == IF f = "pipe" THEN PipeInput ELSE SockInput

\* Process x closes the descriptors ds; the last one to close the writing end wakes the reader.
Drop(x, ds) ==
  /\ held' = [held EXCEPT ![x] = @ \ ds]
  /\ ready' = IF Somebody("w") /\ (\A y \in DOMAIN held : "w" \notin held'[y])
              THEN ready \union {"pipe"} ELSE ready

-----------------------------------------------------------------------------
(* The child.                                                              *)

\* Mutant: the child keeps the reading end.
ChildKeepsPipe ==
  /\ child.pc = "close"
  /\ child' = [child EXCEPT !.pc = "read"]
  /\ UNCHANGED <<held, ready, pipe, rx, envVars, parent, tx, shown>>

ChildClose ==
  /\ child.pc = "close"
  /\ Drop("child", {"r"})
  /\ child' = [child EXCEPT !.pc = "read"]
  /\ UNCHANGED <<pipe, rx, envVars, parent, tx, shown>>

ChildEnds ==
  /\ Drop("child", {"r", "w", "s"})
  /\ child' = [child EXCEPT !.pc = "ended", !.line = AnyLine]

\* fgets, trim and handle_clear_and_exit.  A blank line leaves "\n", of which no byte is
\* written; "clear" goes to the screen.
ChildRead ==
  /\ child.pc = "read" /\ child.typed < MaxLines
  /\ \E k \in Kinds, u \in Users :
       LET line == [no |-> child.typed + 1, kind |-> k, user |-> u] IN
       IF k = "exit" THEN ChildEnds
       ELSE /\ child' = IF k \in {"blank", "clear"} THEN [child EXCEPT !.typed = @ + 1]
                        ELSE [pc |-> "write", line |-> line, typed |-> line.no]
            /\ UNCHANGED <<held, ready>>
  /\ UNCHANGED <<pipe, rx, envVars, parent, tx, shown>>

\* At the end of the input message is empty: strlen(message) - 1 is the largest size_t, the
\* write of so much fails and errExit ends the child.
ChildEOF ==
  /\ child.pc = "read"
  /\ ChildEnds
  /\ UNCHANGED <<pipe, rx, envVars, parent, tx, shown>>

\* A write that nobody can read is answered with SIGPIPE.
ChildWrite ==
  /\ child.pc = "write"
  /\ IF Somebody("r")
     THEN /\ pipe' = Append(pipe, child.line)
          /\ ready' = ready \union {"pipe"}
          /\ child' = [child EXCEPT !.pc = "read", !.line = AnyLine]
          /\ UNCHANGED held
     ELSE ChildEnds /\ UNCHANGED pipe
  /\ UNCHANGED <<rx, envVars, parent, tx, shown>>

-----------------------------------------------------------------------------
(* The parent: the loop.                                                   *)

\* Mutant: the parent keeps the writing end.
ParentKeepsPipe ==
  /\ parent.pc = "close"
  /\ parent' = [parent EXCEPT !.pc = "wait"]
  /\ UNCHANGED <<held, ready, pipe, rx, envVars, child, tx, shown>>

ParentClose ==
  /\ parent.pc = "close"
  /\ Drop("parent", {"w"})
  /\ parent' = [parent EXCEPT !.pc = "wait"]
  /\ UNCHANGED <<pipe, rx, envVars, child, tx, shown>>

\* What has gone from the ready list comes back with the next edge only.
ParentWait ==
  /\ parent.pc = "wait"
  /\ LET avail == {f \in ready : Pollable(f)} IN
     /\ avail # {}
     /\ \E batch \in SetToSeqs(avail) : parent' = [parent EXCEPT !.pc = "next", !.batch = batch]
  /\ ready' = {}
  /\ UNCHANGED <<held, pipe, rx, envVars, child, tx, shown>>

\* isClientwork is tested between the batches.
ParentNext ==
  /\ parent.pc = "next" /\ parent.batch # <<>>
  /\ parent' = [parent EXCEPT !.pc = IF Head(parent.batch) = "pipe" THEN "pipe" ELSE "recv",
                              !.batch = Tail(@)]
  /\ UNCHANGED <<held, ready, pipe, rx, envVars, child, tx, shown>>

\* close_sock, and the end of the process.
ParentLoop ==
  /\ parent.pc = "next" /\ parent.batch = <<>>
  /\ IF parent.work
     THEN parent' = [parent EXCEPT !.pc = "wait"] /\ UNCHANGED <<held, ready>>
     ELSE Drop("parent", {"r", "w", "s"}) /\ parent' = [parent EXCEPT !.pc = "ended"]
  /\ UNCHANGED <<pipe, rx, envVars, child, tx, shown>>

-----------------------------------------------------------------------------
(* The parent: the socket.                                                 *)

\* What a read of at most n takes.
Upto(s, n) == SubSeq(s, 1, Min({n, Len(s)}))

\* What std::string makes of a buffer: the texts before the first zero.
UpToZero(buf) == SelectInSeq(buf, LAMBDA cell : cell = Zero)
AsString(buf) == IF UpToZero(buf) = 0 THEN buf ELSE SubSeq(buf, 1, UpToZero(buf) - 1)

\* A stream that begins with "[name]" is from that user, whatever is glued behind it; every
\* other one is shown.
Hidden(stream) ==
  \/ stream = <<>>
  \/ ~parent.named
  \/ Head(stream).form = "chat" /\ Head(stream).from \in parent.blocked

\* message and buf go with the event.
EventDone == [parent EXCEPT !.pc = "next", !.message = <<>>, !.stream = <<>>]

\* Mutant: one read per event.
RecvTextOnce ==
  /\ "s" \in held["parent"] /\ rx # <<>>
  /\ shown' = IF Hidden(AsString(Upto(rx, Half))) THEN shown ELSE Append(shown, AsString(Upto(rx, Half)))
  /\ rx' = SubSeq(rx, Half + 1, Len(rx))
  /\ parent' = EventDone
  /\ UNCHANGED <<held, ready>>

\* Mutant: what has been collected is added once more.
RecvTextTwice ==
  /\ "s" \in held["parent"] /\ rx # <<>>
  /\ parent' = [parent EXCEPT !.stream = @ \o @ \o AsString(Upto(rx, Half))]
  /\ rx' = SubSeq(rx, Half + 1, Len(rx))
  /\ UNCHANGED <<held, ready, shown>>

RecvText ==
  /\ "s" \in held["parent"] /\ rx # <<>>
  /\ parent' = [parent EXCEPT !.stream = @ \o AsString(Upto(rx, Half))]
  /\ rx' = SubSeq(rx, Half + 1, Len(rx))
  /\ UNCHANGED <<held, ready, shown>>

\* Mutant: isClientwork stays true.
RecvEndGoesOn ==
  /\ "s" \in held["parent"] /\ rx = <<>> /\ peer # "up"
  /\ Drop("parent", {"s"})
  /\ UNCHANGED <<parent, rx, shown>>

\* End of file, or the error of a reset: the loop goes on with a descriptor that is closed.
RecvEnd ==
  /\ "s" \in held["parent"] /\ rx = <<>> /\ peer # "up"
  /\ Drop("parent", {"s"})
  /\ parent' = [parent EXCEPT !.work = FALSE]
  /\ UNCHANGED <<rx, shown>>

\* Mutant: EAGAIN is taken for an error.
RecvBreakCloses ==
  /\ "s" \notin held["parent"] \/ (rx = <<>> /\ peer = "up")
  /\ Drop("parent", {"s"})
  /\ parent' = [EventDone EXCEPT !.work = FALSE]
  /\ UNCHANGED <<rx, shown>>

\* Mutant: break for continue, and the events behind this one are dropped.
RecvBreakLeaves ==
  /\ "s" \notin held["parent"] \/ (rx = <<>> /\ peer = "up")
  /\ shown' = IF Hidden(parent.stream) THEN shown ELSE Append(shown, parent.stream)
  /\ parent' = IF parent.stream = <<>> THEN [EventDone EXCEPT !.batch = <<>>] ELSE EventDone
  /\ UNCHANGED <<held, ready, rx>>

\* EAGAIN, or EBADF: the loop ends, and what it has collected is shown.
RecvBreak ==
  /\ "s" \notin held["parent"] \/ (rx = <<>> /\ peer = "up")
  /\ shown' = IF Hidden(parent.stream) THEN shown ELSE Append(shown, parent.stream)
  /\ parent' = EventDone
  /\ UNCHANGED <<held, ready, rx>>

ParentRecv ==
  /\ parent.pc = "recv"
  /\ RecvText \/ RecvEnd \/ RecvBreak
  /\ UNCHANGED <<pipe, envVars, child, tx>>

-----------------------------------------------------------------------------
(* The parent: the pipe.                                                   *)

\* Mutant: the command is inserted for the name in it.
BlocksCommand(message) ==
  IF Last(message).kind = "block" THEN parent.blocked \union {Last(message)} ELSE parent.blocked

\* handle_block_cmd: of lines glued together only the last one ends in a name that is there,
\* the others run into the next line; nobody bears such a name.
Blocked(message) ==
  LET line == Last(message) IN
  CASE line.kind = "block"   -> parent.blocked \union {line.user}
    [] line.kind = "unblock" -> parent.blocked \ {line.user}
    [] OTHER                 -> parent.blocked

\* Lines written one after the other are read as one; the first bytes say what they are.
Received(message) ==
  LET first == Head(message).kind
      done == [EventDone EXCEPT !.named = TRUE] IN
  parent' = CASE first \in {"block", "unblock"} -> [done EXCEPT !.blocked = Blocked(message)]
              [] first = "list"                 -> done
              [] OTHER                          -> [done EXCEPT !.pc = "send", !.message = message]

\* Mutant: message is not cleared, and what was sent before stays behind the new line.
PipeKeepsMessage ==
  /\ parent.pc = "pipe"
  /\ \E n \in Holds :
       /\ IF pipe = <<>>
          THEN parent' = [EventDone EXCEPT !.work = FALSE]
          ELSE Received(Upto(pipe, n) \o FlattenSeq(tx))
       /\ pipe' = SubSeq(pipe, n + 1, Len(pipe))
  /\ UNCHANGED <<held, ready, rx, envVars, child, tx, shown>>

\* One read.  It finds something: epoll has reported the pipe, and nobody else reads it.
ParentPipe ==
  /\ parent.pc = "pipe"
  /\ \E n \in Holds :
       /\ IF pipe = <<>>
          THEN parent' = [EventDone EXCEPT !.work = FALSE]
          ELSE Received(Upto(pipe, n))
       /\ pipe' = SubSeq(pipe, n + 1, Len(pipe))
  /\ UNCHANGED <<held, ready, rx, envVars, child, tx, shown>>

\* What send returns is not looked at, an error no more than a part: EAGAIN, EBADF or the report of a reset.
SendLost ==
  /\ Slow \/ "s" \notin held["parent"] \/ peer = "rst"
  /\ parent' = EventDone
  /\ UNCHANGED <<held, ready, peer, tx>>

\* A buffer that is full may take the front of the block alone: some of its lines, of the
\* last one perhaps only the beginning.
Fronts(message) ==
  {SubSeq(message, 1, n) : n \in IF Slow THEN 1..Len(message) ELSE {Len(message)}}

\* A server that has closed answers with a reset, at once or later.
SendTaken ==
  /\ "s" \in held["parent"] /\ peer # "rst"
  /\ \E part \in Fronts(parent.message) : tx' = Append(tx, part)
  /\ parent' = EventDone
  /\ peer' \in IF peer = "up" THEN {"up"} ELSE {"fin", "rst"}
  /\ ready' = IF peer' = peer THEN ready ELSE ready \union {"sock"}
  /\ UNCHANGED held

\* EPIPE comes with SIGPIPE.
SendKills ==
  /\ "s" \in held["parent"] /\ peer = "rst"
  /\ Drop("parent", {"r", "w", "s"})
  /\ parent' = [parent EXCEPT !.pc = "ended"]
  /\ UNCHANGED <<peer, tx>>

ParentSend ==
  /\ parent.pc = "send"
  /\ SendLost \/ SendTaken \/ SendKills
  /\ UNCHANGED <<pipe, rx, wire, told, child, shown>>

-----------------------------------------------------------------------------
(* The environment: the server and the network.                            *)

Connected == Somebody("s")

ServerSend ==
  /\ Connected /\ peer = "up" /\ told < MaxTexts
  /\ \E form \in Forms, user \in Users :
       wire' = wire \o Cells([no |-> told + 1, form |-> form, from |-> user])
  /\ told' = told + 1
  /\ UNCHANGED <<held, pipe, rx, peer, ready, child, parent, tx, shown>>

\* TCP keeps no boundaries: a block may come in in parts.
Arrive ==
  /\ Connected /\ wire # <<>>
  /\ rx' = Append(rx, Head(wire))
  /\ wire' = Tail(wire)
  /\ ready' = ready \union {"sock"}
  /\ UNCHANGED <<held, pipe, peer, told, child, parent, tx, shown>>

ServerCloses ==
  /\ Connected /\ peer = "up" /\ wire = <<>>
  /\ peer' = "fin"
  /\ ready' = ready \union {"sock"}
  /\ UNCHANGED <<held, pipe, rx, wire, told, child, parent, tx, shown>>

ServerResets ==
  /\ Resets /\ Connected /\ peer = "up"
  /\ peer' = "rst" /\ wire' = <<>>
  /\ ready' = ready \union {"sock"}
  /\ UNCHANGED <<held, pipe, rx, told, child, parent, tx, shown>>

-----------------------------------------------------------------------------
ChildRuns == ChildClose \/ ChildWrite
ParentRuns ==
  ParentClose \/ ParentWait \/ ParentNext \/ ParentLoop \/ ParentRecv \/ ParentPipe \/ ParentSend

Next ==
  \/ ChildRuns \/ ChildRead \/ ChildEOF
  \/ ParentRuns
  \/ ServerSend \/ Arrive \/ ServerCloses \/ ServerResets

Spec == Init /\ [][Next]_vars

\* Both processes are scheduled.  Nothing makes the user type, nor the server send.
FairSpec == Spec /\ WF_vars(ChildRuns) /\ WF_vars(ParentRuns)
=============================================================================
