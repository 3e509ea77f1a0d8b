-------------------------- MODULE ClientProperties --------------------------
(***************************************************************************)
(* What the client promises between keyboard, pipe, socket and screen, as  *)
(* far as its code keeps the promise, and what its help text says of       *)
(* "exit" and of blocking.                                                 *)
(***************************************************************************)
EXTENDS Client

-----------------------------------------------------------------------------
(* The two edge-triggered descriptors.                                     *)

InBatch(f) ==
  \/ parent.pc \in {"next", "recv", "pipe", "send"} /\ f \in Range(parent.batch)
  \/ f = "sock" /\ parent.pc = "recv"
  \/ f = "pipe" /\ parent.pc = "pipe"

\* A parent that works would not be told of what waits at f.
Missed(f) ==
  /\ parent.work /\ parent.pc # "ended"
  /\ Pollable(f) /\ f \notin ready /\ ~InBatch(f)

\* Input on the socket is on epoll's ready list or in the batch of a parent that will read it,
\* though one edge may stand for several texts and for the end.  The pipe is read once per
\* edge: only that read, when it finds lines, leaves something behind without an edge, the end
\* of file or the lines that did not go into MAXLINE bytes (client.hpp 291).
NoLostEdge ==
  [][\A f \in {"pipe", "sock"} : ~Missed(f) /\ Missed(f)' =>
       f = "pipe" /\ Len(pipe') < Len(pipe)]_vars

-----------------------------------------------------------------------------
(* What is sent and what is shown.                                         *)

Rising(lines) == \A i, j \in DOMAIN lines : i < j => lines[i].no < lines[j].no

\* The lines reach the server in the order they were typed in, none of them twice, however
\* the pipe glues them; and none after the line that ended the child.
InOrderOnce == Rising(FlattenSeq(tx))

\* Texts are shown in the order the server sent them in, none of them twice, however TCP
\* cuts and glues the blocks.
ShownInOrder == Rising(FlattenSeq(shown))

-----------------------------------------------------------------------------
(* The end.                                                                *)

\* While the server holds its end, a parent that has gone leaves no child behind that goes
\* on reading the keyboard.
NoZombie == parent.pc = "ended" /\ peer = "up" => child.pc = "ended"

\* When the server has gone the parent ends.
ServerGoneEndsParent == peer # "up" ~> parent.pc = "ended"

\* A child whose parent has gone ends when it writes its next line.
OrphanEnds == parent.pc = "ended" /\ child.pc = "write" ~> child.pc = "ended"

\* When the end of the child finds the pipe read, or empty under an edge the parent has still
\* to see, the connection goes with it.
QuietExitDisconnects ==
  child.pc = "ended" /\ pipe = <<>> /\ "pipe" \in ready ~> ~Connected

\* "exit : disconnect to the server and leave." (README.md:29, client.hpp:96)
ExitDisconnects == child.pc = "ended" ~> ~Connected
=============================================================================
