-------------------------- MODULE ServerProperties --------------------------
(***************************************************************************)
(* What the chat server promises, as far as its code keeps the promise.    *)
(* README.md says for each property in which settings it holds.            *)
(***************************************************************************)
EXTENDS Server, SequencesExt

-----------------------------------------------------------------------------
(* The mutex and the events array.                                         *)

InBatch == PCs \ {"lock", "wait", "unlock", "done"}

\* A worker inside the critical section of start_worker, and no other worker, holds
\* io_event_mux; a worker that returns, or leaves the section after EINTR, has let it go.
MuxHeld == \A w \in Workers : mux = w <=> th[w].pc \in {"wait", "unlock"}

\* What a worker has still to look at in events was written by some epoll_wait, though
\* other workers write the array while it goes through its batch.
EventsFilled ==
  \A w \in Workers : th[w].pc \in InBatch \union {"unlock"} =>
    \A i \in 1..th[w].cnt : events[i].fd # NoFd

-----------------------------------------------------------------------------
(* Events are edge-triggered: input epoll has reported and nobody reads is *)
(* not reported again.                                                     *)

\* The worker has an event for f ahead of it, or is where it will read f or close it.
Due(w, f) ==
  \/ /\ th[w].pc \in InBatch \union {"unlock"}
     /\ \E i \in 1..th[w].cnt :
          /\ events[i].fd = f
          /\ th[w].pc = "unlock" \/ i > th[w].idx \/ (th[w].pc = "next" /\ i = th[w].idx)
  \/ th[w].pc \in {"check", "errclose", "recv", "close"} /\ th[w].fd = f

\* Input of a watched client is on epoll's ready list or in the hands of a worker that
\* will still read it: nothing falls between two epoll_waits.
NoLostWakeup ==
  status = "running" /\ (\A w \in Workers : th[w].pc # "done") =>
    \A c \in Conns : conn[c].watch # NoFd /\ HasInput(c) =>
      conn[c].watch \in ready \/ \E w \in Workers : Due(w, conn[c].watch)

-----------------------------------------------------------------------------
(* The map of clients against the descriptor table.  The branch for errors *)
(* closes a connection that was reset and leaves its entry, which the next *)
(* client to get the descriptor inherits; nobody else's entry is spoilt.   *)

Users == Range(sock) \ {None, Listener}
ResetConns == {c \in Conns : conn[c].peer \in {"rsterr", "rst"}}

\* Between two events the map holds every open connection under its own descriptor, and an
\* entry with an address that is not the open connection's is one of a connection that was
\* reset: whoever leaves in order takes its entry along.
RegistryExact ==
  (\A w \in Workers : th[w].pc \in {"lock", "wait", "unlock", "next", "done"}) =>
    \A f \in Fds :
      /\ IsOpen(f) => f \in Keys
      /\ f \in Keys => \/ IsOpen(f) /\ clients[f].origin = sock[f]
                      \/ clients[f].origin \in ResetConns

\* "$ show users" lists users who are online, or were reset.
OnlineOnly == \A w \in Workers : th[w].pc = "show" => th[w].out.rows \subseteq Users \union ResetConns

-----------------------------------------------------------------------------
(* Who speaks, and to whom.                                                *)

From(text, c) == \A m \in Range(text) : m.src = c

\* A chat line goes out under the name of the client that sent it, which is what that client
\* has sent first, or under the name of one that was reset, whose entry it has inherited; it
\* is never made of the messages of two clients.
SpokenByOwner ==
  \A w \in Workers : th[w].out.kind = "say" =>
    LET nick == th[w].out.nick
        body == th[w].out.body IN
    /\ nick # <<>> /\ nick # Garbage
    /\ From(nick, Head(nick).src) /\ From(body, Head(body).src) /\ Head(nick).no = 1
    /\ IF Head(nick).src = Head(body).src THEN Last(nick).no < Head(body).no
                                          ELSE Head(nick).src \in ResetConns

\* A private message reaches the user it names, or the heir of its entry; or, its name having
\* been read as empty, users of whom nothing has been read yet.  Nobody with a name of its own
\* is sent what is meant for another.
PrivateOnlyToNamed ==
  [][\A c \in Conns : conn'[c].inbox # conn[c].inbox =>
       LET notice == Last(conn'[c].inbox) IN
       notice.kind = "private" =>
         \/ Head(notice.body).to \in {c} \union ResetConns
         \/ notice.nick = <<>> /\ Len(conn[c].rx) = conn[c].sent]_vars

\* Nobody is sent its own chat line or its own welcome.
NoEcho ==
  \A c \in Conns : \A notice \in Range(conn[c].inbox) :
    /\ notice.kind = "say" => \A m \in Range(notice.body) : m.src # c
    /\ notice.kind = "welcome" /\ notice.nick # Garbage => \A m \in Range(notice.nick) : m.src # c

-----------------------------------------------------------------------------
(* What a user hears.                                                      *)

\* The numbers of each user's messages climb through a text, and from one text to another.
InOrder(text)  == \A p, q \in DOMAIN text : p < q /\ text[p].src = text[q].src => text[p].no < text[q].no
Before(old, text) ==
  \A p \in DOMAIN old, q \in DOMAIN text : old[p].src = text[q].src => old[p].no < text[q].no

\* The places of the chat lines in all a user was sent.
Lines(inbox) == {i \in DOMAIN inbox : inbox[i].kind = "say"}

\* A user hears the chat lines of each other user in the order they were sent in, and none
\* of them twice.
HeardInOrder ==
  \A c \in Conns : LET inbox == conn[c].inbox IN
    \A i, j \in Lines(inbox) :
      /\ InOrder(inbox[i].body)
      /\ i < j => Before(inbox[i].body, inbox[j].body)

\* When a broadcast comes to its end, everyone online but the user it is about has been
\* sent the message, whoever has left meanwhile, save those whose buffer was full and those
\* behind an entry the loop cannot send to: a reset connection or one closed with its entry
\* left in the map ends the loop.
BroadcastReachesAll ==
  [][\A w \in Workers : At(w, "bcast") /\ th'[w].pc # "bcast" =>
       \A f \in Keys \ {th[w].fd} :
         IsOpen(f) /\ conn[sock[f]].peer = "up" /\ sock[f] \notin Slow =>
           \/ /\ conn[sock[f]].inbox # <<>>
              /\ Last(conn[sock[f]].inbox) = th[w].out
           \/ \E k \in Keys \ {th[w].fd} : k < f /\ SendFails(k)]_vars

-----------------------------------------------------------------------------
(* The process.                                                            *)

\* With a descriptor for every client nothing clients do leads to errExit or leaves a worker
\* asleep in recv, where it serves nobody else.  Two things kill the process: a send to a
\* connection that was reset, and a private message whose name is blanks alone.
KnownEnds ==
  /\ status # "errExit" /\ \A w \in Workers : th[w].pc # "blocked"
  /\ status = "killed" =>
       \E w \in Workers : \/ th[w].pc = "private" /\ TrimDies(th[w].buf)
                          \/ /\ th[w].pc \in {"talk", "show", "private", "bcast"}
                             /\ \E f \in Keys : IsOpen(f) /\ conn[sock[f]].peer = "rst"

-----------------------------------------------------------------------------
(* Progress, while the process runs.                                       *)

Stopped == status # "running" \/ \E w \in Workers : th[w].pc = "done"

\* A message that has come in on a watched socket is read.
Served ==
  \A c \in Conns : conn[c].watch # NoFd /\ conn[c].rx # <<>> ~>
                   Stopped \/ conn[c].watch = NoFd \/ conn[c].rx = <<>>

\* A client that has gone, in order or by a reset, gives its descriptor back.
DescriptorFreed ==
  \A c \in Conns : conn[c].watch # NoFd /\ conn[c].peer # "up" ~>
                   Stopped \/ conn[c].watch = NoFd

\* One accept is made per edge of the listening socket, for the client that has waited
\* longest: it is accepted when an edge is pending, its own or that of a later client.
HeadAccepted ==
  \A c \in Conns : ListenFd \in ready /\ backlog # <<>> /\ Head(backlog) = c ~>
                   Stopped \/ c \notin Range(backlog)
=============================================================================
