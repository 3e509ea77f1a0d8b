-------------------------- MODULE OneWorkerProofs --------------------------
(***************************************************************************)
(* Proofs about the server with one worker, as "-w 1" starts it, or a      *)
(* machine with one processor: the batch it goes through, the wakeups, the *)
(* map of clients and the ways the process can end.  Connections may be    *)
(* reset: the branch for errors leaves the entry of such a one behind, and *)
(* the proofs follow it to the next client that gets the descriptor.       *)
(***************************************************************************)
EXTENDS ServerProofs, FiniteSetTheorems

OneWorker == \A v, w \in Workers : v = w

\* The events of its batch a worker has still to look at.
ToDo(t) == {i \in 1..t.cnt : /\ t.pc \in InBatch \union {"unlock"}
                             /\ t.pc = "unlock" \/ i > t.idx \/ (t.pc = "next" /\ i = t.idx)}

Opening == {"insert", "addfd", "nonblock"}
Serving == {"recv", "close", "dispatch", "setnick", "welcome", "talk", "say", "show", "private"}

\* They are about open descriptors, each another one.
BatchOK(t) ==
  /\ \A i \in ToDo(t) : /\ IsOpen(events[i].fd)
                        /\ events[i].fd = ListenFd => backlog # <<>> /\ ~events[i].err
  /\ \A i, j \in ToDo(t) : events[i].fd = events[j].fd => i = j
  /\ t.pc \in InBatch \ {"next"} => \A i \in ToDo(t) : events[i].fd # t.fd

\* The descriptor the worker is at is the one its event was for, and open until it closes it.
PlaceOK(t) ==
  /\ t.pc \in {"check", "errclose"} => events[t.idx].fd = t.fd
  /\ t.pc = "check" /\ t.fd = ListenFd => backlog # <<>> /\ ~events[t.idx].err
  /\ t.pc = "errclose" => t.fd # ListenFd
  /\ t.pc = "accept" => t.fd = ListenFd /\ backlog # <<>>
  /\ t.pc \in {"check", "errclose"} \union Opening \union Serving => IsOpen(t.fd)
  /\ t.pc \in {"readname", "erase"} => ~IsOpen(t.fd)
  /\ t.pc \in {"insert", "addfd"} => conn[sock[t.fd]].watch = NoFd
  /\ t.pc = "insert" => t.con = sock[t.fd]
  /\ t.pc = "nonblock" => conn[sock[t.fd]].watch = t.fd
  /\ t.pc # "blocked"

\* Every open descriptor is watched and nonblocking, but the one that is being opened.
WatchOK(t) ==
  \A f \in Fds : IsOpen(f) /\ ~(t.pc \in Opening /\ t.fd = f) =>
    conn[sock[f]].watch = f /\ conn[sock[f]].nonblock

Base ==
  /\ sock[ListenFd] = Listener
  /\ \A f \in ready : IsOpen(f)
  /\ \A w \in Workers : BatchOK(th[w]) /\ PlaceOK(th[w]) /\ WatchOK(th[w])

-----------------------------------------------------------------------------
(* The worker's moves.                                                     *)

Same(t, u) == u.cnt = t.cnt /\ u.idx = t.idx /\ u.fd = t.fd

\* A worker that goes to another place.
LEMMA Goes ==
  ASSUME IInv, NEW w \in Workers, NEW l, Goto(w, l)
  PROVE  /\ th'[w].pc = l /\ Same(th[w], th'[w]) /\ th'[w].con = th[w].con
         /\ th'[w].buf = th[w].buf /\ th'[w].cur = th[w].cur /\ th'[w].out = th[w].out
BY DEF IInv, ThreadsOK, Thread, Goto, Become, Same

\* A worker that is through with its event.
LEMMA Returns ==
  ASSUME IInv, NEW w \in Workers, Return(w)
  PROVE  /\ th'[w].pc = "next" /\ th'[w].cnt = th[w].cnt /\ th'[w].idx = th[w].idx + 1
         /\ th'[w].fd = th[w].fd /\ th'[w].con = None
         /\ th'[w].buf = <<>> /\ th'[w].cur = 0 /\ th'[w].out = Nothing
BY DEF IInv, ThreadsOK, Thread, Return, Become, Finished

\* A worker that becomes t.
LEMMA Becomes ==
  ASSUME IInv, NEW w \in Workers, NEW t, Become(w, t)
  PROVE  th'[w] = t
BY DEF IInv, ThreadsOK, Become

\* The types the proofs below need.
LEMMA Types ==
  ASSUME IInv
  PROVE  /\ conn \in [Conns -> ConnState] /\ backlog \in Seq(Conns) /\ ready \subseteq AllFds
         /\ sock \in [AllFds -> Conns \union {None, Listener}]
         /\ \A f \in Fds : sock[f] \in Conns \union {None} /\ f \in AllFds /\ f # ListenFd
         /\ \A f \in Fds : IsOpen(f) => sock[f] \in Conns
         /\ events \in [1..EPOLL_SIZE -> Event]
         /\ clients \in [Fds -> ClientInfo \union {NoEntry}]
         /\ \A w \in Workers : th[w] \in Thread
         /\ \A w \in Workers : \A i \in ToDo(th[w]) :
              i \in 1..EPOLL_SIZE /\ i \in Nat /\ events[i].fd \in AllFds
<1>1. \A f \in Fds : sock[f] \in Conns \union {None} /\ f \in AllFds /\ f # ListenFd
  BY SocketAssumption DEF IInv, SharedOK, SocketTypeOK, DescriptorsOK, AllFds, Fds, ListenFd
<1>2. \A w \in Workers : \A i \in ToDo(th[w]) :
        i \in 1..EPOLL_SIZE /\ i \in Nat /\ events[i].fd \in AllFds
  <2> TAKE w \in Workers
  <2> TAKE i \in ToDo(th[w])
  <2>1. th[w] \in Thread /\ th[w].cnt \in -1..EPOLL_SIZE
    BY DEF IInv, ThreadsOK, Thread
  <2>2. i \in 1..th[w].cnt /\ th[w].pc \in InBatch \union {"unlock"}
    BY DEF ToDo
  <2>3. i \in 1..EPOLL_SIZE /\ i \in Nat
    BY <2>1, <2>2, ServerAssumption
  <2>4. events[i].fd # NoFd
    BY <2>2 DEF IInv, EventsFilled
  <2> QED
    BY <2>3, <2>4 DEF IInv, SharedOK, Event
<1> QED
  BY <1>1, <1>2 DEF IInv, SharedOK, SocketTypeOK, ThreadsOK, IsOpen

\* The only worker there is has made the step.
LEMMA BaseStep ==
  ASSUME OneWorker, NEW w \in Workers, sock'[ListenFd] = Listener, \A f \in ready' : sock'[f] # None,
         BatchOK(th[w])', PlaceOK(th[w])', WatchOK(th[w])'
  PROVE  Base'
<1>1. \A v \in Workers : v = w
  BY DEF OneWorker
<1> QED
  BY <1>1 DEF Base, IsOpen

\* What is left of the batch when a handler goes on or returns.
LEMMA GoesOn ==
  ASSUME IInv, NEW w \in Workers, BatchOK(th[w]), th[w].pc \in InBatch \ {"next"},
         \/ th'[w].pc \in InBatch \ {"next"} /\ Same(th[w], th'[w])
         \/ th'[w].pc = "next" /\ th'[w].cnt = th[w].cnt /\ th'[w].idx = th[w].idx + 1,
         UNCHANGED events, backlog # <<>> => backlog' # <<>> \/ th[w].fd = ListenFd,
         \A g \in AllFds : g # th[w].fd /\ IsOpen(g) => sock'[g] # None
  PROVE  BatchOK(th[w])'
<1>1. th[w] \in Thread /\ th[w].idx \in Nat
  BY Types DEF Thread
<1>2. "unlock" \notin InBatch /\ "next" \in InBatch /\ "next" # "unlock"
  BY DEF InBatch, PCs
<1>3. ToDo(th'[w]) = ToDo(th[w])
  BY <1>1, <1>2 DEF ToDo, Same
<1> QED
  BY <1>1, <1>3, Types DEF BatchOK, IsOpen, Same

\* A handler that serves an open descriptor stays at it, and the sockets stay.
LEMMA ServeBase ==
  ASSUME OneWorker, IInv, Base, NEW w \in Workers,
         th[w].pc \in Serving \union {"readname", "erase", "bcast"},
         \/ th'[w].pc = "next" /\ th'[w].cnt = th[w].cnt /\ th'[w].idx = th[w].idx + 1
         \/ th'[w].pc = "bcast" /\ Same(th[w], th'[w])
         \/ th'[w].pc \in Serving /\ th[w].pc \in Serving /\ Same(th[w], th'[w])
         \/ th'[w].pc = "erase" /\ th[w].pc = "readname" /\ Same(th[w], th'[w]),
         UNCHANGED <<events, sock, backlog, ready>>,
         \A c \in Conns : conn'[c].watch = conn[c].watch /\ conn'[c].nonblock = conn[c].nonblock
  PROVE  Base'
<1>1. /\ BatchOK(th[w]) /\ PlaceOK(th[w]) /\ WatchOK(th[w])
      /\ sock[ListenFd] = Listener /\ \A f \in ready : IsOpen(f)
  BY DEF Base
<1>2. /\ th[w].pc \in InBatch \ {"next"} /\ th[w].pc \notin Opening
      /\ th'[w].pc \in InBatch /\ th'[w].pc \notin Opening
      /\ th'[w].pc \notin {"check", "errclose", "accept", "blocked", "readname"}
  BY DEF InBatch, PCs, Serving, Opening
<1>3. BatchOK(th[w])'
  <2>1. \/ th'[w].pc \in InBatch \ {"next"} /\ Same(th[w], th'[w])
        \/ th'[w].pc = "next" /\ th'[w].cnt = th[w].cnt /\ th'[w].idx = th[w].idx + 1
    BY <1>2 DEF Serving
  <2>2. \A g \in AllFds : g # th[w].fd /\ IsOpen(g) => sock'[g] # None
    BY DEF IsOpen
  <2> QED
    BY <1>1, <1>2, <2>1, <2>2, GoesOn
<1>4. PlaceOK(th[w])'
  <2>1. CASE th'[w].pc \in {"next", "bcast"}
    BY <2>1 DEF PlaceOK, Serving, Opening
  <2>2. CASE th'[w].pc \in Serving /\ th[w].pc \in Serving /\ Same(th[w], th'[w])
    BY <1>1, <2>2 DEF PlaceOK, Same, IsOpen, Serving, Opening
  <2>3. CASE th'[w].pc = "erase" /\ th[w].pc = "readname" /\ Same(th[w], th'[w])
    BY <1>1, <2>3 DEF PlaceOK, Same, IsOpen, Serving, Opening
  <2> QED
    BY <2>1, <2>2, <2>3
<1>5. WatchOK(th[w])'
  BY <1>1, <1>2, Types DEF WatchOK, IsOpen
<1> QED
  BY <1>1, <1>3, <1>4, <1>5, BaseStep DEF IsOpen

\* The effects that leave the flags of the sockets alone.
LEMMA FlagsKept ==
  ASSUME IInv, Sends \/ Reports \/ Takes \/ Quiet
  PROVE  /\ UNCHANGED <<sock, backlog>>
         /\ \A c \in Conns : /\ conn'[c].watch = conn[c].watch
                             /\ conn'[c].nonblock = conn[c].nonblock
<1>1. CASE Sends
  <2>1. \A c \in Conns, msg \in Notice : \A d \in Conns :
          Sent(c, msg)[d].watch = conn[d].watch /\ Sent(c, msg)[d].nonblock = conn[d].nonblock
    BY Types DEF Sent, ConnState
  <2> QED
    BY <1>1, <2>1, Types DEF Sends
<1>2. CASE Reports
  BY <1>2, Types DEF Reports, Reported, ConnState
<1>3. CASE Takes
  BY <1>3, Types DEF Takes, ConnState
<1>4. CASE Quiet
  BY <1>4 DEF Quiet
<1> QED
  BY <1>1, <1>2, <1>3, <1>4

\* With the base nobody sleeps in recv: a worker that reads finds input or goes on.
LEMMA Recvs ==
  ASSUME IInv, Base, NEW w \in Workers, Recv(w)
  PROVE  /\ At(w, "recv") /\ th[w].fd \in Fds /\ IsOpen(th[w].fd) /\ sock[th[w].fd] \in Conns
         /\ \/ HasInput(sock[th[w].fd]) /\ RecvFrom(w, sock[th[w].fd])
            \/ ~HasInput(sock[th[w].fd]) /\ UNCHANGED conn /\ Goto(w, "dispatch")
         /\ UNCHANGED <<sock, backlog, ready, regVars, status, mux>>
<1>1. At(w, "recv") /\ th[w].fd \in Fds
  BY DEF Recv, At, IInv, ThreadsOK, ThreadOK, InBatch, PCs
<1>2. PlaceOK(th[w]) /\ WatchOK(th[w])
  BY DEF Base
<1>3. IsOpen(th[w].fd) /\ conn[sock[th[w].fd]].nonblock
  BY <1>1, <1>2 DEF PlaceOK, WatchOK, At, Serving, Opening
<1> QED
  BY <1>1, <1>3, Types DEF Recv, Goto

\* Where recv leaves the worker.
LEMMA RecvMoves ==
  ASSUME IInv, NEW w \in Workers, NEW c \in Conns, RecvFrom(w, c)
  PROVE  \/ /\ conn[c].rx # <<>> /\ conn' = [conn EXCEPT ![c].rx = Tail(@)]
            /\ th'[w].pc = "recv" /\ Same(th[w], th'[w]) /\ th'[w].buf = Append(th[w].buf, Head(conn[c].rx))
            /\ th'[w].cur = th[w].cur /\ th'[w].out = th[w].out
         \/ /\ conn[c].rx = <<>> /\ conn[c].peer = "rsterr" /\ conn' = Reported(c) /\ Return(w)
         \/ /\ conn[c].rx = <<>> /\ conn[c].peer \in {"fin", "poked", "rst"} /\ UNCHANGED conn
            /\ th'[w].pc = "close" /\ Same(th[w], th'[w]) /\ th'[w].buf = th[w].buf
            /\ th'[w].cur = th[w].cur /\ th'[w].out = th[w].out
<1>1. CASE conn[c].rx # <<>> /\ Take(w, c)
  <2>1. th'[w] = [th[w] EXCEPT !.pc = "recv", !.con = None, !.buf = Append(@, Head(conn[c].rx))]
    BY <1>1, Becomes DEF Take
  <2> QED
    BY <1>1, <2>1, Types DEF Thread, Same, Take
<1>2. CASE /\ conn[c].rx = <<>> /\ conn[c].peer \in {"fin", "poked", "rst"} /\ UNCHANGED conn
           /\ Become(w, [th[w] EXCEPT !.pc = "close", !.con = None])
  <2>1. th'[w] = [th[w] EXCEPT !.pc = "close", !.con = None]
    BY <1>2, Becomes
  <2> QED
    BY <1>2, <2>1, Types DEF Thread, Same
<1> QED
  BY <1>1, <1>2 DEF RecvFrom

\* Where the announcements, and the parting, leave the worker.
LEMMA SpeakMoves ==
  ASSUME IInv, NEW w \in Workers
  PROVE  /\ ReadName(w) =>
              /\ th'[w].pc = "erase" /\ Same(th[w], th'[w]) /\ th'[w].buf = th[w].buf
              /\ th'[w].cur = th[w].cur
              /\ th'[w].out = Note("leave", clients'[th[w].fd].nick, <<>>, {})
         /\ Erase(w) =>
              /\ th'[w].pc = "bcast" /\ Same(th[w], th'[w]) /\ th'[w].buf = th[w].buf
              /\ th'[w].cur = th[w].cur /\ th'[w].out.kind = th[w].out.kind
         /\ Welcome(w) =>
              /\ th'[w].pc = "bcast" /\ Same(th[w], th'[w]) /\ th'[w].buf = th[w].buf
              /\ th'[w].cur = th[w].cur
              /\ th'[w].out = Note("welcome", clients'[th[w].fd].nick, <<>>, {})
         /\ Say(w) =>
              /\ th'[w].pc = "bcast" /\ Same(th[w], th'[w]) /\ th'[w].buf = th[w].buf
              /\ th'[w].cur = th[w].cur
              /\ th'[w].out = Note("say", clients'[th[w].fd].nick, th[w].buf, {})
<1>1. th[w] \in Thread
  BY Types
<1>2. ASSUME NEW l, NEW n, Become(w, [th[w] EXCEPT !.pc = l, !.out = n])
      PROVE  /\ th'[w].pc = l /\ Same(th[w], th'[w]) /\ th'[w].buf = th[w].buf
             /\ th'[w].cur = th[w].cur /\ th'[w].out = n
  <2>1. th'[w] = [th[w] EXCEPT !.pc = l, !.out = n]
    BY <1>2, Becomes
  <2> QED
    BY <1>1, <2>1 DEF Thread, Same
<1>3. ASSUME Erase(w)
      PROVE  /\ th'[w].pc = "bcast" /\ Same(th[w], th'[w]) /\ th'[w].buf = th[w].buf
             /\ th'[w].cur = th[w].cur /\ th'[w].out.kind = th[w].out.kind
  <2>1. PICK name : th'[w] = [th[w] EXCEPT !.pc = "bcast", !.out.nick = name]
    BY <1>3 DEF Erase
  <2> QED
    BY <1>1, <2>1 DEF Thread, Notice, Same
<1> QED
  BY <1>2, <1>3, ZenonT(60) DEF ReadName, Welcome, Say, Announce

-----------------------------------------------------------------------------
(* The base, action by action.                                             *)

\* What epoll_wait reports, and what it keeps for later.
LEMMA Polls ==
  ASSUME IInv, NEW w \in Workers, EpollWait(w)
  PROVE  /\ th'[w].pc = "unlock" /\ th'[w].cnt \in 1..EPOLL_SIZE
         /\ th'[w].buf = th[w].buf /\ th'[w].cur = th[w].cur /\ th'[w].out = th[w].out
         /\ \A i \in 1..th'[w].cnt : /\ events'[i].fd \in ready /\ Readable(events'[i].fd)
                                     /\ events'[i].err = Failed(events'[i].fd)
         /\ \A i, j \in 1..th'[w].cnt : events'[i].fd = events'[j].fd => i = j
         /\ ready' \subseteq ready
         /\ \A f \in ready : Readable(f) => f \in ready' \/ \E i \in 1..th'[w].cnt : events'[i].fd = f
         /\ UNCHANGED <<conn, sock, backlog, mux, clients, status>>
<1> DEFINE avail == {f \in ready : Readable(f)}
           Fills(n, batch) ==
             /\ events' = Filled(n, batch)
             /\ ready' = avail \ Range(batch)
             /\ Become(w, [th[w] EXCEPT !.pc = "unlock", !.cnt = n])
<1>1. PICK n \in 1..MaxEvents : \E batch \in Injection(1..n, avail) : Fills(n, batch)
  BY DEF EpollWait
<1>2. PICK batch \in Injection(1..n, avail) : Fills(n, batch)
  BY <1>1
<1>3. /\ batch \in [1..n -> avail] /\ n \in 1..EPOLL_SIZE
      /\ \A i, j \in 1..n : batch[i] = batch[j] => i = j
  BY DEF Injection, IsInjective, MaxEvents
<1>4. /\ th'[w].pc = "unlock" /\ th'[w].cnt = n
      /\ th'[w].buf = th[w].buf /\ th'[w].cur = th[w].cur /\ th'[w].out = th[w].out
  <2>1. th'[w] = [th[w] EXCEPT !.pc = "unlock", !.cnt = n]
    BY <1>2, Becomes
  <2> QED
    BY <2>1, Types DEF Thread
<1>5. \A i \in 1..n : i \in 1..EPOLL_SIZE /\ events'[i].fd = batch[i] /\ events'[i].err = Failed(batch[i])
  BY <1>2, <1>3, ServerAssumption DEF Filled
<1>6. \A f \in avail : f \in ready' \/ \E i \in 1..n : batch[i] = f
  BY <1>2, <1>3 DEF Range
<1>7. ready' \subseteq ready
  BY <1>2
<1> QED
  BY <1>3, <1>4, <1>5, <1>6, <1>7 DEF EpollWait

\* The other steps of the loop over a batch.
LEMMA LoopMoves ==
  ASSUME IInv, NEW w \in Workers
  PROVE  /\ EpollInterrupted(w) => th'[w].pc = "unlock" /\ th'[w].cnt = -1
         /\ Unlock(w) => /\ th'[w].cnt = th[w].cnt
                         /\ \/ th'[w].pc = "done" /\ th[w].cnt < 0
                            \/ th'[w].pc = "next" /\ th'[w].idx = 1
         /\ NextEvent(w) => /\ th'[w].cnt = th[w].cnt /\ th'[w].idx = th[w].idx
                            /\ \/ th'[w].pc = "lock" /\ th[w].idx > th[w].cnt
                               \/ /\ th'[w].pc = "check" /\ ~(th[w].idx > th[w].cnt)
                                  /\ th'[w].fd = events[th[w].idx].fd
         /\ Lock(w) \/ EpollInterrupted(w) \/ Unlock(w) \/ NextEvent(w) \/ CheckEvent(w) =>
              /\ UNCHANGED <<netVars, regVars, status>>
              /\ th'[w].buf = th[w].buf /\ th'[w].cur = th[w].cur /\ th'[w].out = th[w].out
<1>1. th[w] \in Thread
  BY Types
<1>2. ASSUME EpollInterrupted(w)
      PROVE  /\ th'[w].pc = "unlock" /\ th'[w].cnt = -1
             /\ th'[w].buf = th[w].buf /\ th'[w].cur = th[w].cur /\ th'[w].out = th[w].out
  <2>1. th'[w] = [th[w] EXCEPT !.pc = "unlock", !.cnt = -1]
    BY <1>2, Becomes DEF EpollInterrupted
  <2> QED
    BY <1>1, <2>1 DEF Thread
<1>3. ASSUME Unlock(w)
      PROVE  /\ th'[w].cnt = th[w].cnt
             /\ \/ th'[w].pc = "done" /\ th[w].cnt < 0
                \/ th'[w].pc = "next" /\ th'[w].idx = 1
             /\ th'[w].buf = th[w].buf /\ th'[w].cur = th[w].cur /\ th'[w].out = th[w].out
  <2>1. th'[w] = IF th[w].cnt < 0 THEN [th[w] EXCEPT !.pc = "done"]
                                  ELSE [th[w] EXCEPT !.pc = "next", !.idx = 1]
    BY <1>3, Becomes DEF Unlock
  <2> QED
    BY <1>1, <2>1 DEF Thread
<1>4. ASSUME NextEvent(w)
      PROVE  /\ th'[w].cnt = th[w].cnt /\ th'[w].idx = th[w].idx
             /\ \/ th'[w].pc = "lock" /\ th[w].idx > th[w].cnt
                \/ /\ th'[w].pc = "check" /\ ~(th[w].idx > th[w].cnt)
                   /\ th'[w].fd = events[th[w].idx].fd
             /\ th'[w].buf = th[w].buf /\ th'[w].cur = th[w].cur /\ th'[w].out = th[w].out
  <2>1. th'[w] = IF th[w].idx > th[w].cnt
                 THEN [th[w] EXCEPT !.pc = "lock"]
                 ELSE [th[w] EXCEPT !.pc = "check", !.fd = events[th[w].idx].fd]
    BY <1>4, Becomes DEF NextEvent
  <2> QED
    BY <1>1, <2>1 DEF Thread
<1>5. UNCHANGED <<netVars, regVars, status>>
        \/ ~(Lock(w) \/ EpollInterrupted(w) \/ Unlock(w) \/ NextEvent(w) \/ CheckEvent(w))
  BY DEF Lock, EpollInterrupted, Unlock, NextEvent, CheckEvent
<1>6. Lock(w) \/ CheckEvent(w) =>
        th'[w].buf = th[w].buf /\ th'[w].cur = th[w].cur /\ th'[w].out = th[w].out
  BY Goes DEF Lock, CheckEvent
<1> QED
  BY <1>2, <1>3, <1>4, <1>5, <1>6

\* The loop over a batch keeps the base.
LEMMA LoopBase ==
  ASSUME OneWorker, IInv, Base, NEW w \in Workers,
         Lock(w) \/ EpollWait(w) \/ EpollInterrupted(w) \/ Unlock(w) \/ NextEvent(w) \/ CheckEvent(w)
  PROVE  Base'
<1>1. /\ BatchOK(th[w]) /\ PlaceOK(th[w]) /\ WatchOK(th[w])
      /\ sock[ListenFd] = Listener /\ \A f \in ready : IsOpen(f) /\ th[w] \in Thread
  BY Types DEF Base
<1>2. ASSUME UNCHANGED <<conn, sock>>, ready' \subseteq ready, BatchOK(th[w])', PlaceOK(th[w])',
             th[w].pc \notin Opening
      PROVE  Base'
  <2>1. WatchOK(th[w])'
    BY <1>1, <1>2 DEF WatchOK, IsOpen
  <2> QED
    BY <1>1, <1>2, <2>1, BaseStep DEF IsOpen
<1>3. CASE EpollWait(w)
  <2>1. ToDo(th'[w]) = 1..th'[w].cnt
    BY <1>3, Polls DEF ToDo
  <2>2. \A i \in 1..th'[w].cnt : /\ IsOpen(events'[i].fd)
                                 /\ events'[i].fd = ListenFd => backlog # <<>> /\ ~events'[i].err
    BY <1>1, <1>3, Polls DEF Readable, Failed
  <2>3. BatchOK(th[w])'
    <3>1. th'[w].pc \notin InBatch /\ UNCHANGED <<sock, backlog>>
          /\ \A i, j \in 1..th'[w].cnt : events'[i].fd = events'[j].fd => i = j
      BY <1>3, Polls DEF InBatch
    <3> QED
      BY <2>1, <2>2, <3>1 DEF BatchOK, IsOpen
  <2>4. PlaceOK(th[w])' /\ th[w].pc \notin Opening
    BY <1>3, Polls DEF PlaceOK, Opening, Serving, EpollWait, At
  <2> QED
    BY <1>2, <1>3, <2>3, <2>4, Polls
<1>4. ASSUME Lock(w) \/ EpollInterrupted(w) \/ Unlock(w) \/ NextEvent(w) \/ CheckEvent(w),
             BatchOK(th[w])', PlaceOK(th[w])'
      PROVE  Base'
  <2>1. UNCHANGED <<conn, sock, ready>>
    BY <1>4, LoopMoves DEF netVars
  <2>2. th[w].pc \notin Opening
    BY <1>4 DEF Lock, EpollInterrupted, Unlock, NextEvent, CheckEvent, At, Opening
  <2> QED
    BY <1>2, <1>4, <2>1, <2>2
<1>5. CASE Lock(w) \/ EpollInterrupted(w)
  <2>1. ToDo(th'[w]) = {} /\ th'[w].pc \in {"wait", "unlock"}
    <3>1. CASE Lock(w)
      BY <3>1, Goes DEF ToDo, Lock, InBatch
    <3>2. CASE EpollInterrupted(w)
      BY <3>2, LoopMoves DEF ToDo
    <3> QED
      BY <1>5, <3>1, <3>2
  <2>2. BatchOK(th[w])' /\ PlaceOK(th[w])'
    BY <2>1 DEF BatchOK, PlaceOK, Opening, Serving, InBatch
  <2> QED
    BY <1>4, <1>5, <2>2
<1>6. CASE Unlock(w)
  <2>1. ToDo(th'[w]) \subseteq ToDo(th[w]) /\ th'[w].pc \in {"next", "done"}
    <3>1. th[w].pc = "unlock" /\ th[w].cnt = th'[w].cnt /\ th'[w].pc \in {"next", "done"}
      BY <1>6, LoopMoves DEF Unlock, At
    <3>2. ToDo(th[w]) = 1..th[w].cnt /\ ToDo(th'[w]) \subseteq 1..th'[w].cnt
      BY <3>1 DEF ToDo
    <3> QED
      BY <3>1, <3>2
  <2>2. UNCHANGED <<sock, backlog, events>>
    BY <1>6, LoopMoves DEF netVars, regVars
  <2>3. BatchOK(th[w])'
    BY <1>1, <2>1, <2>2 DEF BatchOK, InBatch, IsOpen
  <2>4. PlaceOK(th[w])'
    BY <2>1 DEF PlaceOK, Opening, Serving
  <2> QED
    BY <1>4, <1>6, <2>3, <2>4
<1>7. CASE NextEvent(w)
  <2>1. /\ th[w].pc = "next" /\ th[w].cnt \in Int /\ th[w].idx \in Nat /\ 1 <= th[w].idx
        /\ "next" \in InBatch /\ "check" \in InBatch /\ "lock" \notin InBatch
    <3>1. th[w].pc = "next"
      BY <1>7 DEF NextEvent, At
    <3>2. "next" \in InBatch /\ "check" \in InBatch /\ "lock" \notin InBatch
      BY DEF InBatch, PCs
    <3>3. th[w] \in Thread /\ (th[w].pc \in InBatch => 1 <= th[w].idx)
      BY <1>1 DEF IInv, ThreadsOK, ThreadOK
    <3>4. th[w].cnt \in Int /\ th[w].idx \in Nat
      BY <3>3, ServerAssumption DEF Thread
    <3> QED
      BY <3>1, <3>2, <3>3, <3>4
  <2>2. UNCHANGED <<sock, backlog, events>>
    BY <1>7, LoopMoves DEF netVars, regVars
  <2>3. CASE th[w].idx > th[w].cnt
    <3>1. th'[w].pc = "lock" /\ ToDo(th'[w]) = {}
      BY <1>7, <2>1, <2>3, LoopMoves DEF ToDo
    <3>2. BatchOK(th[w])' /\ PlaceOK(th[w])'
      BY <2>1, <3>1 DEF BatchOK, PlaceOK, Opening, Serving
    <3> QED
      BY <1>4, <1>7, <3>2
  <2>4. CASE ~(th[w].idx > th[w].cnt)
    <3>1. /\ th'[w].pc = "check" /\ th'[w].idx = th[w].idx /\ th'[w].cnt = th[w].cnt
          /\ th'[w].fd = events[th[w].idx].fd
      BY <1>7, <2>4, LoopMoves
    <3>2. th[w].idx \in ToDo(th[w]) /\ ToDo(th'[w]) = ToDo(th[w]) \ {th[w].idx}
      <4>1. th[w].idx \in 1..th[w].cnt /\ th[w].pc # "unlock" /\ th'[w].pc # "unlock"
        BY <2>1, <2>4, <3>1
      <4>2. ToDo(th[w]) = {i \in 1..th[w].cnt : i >= th[w].idx}
        BY <2>1, <4>1 DEF ToDo
      <4>3. ToDo(th'[w]) = {i \in 1..th[w].cnt : i > th[w].idx}
        BY <2>1, <3>1, <4>1 DEF ToDo
      <4> QED
        BY <2>1, <4>1, <4>2, <4>3
    <3>3. BatchOK(th[w])'
      BY <1>1, <2>2, <3>1, <3>2 DEF BatchOK, IsOpen
    <3>4. PlaceOK(th[w])'
      BY <1>1, <2>2, <3>1, <3>2 DEF BatchOK, PlaceOK, IsOpen, Opening, Serving
    <3> QED
      BY <1>4, <1>7, <3>3, <3>4
  <2> QED
    BY <2>3, <2>4
<1>8. CASE CheckEvent(w)
  <2>1. /\ th[w].pc = "check" /\ Same(th[w], th'[w]) /\ UNCHANGED <<sock, backlog, events>>
        /\ th'[w].pc = IF events[th[w].idx].err THEN "errclose"
                         ELSE IF th[w].fd = ListenFd THEN "accept"
                         ELSE "recv"
    BY <1>8, Goes DEF CheckEvent, At, netVars, regVars
  <2>2. {"check", "errclose", "accept", "recv"} \subseteq InBatch \ {"next"}
    BY DEF InBatch, PCs
  <2>3. th'[w].pc \in {"errclose", "accept", "recv"}
    BY <2>1
  <2>4. BatchOK(th[w])'
    BY <1>1, <2>1, <2>2, <2>3, GoesOn DEF IsOpen
  <2>5. PlaceOK(th[w])'
    <3>1. CASE events[th[w].idx].err
      BY <1>1, <2>1, <3>1 DEF PlaceOK, Same, IsOpen, Opening, Serving
    <3>2. CASE ~events[th[w].idx].err /\ th[w].fd = ListenFd
      BY <1>1, <2>1, <3>2 DEF PlaceOK, Same, IsOpen, Opening, Serving
    <3>3. CASE ~events[th[w].idx].err /\ th[w].fd # ListenFd
      BY <1>1, <2>1, <3>3 DEF PlaceOK, Same, IsOpen, Opening, Serving
    <3> QED
      BY <3>1, <3>2, <3>3
  <2> QED
    BY <1>4, <1>8, <2>4, <2>5
<1> QED
  BY <1>3, <1>5, <1>6, <1>7, <1>8

\* A step that is not a worker's, or ends the process.
LEMMA StillBase ==
  ASSUME IInv, Base, UNCHANGED <<th, events, sock>>, backlog # <<>> => backlog' # <<>>,
         \A f \in ready' : IsOpen(f),
         \A c \in Conns : conn'[c].watch = conn[c].watch /\ conn'[c].nonblock = conn[c].nonblock
  PROVE  Base'
<1>1. \A w \in Workers : BatchOK(th[w])'
  BY DEF Base, BatchOK, IsOpen, ToDo
<1>2. \A w \in Workers : PlaceOK(th[w])'
  <2> TAKE w \in Workers
  <2>1. PlaceOK(th[w])
    BY DEF Base
  <2>2. th[w].pc \in Opening => th[w].fd \in Fds
    BY DEF IInv, ThreadsOK, ThreadOK, InBatch, PCs, Opening
  <2>3. th[w].pc \in Opening => sock[th[w].fd] \in Conns
    BY <2>1, <2>2, Types DEF PlaceOK
  <2> QED
    BY <2>1, <2>3 DEF PlaceOK, IsOpen, Opening
<1>3. \A w \in Workers : WatchOK(th[w])'
  BY Types DEF Base, WatchOK, IsOpen
<1> QED
  BY <1>1, <1>2, <1>3 DEF Base, IsOpen

\* The worker closes the descriptor it is at.
LEMMA CloseBase ==
  ASSUME OneWorker, IInv, SocketsOK, Base, NEW w \in Workers, th[w].pc \in {"errclose", "close"},
         Close(th[w].fd), th[w].fd \in Fds, UNCHANGED <<events, backlog>>,
         \/ th'[w].pc = "next" /\ th'[w].cnt = th[w].cnt /\ th'[w].idx = th[w].idx + 1
         \/ th'[w].pc = "readname" /\ Same(th[w], th'[w])
  PROVE  Base'
<1>1. /\ BatchOK(th[w]) /\ PlaceOK(th[w]) /\ WatchOK(th[w])
      /\ sock[ListenFd] = Listener /\ \A f \in ready : IsOpen(f) /\ th[w] \in Thread
  BY Types DEF Base
<1>2. \A g \in AllFds : sock'[g] = IF g = th[w].fd THEN None ELSE sock[g]
  BY Types DEF Close
<1>3. IsOpen(th[w].fd)
  BY <1>1 DEF PlaceOK, Serving
<1>4. \A c \in Conns : /\ conn'[c].nonblock = conn[c].nonblock
                       /\ conn'[c].watch = IF c = sock[th[w].fd] THEN NoFd ELSE conn[c].watch
  BY Types DEF Close, ConnState
<1>5. BatchOK(th[w])'
  <2>1. th[w].pc \in InBatch \ {"next"} /\ "readname" \in InBatch \ {"next"}
    BY DEF InBatch, PCs
  <2>2. \A g \in AllFds : g # th[w].fd /\ IsOpen(g) => sock'[g] # None
    BY <1>2 DEF IsOpen
  <2> QED
    BY <1>1, <2>1, <2>2, GoesOn
<1>6. PlaceOK(th[w])'
  <2>1. th'[w].pc = "readname" => sock'[th'[w].fd] = None
    BY <1>2, Types DEF Same
  <2> QED
    BY <2>1 DEF PlaceOK, IsOpen, Opening, Serving
<1>7. WatchOK(th[w])'
  BY <1>1, <1>2, <1>4, Types DEF WatchOK, IsOpen, Opening, SocketsOK
<1>8. \A f \in ready' : sock'[f] # None
  BY <1>1, <1>2, Types DEF Close, IsOpen
<1>9. sock'[ListenFd] = Listener
  BY <1>1, <1>2, Types DEF AllFds
<1> QED
  BY <1>5, <1>6, <1>7, <1>8, <1>9, BaseStep

\* What accept does with one worker: there is somebody in the queue whenever it is called.
LEMMA Accepted ==
  ASSUME IInv, Base, NEW w \in Workers, Accept(w)
  PROVE  /\ th[w].pc = "accept" /\ th[w].fd = ListenFd /\ backlog # <<>>
         /\ UNCHANGED <<conn, ready, regVars, mux>>
         /\ \/ Die("errExit") /\ UNCHANGED <<sock, backlog>> /\ \A f \in Fds : IsOpen(f)
            \/ /\ UNCHANGED status /\ backlog' = Tail(backlog)
               /\ \E f \in Fds :
                    /\ ~IsOpen(f) /\ sock' = [sock EXCEPT ![f] = Head(backlog)]
                    /\ th'[w].fd = f
               /\ th'[w].pc = "insert" /\ th'[w].cnt = th[w].cnt /\ th'[w].idx = th[w].idx
               /\ th'[w].con = Head(backlog)
               /\ th'[w].buf = th[w].buf /\ th'[w].cur = th[w].cur /\ th'[w].out = th[w].out
<1>1. th[w].pc = "accept" /\ th[w].fd = ListenFd /\ backlog # <<>> /\ sock[ListenFd] = Listener
  BY DEF Accept, At, Base, PlaceOK
<1>2. IsOpen(ListenFd)
  BY <1>1, SocketAssumption DEF IsOpen
<1>3. UNCHANGED <<conn, ready, regVars, mux>>
  BY DEF Accept
<1>4. CASE AcceptFails /\ \A f \in Fds : IsOpen(f)
  BY <1>1, <1>3, <1>4 DEF AcceptFails
<1>5. CASE AcceptOne(w)
  <2>1. PICK f \in Fds :
          /\ ~IsOpen(f) /\ sock' = [sock EXCEPT ![f] = Head(backlog)]
          /\ Become(w, [th[w] EXCEPT !.pc = "insert", !.fd = f, !.con = Head(backlog)])
    BY <1>5 DEF AcceptOne, IsLowestFree
  <2>2. th'[w] = [th[w] EXCEPT !.pc = "insert", !.fd = f, !.con = Head(backlog)]
    BY <2>1, Becomes
  <2>3. /\ th'[w].pc = "insert" /\ th'[w].cnt = th[w].cnt /\ th'[w].idx = th[w].idx
        /\ th'[w].con = Head(backlog) /\ th'[w].fd = f
        /\ th'[w].buf = th[w].buf /\ th'[w].cur = th[w].cur /\ th'[w].out = th[w].out
    BY <2>2, Types DEF Thread
  <2> QED
    BY <1>1, <1>3, <1>5, <2>1, <2>3 DEF AcceptOne
<1> QED
  BY <1>1, <1>2, <1>4, <1>5 DEF Accept, AcceptNone

\* The descriptor accept opens is no other's, and epoll does not know the connection.
LEMMA AcceptBase ==
  ASSUME OneWorker, IInv, SocketsOK, Base, NEW w \in Workers, Accept(w)
  PROVE  Base'
<1>1. /\ BatchOK(th[w]) /\ WatchOK(th[w])
      /\ sock[ListenFd] = Listener /\ \A f \in ready : IsOpen(f) /\ th[w] \in Thread
  BY Types DEF Base
<1>2. UNCHANGED <<conn, ready, events>> /\ th[w].pc = "accept" /\ th[w].fd = ListenFd
  BY Accepted DEF regVars
<1>3. CASE Die("errExit") /\ UNCHANGED <<sock, backlog>>
  BY <1>1, <1>2, <1>3, StillBase DEF Die
<1>4. ASSUME NEW f \in Fds, ~IsOpen(f), sock' = [sock EXCEPT ![f] = Head(backlog)], backlog # <<>>,
             th'[w].pc = "insert", th'[w].fd = f, th'[w].cnt = th[w].cnt, th'[w].idx = th[w].idx,
             th'[w].con = Head(backlog)
      PROVE  Base'
  <2> DEFINE c == Head(backlog)
  <2>1. c \in Range(backlog) /\ c \in Conns
    BY <1>4, RangeTail, Types DEF Range
  <2> HIDE DEF c
  <2>2. c # None /\ \A g \in AllFds : sock'[g] = IF g = f THEN c ELSE sock[g]
    BY <1>4, <2>1, Types, SocketAssumption DEF c
  <2>3. conn[c].watch = NoFd
    <3> SUFFICES ASSUME conn[c].watch # NoFd PROVE FALSE
      OBVIOUS
    <3>1. conn[c].watch \in Fds /\ sock[conn[c].watch] = c
      BY <2>1, Types DEF SocketsOK, ConnState
    <3> QED
      BY <2>1, <2>2, <3>1 DEF SocketsOK, IsOpen, Waiting
  <2>4. ToDo(th'[w]) = ToDo(th[w])
    <3>1. {"accept", "insert"} \subseteq InBatch \ {"next"} /\ "unlock" \notin InBatch
      BY DEF InBatch, PCs
    <3> QED
      BY <1>2, <1>4, <3>1 DEF ToDo
  <2>5. BatchOK(th[w])'
    <3>1. "accept" \in InBatch \ {"next"}
      BY DEF InBatch, PCs
    <3>2. \A i \in ToDo(th[w]) : /\ IsOpen(events[i].fd) /\ events[i].fd # ListenFd
                                 /\ events[i].fd # f /\ events[i].fd \in AllFds
      BY <1>1, <1>2, <1>4, <3>1, Types DEF BatchOK
    <3> QED
      BY <1>1, <1>2, <1>4, <2>2, <2>4, <3>2 DEF BatchOK, IsOpen
  <2>6. PlaceOK(th[w])'
    BY <1>2, <1>4, <2>2, <2>3, Types DEF PlaceOK, IsOpen, c, Opening, Serving
  <2>7. WatchOK(th[w])'
    BY <1>1, <1>2, <1>4, <2>2, Types DEF WatchOK, IsOpen, Opening
  <2>8. (\A g \in ready' : sock'[g] # None) /\ sock'[ListenFd] = Listener
    BY <1>1, <1>2, <2>2, Types DEF IsOpen, AllFds
  <2> QED
    BY <2>5, <2>6, <2>7, <2>8, BaseStep
<1> QED
  BY <1>3, <1>4, Accepted

\* With one worker the descriptor a handler opens is still open at every step of it.
LEMMA Opens ==
  ASSUME IInv, Base, NEW w \in Workers
  PROVE  /\ Insert(w) \/ AddFd(w) \/ SetNonblocking(w) =>
              th[w].fd \in Fds /\ IsOpen(th[w].fd) /\ sock[th[w].fd] \in Conns
         /\ AddFd(w) =>
              /\ conn' = [conn EXCEPT ![sock[th[w].fd]].watch = th[w].fd]
              /\ ready' = IF HasInput(sock[th[w].fd]) THEN ready \union {th[w].fd} ELSE ready
              /\ Goto(w, "nonblock") /\ UNCHANGED <<status, sock, backlog, regVars, mux>>
         /\ SetNonblocking(w) =>
              /\ conn' = [conn EXCEPT ![sock[th[w].fd]].nonblock = TRUE] /\ Return(w)
              /\ UNCHANGED <<status, sock, backlog, ready, regVars, mux>>
<1>1. PlaceOK(th[w])
  BY DEF Base
<1>2. ASSUME Insert(w) \/ AddFd(w) \/ SetNonblocking(w)
      PROVE  th[w].fd \in Fds /\ IsOpen(th[w].fd) /\ sock[th[w].fd] \in Conns
  <2>1. th[w].pc \in Opening
    BY <1>2 DEF Insert, AddFd, SetNonblocking, At, Opening
  <2>2. th[w].fd \in Fds
    BY <2>1 DEF IInv, ThreadsOK, ThreadOK, InBatch, PCs, Opening
  <2> QED
    BY <1>1, <2>1, <2>2, Types DEF PlaceOK
<1>3. AddFd(w) => conn[sock[th[w].fd]].watch = NoFd
  BY <1>1 DEF PlaceOK, AddFd, At
<1>4. ASSUME AddFd(w)
      PROVE  /\ conn' = [conn EXCEPT ![sock[th[w].fd]].watch = th[w].fd]
             /\ ready' = IF HasInput(sock[th[w].fd]) THEN ready \union {th[w].fd} ELSE ready
             /\ Goto(w, "nonblock") /\ UNCHANGED <<status, sock, backlog, regVars, mux>>
  BY <1>2, <1>3, <1>4 DEF AddFd
<1> QED
  BY <1>2, <1>4 DEF SetNonblocking

\* The steps from accept to a watched, nonblocking socket keep the base.
LEMMA OpenBase ==
  ASSUME OneWorker, IInv, SocketsOK, Base, NEW w \in Workers,
         Insert(w) \/ AddFd(w) \/ SetNonblocking(w)
  PROVE  Base'
<1>1. /\ BatchOK(th[w]) /\ PlaceOK(th[w]) /\ WatchOK(th[w])
      /\ sock[ListenFd] = Listener /\ \A f \in ready : IsOpen(f) /\ th[w] \in Thread
  BY Types DEF Base
<1>2. th[w].fd \in Fds /\ IsOpen(th[w].fd) /\ sock[th[w].fd] \in Conns
      /\ UNCHANGED <<sock, backlog, events>>
  BY Opens DEF Insert, netVars, regVars
<1>3. ASSUME th[w].pc \in Opening, ready' \subseteq ready \union {th[w].fd},
             \/ th'[w].pc \in Opening /\ Same(th[w], th'[w])
             \/ th'[w].pc = "next" /\ th'[w].cnt = th[w].cnt /\ th'[w].idx = th[w].idx + 1,
             PlaceOK(th[w])', WatchOK(th[w])'
      PROVE  Base'
  <2>1. Opening \subseteq InBatch \ {"next"}
    BY DEF Opening, InBatch, PCs
  <2>2. BatchOK(th[w])'
    BY <1>1, <1>2, <1>3, <2>1, GoesOn DEF IsOpen
  <2> QED
    BY <1>1, <1>2, <1>3, <2>2, BaseStep DEF IsOpen
<1>4. CASE Insert(w)
  <2>1. th[w].pc = "insert" /\ th'[w].pc = "addfd" /\ Same(th[w], th'[w]) /\ UNCHANGED <<conn, ready>>
    BY <1>4, Goes DEF Insert, At, netVars
  <2>2. PlaceOK(th[w])'
    BY <1>1, <1>2, <2>1 DEF PlaceOK, IsOpen, Same, Opening, Serving
  <2>3. WatchOK(th[w])'
    BY <1>1, <1>2, <2>1 DEF WatchOK, IsOpen, Same, Opening
  <2> QED
    BY <1>3, <2>1, <2>2, <2>3 DEF Opening
<1>5. CASE AddFd(w)
  <2>1. /\ th[w].pc = "addfd" /\ th'[w].pc = "nonblock" /\ Same(th[w], th'[w])
        /\ ready' \subseteq ready \union {th[w].fd}
    BY <1>5, Goes, Opens DEF AddFd, At
  <2>2. \A c \in Conns : /\ conn'[c].nonblock = conn[c].nonblock
                         /\ conn'[c].watch = IF c = sock[th[w].fd] THEN th[w].fd ELSE conn[c].watch
    <3>1. conn' = [conn EXCEPT ![sock[th[w].fd]].watch = th[w].fd] /\ conn \in [Conns -> ConnState]
      BY <1>5, Opens, Types
    <3> QED
      BY <1>2, <3>1 DEF ConnState
  <2>3. PlaceOK(th[w])'
    BY <1>1, <1>2, <2>1, <2>2 DEF PlaceOK, IsOpen, Same, Opening, Serving
  <2>4. WatchOK(th[w])'
    BY <1>1, <1>2, <2>1, <2>2, Types DEF WatchOK, IsOpen, Same, Opening, SocketsOK
  <2> QED
    BY <1>3, <2>1, <2>3, <2>4 DEF Opening
<1>6. CASE SetNonblocking(w)
  <2>1. /\ th[w].pc = "nonblock" /\ th'[w].pc = "next" /\ UNCHANGED ready
        /\ th'[w].cnt = th[w].cnt /\ th'[w].idx = th[w].idx + 1
    BY <1>6, Returns, Opens DEF SetNonblocking, At
  <2>2. \A c \in Conns : /\ conn'[c].watch = conn[c].watch
                         /\ conn[c].nonblock \/ c = sock[th[w].fd] => conn'[c].nonblock
    <3>1. conn' = [conn EXCEPT ![sock[th[w].fd]].nonblock = TRUE] /\ conn \in [Conns -> ConnState]
      BY <1>6, Opens, Types
    <3> QED
      BY <1>2, <3>1 DEF ConnState
  <2>3. PlaceOK(th[w])'
    BY <2>1 DEF PlaceOK, Opening, Serving
  <2>4. conn[sock[th[w].fd]].watch = th[w].fd
    BY <1>1, <2>1 DEF PlaceOK
  <2>5. WatchOK(th[w])'
    BY <1>1, <1>2, <2>1, <2>2, <2>4, Types DEF WatchOK, IsOpen, Opening
  <2> QED
    BY <1>3, <2>1, <2>3, <2>5 DEF Opening
<1> QED
  BY <1>4, <1>5, <1>6

\* What becomes of the worker when it sends.
LEMMA SendMoves ==
  ASSUME IInv, NEW w \in Workers, NEW f \in Fds, NEW msg \in Notice, NEW t, Send(w, f, msg, t)
  PROVE  /\ UNCHANGED <<sock, backlog, ready, mux, events, clients>>
         /\ Sends \/ Reports \/ Quiet
         /\ \/ th'[w] = t /\ UNCHANGED status
            \/ Return(w) /\ SendFails(f) /\ UNCHANGED status
            \/ UNCHANGED <<th, conn>> /\ status' = "killed" /\ SendBroken(f)
<1>1. Sends \/ Reports \/ Quiet
  BY SendNet
<1> QED
  BY <1>1, Becomes DEF Send, Die, regVars

\* The worker's locals after a step of a loop,
LEMMA MovedTurn ==
  ASSUME IInv, NEW w \in Workers, NEW k
  PROVE  /\ Same(th[w], Moved(w, k)) /\ Moved(w, k).pc = th[w].pc
         /\ Moved(w, k).buf = th[w].buf /\ Moved(w, k).out = th[w].out /\ Moved(w, k).cur = k
BY Types DEF Moved, Thread, Same

\* after a step to another place,
LEMMA PcTurn ==
  ASSUME IInv, NEW w \in Workers, NEW l, NEW t, t = [th[w] EXCEPT !.pc = l]
  PROVE  /\ Same(th[w], t) /\ t.pc = l /\ t.buf = th[w].buf /\ t.out = th[w].out
         /\ t.cur = th[w].cur
BY Types DEF Thread, Same

\* and at the end of an event.
LEMMA FinishedTurn ==
  ASSUME IInv, NEW w \in Workers, NEW t, t = Finished(th[w])
  PROVE  /\ t.pc = "next" /\ t.cnt = th[w].cnt /\ t.idx = th[w].idx + 1 /\ t.fd = th[w].fd
         /\ t.buf = <<>> /\ t.cur = 0 /\ t.out = Nothing
BY Types DEF Finished, Thread

\* A handler about to send that sends, passes on, or is through.
LEMMA SendBase ==
  ASSUME OneWorker, IInv, Base, NEW w \in Workers, th[w].pc \in {"talk", "show", "private", "bcast"},
         UNCHANGED <<sock, backlog, ready, events>>, Sends \/ Reports \/ Quiet,
         \/ UNCHANGED th
         \/ Return(w)
         \/ th'[w].pc = "next" /\ th'[w].cnt = th[w].cnt /\ th'[w].idx = th[w].idx + 1
         \/ th'[w].pc = th[w].pc /\ Same(th[w], th'[w])
         \/ th'[w].pc \in Serving /\ th[w].pc = "talk" /\ Same(th[w], th'[w])
  PROVE  Base'
<1>1. \A c \in Conns : conn'[c].watch = conn[c].watch /\ conn'[c].nonblock = conn[c].nonblock
  BY FlagsKept
<1>2. CASE UNCHANGED th
  BY <1>1, <1>2, StillBase DEF Base
<1>3. th[w].pc \in Serving \union {"bcast"}
  BY DEF Serving
<1>4. Return(w) => th'[w].pc = "next" /\ th'[w].cnt = th[w].cnt /\ th'[w].idx = th[w].idx + 1
  BY Returns
<1>5. CASE th'[w].pc = "next" /\ th'[w].cnt = th[w].cnt /\ th'[w].idx = th[w].idx + 1
  BY <1>1, <1>3, <1>5, ServeBase
<1>6. CASE th'[w].pc = th[w].pc /\ Same(th[w], th'[w])
  BY <1>1, <1>3, <1>6, ServeBase
<1>7. CASE th'[w].pc \in Serving /\ th[w].pc = "talk" /\ Same(th[w], th'[w])
  BY <1>1, <1>3, <1>7, ServeBase DEF Serving
<1> QED
  BY <1>2, <1>4, <1>5, <1>6, <1>7

\* What becomes of a worker that is about to send: Talk takes it where the text belongs; a
\* loop goes on; the handler is through; a send, or a name of blanks, kills the process.
Turned(w) ==
  /\ th[w].pc = "talk" /\ th'[w].pc \in {"show", "private", "say"} /\ Same(th[w], th'[w])
  /\ th'[w].buf = th[w].buf /\ th'[w].cur = th[w].cur
  /\ th'[w].pc = "private" <=> IsPrivate(th[w].buf)
  /\ th'[w].pc = "private" => /\ th'[w].out.kind = "private" /\ th'[w].out.body = th[w].buf
                              /\ th'[w].out.nick \in NamesRead(th[w].buf)
  /\ th'[w].pc # "private" => th'[w].out = th[w].out /\ th'[w].pc = Route(th[w].buf)
  /\ UNCHANGED status
Looped(w) ==
  /\ th'[w].pc = th[w].pc /\ Same(th[w], th'[w]) /\ th[w].pc # "talk"
  /\ th'[w].buf = th[w].buf /\ th'[w].cur \in Fds /\ IsNext(w, th'[w].cur)
  /\ \/ th[w].pc # "show" /\ th'[w].out = th[w].out
     \/ /\ th[w].pc = "show" /\ th'[w].out.kind = th[w].out.kind
        /\ th'[w].out.rows = th[w].out.rows \union {clients[th'[w].cur].origin}
  /\ UNCHANGED status
Through(w) ==
  /\ th'[w].pc = "next" /\ th'[w].cnt = th[w].cnt /\ th'[w].idx = th[w].idx + 1
  /\ th'[w].buf = <<>> /\ th'[w].cur = 0 /\ th'[w].out = Nothing
  /\ UNCHANGED status
Killed(w) ==
  /\ UNCHANGED <<th, conn>> /\ status' = "killed"
  /\ \/ \E f \in Fds : SendBroken(f) /\ (f \in Keys \/ (f = th[w].fd /\ th[w].pc \in {"talk", "show"}))
     \/ th[w].pc = "private" /\ TrimDies(th[w].buf)
SendFrame ==
  UNCHANGED <<sock, backlog, ready, mux, events, clients>> /\ (Sends \/ Reports \/ Quiet)

\* One of these is what happens.
LEMMA LoopEffects ==
  ASSUME IInv, NEW w \in Workers, Talk(w) \/ ShowStep(w) \/ BroadcastStep(w) \/ PrivateStep(w)
  PROVE  SendFrame /\ (Turned(w) \/ Looped(w) \/ Through(w) \/ Killed(w))
<1>1. UNCHANGED <<netVars, regVars, status, mux>> => SendFrame /\ UNCHANGED status
  BY DEF netVars, regVars, Quiet, SendFrame
<1>2. Return(w) /\ UNCHANGED status => Through(w)
  BY Returns DEF Through
<1>3. ASSUME NEW f \in Fds, NEW msg \in Notice, NEW t, Send(w, f, msg, t),
             f \in Keys \/ (f = th[w].fd /\ th[w].pc \in {"talk", "show"})
      PROVE  SendFrame /\ ((th'[w] = t /\ UNCHANGED status) \/ Through(w) \/ Killed(w))
  BY <1>2, <1>3, SendMoves DEF SendFrame, Killed
<1>4. CASE Talk(w)
  <2>1. th[w].pc = "talk" /\ th[w].fd \in Fds /\ At(w, "talk")
    BY <1>4 DEF Talk, At, IInv, ThreadsOK, ThreadOK, InBatch, PCs
  <2> DEFINE msg == Note("caution", <<>>, <<>>, {})
  <2>2. PICK t \in Routed(th[w]) :
          Send(w, th[w].fd, msg, t) \/ (Become(w, t) /\ UNCHANGED <<netVars, regVars, status, mux>>)
    BY <1>4 DEF Talk
  <2>3. th'[w] = t /\ UNCHANGED status => Turned(w)
    BY <2>1, RoutedIs DEF Turned, Same
  <2>4. msg \in Notice
    BY MadeNotices
  <2> HIDE DEF msg
  <2> QED
    BY <1>1, <1>3, <2>1, <2>2, <2>3, <2>4, Becomes
<1>5. ASSUME NEW k \in Fds, IsNext(w, k), Pass(w, k), th[w].pc \notin {"talk", "show"}
      PROVE  SendFrame /\ Looped(w)
  <2>1. th'[w] = Moved(w, k)
    BY <1>5, Becomes DEF Pass
  <2> QED
    BY <1>1, <1>5, <2>1, MovedTurn DEF Pass, Looped
<1>6. ASSUME LoopEnds(w)
      PROVE  SendFrame /\ Through(w)
  BY <1>1, <1>2, <1>6 DEF LoopEnds
<1>7. ASSUME NEW k \in Fds, IsNext(w, k), NEW msg \in Notice, Send(w, k, msg, Moved(w, k)),
             th[w].pc \notin {"talk", "show"}
      PROVE  SendFrame /\ (Looped(w) \/ Through(w) \/ Killed(w))
  <2>1. PICK t : t = Moved(w, k)
    OBVIOUS
  <2>2. th'[w] = t /\ UNCHANGED status => Looped(w)
    BY <1>7, <2>1, MovedTurn DEF Looped
  <2>3. k \in Keys
    BY <1>7 DEF IsNext, Ahead
  <2>4. Send(w, k, msg, t)
    BY <1>7, <2>1
  <2>5. SendFrame /\ ((th'[w] = t /\ UNCHANGED status) \/ Through(w) \/ Killed(w))
    <3>1. k \in Fds /\ msg \in Notice
      BY <1>7
    <3>2. k \in Keys \/ (k = th[w].fd /\ th[w].pc \in {"talk", "show"})
      BY <2>3
    <3> QED
      BY <1>3, <2>4, <3>1, <3>2
  <2> QED
    BY <2>2, <2>5
<1>8. CASE ShowStep(w)
  <2>1. th[w].pc = "show" /\ th[w].fd \in Fds
    BY <1>8 DEF ShowStep, At, IInv, ThreadsOK, ThreadOK, InBatch, PCs
  <2> DEFINE msg == Note("users", <<>>, <<>>, th[w].out.rows)
             t == Finished(th[w])
  <2>2. msg \in Notice
    BY MadeNotices
  <2>3. th'[w] = t /\ UNCHANGED status => Through(w)
    BY FinishedTurn DEF Through
  <2>4. CASE Send(w, th[w].fd, msg, t)
    <3> HIDE DEF t, msg
    <3> QED
      BY <1>3, <2>1, <2>2, <2>3, <2>4
  <2>5. ASSUME NEW k \in Fds, IsNext(w, k), UNCHANGED <<netVars, regVars, status, mux>>,
               Become(w, [Moved(w, k) EXCEPT !.out.rows = @ \union {clients[k].origin}])
        PROVE  SendFrame /\ Looped(w)
    <3> DEFINE m == Moved(w, k)
               rows == {clients[k].origin}
    <3>1. PICK u : u = [m EXCEPT !.out.rows = @ \union rows] /\ Become(w, u)
      BY <2>5
    <3>2. /\ m.pc = th[w].pc /\ m.buf = th[w].buf /\ m.out = th[w].out /\ m.cur = k
          /\ Same(th[w], m) /\ m = [th[w] EXCEPT !.cur = k] /\ th[w] \in Thread /\ m.out \in Notice
      BY MovedTurn, Types, ZenonT(30) DEF Moved, Thread
    <3>3. /\ u.pc = m.pc /\ u.buf = m.buf /\ u.cur = m.cur /\ u.cnt = m.cnt /\ u.idx = m.idx
          /\ u.fd = m.fd /\ u.out = [m.out EXCEPT !.rows = @ \union rows]
      BY <3>1, <3>2 DEF Thread
    <3> HIDE DEF m, rows
    <3>4. u.out.kind = m.out.kind /\ u.out.rows = m.out.rows \union rows
      BY <3>2, <3>3 DEF Notice
    <3>5. th'[w] = u /\ SendFrame /\ UNCHANGED status
      BY <1>1, <2>5, <3>1, Becomes
    <3> QED
      BY <2>1, <2>5, <3>2, <3>3, <3>4, <3>5 DEF Looped, Same, rows
  <2> HIDE DEF t, msg
  <2> QED
    BY <1>8, <2>4, <2>5 DEF ShowStep, t, msg
<1>9. CASE BroadcastStep(w) \/ PrivateStep(w)
  <2>1. th[w].pc \notin {"talk", "show"}
    BY <1>9 DEF BroadcastStep, PrivateStep, At
  <2>2. CASE Die("killed") /\ UNCHANGED <<netVars, regVars, mux>> /\ PrivateStep(w) /\ TrimDies(th[w].buf)
    <3>1. SendFrame
      BY <2>2 DEF netVars, regVars, Quiet, SendFrame
    <3> QED
      BY <2>2, <3>1 DEF Killed, Die, PrivateStep, At, netVars
  <2> QED
    BY <1>5, <1>6, <1>7, <1>9, <2>1, <2>2, MadeNotices DEF BroadcastStep, PrivateStep
<1> QED
  BY <1>4, <1>8, <1>9

\* With one worker close is always called for the descriptor of the event, which is open.
LEMMA Closing ==
  ASSUME IInv, Base, NEW w \in Workers, ErrClose(w) \/ CloseConn(w)
  PROVE  /\ th[w].pc \in {"errclose", "close"} /\ th[w].fd \in Fds /\ IsOpen(th[w].fd)
         /\ Close(th[w].fd) /\ UNCHANGED <<backlog, regVars, status, mux>>
         /\ ErrClose(w) => th[w].pc = "errclose" /\ Return(w)
         /\ CloseConn(w) => th[w].pc = "close" /\ Goto(w, "readname")
<1>1. PlaceOK(th[w])
  BY DEF Base
<1>2. CASE ErrClose(w)
  <2>1. th[w].pc = "errclose" /\ "errclose" \in InBatch \ {"next"}
    BY <1>2 DEF ErrClose, At, InBatch, PCs
  <2>2. th[w].fd \in AllFds \union {NoFd} /\ th[w].fd # NoFd
    BY <2>1 DEF IInv, ThreadsOK, ThreadOK, Thread
  <2>3. th[w].fd \in Fds /\ events[th[w].idx].fd = th[w].fd /\ IsOpen(th[w].fd)
    BY <1>1, <2>1, <2>2 DEF PlaceOK, AllFds
  <2> QED
    BY <1>2, <2>1, <2>2, <2>3 DEF ErrClose, CloseConn, At
<1>3. CASE CloseConn(w)
  <2>1. th[w].pc = "close" /\ "close" \in InHandler
    BY <1>3 DEF CloseConn, At, InBatch, InHandler, PCs
  <2>2. th[w].fd \in Fds /\ IsOpen(th[w].fd)
    BY <1>1, <2>1 DEF PlaceOK, IInv, ThreadsOK, ThreadOK, InHandler, Serving
  <2> QED
    BY <1>3, <2>1, <2>2 DEF CloseConn, ErrClose, At, regVars
<1> QED
  BY <1>2, <1>3

\* The steps that serve a client keep the base.
LEMMA ServingBase ==
  ASSUME OneWorker, IInv, SocketsOK, Base, NEW w \in Workers,
         \/ ErrClose(w) \/ CloseConn(w) \/ Recv(w) \/ Blocked(w) \/ ReadName(w) \/ Erase(w)
         \/ Dispatch(w) \/ SetNick(w) \/ Welcome(w) \/ Say(w)
  PROVE  Base'
<1>1. CASE ErrClose(w) \/ CloseConn(w)
  <2>1. \/ th'[w].pc = "next" /\ th'[w].cnt = th[w].cnt /\ th'[w].idx = th[w].idx + 1
        \/ th'[w].pc = "readname" /\ Same(th[w], th'[w])
    BY <1>1, Closing, Returns, Goes
  <2> QED
    BY <1>1, <2>1, Closing, CloseBase DEF regVars
<1>2. CASE Recv(w)
  <2>1. th[w].pc = "recv" /\ UNCHANGED <<sock, backlog, ready, events>>
    BY <1>2, Recvs DEF At, regVars
  <2>2. Takes \/ Reports \/ Quiet
    BY <1>2, <2>1, Recvs, RecvFromNet DEF Quiet
  <2>3. \/ th'[w].pc = "next" /\ th'[w].cnt = th[w].cnt /\ th'[w].idx = th[w].idx + 1
        \/ th'[w].pc \in {"recv", "close", "dispatch"} /\ Same(th[w], th'[w])
    BY <1>2, Recvs, RecvMoves, Returns, Goes
  <2> QED
    BY <2>1, <2>2, <2>3, FlagsKept, ServeBase DEF Serving
<1>3. CASE Blocked(w)
  BY <1>3 DEF Blocked, At, Base, PlaceOK
<1>4. CASE ReadName(w) \/ Erase(w)
  <2>1. UNCHANGED <<netVars, events>> /\ th[w].pc \in {"readname", "erase"}
    BY <1>4 DEF ReadName, Erase, At
  <2>2. \/ th'[w].pc = "bcast" /\ Same(th[w], th'[w])
        \/ th'[w].pc = "erase" /\ th[w].pc = "readname" /\ Same(th[w], th'[w])
    BY <1>4, SpeakMoves DEF ReadName, At
  <2> QED
    BY <2>1, <2>2, ServeBase DEF netVars
<1>5. CASE Dispatch(w) \/ SetNick(w) \/ Welcome(w) \/ Say(w)
  <2>1. UNCHANGED <<netVars, events>> /\ th[w].pc \in Serving
    BY <1>5 DEF Dispatch, SetNick, Welcome, Say, Announce, At, Serving
  <2>2. CASE Dispatch(w)
    <3>1. Return(w) \/ Goto(w, "talk") \/ Goto(w, "setnick")
      BY <2>2 DEF Dispatch
    <3>2. \/ th'[w].pc = "next" /\ th'[w].cnt = th[w].cnt /\ th'[w].idx = th[w].idx + 1
          \/ th'[w].pc \in {"talk", "setnick"} /\ Same(th[w], th'[w])
      BY <3>1, Returns, Goes
    <3> QED
      BY <2>1, <3>2, ServeBase DEF Serving, netVars
  <2>3. CASE SetNick(w)
    <3>1. th'[w].pc = "welcome" /\ Same(th[w], th'[w])
      BY <2>3, Goes DEF SetNick
    <3> QED
      BY <2>1, <3>1, ServeBase DEF Serving, netVars
  <2>4. CASE Welcome(w) \/ Say(w)
    BY <2>1, <2>4, SpeakMoves, ServeBase DEF netVars
  <2> QED
    BY <1>5, <2>2, <2>3, <2>4
<1> QED
  BY <1>1, <1>2, <1>3, <1>4, <1>5

\* So do the steps that may send.
LEMMA TalkingBase ==
  ASSUME OneWorker, IInv, Base, NEW w \in Workers,
         Talk(w) \/ ShowStep(w) \/ BroadcastStep(w) \/ PrivateStep(w)
  PROVE  Base'
<1>1. th[w].pc \in {"talk", "show", "private", "bcast"}
  BY DEF Talk, ShowStep, BroadcastStep, PrivateStep, At
<1>2. SendFrame /\ (Turned(w) \/ Looped(w) \/ Through(w) \/ Killed(w))
  BY LoopEffects
<1>3. Turned(w) => th'[w].pc \in Serving
  BY DEF Turned, Serving
<1> QED
  BY <1>1, <1>2, <1>3, SendBase DEF SendFrame, Turned, Looped, Through, Killed

\* The clients and the network open and close no descriptor.
LEMMA OutsideBase ==
  ASSUME IInv, SocketsOK, Base, Outside
  PROVE  Base'
<1>1. PICK c \in Conns : Environment(c)
  BY DEF Outside
<1>2. UNCHANGED <<th, events>>
  BY DEF Outside, regVars
<1>3. sock[ListenFd] = Listener /\ \A f \in ready : IsOpen(f)
  BY DEF Base
<1>4. CASE Connect(c)
  <2>1. UNCHANGED sock /\ ready' = ready \union {ListenFd} /\ backlog' # <<>>
    BY <1>4, Types DEF Connect
  <2>2. \A d \in Conns : conn'[d].watch = conn[d].watch /\ conn'[d].nonblock = conn[d].nonblock
    BY <1>4, Types DEF Connect, ConnState
  <2> QED
    BY <1>2, <1>3, <2>1, <2>2, SocketAssumption, StillBase DEF IsOpen
<1>5. CASE ClientSend(c) \/ ClientClose(c) \/ ClientAbort(c) \/ ResetArrives(c)
  <2>1. UNCHANGED <<sock, backlog>> /\ ready' = Edge(c)
    BY <1>5 DEF ClientSend, ClientClose, ClientAbort, ResetArrives, PeerBecomes
  <2>2. \A d \in Conns : conn'[d].watch = conn[d].watch /\ conn'[d].nonblock = conn[d].nonblock
    <3>1. CASE ClientSend(c)
      BY <3>1, Types DEF ClientSend, ConnState
    <3>2. CASE ClientClose(c) \/ ClientAbort(c) \/ ResetArrives(c)
      <4>1. PICK p \in {"fin", "rsterr", "rst"} : conn' = [conn EXCEPT ![c].peer = p]
        BY <3>2 DEF ClientClose, ClientAbort, ResetArrives, PeerBecomes
      <4> QED
        BY <4>1, Types DEF ConnState
    <3> QED
      BY <1>5, <3>1, <3>2
  <2>3. \A f \in ready' : IsOpen(f)
    BY <1>3, <2>1, SocketAssumption DEF Edge, SocketsOK, IsOpen
  <2> QED
    BY <1>2, <2>1, <2>2, <2>3, StillBase
<1> QED
  BY <1>1, <1>4, <1>5 DEF Environment

\* At the start there is no batch and no descriptor but the listening one.
LEMMA InitBase ==
  ASSUME Init
  PROVE  Base
<1>1. \A w \in Workers : th[w].pc = "lock"
  BY DEF Init, IdleThread
<1>2. sock[ListenFd] = Listener /\ ready = {} /\ \A f \in Fds : ~IsOpen(f)
  BY DEF Init, SocketInit, AllFds, Fds, ListenFd, IsOpen
<1>3. \A w \in Workers : ToDo(th[w]) = {}
  BY <1>1 DEF ToDo, InBatch
<1> QED
  BY <1>1, <1>2, <1>3 DEF Base, BatchOK, PlaceOK, WatchOK, InBatch, Opening, Serving

\* With one worker every step keeps the base.
LEMMA NextBase ==
  ASSUME OneWorker, IInv, SocketsOK, Base, [Next]_vars
  PROVE  Base'
<1>1. CASE \E w \in Workers : Worker(w)
  <2>1. PICK w \in Workers : Worker(w)
    BY <1>1
  <2> QED
    BY <2>1, LoopBase, AcceptBase, OpenBase, ServingBase, TalkingBase DEF Worker
<1>2. CASE RaceCrash \/ MainJoin \/ UNCHANGED vars
  <2>1. UNCHANGED <<netVars, events, th>>
    BY <1>2 DEF RaceCrash, Die, MainJoin, vars, regVars
  <2> QED
    BY <2>1, StillBase DEF netVars, Base
<1>3. CASE Outside
  BY <1>3, OutsideBase
<1> QED
  BY <1>1, <1>2, <1>3 DEF Next

-----------------------------------------------------------------------------
(* No wakeup is lost.                                                      *)

Running == status = "running" /\ \A w \in Workers : th[w].pc # "done"
Broken(c) == conn[c].peer \in {"rsterr", "rst"}

\* The event the worker has for f says EPOLLERR or EPOLLHUP.
DueErr(t, f) ==
  \/ \E i \in ToDo(t) : events[i].fd = f /\ events[i].err
  \/ t.pc = "check" /\ t.fd = f /\ events[t.idx].err
  \/ t.pc = "errclose" /\ t.fd = f

Woken(f)  == f \in ready \/ \E w \in Workers : Due(w, f)
Warned(f) == f \in ready \/ \E w \in Workers : DueErr(th[w], f)

\* That input is read and the reset of a connection is seen as such: reading reports the
\* reset and leaves the socket with EPIPE, which no call of the handler clears up.
Awake(c) == LET f == conn[c].watch IN
  f # NoFd => (HasInput(c) => Woken(f)) /\ (Broken(c) => Warned(f))

WakeInv == Running => \A c \in Conns : Awake(c)

\* Due in terms of the events to do.
LEMMA DueIs ==
  ASSUME NEW w \in Workers, NEW f
  PROVE  Due(w, f) <=> \/ \E i \in ToDo(th[w]) : events[i].fd = f
                       \/ th[w].pc \in {"check", "errclose", "recv", "close"} /\ th[w].fd = f
BY DEF Due, ToDo

\* A worker that takes a step is at work, and with one worker that is everybody.
LEMMA WorksOn ==
  ASSUME OneWorker, NEW w \in Workers, Worker(w)
  PROVE  Running
<1>1. ASSUME NEW l \in PCs \ {"done"}, At(w, l)
      PROVE  Running
  BY <1>1 DEF Running, OneWorker, At
<1>2. CASE Lock(w) \/ EpollWait(w) \/ EpollInterrupted(w) \/ Unlock(w) \/ NextEvent(w)
           \/ CheckEvent(w) \/ ErrClose(w) \/ Accept(w) \/ Insert(w)
  <2>1. {"lock", "wait", "unlock", "next", "check", "errclose", "accept", "insert"}
          \subseteq PCs \ {"done"}
    BY DEF PCs
  <2> QED
    BY <1>1, <1>2, <2>1 DEF Lock, EpollWait, EpollInterrupted, Unlock, NextEvent, CheckEvent,
                            ErrClose, Accept, Insert
<1>3. CASE AddFd(w) \/ SetNonblocking(w) \/ Recv(w) \/ Blocked(w) \/ CloseConn(w)
           \/ ReadName(w) \/ Erase(w)
  <2>1. {"addfd", "nonblock", "recv", "blocked", "close", "readname", "erase"}
          \subseteq PCs \ {"done"}
    BY DEF PCs
  <2> QED
    BY <1>1, <1>3, <2>1 DEF AddFd, SetNonblocking, Recv, Blocked, CloseConn, ReadName, Erase
<1>4. CASE Dispatch(w) \/ SetNick(w) \/ Welcome(w) \/ Talk(w) \/ Say(w)
           \/ BroadcastStep(w) \/ PrivateStep(w) \/ ShowStep(w)
  <2>1. {"dispatch", "setnick", "welcome", "talk", "say", "bcast", "private", "show"}
          \subseteq PCs \ {"done"}
    BY DEF PCs
  <2> QED
    BY <1>1, <1>4, <2>1 DEF Dispatch, SetNick, Welcome, Announce, Talk, Say, BroadcastStep,
                            PrivateStep, ShowStep
<1> QED
  BY <1>2, <1>3, <1>4 DEF Worker

\* A handler that goes on or returns leaves its batch as it is.
LEMMA SameToDo ==
  ASSUME IInv, NEW w \in Workers, th[w].pc \in InBatch \ {"next"},
         \/ th'[w].pc \in InBatch \ {"next"} /\ Same(th[w], th'[w])
         \/ th'[w].pc = "next" /\ th'[w].cnt = th[w].cnt /\ th'[w].idx = th[w].idx + 1
  PROVE  ToDo(th'[w]) = ToDo(th[w])
<1>1. th[w] \in Thread /\ th[w].idx \in Nat
  BY Types DEF Thread
<1>2. "unlock" \notin InBatch /\ "next" \in InBatch /\ "next" # "unlock"
  BY DEF InBatch, PCs
<1> QED
  BY <1>1, <1>2 DEF ToDo, Same

\* A connection with a fresh edge, without input, or as it was before.
LEMMA WakeBy ==
  ASSUME IInv, WakeInv, Running, NEW w \in Workers,
         \A c \in Conns : conn'[c].watch # NoFd =>
           \/ conn'[c].watch \in ready'
           \/ ~HasInput(c)'
           \/ /\ conn'[c].watch = conn[c].watch
              /\ (HasInput(c)' => HasInput(c)) /\ (Broken(c)' => Broken(c))
              /\ conn[c].watch \in ready => conn[c].watch \in ready'
              /\ \A f \in Fds, v \in Workers : f = conn[c].watch =>
                   (Due(v, f) => Due(v, f)') /\ (DueErr(th[v], f) => DueErr(th[v], f)')
  PROVE  WakeInv'
<1> SUFFICES ASSUME NEW c \in Conns, conn'[c].watch # NoFd PROVE Awake(c)'
  BY DEF WakeInv, Awake
<1>1. Awake(c) /\ (conn[c].watch # NoFd => conn[c].watch \in Fds)
  BY Types DEF WakeInv, ConnState
<1>2. CASE conn'[c].watch \in ready'
  BY <1>2 DEF Awake, Woken, Warned
<1>3. CASE ~HasInput(c)'
  BY <1>3 DEF Awake, HasInput, Broken
<1>4. CASE /\ conn'[c].watch = conn[c].watch
           /\ (HasInput(c)' => HasInput(c)) /\ (Broken(c)' => Broken(c))
           /\ conn[c].watch \in ready => conn[c].watch \in ready'
           /\ \A f \in Fds, v \in Workers : f = conn[c].watch =>
                (Due(v, f) => Due(v, f)') /\ (DueErr(th[v], f) => DueErr(th[v], f)')
  <2>1. PICK f \in Fds : f = conn[c].watch
    BY <1>1, <1>4
  <2>2. HasInput(c)' => Woken(f)'
    BY <1>1, <1>4, <2>1 DEF Awake, Woken
  <2>3. Broken(c)' => Warned(f)'
    BY <1>1, <1>4, <2>1 DEF Awake, Warned
  <2> QED
    BY <1>4, <2>1, <2>2, <2>3 DEF Awake
<1> QED
  BY <1>2, <1>3, <1>4

\* A handler's step: what it does to the connection it is at, it does with the input read,
\* or the connection closed, or with the wakeup used up before.
LEMMA WakeOn ==
  ASSUME OneWorker, IInv, WakeInv, Running, NEW w \in Workers, th[w].pc \in InBatch \ {"next"},
         \/ th'[w].pc \in InBatch \ {"next"} /\ Same(th[w], th'[w])
         \/ th'[w].pc = "next" /\ th'[w].cnt = th[w].cnt /\ th'[w].idx = th[w].idx + 1,
         UNCHANGED events,
         \A c \in Conns : conn'[c].watch # NoFd =>
           \/ conn'[c].watch \in ready'
           \/ ~HasInput(c)'
           \/ /\ conn'[c].watch = conn[c].watch
              /\ (HasInput(c)' => HasInput(c)) /\ (Broken(c)' => Broken(c))
              /\ conn[c].watch \in ready => conn[c].watch \in ready'
              /\ \/ th[w].fd # conn[c].watch
                 \/ th[w].pc \notin {"check", "errclose", "recv", "close"}
                 \/ th[w].pc \in {"recv", "close"} /\ th'[w].pc \in {"recv", "close"}
  PROVE  WakeInv'
<1>1. ToDo(th'[w]) = ToDo(th[w]) /\ \A v \in Workers : v = w
  BY SameToDo DEF OneWorker
<1>2. ASSUME NEW f \in Fds,
             \/ th[w].fd # f
             \/ th[w].pc \notin {"check", "errclose", "recv", "close"}
             \/ th[w].pc \in {"recv", "close"} /\ th'[w].pc \in {"recv", "close"}
      PROVE  (Due(w, f) => Due(w, f)') /\ (DueErr(th[w], f) => DueErr(th[w], f)')
  <2>1. th[w].fd = f /\ th[w].pc \in {"check", "errclose", "recv", "close"} =>
          /\ th'[w].pc \in {"recv", "close"} /\ th'[w].fd = f
          /\ th[w].pc \in {"recv", "close"}
    BY <1>2 DEF Same
  <2>2. Due(w, f)' <=> \/ \E i \in ToDo(th'[w]) : events'[i].fd = f
                       \/ th'[w].pc \in {"check", "errclose", "recv", "close"} /\ th'[w].fd = f
    BY DEF Due, ToDo
  <2>3. Due(w, f) => Due(w, f)'
    BY <1>1, <2>1, <2>2, DueIs
  <2>4. DueErr(th[w], f) => DueErr(th[w], f)'
    BY <1>1, <2>1 DEF DueErr
  <2> QED
    BY <2>3, <2>4
<1> QED
  BY <1>1, <1>2, WakeBy

\* The wakeups, action by action: the loop over a batch,
LEMMA LoopWake ==
  ASSUME OneWorker, IInv, SocketsOK, WakeInv, Running, Running', NEW w \in Workers,
         Lock(w) \/ EpollWait(w) \/ EpollInterrupted(w) \/ Unlock(w) \/ NextEvent(w) \/ CheckEvent(w)
  PROVE  WakeInv'
<1>1. \A v \in Workers : v = w
  BY DEF OneWorker
<1>2. \A c \in Conns : Awake(c) /\ (conn[c].watch # NoFd => conn[c].watch \in Fds /\ sock[conn[c].watch] = c)
  BY Types DEF WakeInv, ConnState, SocketsOK
<1>3. ASSUME UNCHANGED <<conn, sock, ready>>,
             \A f \in Fds : (Due(w, f) => Due(w, f)') /\ (DueErr(th[w], f) => DueErr(th[w], f)')
      PROVE  WakeInv'
  BY <1>1, <1>3, WakeBy DEF HasInput, Broken
<1>4. CASE EpollWait(w)
  <2>1. th[w].pc = "wait" /\ UNCHANGED conn
    BY <1>4, Polls DEF EpollWait, At
  <2>2. \A f : ~Due(w, f) /\ ~DueErr(th[w], f)
    BY <2>1 DEF Due, DueErr, ToDo, InBatch
  <2>3. \A f \in ready : Readable(f) =>
          f \in ready' \/ \E i \in ToDo(th'[w]) : events'[i].fd = f /\ events'[i].err = Failed(f)
    BY <1>4, Polls DEF ToDo
  <2> SUFFICES ASSUME NEW c \in Conns, conn'[c].watch # NoFd PROVE Awake(c)'
    BY DEF WakeInv, Awake
  <2>4. PICK f \in Fds : f = conn[c].watch /\ conn'[c].watch = f /\ sock[f] = c
    BY <1>2, <2>1
  <2>5. HasInput(c)' => HasInput(c)
    BY <2>1 DEF HasInput
  <2>6. Broken(c)' => Broken(c)
    BY <2>1 DEF Broken
  <2>7. HasInput(c) => f \in ready /\ Readable(f)
    <3>1. HasInput(c) => f \in ready
      BY <1>1, <1>2, <2>2, <2>4 DEF Awake, Woken
    <3>2. f # ListenFd
      BY DEF Fds, ListenFd
    <3> QED
      BY <2>4, <3>1, <3>2 DEF Readable
  <2>8. HasInput(c) => Woken(f)'
    BY <2>3, <2>7 DEF Woken, Due, ToDo
  <2>9. Broken(c) => HasInput(c) /\ Failed(f)
    BY <2>4 DEF Broken, HasInput, Failed, Fds, ListenFd
  <2>10. Broken(c) => Warned(f)'
    BY <2>3, <2>7, <2>9 DEF Warned, DueErr
  <2> QED
    BY <2>4, <2>5, <2>6, <2>8, <2>10 DEF Awake
<1>5. CASE Lock(w) \/ EpollInterrupted(w)
  <2>1. UNCHANGED <<conn, sock, ready>> /\ th[w].pc \in {"lock", "wait"}
    BY <1>5, LoopMoves DEF netVars, Lock, EpollInterrupted, At
  <2>2. \A f : ~Due(w, f) /\ ~DueErr(th[w], f)
    BY <2>1 DEF Due, DueErr, ToDo, InBatch
  <2> QED
    BY <1>3, <2>1, <2>2
<1>6. CASE Unlock(w)
  <2>1. UNCHANGED <<conn, sock, ready, events>> /\ th[w].pc = "unlock" /\ th'[w].cnt = th[w].cnt
    BY <1>6, LoopMoves DEF netVars, regVars, Unlock, At
  <2>2. th'[w].pc = "next" /\ th'[w].idx = 1
    BY <1>6, LoopMoves DEF Running
  <2>3. ToDo(th'[w]) = ToDo(th[w])
    <3>1. th[w].cnt \in Int /\ "next" \in InBatch
      BY Types DEF Thread, InBatch, PCs
    <3>2. \A i \in 1..th[w].cnt : i = 1 \/ i > 1
      BY <3>1
    <3> QED
      BY <2>1, <2>2, <3>1, <3>2 DEF ToDo
  <2>4. \A f \in Fds : (Due(w, f) => Due(w, f)') /\ (DueErr(th[w], f) => DueErr(th[w], f)')
    <3> TAKE f \in Fds
    <3>1. Due(w, f)' <=> \/ \E i \in ToDo(th'[w]) : events'[i].fd = f
                         \/ th'[w].pc \in {"check", "errclose", "recv", "close"} /\ th'[w].fd = f
      BY DEF Due, ToDo
    <3> QED
      BY <2>1, <2>2, <2>3, <3>1, DueIs DEF DueErr
  <2> QED
    BY <1>3, <2>1, <2>4
<1>7. CASE NextEvent(w)
  <2>1. /\ th[w].pc = "next" /\ th[w].cnt \in Int /\ th[w].idx \in Nat /\ 1 <= th[w].idx
        /\ "next" \in InBatch /\ "check" \in InBatch /\ "lock" \notin InBatch
    <3>1. th[w].pc = "next" /\ th[w].cnt \in Int /\ th[w].idx \in Nat
      BY <1>7, Types DEF NextEvent, At, Thread
    <3> QED
      BY <3>1 DEF InBatch, PCs, IInv, ThreadsOK, ThreadOK
  <2>2. UNCHANGED <<conn, sock, ready, events>>
    BY <1>7, LoopMoves DEF netVars, regVars
  <2>3. CASE th[w].idx > th[w].cnt
    <3>1. \A f : ~Due(w, f) /\ ~DueErr(th[w], f)
      BY <2>1, <2>3 DEF Due, DueErr, ToDo
    <3> QED
      BY <1>3, <2>2, <3>1
  <2>4. CASE ~(th[w].idx > th[w].cnt)
    <3>1. /\ th'[w].pc = "check" /\ th'[w].idx = th[w].idx /\ th'[w].cnt = th[w].cnt
          /\ th'[w].fd = events[th[w].idx].fd
      BY <1>7, <2>4, LoopMoves
    <3>2. \A i \in ToDo(th[w]) : i = th[w].idx \/ i \in ToDo(th'[w])
      BY <2>1, <3>1 DEF ToDo
    <3>3. \A f \in Fds : (Due(w, f) => Due(w, f)') /\ (DueErr(th[w], f) => DueErr(th[w], f)')
      <4> TAKE f \in Fds
      <4>1. Due(w, f)' <=> \/ \E i \in ToDo(th'[w]) : events'[i].fd = f
                           \/ th'[w].pc \in {"check", "errclose", "recv", "close"} /\ th'[w].fd = f
        BY DEF Due, ToDo
      <4> QED
        BY <2>1, <2>2, <3>1, <3>2, <4>1, DueIs DEF DueErr
    <3> QED
      BY <1>3, <2>2, <3>3
  <2> QED
    BY <2>3, <2>4
<1>8. CASE CheckEvent(w)
  <2>1. /\ th[w].pc = "check" /\ Same(th[w], th'[w]) /\ UNCHANGED <<conn, sock, ready, events>>
        /\ th'[w].pc = IF events[th[w].idx].err THEN "errclose"
                         ELSE IF th[w].fd = ListenFd THEN "accept"
                         ELSE "recv"
    BY <1>8, Goes DEF CheckEvent, At, netVars, regVars
  <2>2. {"check", "errclose", "accept", "recv"} \subseteq InBatch \ {"next"}
    BY DEF InBatch, PCs
  <2>3. th'[w].pc \in {"errclose", "accept", "recv"}
    BY <2>1
  <2>4. ToDo(th'[w]) = ToDo(th[w])
    BY <2>1, <2>2, <2>3, SameToDo
  <2>5. ASSUME NEW f \in Fds
        PROVE  (Due(w, f) => Due(w, f)') /\ (DueErr(th[w], f) => DueErr(th[w], f)')
    <3>1. Due(w, f)' <=> \/ \E i \in ToDo(th'[w]) : events'[i].fd = f
                         \/ th'[w].pc \in {"check", "errclose", "recv", "close"} /\ th'[w].fd = f
      BY DEF Due, ToDo
    <3>2. f # ListenFd
      BY DEF Fds, ListenFd
    <3>3. th[w].fd = f => /\ th'[w].fd = f /\ th'[w].pc \in {"errclose", "recv"}
                          /\ events[th[w].idx].err => th'[w].pc = "errclose"
      BY <2>1, <2>3, <3>2 DEF Same
    <3> QED
      BY <2>1, <2>4, <3>1, <3>3, DueIs DEF DueErr
  <2> QED
    BY <1>3, <2>1, <2>5
<1> QED
  BY <1>4, <1>5, <1>6, <1>7, <1>8

\* A send, and a reset that is reported, leave the inputs as they are.
LEMMA InputKept ==
  ASSUME IInv, Sends \/ Reports \/ Quiet
  PROVE  \A c \in Conns : /\ conn'[c].watch = conn[c].watch
                          /\ (HasInput(c)' => HasInput(c)) /\ (Broken(c)' => Broken(c))
<1>1. \A c \in Conns : conn'[c].watch = conn[c].watch
  BY FlagsKept
<1>2. ASSUME \A c \in Conns : /\ conn'[c].rx = conn[c].rx
                              /\ conn'[c].peer # "up" => conn[c].peer # "up"
                              /\ conn'[c].peer \in {"rsterr", "rst"} => conn[c].peer \in {"rsterr", "rst"}
      PROVE  \A c \in Conns : (HasInput(c)' => HasInput(c)) /\ (Broken(c)' => Broken(c))
  BY <1>2 DEF HasInput, Broken
<1>3. CASE Sends
  <2>1. PICK f \in Fds, msg \in Notice : IsOpen(f) /\ conn' = Sent(sock[f], msg)
    BY <1>3 DEF Sends
  <2>2. \A c \in Conns : /\ conn'[c].rx = conn[c].rx
                         /\ conn'[c].peer \in {conn[c].peer} \union
                                              (IF conn[c].peer = "fin" THEN {"poked"} ELSE {})
    BY <2>1, Types DEF Sent, ConnState
  <2> QED
    BY <1>1, <1>2, <2>2
<1>4. CASE Reports
  BY <1>1, <1>2, <1>4, Types DEF Reports, Reported, ConnState
<1>5. CASE Quiet
  BY <1>1, <1>2, <1>5 DEF Quiet
<1> QED
  BY <1>3, <1>4, <1>5

\* the steps that open and close descriptors,
LEMMA OpenWake ==
  ASSUME OneWorker, IInv, SocketsOK, Base, WakeInv, Running, Running', NEW w \in Workers,
         ErrClose(w) \/ CloseConn(w) \/ Accept(w) \/ Insert(w) \/ AddFd(w) \/ SetNonblocking(w)
  PROVE  WakeInv'
<1>1. \A c \in Conns : conn[c].watch # NoFd => conn[c].watch \in Fds /\ sock[conn[c].watch] = c
  BY Types DEF ConnState, SocketsOK
<1>2. \A v \in Workers : v = w
  BY DEF OneWorker
<1>3. CASE ErrClose(w) \/ CloseConn(w)
  <2>1. \/ th'[w].pc = "next" /\ th'[w].cnt = th[w].cnt /\ th'[w].idx = th[w].idx + 1
        \/ th'[w].pc = "readname" /\ Same(th[w], th'[w])
    BY <1>3, Closing, Returns, Goes
  <2>2. \A c \in Conns : /\ conn'[c].watch = IF c = sock[th[w].fd] THEN NoFd ELSE conn[c].watch
                         /\ conn'[c].rx = conn[c].rx /\ conn'[c].peer = conn[c].peer
    BY <1>3, Closing, Types DEF Close, ConnState
  <2>3. ready' = ready \ {th[w].fd} /\ UNCHANGED events
    BY <1>3, Closing DEF Close, regVars
  <2>4. {"errclose", "close", "readname"} \subseteq InBatch \ {"next"}
    BY DEF InBatch, PCs
  <2>5. \A c \in Conns : conn'[c].watch # NoFd =>
          /\ conn'[c].watch = conn[c].watch /\ th[w].fd # conn[c].watch
          /\ (HasInput(c)' => HasInput(c)) /\ (Broken(c)' => Broken(c))
          /\ conn[c].watch \in ready => conn[c].watch \in ready'
    BY <1>1, <2>2, <2>3 DEF HasInput, Broken
  <2> QED
    BY <1>3, <2>1, <2>3, <2>4, <2>5, WakeOn, Closing
<1>4. CASE Accept(w)
  <2>1. /\ th[w].pc = "accept" /\ th'[w].pc = "insert" /\ th'[w].cnt = th[w].cnt
        /\ th'[w].idx = th[w].idx /\ UNCHANGED <<conn, ready, events>>
    BY <1>4, Accepted DEF Die, Running, regVars
  <2>2. ToDo(th'[w]) = ToDo(th[w])
    <3>1. {"accept", "insert"} \subseteq InBatch \ {"next"} /\ "unlock" \notin InBatch
      BY DEF InBatch, PCs
    <3> QED
      BY <2>1, <3>1 DEF ToDo
  <2>3. \A f \in Fds : (Due(w, f) => Due(w, f)') /\ (DueErr(th[w], f) => DueErr(th[w], f)')
    <3> TAKE f \in Fds
    <3>1. Due(w, f)' <=> \/ \E i \in ToDo(th'[w]) : events'[i].fd = f
                         \/ th'[w].pc \in {"check", "errclose", "recv", "close"} /\ th'[w].fd = f
      BY DEF Due, ToDo
    <3> QED
      BY <2>1, <2>2, <3>1, DueIs DEF DueErr
  <2> QED
    BY <1>2, <2>1, <2>3, WakeBy DEF HasInput, Broken
<1>5. ASSUME th[w].pc \in Opening, UNCHANGED events,
             \/ th'[w].pc \in Opening /\ Same(th[w], th'[w])
             \/ th'[w].pc = "next" /\ th'[w].cnt = th[w].cnt /\ th'[w].idx = th[w].idx + 1,
             \A c \in Conns : conn'[c].watch # NoFd =>
               \/ conn'[c].watch \in ready'
               \/ ~HasInput(c)'
               \/ /\ conn'[c].watch = conn[c].watch
                  /\ (HasInput(c)' => HasInput(c)) /\ (Broken(c)' => Broken(c))
                  /\ conn[c].watch \in ready => conn[c].watch \in ready'
      PROVE  WakeInv'
  <2>1. Opening \subseteq InBatch \ {"next"}
    BY DEF Opening, InBatch, PCs
  <2>2. th[w].pc \notin {"check", "errclose", "recv", "close"}
    BY <1>5 DEF Opening
  <2> QED
    BY <1>5, <2>1, <2>2, WakeOn
<1>6. CASE Insert(w)
  <2>1. th[w].pc = "insert" /\ th'[w].pc = "addfd" /\ Same(th[w], th'[w]) /\ UNCHANGED <<conn, ready, events>>
    BY <1>6, Goes DEF Insert, At, netVars
  <2> QED
    BY <1>5, <2>1 DEF Opening, HasInput, Broken
<1>7. CASE AddFd(w)
  <2>1. /\ th[w].pc = "addfd" /\ th'[w].pc = "nonblock" /\ Same(th[w], th'[w])
        /\ ready' = IF HasInput(sock[th[w].fd]) THEN ready \union {th[w].fd} ELSE ready
        /\ conn' = [conn EXCEPT ![sock[th[w].fd]].watch = th[w].fd] /\ conn \in [Conns -> ConnState]
        /\ UNCHANGED events
    BY <1>7, Goes, Opens, Types DEF AddFd, At, regVars
  <2>2. \A c \in Conns : /\ conn'[c].watch = IF c = sock[th[w].fd] THEN th[w].fd ELSE conn[c].watch
                         /\ conn'[c].rx = conn[c].rx /\ conn'[c].peer = conn[c].peer
    BY <2>1 DEF ConnState
  <2>3. \A c \in Conns : (HasInput(c)' <=> HasInput(c)) /\ (Broken(c)' <=> Broken(c))
    BY <2>2 DEF HasInput, Broken
  <2>4. ASSUME NEW c \in Conns
        PROVE  \/ conn'[c].watch \in ready'
               \/ ~HasInput(c)'
               \/ /\ conn'[c].watch = conn[c].watch
                  /\ (HasInput(c)' => HasInput(c)) /\ (Broken(c)' => Broken(c))
                  /\ conn[c].watch \in ready => conn[c].watch \in ready'
    <3>1. CASE c = sock[th[w].fd]
      <4>1. conn'[c].watch = th[w].fd
        BY <2>2, <3>1
      <4>2. HasInput(c) => th[w].fd \in ready'
        BY <2>1, <3>1
      <4> QED
        BY <2>3, <4>1, <4>2
    <3>2. CASE c # sock[th[w].fd]
      BY <2>1, <2>2, <2>3, <3>2
    <3> QED
      BY <3>1, <3>2
  <2> QED
    BY <1>5, <2>1, <2>4 DEF Opening
<1>8. CASE SetNonblocking(w)
  <2>1. /\ th[w].pc = "nonblock" /\ th'[w].pc = "next" /\ UNCHANGED <<ready, events>>
        /\ th'[w].cnt = th[w].cnt /\ th'[w].idx = th[w].idx + 1
        /\ conn' = [conn EXCEPT ![sock[th[w].fd]].nonblock = TRUE] /\ conn \in [Conns -> ConnState]
    BY <1>8, Returns, Opens, Types DEF SetNonblocking, At, regVars
  <2>2. \A c \in Conns : /\ conn'[c].watch = conn[c].watch
                         /\ conn'[c].rx = conn[c].rx /\ conn'[c].peer = conn[c].peer
    BY <2>1 DEF ConnState
  <2> QED
    BY <1>5, <2>1, <2>2 DEF Opening, HasInput, Broken
<1> QED
  BY <1>3, <1>4, <1>6, <1>7, <1>8

\* reading,
LEMMA RecvWake ==
  ASSUME OneWorker, IInv, SocketsOK, Base, WakeInv, Running, NEW w \in Workers, Recv(w)
  PROVE  WakeInv'
<1> DEFINE c == sock[th[w].fd]
<1>1. /\ th[w].pc = "recv" /\ th[w].fd \in Fds /\ c \in Conns /\ IsOpen(th[w].fd)
      /\ UNCHANGED <<sock, ready, events>> /\ {"recv", "close", "dispatch"} \subseteq InBatch \ {"next"}
  BY Recvs DEF At, regVars, InBatch, PCs
<1>2. conn[c].watch = th[w].fd
  BY <1>1 DEF Base, WatchOK, Opening
<1>3. \A d \in Conns : conn[d].watch = th[w].fd => d = c
  BY <1>1 DEF SocketsOK, Fds, NoFd
<1>4. conn \in [Conns -> ConnState]
  BY Types
<1> HIDE DEF c
<1>5. CASE /\ conn[c].rx # <<>> /\ conn' = [conn EXCEPT ![c].rx = Tail(@)]
           /\ th'[w].pc = "recv" /\ Same(th[w], th'[w])
  <2>1. \A d \in Conns : /\ conn'[d].watch = conn[d].watch /\ conn'[d].peer = conn[d].peer
                         /\ conn'[d].rx # <<>> => conn[d].rx # <<>>
    BY <1>1, <1>4, <1>5 DEF ConnState
  <2> QED
    BY <1>1, <1>5, <2>1, WakeOn DEF HasInput, Broken
<1>6. CASE /\ conn[c].rx = <<>> /\ conn[c].peer = "rsterr" /\ conn' = Reported(c) /\ Return(w)
  <2>1. Reports
    BY <1>1, <1>6, Recvs DEF Reports
  <2>2. \A i \in ToDo(th[w]) : events[i].fd # th[w].fd
    BY <1>1 DEF Base, BatchOK
  <2>3. th[w].fd \in ready
    <3>1. Awake(c) /\ Broken(c) /\ conn[c].watch # NoFd
      BY <1>1, <1>2, <1>6 DEF WakeInv, Broken, Fds, NoFd
    <3>2. \A v \in Workers : ~DueErr(th[v], th[w].fd)
      BY <1>1, <2>2 DEF DueErr, OneWorker
    <3> QED
      BY <1>2, <3>1, <3>2 DEF Awake, Warned
  <2>4. th'[w].pc = "next" /\ th'[w].cnt = th[w].cnt /\ th'[w].idx = th[w].idx + 1
    BY <1>6, Returns
  <2>5. \A d \in Conns : conn[d].watch = th[w].fd => conn'[d].watch \in ready'
    BY <1>1, <2>1, <2>3, InputKept
  <2> QED
    BY <1>1, <2>1, <2>4, <2>5, InputKept, WakeOn
<1>7. CASE UNCHANGED conn /\ th'[w].pc = "close" /\ Same(th[w], th'[w])
  BY <1>1, <1>7, WakeOn DEF HasInput, Broken
<1>8. CASE ~HasInput(c) /\ UNCHANGED conn /\ Goto(w, "dispatch")
  <2>1. th'[w].pc = "dispatch" /\ Same(th[w], th'[w])
    BY <1>8, Goes
  <2>3. \A d \in Conns : d # c => th[w].fd # conn[d].watch
    BY <1>3
  <2>4. \A d \in Conns : conn'[d].watch # NoFd =>
          \/ ~HasInput(d)'
          \/ /\ conn'[d].watch = conn[d].watch
             /\ (HasInput(d)' => HasInput(d)) /\ (Broken(d)' => Broken(d))
             /\ conn[d].watch \in ready => conn[d].watch \in ready'
             /\ th[w].fd # conn[d].watch
    <3> TAKE d \in Conns
    <3>1. CASE d = c
      BY <1>1, <1>8, <3>1 DEF HasInput
    <3>2. CASE d # c
      BY <1>1, <1>8, <2>3, <3>2 DEF HasInput, Broken
    <3> QED
      BY <3>1, <3>2
  <2> QED
    BY <1>1, <2>1, <2>4, WakeOn
<1> QED
  BY <1>1, <1>5, <1>6, <1>7, <1>8, Recvs, RecvMoves DEF c

\* the handlers that read and send nothing more, and those that send.
LEMMA HandlerWake ==
  ASSUME OneWorker, IInv, SocketsOK, Base, WakeInv, Running, Running', NEW w \in Workers,
         \/ ReadName(w) \/ Erase(w) \/ Dispatch(w) \/ SetNick(w) \/ Welcome(w) \/ Say(w)
         \/ Talk(w) \/ ShowStep(w) \/ BroadcastStep(w) \/ PrivateStep(w)
  PROVE  WakeInv'
<1>1. ASSUME th[w].pc \in {"readname", "erase", "dispatch", "setnick", "welcome", "say", "talk",
                           "show", "bcast", "private"},
             UNCHANGED <<ready, events>>, Sends \/ Reports \/ Quiet,
             \/ th'[w].pc \in {"erase", "setnick", "welcome", "talk", "show", "private", "say", "bcast"}
                /\ Same(th[w], th'[w])
             \/ th'[w].pc = "next" /\ th'[w].cnt = th[w].cnt /\ th'[w].idx = th[w].idx + 1
      PROVE  WakeInv'
  <2>1. {"readname", "erase", "dispatch", "setnick", "welcome", "say", "talk", "show", "bcast", "private"}
          \subseteq InBatch \ {"next"}
    BY DEF InBatch, PCs
  <2>2. th[w].pc \notin {"check", "errclose", "recv", "close"} /\ th[w].pc \in InBatch \ {"next"}
    BY <1>1, <2>1
  <2>3. \/ th'[w].pc \in InBatch \ {"next"} /\ Same(th[w], th'[w])
        \/ th'[w].pc = "next" /\ th'[w].cnt = th[w].cnt /\ th'[w].idx = th[w].idx + 1
    BY <1>1, <2>1
  <2> QED
    BY <1>1, <2>2, <2>3, InputKept, WakeOn
<1>2. CASE ReadName(w) \/ Erase(w) \/ Welcome(w) \/ Say(w)
  <2>1. UNCHANGED <<ready, events>> /\ Quiet /\ th[w].pc \in {"readname", "erase", "welcome", "say"}
    BY <1>2 DEF ReadName, Erase, Welcome, Say, Announce, At, netVars, Quiet
  <2> QED
    BY <1>1, <1>2, <2>1, SpeakMoves
<1>3. CASE Dispatch(w) \/ SetNick(w)
  <2>1. UNCHANGED <<ready, events>> /\ Quiet /\ th[w].pc \in {"dispatch", "setnick"}
    BY <1>3 DEF Dispatch, SetNick, At, netVars, Quiet
  <2>2. Return(w) \/ Goto(w, "talk") \/ Goto(w, "setnick") \/ Goto(w, "welcome")
    BY <1>3 DEF Dispatch, SetNick
  <2> QED
    BY <1>1, <2>1, <2>2, Returns, Goes
<1>4. CASE Talk(w) \/ ShowStep(w) \/ BroadcastStep(w) \/ PrivateStep(w)
  <2>1. SendFrame /\ (Turned(w) \/ Looped(w) \/ Through(w) \/ Killed(w))
    BY <1>4, LoopEffects
  <2>2. th[w].pc \in {"talk", "show", "bcast", "private"} /\ ~Killed(w)
    BY <1>4 DEF Talk, ShowStep, BroadcastStep, PrivateStep, At, Killed, Running
  <2> QED
    BY <1>1, <2>1, <2>2 DEF SendFrame, Turned, Looped, Through
<1> QED
  BY <1>2, <1>3, <1>4

\* The client's side makes an edge with all it does.
LEMMA OutsideWake ==
  ASSUME IInv, WakeInv, Outside
  PROVE  WakeInv'
<1>1. PICK c \in Conns : Environment(c)
  BY DEF Outside
<1>2. UNCHANGED <<th, events, status>> /\ conn \in [Conns -> ConnState]
  BY Types DEF Outside, regVars
<1> SUFFICES ASSUME Running', NEW d \in Conns PROVE Awake(d)'
  BY DEF WakeInv
<1>3. Awake(d)
  BY <1>2 DEF WakeInv, Running
<1>4. /\ ready \subseteq ready' /\ conn'[d].watch = conn[d].watch
      /\ \/ conn'[d].watch \in ready' \cup {NoFd}
         \/ (HasInput(d)' => HasInput(d)) /\ (Broken(d)' => Broken(d))
  <2>1. CASE Connect(c)
    <3>1. /\ ready \subseteq ready' /\ conn'[d].watch = conn[d].watch
          /\ conn'[d].rx = conn[d].rx
          /\ conn'[d].peer = IF d = c THEN "up" ELSE conn[d].peer
      BY <1>2, <2>1 DEF Connect, ConnState
    <3> QED
      BY <3>1 DEF HasInput, Broken
  <2>2. CASE ClientSend(c)
    <3>1. /\ ready' = Edge(c) /\ conn'[d].watch = conn[d].watch
          /\ d # c => conn'[d].rx = conn[d].rx /\ conn'[d].peer = conn[d].peer
      BY <1>2, <2>2 DEF ClientSend, ConnState
    <3> QED
      BY <3>1 DEF HasInput, Broken, Edge
  <2>3. CASE ClientClose(c) \/ ClientAbort(c) \/ ResetArrives(c)
    <3>1. PICK p \in {"fin", "rsterr", "rst"} : conn' = [conn EXCEPT ![c].peer = p] /\ ready' = Edge(c)
      BY <2>3 DEF ClientClose, ClientAbort, ResetArrives, PeerBecomes
    <3>2. /\ conn'[d].watch = conn[d].watch
          /\ d # c => conn'[d].rx = conn[d].rx /\ conn'[d].peer = conn[d].peer
      BY <1>2, <3>1 DEF ConnState
    <3> QED
      BY <3>1, <3>2 DEF HasInput, Broken, Edge
  <2> QED
    BY <1>1, <2>1, <2>2, <2>3 DEF Environment
<1>5. CASE conn'[d].watch \in ready' \cup {NoFd}
  BY <1>5 DEF Awake, Woken, Warned
<1>6. CASE (HasInput(d)' => HasInput(d)) /\ (Broken(d)' => Broken(d))
  <2>1. PICK f : f = conn[d].watch
    OBVIOUS
  <2>2. Woken(f) => Woken(f)'
    BY <1>2, <1>4 DEF Woken, Due
  <2>3. Warned(f) => Warned(f)'
    BY <1>2, <1>4 DEF Warned, DueErr, ToDo
  <2> QED
    BY <1>3, <1>4, <1>6, <2>1, <2>2, <2>3 DEF Awake
<1> QED
  BY <1>4, <1>5, <1>6

\* With one worker every step keeps the wakeups.
LEMMA NextWake ==
  ASSUME OneWorker, IInv, SocketsOK, Base, WakeInv, [Next]_vars
  PROVE  WakeInv'
<1>1. CASE ~Running'
  BY <1>1 DEF WakeInv
<1>2. CASE Running' /\ \E w \in Workers : Worker(w)
  <2>1. PICK w \in Workers : Worker(w)
    BY <1>2
  <2>2. Running
    BY <2>1, WorksOn
  <2>3. ~Blocked(w)
    BY DEF Blocked, At, Base, PlaceOK
  <2> QED
    BY <1>2, <2>1, <2>2, <2>3, LoopWake, OpenWake, RecvWake, HandlerWake DEF Worker
<1>3. CASE Running' /\ (RaceCrash \/ MainJoin)
  BY <1>3 DEF RaceCrash, Die, MainJoin, Running
<1>4. CASE UNCHANGED vars
  BY <1>4 DEF vars, netVars, WakeInv, Running, Awake, Woken, Warned, Due, DueErr, ToDo, HasInput, Broken
<1>5. CASE Outside
  BY <1>5, OutsideWake
<1> QED
  BY <1>1, <1>2, <1>3, <1>4, <1>5 DEF Next

-----------------------------------------------------------------------------
(* The theorems.                                                           *)

\* What holds in every state with one worker.
LEMMA OneInvariance ==
  ASSUME OneWorker
  PROVE  Spec => [](IInv /\ SocketsOK /\ Base /\ WakeInv)
<1>1. Init => IInv /\ SocketsOK /\ Base /\ WakeInv
  <2>1. Init => WakeInv
    BY DEF Init, SocketInit, WakeInv, Awake
  <2> QED
    BY <2>1, InitIInv, SocketsInit, InitBase
<1>2. IInv /\ SocketsOK /\ Base /\ WakeInv /\ [Next]_vars => (IInv /\ SocketsOK /\ Base /\ WakeInv)'
  BY NextIInv, NextSockets, NextBase, NextWake
<1> QED
  BY <1>1, <1>2, PTL DEF Spec

\* With one worker no input of a watched client falls between two epoll_waits: it is on
\* epoll's ready list or the worker has yet to read it, as long as the worker's loop runs.
THEOREM WakeupsKept ==
  ASSUME OneWorker
  PROVE  Spec => []NoLostWakeup
<1>1. IInv /\ WakeInv => NoLostWakeup
  BY DEF WakeInv, NoLostWakeup, Running, Awake, Woken
<1> QED
  BY <1>1, OneInvariance, PTL

\* With one worker nobody sleeps in recv, a batch never holds a descriptor that has been
\* closed since epoll_wait reported it, and the socket of a client that is not being accepted
\* is nonblocking and watched under its own descriptor.
THEOREM BatchIsFresh ==
  ASSUME OneWorker
  PROVE  Spec => []Base
BY OneInvariance, PTL

-----------------------------------------------------------------------------
(* The events with an error, and the locals.                               *)

\* An event the worker takes for an error is one of a connection that was reset.
ErrsOK(t) ==
  /\ \A i \in ToDo(t) : events[i].err => sock[events[i].fd] \in ResetConns
  /\ t.pc = "check" /\ events[t.idx].err => sock[t.fd] \in ResetConns
  /\ t.pc = "errclose" => sock[t.fd] \in ResetConns

\* A loop has its place in the map, and a message is there while it is being sent.
LocalsOK(t) ==
  /\ t.cur # NoFd
  /\ t.pc \notin {"bcast", "private", "show"} => t.cur = 0
  /\ t.pc \notin {"erase", "bcast", "show", "private"} => t.out = Nothing

Tidy == \A w \in Workers : ErrsOK(th[w]) /\ LocalsOK(th[w])

\* A connection that was reset stays so.
LEMMA ResetsGrow ==
  ASSUME IInv, [Next]_vars
  PROVE  ResetConns \subseteq ResetConns'
<1>1. conn \in [Conns -> ConnState] /\ \A f \in Fds : IsOpen(f) => sock[f] \in Conns
  BY Types
<1>2. ASSUME \A c \in Conns : conn[c].peer \in {"rsterr", "rst"} => conn'[c].peer \in {"rsterr", "rst"}
      PROVE  ResetConns \subseteq ResetConns'
  BY <1>2 DEF ResetConns
<1>3. CASE NetEffect
  <2>1. CASE Sends
    <3>1. PICK f \in Fds, msg \in Notice : IsOpen(f) /\ conn' = Sent(sock[f], msg)
      BY <2>1 DEF Sends
    <3>2. \A c \in Conns : conn[c].peer # "fin" => conn'[c].peer = conn[c].peer
      BY <1>1, <3>1 DEF Sent, ConnState
    <3> QED
      BY <1>2, <3>2
  <2>2. CASE Reports
    BY <1>1, <1>2, <2>2 DEF Reports, Reported, ConnState
  <2>3. CASE Takes
    BY <1>1, <1>2, <2>3 DEF Takes, ConnState
  <2>4. CASE Closes
    BY <1>1, <1>2, <2>4 DEF Closes, Close, ConnState
  <2>5. CASE Watches
    BY <1>1, <1>2, <2>5 DEF Watches, ConnState
  <2>6. CASE Unblocks
    BY <1>1, <1>2, <2>6 DEF Unblocks, ConnState
  <2>7. CASE Accepts \/ Quiet
    BY <1>2, <2>7 DEF Accepts, Quiet
  <2> QED
    BY <1>3, <2>1, <2>2, <2>3, <2>4, <2>5, <2>6, <2>7 DEF NetEffect, Muted
<1>4. CASE Outside
  <2>1. PICK c \in Conns : Connect(c) \/ ClientSend(c) \/ ClientClose(c) \/ ClientAbort(c) \/ ResetArrives(c)
    BY <1>4 DEF Outside, Environment
  <2>2. CASE Connect(c)
    BY <1>1, <1>2, <2>2 DEF Connect, ConnState
  <2>3. CASE ClientSend(c)
    BY <1>1, <1>2, <2>3 DEF ClientSend, ConnState
  <2>4. CASE ClientClose(c) \/ ClientAbort(c) \/ ResetArrives(c)
    BY <1>1, <1>2, <2>4 DEF ClientClose, ClientAbort, ResetArrives, PeerBecomes, ConnState
  <2> QED
    BY <2>1, <2>2, <2>3, <2>4
<1> QED
  BY <1>3, <1>4, NextNet

\* The sockets but the one the worker is at stay under their descriptors.
OthersKept(w) == \A g \in AllFds : g # th[w].fd /\ IsOpen(g) => sock'[g] = sock[g]

\* A handler that goes on or returns has the errors to come that it had.
LEMMA ErrsOn ==
  ASSUME IInv, NEW w \in Workers, BatchOK(th[w]), ErrsOK(th[w]), th[w].pc \in InBatch \ {"next"},
         UNCHANGED events, OthersKept(w), ResetConns \subseteq ResetConns',
         \/ th'[w].pc \in InBatch \ {"next"} /\ Same(th[w], th'[w])
         \/ th'[w].pc = "next" /\ th'[w].cnt = th[w].cnt /\ th'[w].idx = th[w].idx + 1,
         th'[w].pc \notin {"check", "errclose"}
  PROVE  ErrsOK(th[w])'
<1>1. ToDo(th'[w]) = ToDo(th[w])
  BY SameToDo
<1>2. \A i \in ToDo(th[w]) : sock'[events[i].fd] = sock[events[i].fd]
  BY Types DEF BatchOK, OthersKept
<1> QED
  BY <1>1, <1>2 DEF ErrsOK

\* The same worker does nothing.
LEMMA TidyStill ==
  ASSUME Tidy, UNCHANGED <<th, events, sock>>, ResetConns \subseteq ResetConns'
  PROVE  Tidy'
BY DEF Tidy, ErrsOK, LocalsOK, ToDo

\* The loop over a batch takes the errors epoll_wait has found.
LEMMA LoopTidy ==
  ASSUME IInv, SocketsOK, Base, Tidy, NEW w \in Workers,
         Lock(w) \/ EpollWait(w) \/ EpollInterrupted(w) \/ Unlock(w) \/ NextEvent(w) \/ CheckEvent(w)
  PROVE  ErrsOK(th[w])' /\ LocalsOK(th[w])'
<1>1. ErrsOK(th[w]) /\ LocalsOK(th[w]) /\ BatchOK(th[w]) /\ PlaceOK(th[w])
  BY DEF Tidy, Base
<1>7. UNCHANGED <<conn, sock>> /\ ResetConns' = ResetConns
  <2>1. UNCHANGED <<conn, sock>>
    BY LoopMoves, Polls DEF netVars
  <2> QED
    BY <2>1 DEF ResetConns
<1>2. CASE EpollWait(w)
  <2>1. \A f \in ready : Failed(f) => sock[f] \in ResetConns
    <3>1. \A f \in ready : f # ListenFd => sock[f] \in Conns
      BY Types DEF Base, AllFds
    <3> QED
      BY <3>1 DEF Failed, ResetConns
  <2>2. /\ th[w].pc = "wait" /\ th'[w].pc = "unlock" /\ th'[w].cur = th[w].cur /\ th'[w].out = th[w].out
        /\ \A i \in 1..th'[w].cnt : events'[i].err => sock[events'[i].fd] \in ResetConns
    BY <1>2, <2>1, Polls DEF EpollWait, At
  <2> QED
    BY <1>1, <1>7, <2>2 DEF ErrsOK, LocalsOK, ToDo
<1>3. CASE Lock(w) \/ EpollInterrupted(w)
  <2>1. /\ th[w].pc \in {"lock", "wait"} /\ th'[w].pc \in {"wait", "unlock"} /\ ToDo(th'[w]) = {}
        /\ th'[w].cur = th[w].cur /\ th'[w].out = th[w].out
    <3>1. CASE Lock(w)
      BY <3>1, Goes DEF Lock, At, ToDo, InBatch
    <3>2. CASE EpollInterrupted(w)
      <4>1. /\ th[w].pc = "wait" /\ th'[w].pc = "unlock" /\ th'[w].cnt = -1
            /\ th'[w].cur = th[w].cur /\ th'[w].out = th[w].out
        BY <3>2, LoopMoves DEF EpollInterrupted, At
      <4> QED
        BY <4>1 DEF ToDo
    <3> QED
      BY <1>3, <3>1, <3>2
  <2> QED
    BY <1>1, <1>7, <2>1 DEF ErrsOK, LocalsOK
<1>4. CASE Unlock(w)
  <2>1. /\ th[w].pc = "unlock" /\ th'[w].pc \in {"next", "done"} /\ th'[w].cnt = th[w].cnt
        /\ UNCHANGED events /\ th'[w].cur = th[w].cur /\ th'[w].out = th[w].out
    BY <1>4, LoopMoves DEF Unlock, At, regVars
  <2>2. \A i \in ToDo(th'[w]) : i \in ToDo(th[w])
    BY <2>1 DEF ToDo
  <2> QED
    BY <1>1, <1>7, <2>1, <2>2 DEF ErrsOK, LocalsOK
<1>5. CASE NextEvent(w)
  <2>1. /\ th[w].pc = "next" /\ th'[w].pc \in {"lock", "check"} /\ th'[w].cnt = th[w].cnt
        /\ th'[w].idx = th[w].idx /\ UNCHANGED events /\ th'[w].cur = th[w].cur /\ th'[w].out = th[w].out
    BY <1>5, LoopMoves DEF NextEvent, At, regVars
  <2>2. \A i \in ToDo(th'[w]) : i \in ToDo(th[w])
    BY <2>1 DEF ToDo, InBatch, PCs
  <2>3. th'[w].pc = "check" => th[w].idx \in ToDo(th[w])
    <3>1. th'[w].pc = "check" => ~(th[w].idx > th[w].cnt)
      BY <1>5, LoopMoves
    <3>2. /\ th[w].cnt \in Int /\ th[w].idx \in Nat /\ "next" \in InBatch
      BY Types DEF Thread, InBatch, PCs
    <3>3. 1 <= th[w].idx
      BY <2>1, <3>2 DEF IInv, ThreadsOK, ThreadOK
    <3> QED
      BY <2>1, <3>1, <3>2, <3>3 DEF ToDo
  <2>4. th'[w].pc = "check" => th'[w].fd = events[th[w].idx].fd
    BY <1>5, LoopMoves
  <2> QED
    BY <1>1, <1>7, <2>1, <2>2, <2>3, <2>4 DEF ErrsOK, LocalsOK
<1>6. CASE CheckEvent(w)
  <2>1. /\ th[w].pc = "check" /\ Same(th[w], th'[w]) /\ UNCHANGED events
        /\ th'[w].pc = IF events[th[w].idx].err THEN "errclose"
                         ELSE IF th[w].fd = ListenFd THEN "accept"
                         ELSE "recv"
        /\ th'[w].cur = th[w].cur /\ th'[w].out = th[w].out
    BY <1>6, Goes DEF CheckEvent, At, regVars
  <2>2. CASE events[th[w].idx].err
    <3>0. th'[w].pc = "errclose"
      BY <2>1, <2>2
    <3>4. sock[th[w].fd] \in ResetConns
      BY <1>1, <2>1, <2>2 DEF ErrsOK
    <3>1. th'[w].pc = "errclose" /\ sock[th[w].fd] \in ResetConns
      BY <3>0, <3>4
    <3>2. {"check", "errclose"} \subseteq InBatch \ {"next"}
      BY DEF InBatch, PCs
    <3>3. ToDo(th'[w]) = ToDo(th[w])
      BY <2>1, <3>1, <3>2, SameToDo
    <3> QED
      BY <1>1, <1>7, <2>1, <3>1, <3>3 DEF ErrsOK, LocalsOK, Same
  <2>3. CASE ~events[th[w].idx].err
    <3>1. th'[w].pc \in {"accept", "recv"}
      BY <2>1, <2>3
    <3>2. {"check", "accept", "recv"} \subseteq InBatch \ {"next"}
      BY DEF InBatch, PCs
    <3>3. ErrsOK(th[w])'
      BY <1>1, <1>7, <2>1, <3>1, <3>2, ErrsOn DEF OthersKept
    <3> QED
      BY <1>1, <2>1, <3>1, <3>3 DEF LocalsOK
  <2> QED
    BY <2>2, <2>3
<1> QED
  BY <1>2, <1>3, <1>4, <1>5, <1>6

\* A handler that goes on to a place without a message of its own, to a place with one, or
\* returns.
LEMMA ServeTidy ==
  ASSUME IInv, Base, Tidy, NEW w \in Workers, UNCHANGED events, OthersKept(w),
         ResetConns \subseteq ResetConns',
         \/ /\ th'[w].pc = "next" /\ th'[w].cnt = th[w].cnt /\ th'[w].idx = th[w].idx + 1
            /\ th'[w].cur = 0 /\ th'[w].out = Nothing
         \/ /\ th'[w].pc \in Serving \union Opening \union {"readname"}
            /\ Same(th[w], th'[w]) /\ th'[w].cur = th[w].cur /\ th'[w].out = th[w].out
            /\ th[w].pc # "erase"
         \/ /\ th'[w].pc \in {"erase", "bcast"} /\ Same(th[w], th'[w]) /\ th'[w].cur = th[w].cur,
         th[w].pc \in (Serving \ {"show", "private"}) \union Opening \union {"readname", "erase"}
  PROVE  ErrsOK(th[w])' /\ LocalsOK(th[w])'
<1> DEFINE places == Serving \union Opening \union {"readname", "erase", "bcast"}
<1>1. ErrsOK(th[w]) /\ LocalsOK(th[w]) /\ BatchOK(th[w])
  BY DEF Tidy, Base
<1>2. \A l \in places : l \in InBatch \ {"next"} /\ l \notin {"check", "errclose"}
  BY DEF Serving, Opening, InBatch, PCs
<1>3. th[w].pc \in places /\ (th'[w].pc = "next" \/ th'[w].pc \in places)
  OBVIOUS
<1> HIDE DEF places
<1>4. ErrsOK(th[w])'
  <2>1. th'[w].pc \notin {"check", "errclose"}
    BY <1>2, <1>3
  <2>2. th[w].pc \in InBatch \ {"next"}
    BY <1>2, <1>3
  <2>3. \/ th'[w].pc \in InBatch \ {"next"} /\ Same(th[w], th'[w])
        \/ th'[w].pc = "next" /\ th'[w].cnt = th[w].cnt /\ th'[w].idx = th[w].idx + 1
    BY <1>2 DEF places
  <2> QED
    BY <1>1, <2>1, <2>2, <2>3, ErrsOn
<1>5. LocalsOK(th[w])'
  <2>1. th[w].cur = 0 /\ (th[w].out = Nothing \/ th[w].pc = "erase")
    BY <1>1 DEF LocalsOK, Serving, Opening
  <2> QED
    BY <2>1 DEF LocalsOK, NoFd
<1> QED
  BY <1>4, <1>5

\* Every step of the worker keeps its locals and what it knows of errors.
LEMMA WorkerTidy ==
  ASSUME OneWorker, IInv, SocketsOK, Base, Tidy, NEW w \in Workers, Worker(w),
         ResetConns \subseteq ResetConns'
  PROVE  (ErrsOK(th[w])' /\ LocalsOK(th[w])') \/ UNCHANGED <<th, events, sock>>
<1>1. ErrsOK(th[w]) /\ LocalsOK(th[w]) /\ BatchOK(th[w]) /\ PlaceOK(th[w])
  BY DEF Tidy, Base
<1>2. CASE Blocked(w)
  BY <1>1, <1>2 DEF Blocked, At, PlaceOK
<1>10. UNCHANGED sock => OthersKept(w)
  BY DEF OthersKept
<1>11. Close(th[w].fd) => OthersKept(w)
  BY Types DEF OthersKept, Close
<1>12. CASE ErrClose(w)
  <2>1. /\ th[w].pc = "errclose" /\ OthersKept(w) /\ UNCHANGED events
        /\ "errclose" \in InBatch \ {"next"}
    BY <1>11, <1>12, Closing DEF regVars, InBatch, PCs
  <2>2. /\ th'[w].pc = "next" /\ th'[w].cnt = th[w].cnt /\ th'[w].idx = th[w].idx + 1
        /\ th'[w].cur = 0 /\ th'[w].out = Nothing
    BY <1>12, Closing, Returns
  <2>3. ErrsOK(th[w])'
    BY <1>1, <2>1, <2>2, ErrsOn
  <2> QED
    BY <2>2, <2>3 DEF LocalsOK, NoFd
<1>3. CASE CloseConn(w)
  <2>1. /\ th[w].pc = "close" /\ th'[w].pc = "readname" /\ Same(th[w], th'[w]) /\ UNCHANGED events
        /\ th'[w].cur = th[w].cur /\ th'[w].out = th[w].out /\ OthersKept(w)
    BY <1>3, <1>11, Closing, Goes DEF regVars
  <2> QED
    BY <2>1, ServeTidy DEF Serving
<1>4. CASE Accept(w)
  <2>1. CASE Die("errExit")
    BY <1>4, <2>1, Accepted DEF Die, regVars
  <2>2. CASE /\ th'[w].pc = "insert" /\ th'[w].cnt = th[w].cnt /\ th'[w].idx = th[w].idx
             /\ th'[w].cur = th[w].cur /\ th'[w].out = th[w].out
             /\ \E f \in Fds : ~IsOpen(f) /\ sock' = [sock EXCEPT ![f] = Head(backlog)]
    <3>1. th[w].pc = "accept" /\ th[w].fd = ListenFd /\ UNCHANGED events
      BY <1>4, Accepted DEF regVars
    <3>3. \A i \in ToDo(th[w]) : sock'[events[i].fd] = sock[events[i].fd]
      BY <1>1, <2>2, Types DEF BatchOK
    <3>2. ToDo(th'[w]) = ToDo(th[w])
      <4>1. {"accept", "insert"} \subseteq InBatch \ {"next"} /\ "unlock" \notin InBatch
        BY DEF InBatch, PCs
      <4> QED
        BY <2>2, <3>1, <4>1 DEF ToDo
    <3> QED
      BY <1>1, <2>2, <3>1, <3>2, <3>3 DEF ErrsOK, LocalsOK
  <2> QED
    BY <1>4, <2>1, <2>2, Accepted
<1>5. CASE Insert(w) \/ AddFd(w) \/ SetNonblocking(w)
  <2>1. th[w].pc \in Opening /\ UNCHANGED events /\ th[w].pc # "erase" /\ OthersKept(w)
    BY <1>5, <1>10, Opens DEF Insert, AddFd, SetNonblocking, At, Opening, regVars, netVars
  <2>2. Goto(w, "addfd") \/ Goto(w, "nonblock") \/ Return(w)
    BY <1>5, Opens DEF Insert
  <2>3. \/ /\ th'[w].pc = "next" /\ th'[w].cnt = th[w].cnt /\ th'[w].idx = th[w].idx + 1
           /\ th'[w].cur = 0 /\ th'[w].out = Nothing
        \/ /\ th'[w].pc \in Opening
           /\ Same(th[w], th'[w]) /\ th'[w].cur = th[w].cur /\ th'[w].out = th[w].out
    BY <2>2, Goes, Returns DEF Opening
  <2> QED
    BY <2>1, <2>3, ServeTidy
<1>6. CASE Recv(w)
  <2>1. th[w].pc = "recv" /\ UNCHANGED events /\ OthersKept(w)
    BY <1>6, <1>10, Recvs DEF At, regVars
  <2>2. \/ /\ th'[w].pc = "next" /\ th'[w].cnt = th[w].cnt /\ th'[w].idx = th[w].idx + 1
           /\ th'[w].cur = 0 /\ th'[w].out = Nothing
        \/ /\ th'[w].pc \in {"recv", "close", "dispatch"}
           /\ Same(th[w], th'[w]) /\ th'[w].cur = th[w].cur /\ th'[w].out = th[w].out
    BY <1>6, Recvs, RecvMoves, Returns, Goes
  <2> QED
    BY <2>1, <2>2, ServeTidy DEF Serving
<1>7. CASE ReadName(w) \/ Erase(w) \/ Welcome(w) \/ Say(w)
  <2>1. th[w].pc \in {"readname", "erase", "welcome", "say"} /\ UNCHANGED events /\ OthersKept(w)
    BY <1>7, <1>10 DEF ReadName, Erase, Welcome, Say, Announce, At, netVars
  <2>2. th'[w].pc \in {"erase", "bcast"} /\ Same(th[w], th'[w]) /\ th'[w].cur = th[w].cur
    BY <1>7, SpeakMoves
  <2> QED
    BY <2>1, <2>2, ServeTidy DEF Serving
<1>8. CASE Dispatch(w) \/ SetNick(w)
  <2>1. th[w].pc \in {"dispatch", "setnick"} /\ UNCHANGED events /\ OthersKept(w)
    BY <1>8, <1>10 DEF Dispatch, SetNick, At, netVars
  <2>2. Return(w) \/ Goto(w, "talk") \/ Goto(w, "setnick") \/ Goto(w, "welcome")
    BY <1>8 DEF Dispatch, SetNick
  <2>3. \/ /\ th'[w].pc = "next" /\ th'[w].cnt = th[w].cnt /\ th'[w].idx = th[w].idx + 1
           /\ th'[w].cur = 0 /\ th'[w].out = Nothing
        \/ /\ th'[w].pc \in {"talk", "setnick", "welcome"}
           /\ Same(th[w], th'[w]) /\ th'[w].cur = th[w].cur /\ th'[w].out = th[w].out
    BY <2>2, Goes, Returns
  <2> QED
    BY <2>1, <2>3, ServeTidy DEF Serving
<1>9. CASE Talk(w) \/ ShowStep(w) \/ BroadcastStep(w) \/ PrivateStep(w)
  <2>1. SendFrame /\ (Turned(w) \/ Looped(w) \/ Through(w) \/ Killed(w))
    BY <1>9, LoopEffects
  <2>2. th[w].pc \in {"talk", "show", "bcast", "private"} /\ UNCHANGED events /\ OthersKept(w)
    BY <1>9, <1>10, <2>1 DEF Talk, ShowStep, BroadcastStep, PrivateStep, At, SendFrame
  <2>3. CASE Killed(w)
    BY <2>1, <2>2, <2>3 DEF Killed, SendFrame
  <2>4. {"talk", "show", "bcast", "private", "say"} \subseteq InBatch \ {"next"}
    BY DEF InBatch, PCs
  <2>5. CASE Turned(w)
    <3>1. th'[w].pc \in {"show", "private", "say"}
      BY <2>5 DEF Turned
    <3>2. ErrsOK(th[w])'
      BY <1>1, <2>2, <2>4, <2>5, <3>1, ErrsOn DEF Turned
    <3> QED
      BY <1>1, <2>5, <3>1, <3>2 DEF Turned, LocalsOK
  <2>6. CASE Looped(w)
    <3>1. th'[w].cur # NoFd
      BY <2>6 DEF Looped, Fds, NoFd
    <3>2. ErrsOK(th[w])'
      BY <1>1, <2>2, <2>4, <2>6, ErrsOn DEF Looped
    <3> QED
      BY <1>1, <2>2, <2>6, <3>1, <3>2 DEF Looped, LocalsOK
  <2>7. CASE Through(w)
    <3>1. ErrsOK(th[w])'
      BY <1>1, <2>2, <2>4, <2>7, ErrsOn DEF Through
    <3> QED
      BY <2>7, <3>1 DEF Through, LocalsOK, NoFd
  <2> QED
    BY <2>1, <2>3, <2>5, <2>6, <2>7
<1> QED
  BY <1>2, <1>3, <1>4, <1>5, <1>6, <1>7, <1>8, <1>9, <1>12, LoopTidy DEF Worker

\* So does every step of the system.
LEMMA NextTidy ==
  ASSUME OneWorker, IInv, SocketsOK, Base, Tidy, [Next]_vars
  PROVE  Tidy'
<1>1. ResetConns \subseteq ResetConns'
  BY ResetsGrow
<1>2. CASE \E w \in Workers : Worker(w)
  <2>1. PICK w \in Workers : Worker(w)
    BY <1>2
  <2>2. \A v \in Workers : v = w
    BY DEF OneWorker
  <2>3. CASE ErrsOK(th[w])' /\ LocalsOK(th[w])'
    BY <2>2, <2>3 DEF Tidy
  <2>4. CASE UNCHANGED <<th, events, sock>>
    BY <1>1, <2>4, TidyStill
  <2> QED
    BY <1>1, <2>1, <2>3, <2>4, WorkerTidy
<1>3. CASE RaceCrash \/ MainJoin \/ Outside \/ UNCHANGED vars
  <2>1. UNCHANGED <<th, events, sock>>
    <3>1. CASE Outside
      BY <3>1 DEF Outside, Environment, Connect, ClientSend, ClientClose, ClientAbort, ResetArrives,
                  PeerBecomes, regVars
    <3> QED
      BY <1>3, <3>1 DEF RaceCrash, Die, MainJoin, vars, netVars, regVars
  <2> QED
    BY <1>1, <2>1, TidyStill
<1> QED
  BY <1>2, <1>3 DEF Next

\* At the start there is nothing to go wrong.
LEMMA InitTidy ==
  ASSUME Init
  PROVE  Tidy
<1>1. \A w \in Workers : th[w].pc = "lock" /\ th[w].cur = 0 /\ th[w].out = Nothing
  BY DEF Init, IdleThread
<1>2. \A w \in Workers : ToDo(th[w]) = {}
  BY <1>1 DEF ToDo, InBatch
<1> QED
  BY <1>1, <1>2 DEF Tidy, ErrsOK, LocalsOK, NoFd

-----------------------------------------------------------------------------
(* The map of clients.                                                     *)

\* The places of a worker between a change of the descriptor and that of its entry.
Unlisted == {"insert", "readname", "erase"}

\* An open connection has its entry, and an entry its connection, or it is one that the branch
\* for errors has left behind.
Exact(f) ==
  /\ IsOpen(f) => f \in Keys
  /\ f \in Keys => \/ IsOpen(f) /\ clients[f].origin = sock[f]
                  \/ clients[f].origin \in ResetConns

PendingOK(t) ==
  /\ t.pc = "insert" /\ t.fd \in Keys => clients[t.fd].origin \in ResetConns
  /\ t.pc \in {"readname", "erase"} => t.fd \in Keys
  /\ t.pc = "show" => t.out.rows \subseteq Users \union ResetConns

RegInv ==
  /\ \A w \in Workers : PendingOK(th[w])
  /\ \A f \in Fds : (\A w \in Workers : ~(th[w].pc \in Unlisted /\ th[w].fd = f)) => Exact(f)

\* What the only worker has to see to.
LEMMA RegBy ==
  ASSUME OneWorker, NEW w \in Workers, PendingOK(th[w])',
         \A f \in Fds : ~(th'[w].pc \in Unlisted /\ th'[w].fd = f) => Exact(f)'
  PROVE  RegInv'
<1>1. \A v \in Workers : v = w
  BY DEF OneWorker
<1> QED
  BY <1>1 DEF RegInv

\* What it means for it now.
LEMMA RegNow ==
  ASSUME OneWorker, NEW w \in Workers, RegInv
  PROVE  /\ PendingOK(th[w])
         /\ \A f \in Fds : ~(th[w].pc \in Unlisted /\ th[w].fd = f) => Exact(f)
<1>1. \A v \in Workers : v = w
  BY DEF OneWorker
<1> QED
  BY <1>1 DEF RegInv

\* A step that touches neither the descriptors nor the map.
LEMMA RegSame ==
  ASSUME OneWorker, NEW w \in Workers, RegInv, UNCHANGED <<sock, clients>>,
         th[w].pc \notin Unlisted, th'[w].pc \notin Unlisted, ResetConns \subseteq ResetConns',
         th'[w].pc = "show" => \/ th[w].pc = "show" /\ th'[w].out = th[w].out
                               \/ th'[w].out.rows = {}
  PROVE  RegInv'
<1>1. /\ PendingOK(th[w])
      /\ \A f \in Fds : ~(th[w].pc \in Unlisted /\ th[w].fd = f) => Exact(f)
  BY RegNow
<1>2. Keys' = Keys /\ Users' = Users
  BY DEF Keys, Users, Range
<1>3. PendingOK(th[w])'
  BY <1>1, <1>2 DEF PendingOK, Unlisted
<1>4. \A f \in Fds : Exact(f)'
  BY <1>1, <1>2 DEF Exact, IsOpen
<1> QED
  BY <1>3, <1>4, RegBy

\* A handler that serves an open descriptor finds its entry, so operator[] makes none.
LEMMA Listed ==
  ASSUME OneWorker, IInv, Base, RegInv, NEW w \in Workers,
         th[w].pc \in Serving \union {"readname"}
  PROVE  /\ th[w].fd \in Fds /\ th[w].fd \in Keys /\ clients[th[w].fd] \in ClientInfo
         /\ Touched(th[w].fd) = clients
         /\ th[w].pc # "readname" => \/ clients[th[w].fd].origin = sock[th[w].fd]
                                    \/ clients[th[w].fd].origin \in ResetConns
<1>1. th[w].fd \in Fds
  BY DEF IInv, ThreadsOK, ThreadOK, InBatch, PCs, Serving
<1>2. th[w].pc # "readname" => IsOpen(th[w].fd)
  BY DEF Base, PlaceOK
<1>3. th[w].pc # "readname" => Exact(th[w].fd)
  BY <1>1, RegNow DEF Unlisted, Serving
<1>4. th[w].fd \in Keys
  BY <1>2, <1>3, RegNow DEF Exact, PendingOK
<1> QED
  BY <1>1, <1>2, <1>3, <1>4, Types DEF Exact, Touched, Keys

\* The steps that change the map or the descriptors keep it exact.
LEMMA MapReg ==
  ASSUME OneWorker, IInv, SocketsOK, Base, Tidy, RegInv, NEW w \in Workers,
         ResetConns \subseteq ResetConns',
         \/ Accept(w) \/ Insert(w) \/ CloseConn(w) \/ ErrClose(w) \/ ReadName(w) \/ Erase(w) \/ SetNick(w)
  PROVE  RegInv'
<1>1. /\ PendingOK(th[w]) /\ PlaceOK(th[w])
      /\ \A f \in Fds : ~(th[w].pc \in Unlisted /\ th[w].fd = f) => Exact(f)
  BY RegNow DEF Base
<1>2. /\ clients \in [Fds -> ClientInfo \union {NoEntry}]
      /\ \A f \in Fds : f \in Keys <=> clients[f] # NoEntry
  BY Types DEF Keys
<1>3. \A f \in Fds : (f \in Keys)' <=> clients'[f] # NoEntry
  BY DEF Keys
<1>4. CASE Accept(w)
  <2>1. CASE Die("errExit") /\ UNCHANGED <<sock, backlog>>
    <3>1. UNCHANGED <<sock, clients, th>> /\ th[w].pc = "accept"
      BY <1>4, <2>1, Accepted DEF Die, regVars
    <3> QED
      BY <3>1, RegSame DEF Unlisted
  <2>2. ASSUME NEW f \in Fds, ~IsOpen(f), sock' = [sock EXCEPT ![f] = Head(backlog)],
               th'[w].fd = f, th'[w].pc = "insert"
        PROVE  RegInv'
    <3>1. UNCHANGED clients /\ th[w].pc = "accept"
      BY <1>4, Accepted DEF regVars
    <3>2. Exact(f)
      BY <1>1, <3>1 DEF Unlisted
    <3>3. PendingOK(th[w])'
      BY <1>2, <1>3, <2>2, <3>1, <3>2 DEF PendingOK, Exact, IsOpen
    <3>4. \A g \in Fds : g # f => Exact(g)'
      <4>1. \A g \in Fds : g # f => sock'[g] = sock[g]
        BY <2>2
      <4>2. \A g \in Fds : Exact(g)
        BY <1>1, <3>1 DEF Unlisted
      <4> QED
        BY <1>2, <1>3, <3>1, <4>1, <4>2 DEF Exact, IsOpen
    <3> QED
      BY <2>2, <3>3, <3>4, RegBy DEF Unlisted
  <2> QED
    BY <1>4, <2>1, <2>2, Accepted
<1>5. CASE Insert(w)
  <2>1. /\ th[w].pc = "insert" /\ th'[w].pc = "addfd" /\ UNCHANGED sock
        /\ th[w].fd \in Fds /\ IsOpen(th[w].fd) /\ sock[th[w].fd] \in Conns
    BY <1>5, Goes, Opens DEF Insert, At, netVars
  <2>2. clients' = IF th[w].fd \in Keys THEN clients
                   ELSE [clients EXCEPT ![th[w].fd] = Fresh(sock[th[w].fd])]
    BY <1>1, <1>5, <2>1 DEF Insert, PlaceOK
  <2>3. Fresh(sock[th[w].fd]) # NoEntry /\ Fresh(sock[th[w].fd]).origin = sock[th[w].fd]
    <3>1. \A c \in Conns : Fresh(c) \in ClientInfo /\ Fresh(c).origin = c
      BY DEF Fresh, ClientInfo
    <3> QED
      BY <2>1, <3>1, EntryAssumption
  <2>4. \A g \in Fds : clients'[g] = IF g = th[w].fd /\ g \notin Keys
                                     THEN Fresh(sock[th[w].fd]) ELSE clients[g]
    BY <1>2, <2>2
  <2>5. \A g \in Fds : Exact(g)'
    <3>1. \A g \in Fds : g = th[w].fd => Exact(g)'
      BY <1>1, <1>2, <1>3, <2>1, <2>3, <2>4 DEF Exact, IsOpen, PendingOK
    <3>2. \A g \in Fds : g # th[w].fd => Exact(g)'
      BY <1>1, <1>2, <1>3, <2>1, <2>4 DEF Exact, IsOpen
    <3> QED
      BY <3>1, <3>2
  <2> QED
    BY <2>1, <2>5, RegBy DEF PendingOK
<1>6. CASE CloseConn(w)
  <2>1. /\ th[w].pc = "close" /\ th'[w].pc = "readname" /\ th'[w].fd = th[w].fd /\ UNCHANGED clients
        /\ th[w].fd \in Fds /\ th[w].fd \in Keys
    BY <1>6, Closing, Goes, Listed DEF Same, regVars, Serving
  <2>2. \A g \in Fds : g # th[w].fd => sock'[g] = sock[g]
    BY <1>6, Closing, Types DEF Close
  <2>3. \A g \in Fds : g # th[w].fd => Exact(g)'
    BY <1>1, <1>2, <1>3, <2>1, <2>2 DEF Exact, IsOpen
  <2> QED
    BY <1>2, <1>3, <2>1, <2>3, RegBy DEF PendingOK, Unlisted
<1>10. CASE ErrClose(w)
  <2>1. /\ th[w].pc = "errclose" /\ th'[w].pc = "next" /\ UNCHANGED clients
        /\ th[w].fd \in Fds /\ IsOpen(th[w].fd) /\ Close(th[w].fd)
    BY <1>10, Closing, Returns DEF regVars
  <2>2. \A g \in Fds : sock'[g] = IF g = th[w].fd THEN None ELSE sock[g]
    BY <2>1, Types DEF Close
  <2>3. sock[th[w].fd] \in ResetConns
    BY <2>1 DEF Tidy, ErrsOK
  <2>4. \A g \in Fds : Exact(g)
    BY <1>1, <2>1 DEF Unlisted
  <2>5. \A g \in Fds : Exact(g)'
    BY <1>2, <1>3, <2>1, <2>2, <2>3, <2>4 DEF Exact, IsOpen
  <2> QED
    BY <2>1, <2>5, RegBy DEF PendingOK
<1>7. CASE ReadName(w)
  <2>1. /\ th[w].pc = "readname" /\ th'[w].pc = "erase" /\ th'[w].fd = th[w].fd
        /\ UNCHANGED sock /\ clients' = Touched(th[w].fd)
    BY <1>7, SpeakMoves DEF ReadName, At, Same, netVars
  <2>2. UNCHANGED clients /\ th[w].fd \in Fds
    BY <2>1, Listed
  <2>3. \A g \in Fds : g # th[w].fd => Exact(g)'
    BY <1>1, <1>2, <1>3, <2>1, <2>2 DEF Exact, IsOpen
  <2> QED
    BY <1>1, <1>2, <1>3, <2>1, <2>2, <2>3, RegBy DEF PendingOK, Unlisted
<1>8. CASE Erase(w)
  <2>1. /\ th[w].pc = "erase" /\ th'[w].pc = "bcast" /\ UNCHANGED sock
        /\ clients' = [clients EXCEPT ![th[w].fd] = NoEntry] /\ ~IsOpen(th[w].fd)
    BY <1>1, <1>8, SpeakMoves DEF Erase, Erased, At, PlaceOK, netVars
  <2>2. \A g \in Fds : clients'[g] = IF g = th[w].fd THEN NoEntry ELSE clients[g]
    BY <1>2, <2>1
  <2>3. \A g \in Fds : Exact(g)'
    BY <1>1, <1>2, <1>3, <2>1, <2>2 DEF Exact, IsOpen
  <2> QED
    BY <2>1, <2>3, RegBy DEF PendingOK
<1>9. CASE SetNick(w)
  <2>1. /\ th[w].pc = "setnick" /\ th'[w].pc = "welcome" /\ UNCHANGED sock
        /\ clients' = [Touched(th[w].fd) EXCEPT ![th[w].fd].nick = th[w].buf,
                                               ![th[w].fd].named = TRUE]
    BY <1>9, Goes DEF SetNick, At, netVars
  <2>2. /\ th[w].fd \in Fds /\ clients[th[w].fd] \in ClientInfo /\ Touched(th[w].fd) = clients
        /\ th[w].fd \in Keys
    BY <2>1, Listed DEF Serving
  <2>3. clients' = [clients EXCEPT ![th[w].fd] = [[clients[th[w].fd] EXCEPT !.nick = th[w].buf]
                                                   EXCEPT !.named = TRUE]]
    BY <1>2, <2>1, <2>2
  <2>4. /\ clients'[th[w].fd] \in ClientInfo /\ clients'[th[w].fd].origin = clients[th[w].fd].origin
        /\ \A g \in Fds : g # th[w].fd => clients'[g] = clients[g]
    <3>1. th[w].buf \in Seq(Msg)
      BY Types DEF Thread
    <3> QED
      BY <1>2, <2>2, <2>3, <3>1 DEF ClientInfo
  <2>5. clients'[th[w].fd] # NoEntry
    BY <2>4, EntryAssumption
  <2>6. \A g \in Fds : Exact(g)'
    <3>1. \A g \in Fds : Exact(g)
      BY <1>1, <2>1 DEF Unlisted
    <3> QED
      BY <1>2, <1>3, <2>1, <2>2, <2>4, <2>5, <3>1 DEF Exact, IsOpen
  <2> QED
    BY <2>1, <2>6, RegBy DEF PendingOK
<1> QED
  BY <1>4, <1>5, <1>6, <1>7, <1>8, <1>9, <1>10

\* The steps that leave both as they are.
LEMMA StillReg ==
  ASSUME OneWorker, IInv, SocketsOK, Base, RegInv, NEW w \in Workers,
         ResetConns \subseteq ResetConns',
         \/ Lock(w) \/ EpollWait(w) \/ EpollInterrupted(w) \/ Unlock(w) \/ NextEvent(w)
         \/ CheckEvent(w) \/ AddFd(w) \/ SetNonblocking(w) \/ Recv(w)
         \/ Dispatch(w) \/ Welcome(w) \/ Say(w)
  PROVE  RegInv'
<1>1. CASE Lock(w) \/ EpollWait(w) \/ EpollInterrupted(w) \/ Unlock(w) \/ NextEvent(w) \/ CheckEvent(w)
  <2>1. UNCHANGED <<sock, clients>>
    BY <1>1, LoopMoves, Polls DEF netVars, regVars
  <2>2. th[w].pc \notin Unlisted
    BY <1>1 DEF Lock, EpollWait, EpollInterrupted, Unlock, NextEvent, CheckEvent, At, Unlisted
  <2>3. th'[w].pc \in {"wait", "unlock", "done", "next", "lock", "check", "errclose", "accept", "recv"}
    <3>1. CASE Lock(w) \/ CheckEvent(w)
      BY <3>1, Goes DEF Lock, CheckEvent
    <3> QED
      BY <1>1, <3>1, LoopMoves, Polls
  <2> QED
    BY <2>1, <2>2, <2>3, RegSame DEF Unlisted
<1>2. CASE AddFd(w) \/ SetNonblocking(w)
  <2>1. UNCHANGED <<sock, clients>> /\ th[w].pc \in {"addfd", "nonblock"} /\ th'[w].pc \in {"nonblock", "next"}
    BY <1>2, Opens, Goes, Returns DEF AddFd, SetNonblocking, At, regVars
  <2> QED
    BY <2>1, RegSame DEF Unlisted
<1>3. CASE Recv(w)
  <2>1. UNCHANGED <<sock, clients>> /\ th[w].pc = "recv"
    BY <1>3, Recvs DEF At, regVars
  <2>2. th'[w].pc \in {"recv", "next", "close", "dispatch"}
    BY <1>3, Recvs, RecvMoves, Returns, Goes
  <2> QED
    BY <2>1, <2>2, RegSame DEF Unlisted
<1>4. CASE Dispatch(w) \/ Welcome(w) \/ Say(w)
  <2>1. th[w].pc \in {"dispatch", "welcome", "say"} /\ UNCHANGED sock
    BY <1>4 DEF Dispatch, Welcome, Say, Announce, At, netVars
  <2>2. UNCHANGED clients
    BY <1>4, <2>1, Listed DEF Dispatch, Welcome, Say, Announce, Serving
  <2>3. th'[w].pc \in {"next", "talk", "setnick", "bcast"}
    <3>1. CASE Dispatch(w)
      BY <3>1, Goes, Returns DEF Dispatch
    <3> QED
      BY <1>4, <3>1, SpeakMoves
  <2> QED
    BY <2>1, <2>2, <2>3, RegSame DEF Unlisted
<1> QED
  BY <1>1, <1>2, <1>3, <1>4

\* The loops read the map: the rows of a list are of users who are online, or were reset.
LEMMA TalkReg ==
  ASSUME OneWorker, IInv, Base, Tidy, RegInv, NEW w \in Workers,
         ResetConns \subseteq ResetConns',
         Talk(w) \/ ShowStep(w) \/ BroadcastStep(w) \/ PrivateStep(w)
  PROVE  RegInv'
<1>1. SendFrame /\ (Turned(w) \/ Looped(w) \/ Through(w) \/ Killed(w))
  BY LoopEffects
<1>2. th[w].pc \in {"talk", "show", "bcast", "private"} /\ UNCHANGED <<sock, clients>>
  BY <1>1 DEF Talk, ShowStep, BroadcastStep, PrivateStep, At, SendFrame
<1>3. CASE Turned(w)
  <2>1. /\ th'[w].pc \in {"show", "private", "say"} /\ th[w].pc = "talk"
        /\ th'[w].pc = "show" => th'[w].out = th[w].out
    BY <1>3 DEF Turned
  <2>2. th[w].out.rows = {}
    BY <2>1 DEF Tidy, LocalsOK, Nothing, Note
  <2> QED
    BY <1>2, <2>1, <2>2, RegSame DEF Unlisted
<1>4. CASE Through(w) \/ Killed(w)
  BY <1>2, <1>4, RegSame DEF Through, Killed, Unlisted
<1>5. CASE Looped(w)
  <2>1. CASE th'[w].out = th[w].out
    BY <1>2, <1>5, <2>1, RegSame DEF Looped, Unlisted
  <2>2. CASE /\ th[w].pc = "show"
             /\ th'[w].out.rows = th[w].out.rows \union {clients[th'[w].cur].origin}
    <3>1. PICK k \in Fds : k = th'[w].cur /\ IsNext(w, k) /\ th'[w].pc = "show"
      BY <1>5, <2>2 DEF Looped
    <3>2. k \in Keys
      BY <3>1 DEF IsNext, Ahead
    <3>3. \A f \in Fds : Exact(f)
      BY <2>2, RegNow DEF Unlisted
    <3>4. clients[k].origin \in Users \union ResetConns
      <4>1. \/ IsOpen(k) /\ clients[k].origin = sock[k] /\ sock[k] \in Conns
            \/ clients[k].origin \in ResetConns
        BY <3>2, <3>3, Types DEF Exact
      <4>2. k \in AllFds
        BY DEF AllFds
      <4> QED
        BY <4>1, <4>2, Types, SocketAssumption DEF Users, Range
    <3>5. Users' = Users /\ Keys' = Keys
      BY <1>2 DEF Users, Keys, Range
    <3>6. PendingOK(th[w])'
      BY <2>2, <3>1, <3>4, <3>5, RegNow DEF PendingOK
    <3>7. \A f \in Fds : Exact(f)'
      BY <1>2, <3>3, <3>5 DEF Exact, IsOpen
    <3> QED
      BY <3>6, <3>7, RegBy
  <2> QED
    BY <1>5, <2>1, <2>2 DEF Looped
<1> QED
  BY <1>1, <1>3, <1>4, <1>5

\* Every step keeps the map.
LEMMA NextReg ==
  ASSUME OneWorker, IInv, SocketsOK, Base, Tidy, RegInv, [Next]_vars
  PROVE  RegInv'
<1>3. ResetConns \subseteq ResetConns'
  BY ResetsGrow
<1>1. CASE \E w \in Workers : Worker(w)
  <2>1. PICK w \in Workers : Worker(w)
    BY <1>1
  <2>2. ~Blocked(w)
    BY DEF Blocked, At, Base, PlaceOK
  <2> QED
    BY <1>3, <2>1, <2>2, MapReg, StillReg, TalkReg DEF Worker
<1>2. CASE RaceCrash \/ MainJoin \/ Outside \/ UNCHANGED vars
  <2>1. UNCHANGED <<th, clients, sock>>
    <3>1. CASE Outside
      BY <3>1 DEF Outside, Environment, Connect, ClientSend, ClientClose, ClientAbort, ResetArrives,
                  PeerBecomes, regVars
    <3> QED
      BY <1>2, <3>1 DEF RaceCrash, Die, MainJoin, vars, netVars, regVars
  <2> QED
    BY <1>3, <2>1 DEF RegInv, PendingOK, Exact, Keys, Users, IsOpen, Range
<1> QED
  BY <1>1, <1>2 DEF Next

\* The map is empty at the start, and so is the table but for the listening socket.
LEMMA InitReg ==
  ASSUME Init
  PROVE  RegInv
<1>1. \A w \in Workers : th[w].pc = "lock"
  BY DEF Init, IdleThread
<1>2. \A f \in Fds : ~IsOpen(f) /\ f \notin Keys
  BY DEF Init, SocketInit, AllFds, Fds, ListenFd, IsOpen, Keys
<1> QED
  BY <1>1, <1>2 DEF RegInv, PendingOK, Exact

-----------------------------------------------------------------------------
(* The theorems.                                                           *)

ServerInv == IInv /\ SocketsOK /\ Base /\ Tidy /\ RegInv

\* What holds in every state with one worker.
LEMMA ServerInvariance ==
  ASSUME OneWorker
  PROVE  Spec => []ServerInv
<1>1. Init => ServerInv
  BY InitIInv, SocketsInit, InitBase, InitTidy, InitReg DEF ServerInv
<1>2. ServerInv /\ [Next]_vars => ServerInv'
  BY NextIInv, NextSockets, NextBase, NextTidy, NextReg DEF ServerInv
<1> QED
  BY <1>1, <1>2, PTL DEF Spec

\* With one worker, between two events the map holds every open connection under its own
\* descriptor, and no entry whose address is another's but those of connections that were
\* reset: whoever leaves in order, and however descriptors are used again, takes its entry
\* along.
THEOREM MapIsExact ==
  ASSUME OneWorker
  PROVE  Spec => []RegistryExact
<1>1. ServerInv => RegistryExact
  <2> SUFFICES ASSUME ServerInv, \A w \in Workers : th[w].pc \in {"lock", "wait", "unlock", "next", "done"}
               PROVE  \A f \in Fds : Exact(f)
    BY DEF RegistryExact, Exact
  <2> QED
    BY DEF ServerInv, RegInv, Unlisted
<1> QED
  BY <1>1, ServerInvariance, PTL

\* With one worker, the users a list of "$ show users" has come to are online or were reset,
\* and still so when it is sent.
THEOREM ListsOnline ==
  ASSUME OneWorker
  PROVE  Spec => []OnlineOnly
<1>1. ServerInv => OnlineOnly
  BY DEF ServerInv, RegInv, PendingOK, OnlineOnly
<1> QED
  BY <1>1, ServerInvariance, PTL

-----------------------------------------------------------------------------
(* How the process ends.                                                   *)

\* A descriptor for every client.
EnoughFds == IsFiniteSet(Conns) /\ Cardinality(Conns) <= MaxFd

\* While a client waits for accept, a descriptor is free for it.
LEMMA FdForHead ==
  ASSUME EnoughFds, IInv, SocketsOK, backlog # <<>>
  PROVE  \E f \in Fds : ~IsOpen(f)
<1> SUFFICES ASSUME \A f \in Fds : IsOpen(f) PROVE FALSE
  OBVIOUS
<1> DEFINE c == Head(backlog)
           others == Conns \ {c}
           at == [f \in Fds |-> sock[f]]
<1>1. c \in Range(backlog) /\ c \in Conns
  BY RangeTail, Types DEF Range
<1>2. \A f \in Fds : sock[f] \in others
  BY <1>1, Types DEF SocketsOK, Waiting
<1>3. at \in Injection(Fds, others)
  BY <1>2 DEF Injection, IsInjective, SocketsOK
<1>4. IsFiniteSet(others) /\ Cardinality(others) = Cardinality(Conns) - 1
  BY <1>1, FS_RemoveElement DEF EnoughFds
<1>5. Cardinality(Fds) = MaxFd /\ MaxFd \in Nat
  BY FS_Interval, SocketAssumption DEF Fds
<1> HIDE DEF at, others
<1>6. Cardinality(Fds) <= Cardinality(others)
  BY <1>3, <1>4, FS_Injection
<1>7. Cardinality(Conns) \in Nat
  BY FS_CardinalityType DEF EnoughFds
<1> QED
  BY <1>4, <1>5, <1>6, <1>7 DEF EnoughFds

\* Nothing happens once the process has ended.
LEMMA EndIsEnd ==
  ASSUME OneWorker, [Next]_vars, status # "running"
  PROVE  UNCHANGED <<conn, sock, clients, status, th>>
<1>1. \A w \in Workers : ~Worker(w)
  BY WorksOn DEF Running
<1>2. ~RaceCrash /\ ~MainJoin /\ ~Outside
  BY DEF RaceCrash, MainJoin, Outside
<1> QED
  BY <1>1, <1>2 DEF Next, vars, netVars, regVars

\* No call fails that ends the process by errExit, and a signal ends it where it is known to.
LEMMA NextEnds ==
  ASSUME OneWorker, EnoughFds, ServerInv, KnownEnds, [Next]_vars, Base'
  PROVE  KnownEnds'
<1> USE DEF ServerInv
<1>1. \A w \in Workers : th'[w].pc # "blocked"
  BY DEF Base, PlaceOK
<1>2. CASE status # "running"
  <2>1. UNCHANGED <<conn, sock, clients, status, th>>
    BY <1>2, EndIsEnd
  <2> QED
    BY <2>1 DEF KnownEnds, Keys, IsOpen
<1>3. ASSUME status = "running", UNCHANGED status
      PROVE  KnownEnds'
  BY <1>1, <1>3 DEF KnownEnds
<1>4. ASSUME NEW w \in Workers, status = "running", Killed(w), SendFrame,
             th[w].pc \in {"talk", "show", "private", "bcast"}
      PROVE  KnownEnds'
  <2>1. UNCHANGED <<th, conn, sock, clients>> /\ status' = "killed" /\ Keys' = Keys
    BY <1>4 DEF Killed, SendFrame, Keys
  <2>2. CASE th[w].pc = "private" /\ TrimDies(th[w].buf)
    BY <1>1, <2>1, <2>2 DEF KnownEnds
  <2>3. ASSUME NEW f \in Fds, SendBroken(f), f \in Keys \/ (f = th[w].fd /\ th[w].pc \in {"talk", "show"})
        PROVE  KnownEnds'
    <3>1. f \in Keys
      BY <2>3, Listed DEF Serving
    <3>2. IsOpen(f) /\ conn[sock[f]].peer = "rst"
      BY <2>3 DEF SendBroken
    <3> QED
      BY <1>1, <1>4, <2>1, <3>1, <3>2 DEF KnownEnds, IsOpen
  <2> QED
    BY <1>4, <2>2, <2>3 DEF Killed
<1>5. ASSUME status = "running", NEW w \in Workers, Worker(w)
      PROVE  KnownEnds'
  <2>1. CASE Lock(w) \/ EpollWait(w) \/ EpollInterrupted(w) \/ Unlock(w) \/ NextEvent(w)
             \/ CheckEvent(w) \/ ErrClose(w) \/ Insert(w) \/ Recv(w) \/ Blocked(w)
    BY <1>3, <1>5, <2>1 DEF Lock, EpollWait, EpollInterrupted, Unlock, NextEvent, CheckEvent, ErrClose,
                            Insert, Recv, Blocked
  <2>2. CASE ReadName(w) \/ Erase(w) \/ Dispatch(w) \/ SetNick(w) \/ Welcome(w) \/ Say(w)
    BY <1>3, <1>5, <2>2 DEF ReadName, Erase, Dispatch, SetNick, Welcome, Say, Announce
  <2>3. CASE Accept(w)
    BY <1>3, <1>5, <2>3, Accepted, FdForHead
  <2>4. CASE AddFd(w) \/ SetNonblocking(w)
    BY <1>3, <1>5, <2>4, Opens
  <2>5. CASE CloseConn(w)
    BY <1>3, <1>5, <2>5, Closing
  <2>6. CASE Talk(w) \/ ShowStep(w) \/ BroadcastStep(w) \/ PrivateStep(w)
    <3>1. SendFrame /\ (UNCHANGED status \/ Killed(w))
      BY <2>6, LoopEffects DEF Turned, Looped, Through
    <3>2. th[w].pc \in {"talk", "show", "private", "bcast"}
      BY <2>6 DEF Talk, ShowStep, BroadcastStep, PrivateStep, At
    <3> QED
      BY <1>3, <1>4, <1>5, <3>1, <3>2
  <2> QED
    BY <1>5, <2>1, <2>2, <2>3, <2>4, <2>5, <2>6 DEF Worker
<1>6. ~RaceCrash
  BY DEF RaceCrash, OneWorker
<1>7. CASE status = "running" /\ MainJoin
  BY <1>1, <1>7 DEF MainJoin, KnownEnds
<1>8. CASE status = "running" /\ (Outside \/ UNCHANGED vars)
  BY <1>3, <1>8 DEF Outside, vars
<1> QED
  BY <1>2, <1>5, <1>6, <1>7, <1>8 DEF Next

\* With one worker and a descriptor for every client, no call a client can bring about ends the
\* process by errExit or puts the worker to sleep in recv, and the process is killed only
\* where a loop sends to a connection that was reset or a private message has blanks for its
\* name.
THEOREM EndsKnown ==
  ASSUME OneWorker, EnoughFds
  PROVE  Spec => []KnownEnds
<1>1. Init => KnownEnds
  BY DEF Init, KnownEnds, IdleThread
<1>2. KnownEnds /\ ServerInv /\ ServerInv' /\ [Next]_vars => KnownEnds'
  BY NextEnds DEF ServerInv
<1> QED
  BY <1>1, <1>2, ServerInvariance, PTL DEF Spec
=============================================================================
