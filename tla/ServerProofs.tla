---------------------------- MODULE ServerProofs ----------------------------
(***************************************************************************)
(* Proofs about the server for any number of workers, clients and events:  *)
(* the types and the mutex, a connection's life (it has one descriptor,    *)
(* once), and that what it sends is never taken for the text of another    *)
(* descriptor.                                                             *)
(***************************************************************************)
EXTENDS ServerProperties, TLAPS

\* What a worker's locals keep to from one step to the next.
ThreadOK(t) ==
  /\ t \in Thread
  /\ t.pc \in InBatch => 1 <= t.idx
  /\ t.pc \in InBatch \ {"next"} => t.idx <= t.cnt /\ t.fd # NoFd
  /\ t.pc \in InBatch \ {"next", "check", "errclose", "accept"} => t.fd \in Fds
  /\ t.pc = "blocked" => t.con \in Conns
  /\ t.pc = "talk" => t.buf # <<>>
  /\ t.pc = "private" => t.out.kind = "private"

ThreadsOK == th \in [Workers -> Thread] /\ \A w \in Workers : ThreadOK(th[w])

\* The listening socket has no descriptor but its own.
DescriptorsOK == \A f \in Fds : sock[f] # Listener

SharedOK ==
  /\ SocketTypeOK /\ DescriptorsOK
  /\ status \in {"running", "joined", "errExit", "killed"}
  /\ mux \in Workers \union {None}
  /\ events \in [1..EPOLL_SIZE -> Event]
  /\ clients \in [Fds -> ClientInfo \union {NoEntry}]

IInv == SharedOK /\ ThreadsOK /\ EventsFilled /\ MuxHeld

-----------------------------------------------------------------------------
(* The locals.                                                             *)

\* A worker that goes to another place inside the batch with its locals as they are.
LEMMA PcStep ==
  ASSUME NEW t, ThreadOK(t), NEW l \in InBatch \ {"next", "blocked", "private"},
         t.pc \in InBatch \ {"next"}, l \in {"errclose", "accept"} \/ t.fd \in Fds,
         l = "talk" => t.buf # <<>>
  PROVE  ThreadOK([t EXCEPT !.pc = l])
BY SMTT(30) DEF ThreadOK, Thread, InBatch, PCs

LEMMA NothingOK == Nothing \in Notice
BY DEF Nothing, Note, Notice, Nick

LEMMA FinishedOK ==
  ASSUME NEW t, ThreadOK(t), t.pc \in InBatch \ {"next"}
  PROVE  ThreadOK(Finished(t)) /\ Finished(t).pc = "next" /\ Finished(t).cnt = t.cnt
<1>1. /\ t.idx + 1 \in 0..EPOLL_SIZE + 1 /\ 1 <= t.idx + 1
  BY ServerAssumption, SMTT(30) DEF ThreadOK, Thread, InBatch, PCs
<1>2. 0 \in AllFds
  BY DEF AllFds, ListenFd
<1>3. Finished(t) \in Thread
  <2>1. /\ t \in Thread /\ <<>> \in Seq(Msg) /\ "next" \in PCs /\ None \in Conns \union {None}
        /\ 0 \in AllFds \union {NoFd}
    BY <1>2 DEF ThreadOK, PCs
  <2> QED
    BY <1>1, <2>1, NothingOK DEF Thread, Finished
<1>4. Finished(t).pc = "next" /\ Finished(t).cnt = t.cnt /\ Finished(t).idx = t.idx + 1
  BY SMTT(30) DEF ThreadOK, Thread, Finished
<1> QED
  BY <1>1, <1>3, <1>4 DEF ThreadOK, InBatch

\* A worker that stays in its batch keeps the invariant, if the shared variables do.
LEMMA BatchStep ==
  ASSUME IInv, NEW w \in Workers, NEW t, ThreadOK(t), Become(w, t),
         th[w].pc \in InBatch, t.pc \in InBatch, t.cnt = th[w].cnt,
         UNCHANGED <<events, mux>>, SharedOK'
  PROVE  IInv'
<1> USE DEF IInv
<1>1. th' \in [Workers -> Thread] /\ th'[w] = t /\ \A v \in Workers \ {w} : th'[v] = th[v]
  BY DEF Become, ThreadOK, ThreadsOK
<1>2. ThreadsOK'
  BY <1>1 DEF ThreadsOK, ThreadOK
<1>3. EventsFilled'
  BY <1>1 DEF EventsFilled
<1>4. MuxHeld'
  BY <1>1 DEF MuxHeld, InBatch
<1> QED
  BY <1>2, <1>3, <1>4

LEMMA ReturnStep ==
  ASSUME IInv, NEW w \in Workers, Return(w), th[w].pc \in InBatch \ {"next"},
         UNCHANGED <<events, mux>>, SharedOK'
  PROVE  IInv'
<1>1. ThreadOK(th[w])
  BY DEF IInv, ThreadsOK
<1>2. "next" \in InBatch
  BY DEF InBatch, PCs
<1> QED
  BY <1>1, <1>2, FinishedOK, BatchStep DEF Return

LEMMA GotoStep ==
  ASSUME IInv, NEW w \in Workers, NEW l \in InBatch \ {"next", "blocked", "private"}, Goto(w, l),
         th[w].pc \in InBatch \ {"next"}, l \in {"errclose", "accept"} \/ th[w].fd \in Fds,
         l = "talk" => th[w].buf # <<>>,
         UNCHANGED <<events, mux>>, SharedOK'
  PROVE  IInv'
<1>1. ThreadOK(th[w]) /\ th[w] \in Thread
  BY DEF IInv, ThreadsOK, ThreadOK
<1>2. [th[w] EXCEPT !.pc = l].pc = l /\ [th[w] EXCEPT !.pc = l].cnt = th[w].cnt
  BY <1>1 DEF Thread
<1> QED
  BY <1>1, <1>2, PcStep, BatchStep DEF Goto

LEMMA LeaveStep ==
  ASSUME IInv, NEW w \in Workers, Goto(w, "lock"), th[w].pc \in InBatch,
         UNCHANGED <<events, mux>>, SharedOK'
  PROVE  IInv'
<1> DEFINE t == [th[w] EXCEPT !.pc = "lock"]
<1>1. "lock" \in PCs /\ "lock" \notin InBatch /\ "blocked" # "lock"
      /\ th[w].pc \notin {"wait", "unlock"}
  BY DEF InBatch, PCs
<1>2. t \in Thread /\ t.pc = "lock" /\ Become(w, t)
  BY <1>1 DEF Thread, Goto, IInv, ThreadsOK
<1> HIDE DEF t
<1>3. th' \in [Workers -> Thread] /\ th'[w] = t /\ \A v \in Workers \ {w} : th'[v] = th[v]
  BY <1>2 DEF Become, IInv, ThreadsOK
<1>4. ThreadOK(t)
  BY <1>1, <1>2 DEF ThreadOK
<1>5. ThreadsOK'
  BY <1>3, <1>4 DEF IInv, ThreadsOK, ThreadOK
<1>6. EventsFilled' /\ MuxHeld'
  BY <1>1, <1>2, <1>3 DEF IInv, EventsFilled, MuxHeld
<1> QED
  BY <1>5, <1>6 DEF IInv

LEMMA DieStep ==
  ASSUME IInv, UNCHANGED <<th, events, mux>>, SharedOK'
  PROVE  IInv'
BY DEF IInv, ThreadsOK, ThreadOK, EventsFilled, MuxHeld

-----------------------------------------------------------------------------
(* The sockets and the map.                                                *)

LEMMA CloseOK ==
  ASSUME SharedOK, NEW f, Close(f)
  PROVE  /\ conn' \in [Conns -> ConnState] /\ ready' \subseteq AllFds
         /\ sock' \in [AllFds -> Conns \union {None, Listener}] /\ DescriptorsOK'
<1>1. \A c \in Conns : [conn[c] EXCEPT !.watch = NoFd] \in ConnState
  BY DEF SharedOK, SocketTypeOK, ConnState
<1>2. conn' \in [Conns -> ConnState]
  BY <1>1 DEF Close, SharedOK, SocketTypeOK
<1>3. sock' \in [AllFds -> Conns \union {None, Listener}] /\ ready' \subseteq AllFds
  BY DEF Close, SharedOK, SocketTypeOK
<1>4. DescriptorsOK'
  BY SocketAssumption DEF Close, DescriptorsOK, SharedOK, SocketTypeOK, AllFds
<1> QED
  BY <1>2, <1>3, <1>4

LEMMA SocketOf ==
  ASSUME SharedOK, NEW f \in Fds, IsOpen(f)
  PROVE  sock[f] \in Conns
BY DEF SharedOK, SocketTypeOK, DescriptorsOK, IsOpen, AllFds

LEMMA SentOK ==
  ASSUME SharedOK, NEW c \in Conns, NEW msg \in Notice
  PROVE  Sent(c, msg) \in [Conns -> ConnState] /\ Reported(c) \in [Conns -> ConnState]
<1>1. conn \in [Conns -> ConnState] /\ conn[c] \in ConnState
  BY DEF SharedOK, SocketTypeOK
<1>2. Append(conn[c].inbox, msg) \in Seq(Notice)
  BY <1>1 DEF ConnState
<1>3. [conn[c] EXCEPT !.peer = "rst"] \in ConnState
  BY <1>1 DEF ConnState
<1>4. \A p \in {"poked", conn[c].peer}, s \in {Append(conn[c].inbox, msg), conn[c].inbox} :
        [conn[c] EXCEPT !.inbox = s, !.peer = p] \in ConnState
  BY <1>1, <1>2 DEF ConnState
<1> QED
  BY <1>1, <1>3, <1>4 DEF Sent, Reported

LEMMA TouchedOK ==
  ASSUME SharedOK, NEW f \in Fds
  PROVE  Touched(f) \in [Fds -> ClientInfo \union {NoEntry}] /\ Touched(f)[f] \in ClientInfo
<1>1. \A c \in Conns \union {None} : Fresh(c) \in ClientInfo
  BY DEF Fresh, ClientInfo
<1> QED
  BY <1>1 DEF SharedOK, Touched, Keys

\* A part of a notice is the notice, but that it is cut.
LEMMA PortionOK ==
  ASSUME NEW f, NEW msg \in Notice, NEW part \in Portions(f, msg)
  PROVE  /\ part \in Notice
         /\ part.kind = msg.kind /\ part.nick = msg.nick /\ part.body = msg.body /\ part.rows = msg.rows
<1>1. part = msg \/ part = [msg EXCEPT !.cut = TRUE]
  BY DEF Portions
<1> QED
  BY <1>1 DEF Notice

LEMMA SendStep ==
  ASSUME IInv, NEW w \in Workers, NEW f \in Fds, NEW msg \in Notice, NEW t, ThreadOK(t),
         th[w].pc \in InBatch \ {"next"}, t.pc \in InBatch, t.cnt = th[w].cnt,
         Send(w, f, msg, t)
  PROVE  IInv'
<1>1. SharedOK /\ UNCHANGED <<events, clients, mux>>
  BY DEF IInv, Send, regVars
<1>2. IsOpen(f) => /\ \A part \in Portions(f, msg) : Sent(sock[f], part) \in [Conns -> ConnState]
                   /\ Reported(sock[f]) \in [Conns -> ConnState]
  <2>1. \A part \in Portions(f, msg) : part \in Notice
    BY PortionOK
  <2> QED
    BY <1>1, <2>1, SocketOf, SentOK
<1>3. SharedOK'
  BY <1>1, <1>2 DEF Send, SendTaken, SharedOK, SocketTypeOK, DescriptorsOK, Die
<1>4. \/ Become(w, t)
      \/ Return(w)
      \/ UNCHANGED th
  BY DEF Send, Die
<1> QED
  BY <1>1, <1>3, <1>4, BatchStep, ReturnStep, DieStep

-----------------------------------------------------------------------------
(* The invariant holds at the start and in every step.                     *)

LEMMA InitIInv == Init => IInv
<1> SUFFICES ASSUME Init PROVE IInv
  OBVIOUS
<1>1. IdleThread \in Thread /\ IdleThread.pc = "lock"
  BY ServerAssumption, NothingOK DEF IdleThread, Thread, PCs, AllFds, ListenFd
<1>2. ThreadsOK
  BY <1>1 DEF Init, ThreadsOK, ThreadOK, InBatch
<1>3. conn \in [Conns -> ConnState]
  BY SocketAssumption DEF Init, SocketInit, ConnState
<1>4. SocketTypeOK /\ DescriptorsOK
  <2>1. backlog \in Seq(Conns) /\ ready \subseteq AllFds
    BY DEF Init, SocketInit
  <2>2. \A f \in Fds : f # ListenFd
    BY SocketAssumption DEF Fds, ListenFd
  <2> QED
    BY <1>3, <2>1, <2>2, SocketAssumption DEF Init, SocketInit, SocketTypeOK, DescriptorsOK, AllFds
<1>5. SharedOK
  BY <1>4, ServerAssumption DEF Init, SharedOK, Event, AllFds
<1>6. EventsFilled /\ MuxHeld
  BY <1>1, ServerAssumption DEF Init, EventsFilled, MuxHeld, InBatch
<1> QED
  BY <1>2, <1>5, <1>6 DEF IInv

\* The batch.
LEMMA BatchActions ==
  ASSUME IInv, NEW w \in Workers,
         Lock(w) \/ EpollWait(w) \/ EpollInterrupted(w) \/ Unlock(w)
  PROVE  IInv'
<1> USE DEF IInv
<1>1. ThreadOK(th[w]) /\ th[w] \in Thread
  BY DEF ThreadsOK, ThreadOK
<1>2. ASSUME NEW t \in Thread, Become(w, t)
      PROVE  th' \in [Workers -> Thread] /\ th'[w] = t /\ \A v \in Workers \ {w} : th'[v] = th[v]
  BY <1>2 DEF Become, ThreadsOK
<1>3. ASSUME NEW t \in Thread, Become(w, t), t.pc \notin InBatch \/ (t.pc = "next" /\ t.idx = 1)
      PROVE  ThreadsOK'
  BY <1>2, <1>3 DEF ThreadsOK, ThreadOK, InBatch, PCs
<1>4. CASE Lock(w)
  <2> DEFINE t == [th[w] EXCEPT !.pc = "wait"]
  <2>1. t \in Thread /\ t.pc = "wait" /\ Become(w, t)
    BY <1>1, <1>4 DEF Thread, PCs, Lock, Goto
  <2>2. ThreadsOK'
    BY <1>3, <2>1 DEF InBatch
  <2>3. MuxHeld' /\ mux' \in Workers \union {None}
    BY <1>2, <1>4, <2>1, ServerAssumption DEF Lock, At, MuxHeld
  <2>4. EventsFilled'
    BY <1>2, <1>4, <2>1 DEF Lock, EventsFilled, InBatch, regVars
  <2> QED
    BY <1>4, <2>2, <2>3, <2>4 DEF Lock, SharedOK, netVars, regVars, SocketTypeOK, DescriptorsOK
<1>5. CASE EpollWait(w)
  <2> DEFINE avail == {f \in ready : Readable(f)}
             Reports(n, batch) ==
               /\ events' = Filled(n, batch)
               /\ ready' = avail \ Range(batch)
               /\ Become(w, [th[w] EXCEPT !.pc = "unlock", !.cnt = n])
  <2>a. PICK n \in 1..MaxEvents : \E batch \in Injection(1..n, avail) : Reports(n, batch)
    BY <1>5 DEF EpollWait
  <2>1. PICK batch \in Injection(1..n, avail) : Reports(n, batch)
    BY <2>a
  <2>2. \A i \in 1..n : batch[i] \in AllFds
    BY <1>5 DEF Injection, IsInjective, SharedOK, SocketTypeOK
  <2>3. \A i \in 1..n : batch[i] # NoFd /\ Failed(batch[i]) \in BOOLEAN
    BY <2>2 DEF Failed, AllFds, Fds, ListenFd, NoFd
  <2>4. events' \in [1..EPOLL_SIZE -> Event]
    BY <2>1, <2>2, <2>3 DEF Filled, Event, SharedOK
  <2> DEFINE t == [th[w] EXCEPT !.pc = "unlock", !.cnt = n]
  <2>5. t \in Thread /\ t.pc = "unlock" /\ t.cnt = n /\ Become(w, t)
    <3>1. "unlock" \in PCs /\ n \in -1..EPOLL_SIZE
      BY ServerAssumption DEF PCs, MaxEvents
    <3> QED
      BY <1>1, <2>1, <3>1 DEF Thread
  <2>6. ThreadsOK'
    BY <1>3, <2>5 DEF InBatch
  <2>7. MuxHeld'
    BY <1>2, <1>5, <2>5 DEF EpollWait, At, MuxHeld
  <2>8. EventsFilled'
    <3> SUFFICES ASSUME NEW v \in Workers, th'[v].pc \in InBatch \union {"unlock"},
                        NEW i \in 1..th'[v].cnt
                 PROVE  events'[i].fd # NoFd
      BY DEF EventsFilled
    <3>1. i \in 1..EPOLL_SIZE
      BY <2>6, ServerAssumption, SMTT(30) DEF ThreadsOK, Thread
    <3>2. CASE i \in 1..n
      BY <2>1, <2>3, <3>1, <3>2 DEF Filled
    <3>3. CASE i \notin 1..n
      <4>1. v # w /\ th'[v] = th[v]
        BY <1>2, <2>5, <3>3
      <4> QED
        BY <2>1, <3>1, <3>3, <4>1 DEF Filled, EventsFilled
    <3> QED
      BY <3>2, <3>3
  <2>9. SharedOK'
    BY <1>5, <2>1, <2>4 DEF EpollWait, SharedOK, SocketTypeOK, DescriptorsOK
  <2> QED
    BY <2>6, <2>7, <2>8, <2>9
<1>6. CASE EpollInterrupted(w)
  <2> DEFINE t == [th[w] EXCEPT !.pc = "unlock", !.cnt = -1]
  <2>1. t \in Thread /\ t.pc = "unlock" /\ t.cnt = -1 /\ Become(w, t)
    <3>1. "unlock" \in PCs /\ -1 \in -1..EPOLL_SIZE
      BY ServerAssumption DEF PCs
    <3> QED
      BY <1>1, <1>6, <3>1 DEF Thread, EpollInterrupted
  <2>2. ThreadsOK'
    BY <1>3, <2>1 DEF InBatch
  <2>3. MuxHeld'
    BY <1>2, <1>6, <2>1 DEF EpollInterrupted, At, MuxHeld
  <2>4. EventsFilled'
    <3>1. UNCHANGED events /\ th'[w].cnt = -1 /\ \A v \in Workers \ {w} : th'[v] = th[v]
      BY <1>2, <1>6, <2>1 DEF EpollInterrupted, regVars
    <3>2. \A i \in 1..-1 : FALSE
      OBVIOUS
    <3> QED
      BY <3>1, <3>2 DEF EventsFilled
  <2> QED
    BY <1>6, <2>2, <2>3, <2>4
    DEF EpollInterrupted, SharedOK, netVars, regVars, SocketTypeOK, DescriptorsOK
<1>7. CASE Unlock(w)
  <2> DEFINE t == IF th[w].cnt < 0 THEN [th[w] EXCEPT !.pc = "done"]
                                   ELSE [th[w] EXCEPT !.pc = "next", !.idx = 1]
  <2>1. /\ t \in Thread /\ Become(w, t) /\ t.cnt = th[w].cnt
        /\ t.pc = "done" \/ (t.pc = "next" /\ t.idx = 1)
    <3>1. "done" \in PCs /\ "next" \in PCs /\ 1 \in 0..EPOLL_SIZE + 1
      BY ServerAssumption DEF PCs
    <3> QED
      BY <1>1, <1>7, <3>1 DEF Thread, Unlock
  <2>2. ThreadsOK'
    BY <1>3, <2>1 DEF InBatch
  <2>3. MuxHeld' /\ mux' = None
    BY <1>2, <1>7, <2>1, ServerAssumption DEF Unlock, At, MuxHeld
  <2>4. EventsFilled'
    <3>1. /\ UNCHANGED events /\ th[w].pc = "unlock" /\ th'[w].cnt = th[w].cnt
          /\ \A v \in Workers \ {w} : th'[v] = th[v]
      BY <1>2, <1>7, <2>1 DEF Unlock, At, regVars
    <3> QED
      BY <3>1 DEF EventsFilled
  <2> QED
    BY <1>7, <2>2, <2>3, <2>4 DEF Unlock, SharedOK, netVars, regVars, SocketTypeOK, DescriptorsOK
<1> QED
  BY <1>4, <1>5, <1>6, <1>7

\* One event: the listening socket or a failed client.
LEMMA EventActions ==
  ASSUME IInv, NEW w \in Workers,
         NextEvent(w) \/ CheckEvent(w) \/ ErrClose(w) \/ Accept(w) \/ Insert(w) \/ AddFd(w)
         \/ SetNonblocking(w)
  PROVE  IInv'
<1>1. SharedOK /\ ThreadOK(th[w]) /\ th[w] \in Thread
  BY DEF IInv, ThreadsOK, ThreadOK
<1>2. CASE NextEvent(w)
  <2>1. SharedOK' /\ UNCHANGED <<events, mux>>
    BY <1>1, <1>2 DEF NextEvent, netVars, regVars, SharedOK, SocketTypeOK, DescriptorsOK
  <2>2. CASE th[w].idx > th[w].cnt
    <3>1. Goto(w, "lock") /\ th[w].pc \in InBatch
      BY <1>2, <2>2 DEF NextEvent, At, Goto, InBatch, PCs
    <3> QED
      BY <2>1, <3>1, LeaveStep
  <2>3. CASE ~(th[w].idx > th[w].cnt)
    <3> DEFINE t == [th[w] EXCEPT !.pc = "check", !.fd = events[th[w].idx].fd]
    <3>1. /\ th[w].pc = "next" /\ "next" \in InBatch /\ "check" \in InBatch
          /\ 1 <= th[w].idx /\ th[w].idx <= th[w].cnt
      BY <1>1, <1>2, <2>3 DEF NextEvent, At, InBatch, PCs, ThreadOK, Thread
    <3>2. th[w].idx \in 1..th[w].cnt /\ th[w].idx \in 1..EPOLL_SIZE
      BY <1>1, <3>1, ServerAssumption DEF Thread
    <3>3. events[th[w].idx].fd \in AllFds \union {NoFd} /\ events[th[w].idx].fd # NoFd
      BY <1>1, <3>1, <3>2 DEF SharedOK, Event, IInv, EventsFilled
    <3>4. t \in Thread /\ t.pc = "check" /\ t.cnt = th[w].cnt /\ t.idx = th[w].idx /\ t.fd # NoFd
      BY <1>1, <3>3 DEF Thread, PCs
    <3>5. ThreadOK(t)
      BY <3>1, <3>4 DEF ThreadOK
    <3> QED
      BY <1>2, <2>1, <2>3, <3>1, <3>4, <3>5, BatchStep DEF NextEvent
  <2> QED
    BY <2>2, <2>3
<1>3. CASE CheckEvent(w)
  <2>1. SharedOK' /\ UNCHANGED <<events, mux>>
    BY <1>1, <1>3 DEF CheckEvent, netVars, regVars, SharedOK, SocketTypeOK, DescriptorsOK
  <2>2. th[w].pc \in InBatch \ {"next"} /\ th[w].fd # NoFd
    BY <1>1, <1>3 DEF CheckEvent, At, InBatch, PCs, ThreadOK
  <2>3. th[w].fd # ListenFd => th[w].fd \in Fds
    BY <1>1, <2>2 DEF Thread, AllFds
  <2>4. \E l \in {"errclose", "accept", "recv"} :
          Goto(w, l) /\ (l = "recv" => th[w].fd # ListenFd)
    BY <1>3 DEF CheckEvent
  <2>5. {"errclose", "accept", "recv"} \subseteq InBatch \ {"next", "blocked"}
    BY DEF InBatch, PCs
  <2> QED
    BY <2>1, <2>2, <2>3, <2>4, <2>5, GotoStep
<1>4. CASE ErrClose(w)
  <2>1. th[w].pc \in InBatch \ {"next"}
    BY <1>4 DEF ErrClose, At, InBatch, PCs
  <2>2. SharedOK'
    BY <1>1, <1>4, CloseOK DEF ErrClose, regVars, SharedOK, SocketTypeOK, DescriptorsOK
  <2> QED
    BY <1>4, <2>1, <2>2, ReturnStep DEF ErrClose, regVars
<1>5. CASE Accept(w)
  <2>1. th[w].pc = "accept" /\ th[w].pc \in InBatch \ {"next"} /\ UNCHANGED <<conn, ready, regVars, mux>>
    BY <1>5 DEF Accept, At, InBatch, PCs
  <2>2. CASE AcceptFails
    BY <1>1, <2>1, <2>2, DieStep
    DEF AcceptFails, Die, regVars, SharedOK, SocketTypeOK, DescriptorsOK
  <2>3. CASE AcceptNone(w)
    <3>1. SharedOK'
      BY <1>1, <2>1, <2>3 DEF AcceptNone, regVars, SharedOK, SocketTypeOK, DescriptorsOK
    <3> QED
      BY <2>1, <2>3, <3>1, LeaveStep DEF AcceptNone, regVars
  <2>4. CASE AcceptOne(w)
    <3> DEFINE t(f) == [th[w] EXCEPT !.pc = "insert", !.fd = f, !.con = Head(backlog)]
    <3>1. PICK f \in Fds : /\ sock' = [sock EXCEPT ![f] = Head(backlog)]
                           /\ Become(w, t(f))
      BY <2>4 DEF AcceptOne
    <3>2. Head(backlog) \in Conns /\ Tail(backlog) \in Seq(Conns)
      BY <1>1, <2>4 DEF AcceptOne, SharedOK, SocketTypeOK
    <3>3. SharedOK'
      BY <1>1, <2>1, <2>4, <3>1, <3>2, SocketAssumption
      DEF AcceptOne, SharedOK, SocketTypeOK, DescriptorsOK, regVars, AllFds
    <3>4. /\ t(f) \in Thread /\ t(f).pc = "insert" /\ t(f).cnt = th[w].cnt /\ t(f).idx = th[w].idx
          /\ t(f).fd = f /\ f # NoFd
      <4>1. "insert" \in PCs /\ f \in AllFds /\ f # NoFd
        BY DEF PCs, AllFds, Fds, NoFd
      <4> QED
        BY <1>1, <3>2, <4>1 DEF Thread
    <3>5. ThreadOK(t(f))
      BY <1>1, <2>1, <3>4 DEF ThreadOK, InBatch, PCs
    <3>6. "insert" \in InBatch
      BY DEF InBatch, PCs
    <3> QED
      BY <2>1, <3>1, <3>3, <3>4, <3>5, <3>6, BatchStep DEF regVars
  <2> QED
    BY <1>5, <2>2, <2>3, <2>4 DEF Accept
<1>6. CASE Insert(w)
  <2>1. /\ th[w].pc \in InBatch \ {"next"} /\ th[w].fd \in Fds
        /\ "addfd" \in InBatch \ {"next", "blocked"}
    BY <1>1, <1>6 DEF Insert, At, InBatch, PCs, ThreadOK
  <2>2. Fresh(th[w].con) \in ClientInfo
    BY <1>1 DEF Fresh, ClientInfo, Thread
  <2>3. SharedOK'
    BY <1>1, <1>6, <2>2 DEF Insert, netVars, SharedOK, SocketTypeOK, DescriptorsOK
  <2> QED
    BY <1>6, <2>1, <2>3, GotoStep DEF Insert
<1>7. CASE AddFd(w)
  <2>1. /\ th[w].pc \in InBatch \ {"next"} /\ th[w].fd \in Fds
        /\ "nonblock" \in InBatch \ {"next", "blocked"}
    BY <1>1, <1>7 DEF AddFd, At, InBatch, PCs, ThreadOK
  <2>2. conn' \in [Conns -> ConnState]
    <3>1. conn \in [Conns -> ConnState] /\ th[w].fd \in Fds \union {NoFd}
      BY <1>1, <2>1 DEF SharedOK, SocketTypeOK
    <3>2. \A c \in Conns : [conn[c] EXCEPT !.watch = th[w].fd] \in ConnState
      BY <3>1, ZenonT(30) DEF ConnState
    <3>3. \/ UNCHANGED conn
          \/ sock[th[w].fd] \in Conns
             /\ conn' = [conn EXCEPT ![sock[th[w].fd]].watch = th[w].fd]
      BY <1>1, <1>7, <2>1, SocketOf DEF AddFd
    <3> QED
      BY <3>1, <3>2, <3>3
  <2>3. ready \union {th[w].fd} \subseteq AllFds
    BY <1>1, <2>1 DEF SharedOK, SocketTypeOK, AllFds
  <2>4. SharedOK'
    BY <1>1, <1>7, <2>1, <2>2, <2>3, SocketOf
    DEF AddFd, Die, regVars, SharedOK, SocketTypeOK, DescriptorsOK
  <2>5. Goto(w, "nonblock") \/ UNCHANGED th
    BY <1>7 DEF AddFd, Die
  <2> QED
    BY <1>7, <2>1, <2>4, <2>5, GotoStep, DieStep DEF AddFd, regVars
<1>8. CASE SetNonblocking(w)
  <2>1. th[w].pc \in InBatch \ {"next"}
    BY <1>8 DEF SetNonblocking, At, InBatch, PCs
  <2>2. \A c \in Conns : [conn[c] EXCEPT !.nonblock = TRUE] \in ConnState
    BY <1>1, ZenonT(30) DEF SharedOK, SocketTypeOK, ConnState
  <2>3. conn' \in [Conns -> ConnState]
    BY <1>1, <1>8, <2>2 DEF SetNonblocking, SharedOK, SocketTypeOK
  <2>4. SharedOK'
    BY <1>1, <1>8, <2>3 DEF SetNonblocking, Die, regVars, SharedOK, SocketTypeOK, DescriptorsOK
  <2>5. Return(w) \/ UNCHANGED th
    BY <1>8 DEF SetNonblocking, Die
  <2> QED
    BY <1>8, <2>1, <2>4, <2>5, ReturnStep, DieStep DEF SetNonblocking, regVars
<1> QED
  BY <1>2, <1>3, <1>4, <1>5, <1>6, <1>7, <1>8

\* A worker in a handler, where readyFd is a client's descriptor.
InHandler == InBatch \ {"next", "check", "errclose", "accept"}

LEMMA Handler ==
  ASSUME IInv, NEW w \in Workers, NEW l \in InHandler, At(w, l)
  PROVE  /\ SharedOK /\ ThreadOK(th[w]) /\ th[w] \in Thread
         /\ th[w].pc = l /\ th[w].pc \in InBatch \ {"next"} /\ th[w].fd \in Fds
BY DEF IInv, ThreadsOK, ThreadOK, InHandler, At

\* Reading.
LEMMA RecvFromStep ==
  ASSUME IInv, NEW w \in Workers, th[w].pc \in InHandler, NEW c \in Conns, RecvFrom(w, c),
         UNCHANGED <<sock, backlog, ready, regVars, status, mux>>
  PROVE  IInv'
<1>1. SharedOK /\ ThreadOK(th[w]) /\ th[w] \in Thread /\ conn \in [Conns -> ConnState]
      /\ {"recv", "close"} \subseteq InHandler /\ InHandler \subseteq InBatch \ {"next"}
  BY DEF IInv, ThreadsOK, ThreadOK, SharedOK, SocketTypeOK, InHandler, InBatch, PCs
<1>2. ASSUME conn' \in [Conns -> ConnState]
      PROVE  SharedOK'
  BY <1>1, <1>2 DEF SharedOK, SocketTypeOK, DescriptorsOK, regVars
<1>3. CASE conn[c].rx # <<>> /\ Take(w, c)
  <2>1. Head(conn[c].rx) \in Msg /\ Tail(conn[c].rx) \in Seq(Msg)
    BY <1>1, <1>3 DEF ConnState
  <2>2. conn' \in [Conns -> ConnState]
    BY <1>1, <1>3, <2>1, ZenonT(30) DEF Take, ConnState
  <2>3. Append(th[w].buf, Head(conn[c].rx)) \in Seq(Msg)
    BY <1>1, <2>1 DEF Thread
  <2> DEFINE t == [th[w] EXCEPT !.pc = "recv", !.con = None,
                                !.buf = Append(th[w].buf, Head(conn[c].rx))]
  <2>4. t \in Thread /\ t.pc = "recv" /\ t.cnt = th[w].cnt /\ t.idx = th[w].idx /\ t.fd = th[w].fd
    BY <1>1, <2>3 DEF Thread, InHandler, InBatch
  <2>5. ThreadOK(t)
    BY <1>1, <2>4 DEF ThreadOK, InHandler
  <2> QED
    BY <1>1, <1>2, <1>3, <2>2, <2>4, <2>5, BatchStep DEF Take, regVars
<1>4. CASE conn' = Reported(c) /\ Return(w)
  <2>1. Reported(c) \in [Conns -> ConnState]
    BY <1>1, NothingOK, SentOK
  <2> QED
    BY <1>1, <1>2, <1>4, <2>1, ReturnStep DEF regVars
<1>5. CASE Become(w, [th[w] EXCEPT !.pc = "close", !.con = None]) /\ UNCHANGED conn
  <2> DEFINE t == [th[w] EXCEPT !.pc = "close", !.con = None]
  <2>1. t \in Thread /\ t.pc = "close" /\ t.cnt = th[w].cnt /\ t.idx = th[w].idx /\ t.fd = th[w].fd
    BY <1>1 DEF Thread, InHandler, InBatch
  <2>2. ThreadOK(t)
    BY <1>1, <2>1 DEF ThreadOK, InHandler
  <2> QED
    BY <1>1, <1>2, <1>5, <2>1, <2>2, BatchStep DEF regVars
<1> QED
  BY <1>3, <1>4, <1>5 DEF RecvFrom

LEMMA ReadingActions ==
  ASSUME IInv, NEW w \in Workers, Recv(w) \/ Blocked(w)
  PROVE  IInv'
<1>1. {"recv", "blocked", "dispatch"} \subseteq InHandler
  BY DEF InHandler, InBatch, PCs
<1>2. CASE Recv(w)
  <2>1. /\ SharedOK /\ ThreadOK(th[w]) /\ th[w] \in Thread /\ th[w].pc = "recv"
        /\ th[w].pc \in InBatch \ {"next"} /\ th[w].fd \in Fds
    BY <1>1, <1>2, Handler DEF Recv
  <2> DEFINE c == sock[th[w].fd]
  <2>2. IsOpen(th[w].fd) => c \in Conns
    BY <2>1, SocketOf
  <2>3. ASSUME UNCHANGED conn
        PROVE  SharedOK'
    BY <1>2, <2>1, <2>3 DEF Recv, SharedOK, SocketTypeOK, DescriptorsOK, regVars
  <2>4. CASE Return(w) /\ UNCHANGED conn
    BY <1>2, <2>1, <2>3, <2>4, ReturnStep DEF Recv, regVars
  <2>5. CASE IsOpen(th[w].fd) /\ RecvFrom(w, c)
    BY <1>1, <1>2, <2>1, <2>2, <2>5, RecvFromStep DEF Recv
  <2>6. CASE IsOpen(th[w].fd) /\ UNCHANGED conn /\ Goto(w, "dispatch")
    BY <1>1, <1>2, <2>1, <2>3, <2>6, GotoStep DEF Recv, regVars, InHandler
  <2>7. CASE /\ IsOpen(th[w].fd) /\ UNCHANGED conn
             /\ Become(w, [th[w] EXCEPT !.pc = "blocked", !.con = c])
    <3> DEFINE t == [th[w] EXCEPT !.pc = "blocked", !.con = c]
    <3>1. /\ t \in Thread /\ t.pc = "blocked" /\ t.cnt = th[w].cnt /\ t.idx = th[w].idx
          /\ t.fd = th[w].fd /\ t.con \in Conns
      BY <1>1, <2>1, <2>2, <2>7 DEF Thread, InHandler, InBatch
    <3>2. ThreadOK(t) /\ t.pc \in InBatch
      BY <1>1, <2>1, <3>1 DEF ThreadOK, InHandler
    <3> QED
      BY <1>2, <2>1, <2>3, <2>7, <3>1, <3>2, BatchStep DEF Recv, regVars
  <2> QED
    BY <1>2, <2>4, <2>5, <2>6, <2>7 DEF Recv, Goto
<1>3. CASE Blocked(w)
  <2>1. ThreadOK(th[w]) /\ th[w].pc = "blocked"
    BY <1>1, <1>3, Handler DEF Blocked
  <2> QED
    BY <1>1, <1>3, <2>1, RecvFromStep DEF Blocked, ThreadOK
<1> QED
  BY <1>2, <1>3

\* Inside a handler con, buf, cur and out may change freely.
LEMMA HandlerMove ==
  ASSUME NEW t, ThreadOK(t), t.pc \in InHandler,
         NEW u \in Thread, u.pc \in InHandler \ {"blocked"},
         u.cnt = t.cnt, u.idx = t.idx, u.fd = t.fd,
         u.pc = "talk" => u.buf # <<>>, u.pc = "private" => u.out.kind = "private"
  PROVE  ThreadOK(u) /\ u.pc \in InBatch
BY DEF ThreadOK, InHandler

LEMMA NoteOK ==
  ASSUME NEW kind \in {"welcome", "leave", "say", "private", "users", "caution"},
         NEW nick \in Nick, NEW body \in Seq(Msg), NEW rows \in SUBSET (Conns \union {None})
  PROVE  Note(kind, nick, body, rows) \in Notice
BY DEF Note, Notice

\* A handler writes the map and announces what it has found there.
LEMMA AnnounceStep ==
  ASSUME IInv, NEW w \in Workers, NEW from \in InHandler \ {"blocked"}, At(w, from),
         NEW to \in {"bcast", "erase"}, NEW kind \in {"welcome", "leave", "say"},
         NEW body \in Seq(Msg),
         clients' = Touched(th[w].fd),
         Become(w, [th[w] EXCEPT !.pc = to,
                                 !.out = Note(kind, clients'[th[w].fd].nick, body, {})]),
         UNCHANGED <<netVars, events, status, mux>>
  PROVE  IInv'
<1>1. /\ SharedOK /\ th[w] \in Thread /\ th[w].pc = from /\ th[w].fd \in Fds
      /\ th[w].pc \in InBatch
  BY Handler
<1>2. /\ clients' \in [Fds -> ClientInfo \union {NoEntry}] /\ clients'[th[w].fd] \in ClientInfo
  BY <1>1, TouchedOK
<1>3. SharedOK'
  BY <1>1, <1>2 DEF SharedOK, SocketTypeOK, DescriptorsOK, netVars
<1> DEFINE o == Note(kind, clients'[th[w].fd].nick, body, {})
<1>4. o \in Notice
  BY <1>2, NoteOK DEF ClientInfo, Nick
<1> HIDE DEF o
<1> DEFINE t == [th[w] EXCEPT !.pc = to, !.out = o]
<1>5. to \in InHandler \ {"blocked"} /\ to \in PCs
  BY DEF InHandler, InBatch, PCs
<1>6. t \in Thread /\ t.pc = to /\ t.cnt = th[w].cnt /\ t.idx = th[w].idx /\ t.fd = th[w].fd
  BY <1>1, <1>4, <1>5 DEF Thread
<1>7. Become(w, t)
  BY DEF o
<1> HIDE DEF t
<1>8. ThreadOK(t) /\ t.pc \in InBatch
  BY <1>1, <1>5, <1>6, HandlerMove DEF IInv, ThreadsOK
<1> QED
  BY <1>1, <1>3, <1>6, <1>7, <1>8, BatchStep

\* A client that has left.
LEMMA LeavingActions ==
  ASSUME IInv, NEW w \in Workers, CloseConn(w) \/ ReadName(w) \/ Erase(w)
  PROVE  IInv'
<1>1. {"close", "readname", "erase", "bcast"} \subseteq InHandler \ {"blocked"}
  BY DEF InHandler, InBatch, PCs
<1>2. CASE CloseConn(w)
  <2>1. SharedOK /\ th[w].pc \in InBatch \ {"next"} /\ th[w].fd \in Fds
    BY <1>1, <1>2, Handler DEF CloseConn
  <2>2. SharedOK'
    BY <1>2, <2>1, CloseOK DEF CloseConn, Die, regVars, SharedOK, SocketTypeOK, DescriptorsOK
  <2>3. Goto(w, "readname") \/ UNCHANGED th
    BY <1>2 DEF CloseConn, Die
  <2> QED
    BY <1>1, <1>2, <2>1, <2>2, <2>3, GotoStep, DieStep DEF CloseConn, regVars, InHandler
<1>3. CASE ReadName(w)
  <2>1. <<>> \in Seq(Msg)
    OBVIOUS
  <2> QED
    BY <1>1, <1>3, <2>1, AnnounceStep DEF ReadName
<1>4. CASE Erase(w)
  <2>1. /\ SharedOK /\ ThreadOK(th[w]) /\ th[w] \in Thread /\ th[w].fd \in Fds /\ th[w].pc = "erase"
    BY <1>1, <1>4, Handler DEF Erase
  <2>2. SharedOK'
    BY <1>4, <2>1 DEF Erase, Erased, SharedOK, SocketTypeOK, DescriptorsOK, netVars
  <2> DEFINE u(name) == [th[w] EXCEPT !.pc = "bcast", !.out.nick = name]
             s(v) == [th[v] EXCEPT !.cur = NoFd]
  <2>3. PICK name \in {th[w].out.nick, Garbage} :
          th' = [v \in Workers |-> IF v = w THEN u(name)
                                   ELSE IF th[v].cur = th[w].fd THEN s(v) ELSE th[v]]
    BY <1>4 DEF Erase
  <2>4. /\ u(name) \in Thread /\ u(name).pc = "bcast" /\ u(name).cnt = th[w].cnt
        /\ u(name).idx = th[w].idx /\ u(name).fd = th[w].fd
    <3>1. [th[w].out EXCEPT !.nick = name] \in Notice
      BY <2>1, <2>3 DEF Thread, Notice, Nick
    <3>2. "bcast" \in PCs
      BY DEF PCs
    <3> QED
      BY <2>1, <3>1, <3>2 DEF Thread
  <2>5. ThreadOK(u(name))
    BY <1>1, <2>1, <2>4 DEF ThreadOK, InHandler
  <2>6. \A v \in Workers : /\ s(v) \in Thread /\ s(v).pc = th[v].pc /\ s(v).cnt = th[v].cnt
                           /\ s(v).idx = th[v].idx /\ s(v).fd = th[v].fd /\ s(v).con = th[v].con
    BY DEF IInv, ThreadsOK, Thread
  <2>7. \A v \in Workers : ThreadOK(th[v]) /\ ThreadOK(s(v))
    BY <2>6 DEF IInv, ThreadsOK, ThreadOK
  <2> HIDE DEF u, s
  <2>8. ThreadsOK'
    BY <2>3, <2>4, <2>5, <2>6, <2>7 DEF ThreadsOK, ThreadOK
  <2>9. /\ \A v \in Workers \ {w} : th'[v].pc = th[v].pc /\ th'[v].cnt = th[v].cnt
        /\ th'[w].pc = "bcast" /\ th'[w].cnt = th[w].cnt
        /\ UNCHANGED <<events, mux>>
    BY <1>4, <2>3, <2>4, <2>6 DEF Erase
  <2>10. EventsFilled' /\ MuxHeld'
    <3>1. "erase" \in InBatch
      BY DEF InBatch, PCs
    <3> QED
      BY <2>1, <2>9, <3>1 DEF IInv, EventsFilled, MuxHeld
  <2> QED
    BY <2>2, <2>8, <2>10 DEF IInv
<1> QED
  BY <1>2, <1>3, <1>4

\* Where a worker may stand when it knows what its text is.
LEMMA RoutedIs ==
  ASSUME IInv, NEW w \in Workers, At(w, "talk"), NEW t \in Routed(th[w])
  PROVE  /\ ThreadOK(t) /\ t \in Thread /\ t.pc \in {"show", "private", "say"}
         /\ t.cnt = th[w].cnt /\ t.idx = th[w].idx /\ t.fd = th[w].fd /\ t.con = th[w].con
         /\ t.buf = th[w].buf /\ t.cur = th[w].cur
         /\ t.pc = "private" <=> IsPrivate(th[w].buf)
         /\ t.pc = "private" => /\ t.out.kind = "private" /\ t.out.body = th[w].buf
                                /\ t.out.nick \in NamesRead(th[w].buf) /\ t.out.rows = {} /\ ~t.out.cut
         /\ t.pc # "private" => t.out = th[w].out /\ t.pc = Route(th[w].buf)
<1>1. {"talk", "show", "private", "say"} \subseteq InHandler \ {"blocked"} /\ InHandler \subseteq PCs
  BY DEF InHandler, InBatch, PCs
<1>2. /\ th[w] \in Thread /\ th[w].pc = "talk" /\ th[w].buf # <<>> /\ ThreadOK(th[w])
  BY DEF IInv, ThreadsOK, ThreadOK, At
<1>3. CASE IsPrivate(th[w].buf)
  <2>1. PICK name \in NamesRead(th[w].buf) :
          t = [th[w] EXCEPT !.pc = "private", !.out = Note("private", name, th[w].buf, {})]
    BY <1>3 DEF Routed
  <2>2. th[w].buf \in Seq(Msg) /\ Head(th[w].buf) \in Msg
    BY <1>2 DEF Thread
  <2>3. FirstWord(Head(th[w].buf).to) \in Seq(Msg) /\ <<>> \in Seq(Msg)
    <3>1. [src |-> Head(th[w].buf).to, no |-> 1, form |-> "word", to |-> Head(th[w].buf).to] \in Msg
      BY <2>2 DEF Msg, Forms
    <3> QED
      BY <3>1 DEF FirstWord
  <2>4. name \in Nick
    BY <2>3 DEF NamesRead, Nick
  <2>5. PICK o : o = Note("private", name, th[w].buf, {})
    OBVIOUS
  <2>6. o \in Notice /\ o.kind = "private" /\ o.nick = name /\ o.body = th[w].buf /\ o.rows = {} /\ ~o.cut
    <3>1. o \in Notice
      BY <2>2, <2>4, <2>5, NoteOK
    <3> QED
      BY <2>5, <3>1 DEF Note
  <2>7. t = [th[w] EXCEPT !.pc = "private", !.out = o]
    BY <2>1, <2>5
  <2>8. /\ t \in Thread /\ t.pc = "private" /\ t.out = o
        /\ t.cnt = th[w].cnt /\ t.idx = th[w].idx /\ t.fd = th[w].fd /\ t.con = th[w].con
        /\ t.buf = th[w].buf /\ t.cur = th[w].cur
    BY <1>1, <1>2, <2>6, <2>7 DEF Thread
  <2>9. ThreadOK(t)
    BY <1>1, <1>2, <2>6, <2>8, HandlerMove
  <2> QED
    BY <1>3, <2>6, <2>8, <2>9
<1>4. CASE ~IsPrivate(th[w].buf)
  <2>1. /\ t = [th[w] EXCEPT !.pc = Route(th[w].buf)]
        /\ Route(th[w].buf) \in {"show", "say"}
    BY <1>4 DEF Routed, Route
  <2>2. /\ t \in Thread /\ t.pc = Route(th[w].buf) /\ t.out = th[w].out
        /\ t.cnt = th[w].cnt /\ t.idx = th[w].idx /\ t.fd = th[w].fd /\ t.con = th[w].con
        /\ t.buf = th[w].buf /\ t.cur = th[w].cur
    BY <1>1, <1>2, <2>1 DEF Thread
  <2>3. ThreadOK(t)
    BY <1>1, <1>2, <2>1, <2>2, HandlerMove
  <2> QED
    BY <1>4, <2>1, <2>2, <2>3
<1> QED
  BY <1>3, <1>4

\* What the text is.
LEMMA TextActions ==
  ASSUME IInv, NEW w \in Workers,
         Dispatch(w) \/ SetNick(w) \/ Welcome(w) \/ Talk(w) \/ Say(w)
  PROVE  IInv'
<1>1. {"dispatch", "setnick", "welcome", "talk", "say", "show", "private", "bcast"}
        \subseteq InHandler \ {"blocked"}
  BY DEF InHandler, InBatch, PCs
<1>2. CASE Dispatch(w)
  <2>1. SharedOK /\ th[w].pc \in InBatch \ {"next"} /\ th[w].fd \in Fds
    BY <1>1, <1>2, Handler DEF Dispatch
  <2>2. SharedOK'
    BY <1>2, <2>1, TouchedOK DEF Dispatch, netVars, SharedOK, SocketTypeOK, DescriptorsOK
  <2>3. Return(w) \/ (Goto(w, "talk") /\ th[w].buf # <<>>) \/ Goto(w, "setnick")
    BY <1>2 DEF Dispatch
  <2> QED
    BY <1>1, <1>2, <2>1, <2>2, <2>3, GotoStep, ReturnStep DEF Dispatch, InHandler
<1>3. CASE SetNick(w)
  <2>1. /\ SharedOK /\ th[w] \in Thread /\ th[w].pc \in InBatch \ {"next"} /\ th[w].fd \in Fds
    BY <1>1, <1>3, Handler DEF SetNick
  <2>2. [Touched(th[w].fd)[th[w].fd] EXCEPT !.nick = th[w].buf, !.named = TRUE] \in ClientInfo
    BY <2>1, TouchedOK, ZenonT(30) DEF ClientInfo, Thread
  <2>3. clients' \in [Fds -> ClientInfo \union {NoEntry}]
    <3> DEFINE m == Touched(th[w].fd)
               e == [m[th[w].fd] EXCEPT !.nick = th[w].buf, !.named = TRUE]
    <3>1. m \in [Fds -> ClientInfo \union {NoEntry}]
      BY <2>1, TouchedOK
    <3>2. clients' = [m EXCEPT ![th[w].fd] = e]
      <4>1. clients' = [m EXCEPT ![th[w].fd].nick = th[w].buf, ![th[w].fd].named = TRUE]
        BY <1>3 DEF SetNick
      <4> HIDE DEF m
      <4> QED
        BY <2>1, <3>1, <4>1
    <3> QED
      BY <2>1, <2>2, <3>1, <3>2
  <2>4. SharedOK'
    BY <1>3, <2>1, <2>3 DEF SetNick, netVars, SharedOK, SocketTypeOK, DescriptorsOK
  <2> QED
    BY <1>1, <1>3, <2>1, <2>4, GotoStep DEF SetNick, InHandler
<1>4. CASE Welcome(w)
  <2>1. <<>> \in Seq(Msg)
    OBVIOUS
  <2> QED
    BY <1>1, <1>4, <2>1, AnnounceStep DEF Welcome, Announce
<1>5. CASE Say(w)
  <2>1. th[w].buf \in Seq(Msg)
    BY DEF IInv, ThreadsOK, Thread
  <2> QED
    BY <1>1, <1>5, <2>1, AnnounceStep DEF Say, Announce
<1>6. CASE Talk(w)
  <2>1. /\ SharedOK /\ ThreadOK(th[w]) /\ th[w] \in Thread /\ th[w].pc = "talk"
        /\ th[w].pc \in InBatch \ {"next"} /\ th[w].fd \in Fds
    BY <1>1, <1>6, Handler DEF Talk
  <2>2. PICK t \in Routed(th[w]) :
          \/ Send(w, th[w].fd, Note("caution", <<>>, <<>>, {}), t)
          \/ Become(w, t) /\ UNCHANGED <<netVars, regVars, status, mux>>
    BY <1>6 DEF Talk
  <2>3. ThreadOK(t) /\ t.pc \in InBatch /\ t.cnt = th[w].cnt
    <3>1. t.pc \in {"show", "private", "say"} /\ ThreadOK(t) /\ t.cnt = th[w].cnt
      BY <1>6, RoutedIs DEF Talk
    <3> QED
      BY <1>1, <3>1 DEF InHandler
  <2>4. Note("caution", <<>>, <<>>, {}) \in Notice
    <3>1. <<>> \in Nick /\ <<>> \in Seq(Msg)
      BY DEF Nick
    <3> QED
      BY <3>1, NoteOK
  <2>5. CASE Send(w, th[w].fd, Note("caution", <<>>, <<>>, {}), t)
    BY <2>1, <2>3, <2>4, <2>5, SendStep
  <2>6. CASE Become(w, t) /\ UNCHANGED <<netVars, regVars, status, mux>>
    <3>1. SharedOK'
      BY <2>1, <2>6 DEF netVars, regVars, SharedOK, SocketTypeOK, DescriptorsOK
    <3> QED
      BY <2>1, <2>3, <2>6, <3>1, BatchStep DEF regVars
  <2> QED
    BY <2>2, <2>5, <2>6
<1> QED
  BY <1>2, <1>3, <1>4, <1>5, <1>6

\* The loops over clients.
LEMMA LoopActions ==
  ASSUME IInv, NEW w \in Workers, BroadcastStep(w) \/ PrivateStep(w) \/ ShowStep(w)
  PROVE  IInv'
<1>1. {"bcast", "private", "show"} \subseteq InHandler \ {"blocked"}
  BY DEF InHandler, InBatch, PCs
<1>2. /\ SharedOK /\ ThreadOK(th[w]) /\ th[w] \in Thread /\ th[w].pc \in InHandler \ {"blocked"}
      /\ th[w].pc \in InBatch \ {"next"} /\ th[w].fd \in Fds
  BY <1>1, Handler DEF BroadcastStep, PrivateStep, ShowStep, At
<1>3. ASSUME UNCHANGED <<netVars, regVars, status, mux>>
      PROVE  SharedOK' /\ UNCHANGED <<events, mux>>
  BY <1>2, <1>3 DEF netVars, regVars, SharedOK, SocketTypeOK, DescriptorsOK
<1>4. CASE LoopEnds(w)
  BY <1>2, <1>3, <1>4, ReturnStep DEF LoopEnds
<1>5. ASSUME NEW k \in Fds
      PROVE  ThreadOK(Moved(w, k)) /\ Moved(w, k).pc \in InBatch /\ Moved(w, k).cnt = th[w].cnt
  <2>1. k \in AllFds \union {NoFd} /\ th[w].out \in Notice
    BY <1>2 DEF AllFds, Thread
  <2>2. /\ Moved(w, k) \in Thread /\ Moved(w, k).pc = th[w].pc /\ Moved(w, k).cnt = th[w].cnt
        /\ Moved(w, k).idx = th[w].idx /\ Moved(w, k).fd = th[w].fd
        /\ Moved(w, k).buf = th[w].buf /\ Moved(w, k).out = th[w].out
    BY <1>2, <2>1 DEF Moved, Thread
  <2>3. Moved(w, k).pc = "private" => Moved(w, k).out.kind = "private"
    BY <1>2, <2>2 DEF ThreadOK
  <2>4. Moved(w, k).pc = "talk" => Moved(w, k).buf # <<>>
    BY <1>2, <2>2 DEF ThreadOK
  <2> QED
    BY <1>2, <2>2, <2>3, <2>4, HandlerMove
<1>6. ASSUME NEW k \in Fds, Pass(w, k)
      PROVE  IInv'
  BY <1>2, <1>3, <1>5, <1>6, BatchStep DEF Pass
<1>7. ASSUME NEW k \in Fds, NEW msg \in Notice, Send(w, k, msg, Moved(w, k))
      PROVE  IInv'
  BY <1>2, <1>5, <1>7, SendStep
<1>8. CASE BroadcastStep(w)
  <2>1. th[w].out \in Notice
    BY <1>2 DEF Thread
  <2> QED
    BY <1>4, <1>6, <1>7, <1>8, <2>1 DEF BroadcastStep
<1>9. CASE PrivateStep(w)
  <2>1. th[w].out \in Notice
    BY <1>2 DEF Thread
  <2>2. CASE Die("killed") /\ UNCHANGED <<netVars, regVars, mux>>
    <3>1. SharedOK'
      BY <1>2, <2>2 DEF Die, netVars, regVars, SharedOK, SocketTypeOK, DescriptorsOK
    <3> QED
      BY <2>2, <3>1, DieStep DEF Die, regVars
  <2>3. LoopEnds(w) \/ (Die("killed") /\ UNCHANGED <<netVars, regVars, mux>>)
        \/ \E k \in Fds : Send(w, k, th[w].out, Moved(w, k)) \/ Pass(w, k)
    BY <1>9 DEF PrivateStep
  <2> QED
    BY <1>4, <1>6, <1>7, <2>1, <2>2, <2>3
<1>10. CASE ShowStep(w)
  <2>1. th[w].out \in Notice /\ th[w].out.rows \in SUBSET (Conns \union {None})
    BY <1>2 DEF Thread, Notice
  <2>2. CASE Send(w, th[w].fd, Note("users", <<>>, <<>>, th[w].out.rows), Finished(th[w]))
    <3>1. Note("users", <<>>, <<>>, th[w].out.rows) \in Notice
      <4>1. <<>> \in Nick /\ <<>> \in Seq(Msg)
        BY DEF Nick
      <4> QED
        BY <2>1, <4>1, NoteOK
    <3>2. "next" \in InBatch
      BY DEF InBatch, PCs
    <3> QED
      BY <1>2, <2>2, <3>1, <3>2, FinishedOK, SendStep
  <2>3. ASSUME NEW k \in Fds, IsNext(w, k),
               Become(w, [Moved(w, k) EXCEPT !.out.rows = @ \union {clients[k].origin}]),
               UNCHANGED <<netVars, regVars, status, mux>>
        PROVE  IInv'
    <3>1. clients[k].origin \in Conns \union {None}
      BY <1>2, <2>3 DEF IsNext, Ahead, Keys, SharedOK, ClientInfo
    <3> DEFINE o == [th[w].out EXCEPT !.rows = @ \union {clients[k].origin}]
               t == [th[w] EXCEPT !.cur = k, !.out = o]
    <3>2. o \in Notice
      BY <2>1, <3>1 DEF Notice
    <3>3. k \in AllFds \union {NoFd}
      BY DEF AllFds
    <3>4. ThreadOK(t) /\ t.pc \in InBatch /\ t.cnt = th[w].cnt
      <4> HIDE DEF o
      <4>1. /\ t \in Thread /\ t.pc = th[w].pc /\ t.cnt = th[w].cnt
            /\ t.idx = th[w].idx /\ t.fd = th[w].fd
        BY <1>2, <3>2, <3>3 DEF Thread
      <4> QED
        <5>1. t.pc = "show"
          BY <1>10, <4>1 DEF ShowStep, At
        <5> QED
          BY <1>2, <4>1, <5>1, HandlerMove
    <3>5. [Moved(w, k) EXCEPT !.out.rows = @ \union {clients[k].origin}] = t
      BY <1>2, <2>1 DEF Moved, Thread
    <3> QED
      BY <1>2, <1>3, <2>3, <3>4, <3>5, BatchStep
  <2> QED
    BY <1>10, <2>2, <2>3 DEF ShowStep
<1> QED
  BY <1>8, <1>9, <1>10

\* The clients, the end of the process and stuttering.
LEMMA OutsideOK ==
  ASSUME IInv, Outside
  PROVE  IInv'
<1>1. PICK c \in Conns : Environment(c)
  BY DEF Outside
<1>2. SharedOK /\ conn \in [Conns -> ConnState] /\ conn[c] \in ConnState
  BY DEF IInv, SharedOK, SocketTypeOK
<1>3. Edge(c) \subseteq AllFds
  BY <1>2 DEF Edge, SharedOK, SocketTypeOK, ConnState, AllFds
<1>4. ASSUME NEW p \in {"fin", "rsterr", "rst", "up"}
      PROVE  [conn EXCEPT ![c].peer = p] \in [Conns -> ConnState]
  BY <1>2, <1>4 DEF ConnState
<1>5. CASE Connect(c)
  <2>1. Append(backlog, c) \in Seq(Conns) /\ ready \union {ListenFd} \subseteq AllFds
    BY <1>2 DEF SharedOK, SocketTypeOK, AllFds
  <2> QED
    BY <1>2, <1>4, <1>5, <2>1, DieStep
    DEF Connect, Outside, regVars, SharedOK, SocketTypeOK, DescriptorsOK
<1>6. CASE ClientSend(c)
  <2>1. PICK form \in Forms, to \in Conns :
          conn' = [conn EXCEPT ![c].sent = @ + 1,
                               ![c].rx = Append(@, [src |-> c, no |-> conn[c].sent + 1,
                                                    form |-> form, to |-> to])]
    BY <1>6, SocketAssumption DEF ClientSend
  <2>2. conn[c].sent + 1 \in Nat \ {0}
    BY <1>2 DEF ConnState
  <2>3. Append(conn[c].rx, [src |-> c, no |-> conn[c].sent + 1, form |-> form, to |-> to]) \in Seq(Msg)
    BY <1>2, <2>2 DEF ConnState, Msg
  <2>4. conn' \in [Conns -> ConnState]
    BY <1>2, <2>1, <2>2, <2>3 DEF ConnState
  <2> QED
    BY <1>2, <1>3, <1>6, <2>4, DieStep
    DEF ClientSend, Outside, regVars, SharedOK, SocketTypeOK, DescriptorsOK
<1>7. CASE ClientClose(c) \/ ClientAbort(c) \/ ResetArrives(c)
  BY <1>2, <1>3, <1>4, <1>7, DieStep
  DEF ClientClose, ClientAbort, ResetArrives, PeerBecomes, Outside, regVars, SharedOK,
      SocketTypeOK, DescriptorsOK
<1> QED
  BY <1>1, <1>5, <1>6, <1>7 DEF Environment

LEMMA NextIInv == IInv /\ [Next]_vars => IInv'
<1> SUFFICES ASSUME IInv, [Next]_vars PROVE IInv'
  OBVIOUS
<1>1. CASE \E w \in Workers : Worker(w)
  BY <1>1, BatchActions, EventActions, ReadingActions, LeavingActions, TextActions, LoopActions
  DEF Worker
<1>2. CASE RaceCrash \/ MainJoin
  <2>1. SharedOK'
    BY <1>2 DEF RaceCrash, MainJoin, Die, netVars, regVars, IInv, SharedOK, SocketTypeOK, DescriptorsOK
  <2> QED
    BY <1>2, <2>1, DieStep DEF RaceCrash, MainJoin, Die, regVars
<1>3. CASE Outside
  BY <1>3, OutsideOK
<1>4. CASE UNCHANGED vars
  <2>1. SharedOK'
    BY <1>4 DEF vars, netVars, IInv, SharedOK, SocketTypeOK, DescriptorsOK
  <2> QED
    BY <1>4, <2>1, DieStep DEF vars
<1> QED
  BY <1>1, <1>2, <1>3, <1>4 DEF Next

LEMMA Invariance == Spec => []IInv
BY InitIInv, NextIInv, PTL DEF Spec

-----------------------------------------------------------------------------
(* The theorems.                                                           *)

\* Every variable of the server and of the sockets keeps its type: no index of a batch
\* leaves the events array, no handler runs on a descriptor that is none.
THEOREM TypeCorrect == Spec => []TypeOK
<1>1. IInv => TypeOK
  BY DEF IInv, SharedOK, ThreadsOK, TypeOK
<1> QED
  BY <1>1, Invariance, PTL

\* A worker holds io_event_mux exactly while it is in its critical section.
THEOREM MutexHeld == Spec => []MuxHeld
<1>1. IInv => MuxHeld
  BY DEF IInv
<1> QED
  BY <1>1, Invariance, PTL

\* At most one worker at a time waits in epoll_wait.
THEOREM OneWaits ==
  Spec => [](\A v, w \in Workers : th[v].pc = "wait" /\ th[w].pc = "wait" => v = w)
<1>1. IInv => \A v, w \in Workers : th[v].pc = "wait" /\ th[w].pc = "wait" => v = w
  BY DEF IInv, MuxHeld
<1> QED
  BY <1>1, Invariance, PTL

\* No worker ever reads an element of events that no epoll_wait has written, though the
\* workers share the array and write it while others read.
THEOREM BatchFilled == Spec => []EventsFilled
<1>1. IInv => EventsFilled
  BY DEF IInv
<1> QED
  BY <1>1, Invariance, PTL

-----------------------------------------------------------------------------
(* The life of a connection.                                               *)

\* A connection no descriptor has been given to yet.
Waiting(c) == conn[c].peer = "idle" \/ c \in Range(backlog)

\* Every connection has one descriptor, and is watched under no other.
SocketsOK ==
  /\ \A f, g \in Fds : sock[f] = sock[g] /\ IsOpen(f) => f = g
  /\ \A f \in Fds : IsOpen(f) => ~Waiting(sock[f])
  /\ \A i, j \in DOMAIN backlog : backlog[i] = backlog[j] => i = j
  /\ \A c \in Range(backlog) : conn[c].peer # "idle"
  /\ \A c \in Conns : conn[c].watch # NoFd => sock[conn[c].watch] = c

-----------------------------------------------------------------------------
(* What a step of a worker does to the connections.                        *)

Sends    == \E f \in Fds, msg \in Notice :
              IsOpen(f) /\ conn' = Sent(sock[f], msg) /\ UNCHANGED <<sock, backlog>>
Reports  == \E c \in Conns :
              conn[c].peer = "rsterr" /\ conn' = Reported(c) /\ UNCHANGED <<sock, backlog>>
Takes    == \E c \in Conns :
              /\ conn[c].rx # <<>>
              /\ conn' = [conn EXCEPT ![c].rx = Tail(@)] /\ UNCHANGED <<sock, backlog>>
Closes   == \E f \in AllFds : IsOpen(f) /\ Close(f) /\ UNCHANGED backlog
Accepts  == /\ backlog # <<>>
            /\ \E f \in Fds : ~IsOpen(f) /\ sock' = [sock EXCEPT ![f] = Head(backlog)]
            /\ backlog' = Tail(backlog) /\ UNCHANGED conn
Watches  == \E f \in Fds :
              /\ IsOpen(f) /\ conn[sock[f]].watch = NoFd
              /\ conn' = [conn EXCEPT ![sock[f]].watch = f] /\ UNCHANGED <<sock, backlog>>
Unblocks == \E f \in Fds :
              /\ IsOpen(f)
              /\ conn' = [conn EXCEPT ![sock[f]].nonblock = TRUE] /\ UNCHANGED <<sock, backlog>>
Quiet    == UNCHANGED <<conn, sock, backlog>>

Muted     == Reports \/ Takes \/ Closes \/ Accepts \/ Watches \/ Unblocks \/ Quiet
NetEffect == Sends \/ Muted

\* A send gives its message to the client, or takes the client's reset, or does nothing.
LEMMA SendNet ==
  ASSUME IInv, NEW w \in Workers, NEW f \in Fds, NEW msg \in Notice, NEW t, Send(w, f, msg, t)
  PROVE  Sends \/ Reports \/ Quiet
<1>1. IsOpen(f) => sock[f] \in Conns
  BY SocketOf DEF IInv
<1>2. CASE SendTaken(f) /\ \E part \in Portions(f, msg) : conn' = Sent(sock[f], part)
  <2>1. PICK part \in Portions(f, msg) : conn' = Sent(sock[f], part)
    BY <1>2
  <2>2. part \in Notice
    BY PortionOK
  <2> QED
    BY <1>2, <2>1, <2>2 DEF Send, SendTaken, Sends
<1>3. CASE SendFails(f) /\ conn' = (IF IsOpen(f) THEN Reported(sock[f]) ELSE conn)
  BY <1>1, <1>3 DEF Send, SendFails, Reports, Quiet
<1>4. CASE UNCHANGED conn
  BY <1>4 DEF Send, Quiet
<1> QED
  BY <1>2, <1>3, <1>4 DEF Send

\* The notices the server sends are notices.
LEMMA MadeNotices ==
  ASSUME IInv, NEW w \in Workers
  PROVE  /\ Note("caution", <<>>, <<>>, {}) \in Notice
         /\ Note("users", <<>>, <<>>, th[w].out.rows) \in Notice
         /\ th[w].out \in Notice
<1>1. th[w].out \in Notice /\ th[w].out.rows \in SUBSET (Conns \union {None})
      /\ th[w].buf \in Seq(Msg)
  BY DEF IInv, ThreadsOK, Thread, Notice
<1>2. <<>> \in Nick /\ <<>> \in Seq(Msg)
  BY DEF Nick
<1> QED
  BY <1>1, <1>2, NoteOK

\* Reading takes a message, or reports a reset, or does nothing.
LEMMA RecvFromNet ==
  ASSUME NEW w \in Workers, NEW c \in Conns, RecvFrom(w, c), UNCHANGED <<sock, backlog>>
  PROVE  Takes \/ Reports \/ Quiet
BY DEF RecvFrom, Take, Takes, Reports, Quiet

\* What a worker does when it is not about to send.
Mute(w) ==
  \/ Lock(w) \/ EpollWait(w) \/ EpollInterrupted(w) \/ Unlock(w) \/ NextEvent(w) \/ CheckEvent(w)
  \/ ErrClose(w) \/ Accept(w) \/ Insert(w) \/ AddFd(w) \/ SetNonblocking(w)
  \/ Recv(w) \/ Blocked(w) \/ CloseConn(w) \/ ReadName(w) \/ Erase(w)
  \/ Dispatch(w) \/ SetNick(w) \/ Welcome(w) \/ Say(w)

\* A mute step has one of the mute effects.
LEMMA MuteNet ==
  ASSUME IInv, NEW w \in Workers, Mute(w)
  PROVE  Muted
<1>1. CASE Lock(w) \/ EpollWait(w) \/ EpollInterrupted(w) \/ Unlock(w) \/ NextEvent(w)
           \/ CheckEvent(w) \/ Insert(w) \/ ReadName(w) \/ Erase(w) \/ Dispatch(w)
           \/ SetNick(w) \/ Welcome(w) \/ Say(w)
  BY <1>1 DEF Lock, EpollWait, EpollInterrupted, Unlock, NextEvent, CheckEvent, Insert, ReadName,
              Erase, Dispatch, SetNick, Welcome, Say, Announce, netVars, Muted, Quiet
<1>2. CASE ErrClose(w) \/ CloseConn(w)
  <2>1. ErrClose(w) /\ events[th[w].idx].fd # NoFd => events[th[w].idx].fd \in AllFds
    <3> SUFFICES ASSUME ErrClose(w), events[th[w].idx].fd # NoFd
                 PROVE  events[th[w].idx].fd \in AllFds
      OBVIOUS
    <3>1. th[w].idx \in 1..EPOLL_SIZE
      BY ServerAssumption, SMTT(30) DEF IInv, ThreadsOK, ThreadOK, Thread, ErrClose, At, InBatch, PCs
    <3> QED
      BY <3>1 DEF IInv, SharedOK, Event
  <2>2. CloseConn(w) => th[w].fd \in AllFds
    BY DEF IInv, ThreadsOK, ThreadOK, CloseConn, At, InBatch, PCs, AllFds
  <2> QED
    BY <1>2, <2>1, <2>2 DEF ErrClose, CloseConn, Muted, Closes, Quiet
<1>3. CASE Accept(w)
  BY <1>3 DEF Accept, AcceptFails, AcceptOne, AcceptNone, IsLowestFree, Muted, Accepts, Quiet
<1>4. CASE AddFd(w) \/ SetNonblocking(w)
  <2>1. th[w].fd \in Fds
    BY <1>4 DEF AddFd, SetNonblocking, At, IInv, ThreadsOK, ThreadOK, InBatch, PCs
  <2> QED
    BY <1>4, <2>1 DEF AddFd, SetNonblocking, Muted, Watches, Unblocks, Quiet
<1>5. CASE Recv(w) \/ Blocked(w)
  <2>1. /\ At(w, "recv") => th[w].fd \in Fds
        /\ At(w, "blocked") => th[w].con \in Conns
    BY DEF At, IInv, ThreadsOK, ThreadOK, InBatch, PCs
  <2>2. At(w, "recv") /\ IsOpen(th[w].fd) => sock[th[w].fd] \in Conns
    BY <2>1, SocketOf DEF IInv
  <2> QED
    BY <1>5, <2>1, <2>2, RecvFromNet DEF Recv, Blocked, Muted, Quiet
<1> QED
  BY <1>1, <1>2, <1>3, <1>4, <1>5 DEF Mute

\* Every step of a worker has one of these effects.
LEMMA WorkerNet ==
  ASSUME IInv, NEW w \in Workers, Worker(w)
  PROVE  NetEffect
<1>1. CASE Mute(w)
  BY <1>1, MuteNet DEF NetEffect
<1>6. CASE Talk(w) \/ ShowStep(w)
  <2>1. th[w].fd \in Fds
    BY <1>6 DEF Talk, ShowStep, At, IInv, ThreadsOK, ThreadOK, InBatch, PCs
  <2>2. CASE Quiet
    BY <2>2 DEF NetEffect, Muted
  <2>3. ASSUME NEW msg \in Notice, NEW t, Send(w, th[w].fd, msg, t)
        PROVE  NetEffect
    BY <2>1, <2>3, SendNet DEF NetEffect, Muted
  <2> QED
    BY <1>6, <2>2, <2>3, MadeNotices DEF Talk, ShowStep, netVars, Quiet
<1>7. CASE BroadcastStep(w) \/ PrivateStep(w)
  <2>1. CASE Quiet
    BY <2>1 DEF NetEffect, Muted
  <2>2. ASSUME NEW k \in Fds, NEW msg \in Notice, NEW t, Send(w, k, msg, t)
        PROVE  NetEffect
    BY <2>2, SendNet DEF NetEffect, Muted
  <2> QED
    BY <1>7, <2>1, <2>2, MadeNotices
    DEF BroadcastStep, PrivateStep, LoopEnds, Pass, Die, netVars, Quiet
<1> QED
  BY <1>1, <1>6, <1>7 DEF Worker, Mute

-----------------------------------------------------------------------------
(* A connection has one descriptor.                                        *)

\* The elements of a sequence.
LEMMA RangeMember ==
  ASSUME NEW S, NEW s \in Seq(S), NEW x
  PROVE  x \in Range(s) <=> \E i \in DOMAIN s : s[i] = x
BY DEF Range

\* Append adds one.
LEMMA RangeAppend ==
  ASSUME NEW S, NEW s \in Seq(S), NEW x \in S
  PROVE  Range(Append(s, x)) = Range(s) \union {x}
<1>1. Append(s, x) \in Seq(S) /\ DOMAIN Append(s, x) = 1..Len(s) + 1 /\ DOMAIN s = 1..Len(s)
  OBVIOUS
<1>2. \A i \in 1..Len(s) + 1 : Append(s, x)[i] = IF i = Len(s) + 1 THEN x ELSE s[i]
  OBVIOUS
<1>3. Len(s) + 1 \in 1..Len(s) + 1
  OBVIOUS
<1> QED
  BY <1>1, <1>2, <1>3 DEF Range

\* Tail takes the first away.
LEMMA RangeTail ==
  ASSUME NEW S, NEW s \in Seq(S), s # <<>>
  PROVE  /\ Head(s) \in Range(s) /\ Range(Tail(s)) \subseteq Range(s)
         /\ \A i \in DOMAIN Tail(s) : i + 1 \in DOMAIN s /\ Tail(s)[i] = s[i + 1]
         /\ 1 \in DOMAIN s /\ Head(s) = s[1]
         /\ DOMAIN Tail(s) \subseteq Nat
<1>1. /\ Tail(s) \in Seq(S) /\ DOMAIN Tail(s) = 1..Len(s) - 1 /\ DOMAIN s = 1..Len(s)
      /\ Len(s) \in Nat /\ Len(s) >= 1
  OBVIOUS
<1>2. \A i \in 1..Len(s) - 1 : i + 1 \in DOMAIN s /\ Tail(s)[i] = s[i + 1]
  BY <1>1
<1>3. 1 \in DOMAIN s /\ Head(s) = s[1]
  BY <1>1
<1> QED
  BY <1>1, <1>2, <1>3 DEF Range

\* At the start no connection has a descriptor.
LEMMA SocketsInit ==
  ASSUME Init
  PROVE  SocketsOK
<1>1. \A f \in Fds : sock[f] = None /\ f \in AllFds
  BY DEF Init, SocketInit, Fds, AllFds, ListenFd
<1>2. backlog = <<>> /\ DOMAIN backlog = {} /\ Range(backlog) = {}
  BY DEF Init, SocketInit, Range
<1>3. \A c \in Conns : conn[c].watch = NoFd
  BY DEF Init, SocketInit
<1> QED
  BY <1>1, <1>2, <1>3 DEF SocketsOK, IsOpen

\* The client's side changes no descriptor; a connection is queued once.
LEMMA OutsideSockets ==
  ASSUME IInv, SocketsOK, Outside
  PROVE  SocketsOK'
<1>1. PICK c \in Conns : Environment(c)
  BY DEF Outside
<1>2. conn \in [Conns -> ConnState] /\ backlog \in Seq(Conns) /\ sock \in [AllFds -> Conns \union {None, Listener}]
  BY DEF IInv, SharedOK, SocketTypeOK
<1>3. \A f \in Fds : sock[f] \in Conns \union {None}
  BY <1>2, SocketOf DEF IInv, IsOpen
<1>4. CASE Connect(c)
  <2>1. /\ UNCHANGED sock /\ c \notin Range(backlog)
        /\ Range(backlog') = Range(backlog) \union {c}
        /\ \A d \in Conns : /\ conn'[d].watch = conn[d].watch
                            /\ conn'[d].peer = IF d = c THEN "up" ELSE conn[d].peer
    BY <1>2, <1>4, RangeAppend DEF Connect, SocketsOK, ConnState
  <2>2. \A i, j \in DOMAIN backlog' : backlog'[i] = backlog'[j] => i = j
    <3>1. /\ DOMAIN backlog' = 1..Len(backlog) + 1 /\ DOMAIN backlog = 1..Len(backlog)
          /\ \A i \in 1..Len(backlog) + 1 : backlog'[i] = IF i = Len(backlog) + 1 THEN c ELSE backlog[i]
      BY <1>2, <1>4 DEF Connect
    <3>2. \A i \in 1..Len(backlog) : backlog[i] # c
      BY <2>1, <3>1 DEF Range
    <3> QED
      BY <1>2, <3>1, <3>2 DEF SocketsOK
  <2>3. \A d \in Range(backlog') : d \in Conns /\ conn'[d].peer # "idle"
    <3>1. Range(backlog) \subseteq Conns
      BY <1>2 DEF Range
    <3> QED
      BY <2>1, <3>1 DEF SocketsOK
  <2>4. \A f \in Fds : (IsOpen(f) => ~Waiting(sock[f]))'
    <3>1. \A f \in Fds : IsOpen(f) => sock[f] \in Conns /\ sock[f] # c
      BY <1>3, <1>4 DEF IsOpen, SocketsOK, Waiting, Connect
    <3> QED
      BY <2>1, <3>1 DEF IsOpen, SocketsOK, Waiting
  <2> QED
    BY <2>1, <2>2, <2>3, <2>4 DEF SocketsOK, IsOpen
<1>5. CASE ClientSend(c) \/ ClientClose(c) \/ ClientAbort(c) \/ ResetArrives(c)
  <2>1. /\ UNCHANGED <<sock, backlog>>
        /\ \A d \in Conns : /\ conn'[d].watch = conn[d].watch
                            /\ conn[d].peer # "idle" => conn'[d].peer # "idle"
    <3>1. CASE ClientSend(c)
      BY <1>2, <3>1 DEF ClientSend, ConnState
    <3>2. CASE ClientClose(c) \/ ClientAbort(c) \/ ResetArrives(c)
      <4>1. PICK p \in {"fin", "rsterr", "rst"} :
              conn' = [conn EXCEPT ![c].peer = p] /\ UNCHANGED <<sock, backlog>>
        BY <3>2 DEF ClientClose, ClientAbort, ResetArrives, PeerBecomes
      <4> QED
        BY <1>2, <4>1 DEF ConnState
    <3> QED
      BY <1>5, <3>1, <3>2
  <2>2. Range(backlog) \subseteq Conns
    BY <1>2 DEF Range
  <2> QED
    BY <1>2, <1>3, <2>1, <2>2 DEF SocketsOK, IsOpen, Waiting
<1> QED
  BY <1>1, <1>4, <1>5 DEF Environment

\* So is the server's: accept takes a connection off the queue, and its descriptor is free.
LEMMA NetSockets ==
  ASSUME IInv, SocketsOK, NetEffect
  PROVE  SocketsOK'
<1>1. /\ conn \in [Conns -> ConnState] /\ backlog \in Seq(Conns)
      /\ sock \in [AllFds -> Conns \union {None, Listener}] /\ Range(backlog) \subseteq Conns
  BY DEF IInv, SharedOK, SocketTypeOK, Range
<1>2. \A f \in Fds : sock[f] \in Conns \union {None} /\ f \in AllFds
  BY <1>1, SocketOf DEF IInv, IsOpen, AllFds
<1>3. ASSUME UNCHANGED <<sock, backlog>>,
             \A d \in Conns : /\ conn'[d].watch = conn[d].watch
                              /\ conn[d].peer # "idle" => conn'[d].peer # "idle"
      PROVE  SocketsOK'
  BY <1>1, <1>2, <1>3 DEF SocketsOK, IsOpen, Waiting
<1>4. CASE Sends
  <2>1. PICK f \in Fds, msg \in Notice : IsOpen(f) /\ conn' = Sent(sock[f], msg)
    BY <1>4 DEF Sends
  <2>2. sock[f] \in Conns
    BY <1>2, <2>1 DEF IsOpen
  <2>3. \A d \in Conns : /\ conn'[d].watch = conn[d].watch
                         /\ conn[d].peer # "idle" => conn'[d].peer # "idle"
    BY <1>1, <2>1, <2>2 DEF Sent, ConnState
  <2> QED
    BY <1>3, <1>4, <2>3 DEF Sends
<1>5. CASE Reports
  BY <1>1, <1>3, <1>5 DEF Reports, Reported, ConnState
<1>6. CASE Takes
  BY <1>1, <1>3, <1>6 DEF Takes, ConnState
<1>7. CASE Unblocks
  BY <1>1, <1>2, <1>3, <1>7 DEF Unblocks, IsOpen, ConnState
<1>8. CASE Quiet
  BY <1>3, <1>8 DEF Quiet
<1>9. CASE Closes
  <2>1. PICK f \in AllFds : IsOpen(f) /\ Close(f) /\ UNCHANGED backlog
    BY <1>9 DEF Closes
  <2>2. \A g \in AllFds : sock'[g] = IF g = f THEN None ELSE sock[g]
    BY <1>1, <2>1 DEF Close
  <2>3. \A d \in Conns : /\ conn'[d].watch = IF d = sock[f] THEN NoFd ELSE conn[d].watch
                         /\ conn'[d].peer = conn[d].peer
    BY <1>1, <2>1 DEF Close, ConnState
  <2>4. \A d \in Conns : conn[d].watch # NoFd => conn[d].watch \in AllFds
    BY <1>1 DEF ConnState, AllFds
  <2>5. \A d \in Conns : conn'[d].watch # NoFd => sock'[conn'[d].watch] = d
    BY <2>2, <2>3, <2>4 DEF SocketsOK
  <2> QED
    BY <1>1, <1>2, <2>1, <2>2, <2>3, <2>5 DEF SocketsOK, IsOpen, Waiting
<1>10. CASE Watches
  <2>1. PICK f \in Fds : /\ IsOpen(f) /\ UNCHANGED <<sock, backlog>>
                         /\ conn' = [conn EXCEPT ![sock[f]].watch = f]
    BY <1>10 DEF Watches
  <2>2. \A d \in Conns : /\ conn'[d].watch = IF d = sock[f] THEN f ELSE conn[d].watch
                         /\ conn'[d].peer = conn[d].peer
    BY <1>1, <1>2, <2>1 DEF ConnState, IsOpen
  <2> QED
    BY <1>1, <1>2, <2>1, <2>2 DEF SocketsOK, IsOpen, Waiting
<1>11. CASE Accepts
  <2>1. PICK f \in Fds : ~IsOpen(f) /\ sock' = [sock EXCEPT ![f] = Head(backlog)]
    BY <1>11 DEF Accepts
  <2> DEFINE c == Head(backlog)
  <2>2. /\ backlog # <<>> /\ backlog' = Tail(backlog) /\ UNCHANGED conn
    BY <1>11 DEF Accepts
  <2>3. /\ c \in Range(backlog) /\ Range(Tail(backlog)) \subseteq Range(backlog)
        /\ \A i \in DOMAIN Tail(backlog) : i + 1 \in DOMAIN backlog /\ Tail(backlog)[i] = backlog[i + 1]
        /\ 1 \in DOMAIN backlog /\ c = backlog[1]
        /\ DOMAIN Tail(backlog) \subseteq Nat \ {0}
    <3>1. DOMAIN Tail(backlog) = 1..Len(backlog) - 1
      BY <1>1, <2>2
    <3> QED
      BY <1>1, <2>2, <3>1, RangeTail
  <2>4. c \notin Range(Tail(backlog))
    BY <2>3 DEF Range, SocketsOK
  <2>5. \A i, j \in DOMAIN Tail(backlog) : Tail(backlog)[i] = Tail(backlog)[j] => i = j
    BY <2>3 DEF SocketsOK
  <2>6. \A g \in AllFds : sock'[g] = IF g = f THEN c ELSE sock[g]
    BY <1>1, <2>1
  <2> HIDE DEF c
  <2>7. \A g \in Fds : IsOpen(g) => sock[g] # c
    BY <2>3 DEF SocketsOK, Waiting
  <2>8. c \in Conns /\ conn[c].peer # "idle"
    BY <1>1, <2>3 DEF SocketsOK
  <2>9. \A g, h \in Fds : sock'[g] = sock'[h] /\ IsOpen(g)' => g = h
    BY <1>2, <2>6, <2>7, <2>8, SocketAssumption DEF SocketsOK, IsOpen
  <2>10. \A g \in Fds : (IsOpen(g) => ~Waiting(sock[g]))'
    BY <1>2, <2>2, <2>3, <2>4, <2>6, <2>8 DEF SocketsOK, IsOpen, Waiting
  <2>11. \A d \in Conns : conn'[d].watch # NoFd => sock'[conn'[d].watch] = d
    <3>1. \A d \in Conns : conn[d].watch # NoFd => conn[d].watch \in AllFds
      BY <1>1 DEF ConnState, AllFds
    <3>2. sock[f] \notin Conns
      BY <2>1, SocketAssumption DEF IsOpen
    <3> QED
      BY <2>2, <2>6, <3>1, <3>2 DEF SocketsOK
  <2> QED
    BY <2>2, <2>3, <2>5, <2>9, <2>10, <2>11 DEF SocketsOK
<1> QED
  BY <1>4, <1>5, <1>6, <1>7, <1>8, <1>9, <1>10, <1>11 DEF NetEffect, Muted

\* What every step does to the sockets.
LEMMA NextNet ==
  ASSUME IInv, [Next]_vars
  PROVE  NetEffect \/ Outside
<1>1. CASE \E w \in Workers : Worker(w)
  BY <1>1, WorkerNet
<1>2. CASE RaceCrash \/ MainJoin \/ UNCHANGED vars
  BY <1>2 DEF RaceCrash, MainJoin, vars, netVars, NetEffect, Muted, Quiet
<1> QED
  BY <1>1, <1>2 DEF Next

\* So every step keeps the descriptors apart.
LEMMA NextSockets ==
  ASSUME IInv, SocketsOK, [Next]_vars
  PROVE  SocketsOK'
BY NextNet, NetSockets, OutsideSockets
-----------------------------------------------------------------------------
(* What is said at a descriptor stays there.                               *)

\* <<c, f>> for a connection c that has or had no descriptor but f: it has left the queue
\* and is at no other.
Homes == {p \in Conns \X Fds : ~Waiting(p[1]) /\ \A g \in Fds : sock[g] = p[1] => g = p[2]}

TextHome(text, f, H) == \A m \in Range(text) : <<m.src, f>> \in H

\* What a worker has in hand was sent to the descriptor it serves.
ThreadHome(t, H) ==
  /\ TextHome(t.buf, t.fd, H)
  /\ t.pc = "blocked" => <<t.con, t.fd>> \in H
  /\ t.pc \notin InHandler => t.buf = <<>> /\ t.out = Nothing
  /\ t.out.kind = "say" => TextHome(t.out.body, t.fd, H)
  /\ t.out.kind = "welcome" => TextHome(t.out.nick, t.fd, H)
  /\ t.pc = "erase" => t.out.kind = "leave"

RxOwn == \A c \in Conns : \A m \in Range(conn[c].rx) : m.src = c
NamesHome == \A f \in Fds : clients[f] # NoEntry => TextHome(clients[f].nick, f, Homes)
ThreadsHome == \A w \in Workers : ThreadHome(th[w], Homes)

HomeInv == RxOwn /\ NamesHome /\ ThreadsHome /\ NoEcho

\* A home is for life.
LEMMA HomesGrow ==
  ASSUME IInv, SocketsOK, [Next]_vars
  PROVE  Homes \subseteq Homes'
<1>1. /\ conn \in [Conns -> ConnState] /\ backlog \in Seq(Conns)
      /\ sock \in [AllFds -> Conns \union {None, Listener}] /\ Fds \subseteq AllFds
  BY DEF IInv, SharedOK, SocketTypeOK, AllFds
<1>2. ASSUME \A c \in Conns : Waiting(c)' => Waiting(c),
             \A g \in Fds, c \in Conns : sock'[g] = c => sock[g] = c \/ Waiting(c)
      PROVE  Homes \subseteq Homes'
  BY <1>2 DEF Homes
<1>3. CASE NetEffect
  <2>1. CASE Accepts
    <3>1. Range(Tail(backlog)) \subseteq Range(backlog) /\ Head(backlog) \in Range(backlog)
      BY <1>1, <2>1, RangeTail DEF Accepts
    <3> QED
      BY <1>1, <1>2, <2>1, <3>1 DEF Accepts, Waiting
  <2>2. CASE Closes
    <3>1. UNCHANGED backlog /\ \A c \in Conns : conn'[c].peer = conn[c].peer
      BY <1>1, <2>2 DEF Closes, Close, ConnState
    <3>2. \A g \in Fds : sock'[g] \in {sock[g], None}
      BY <1>1, <2>2 DEF Closes, Close
    <3> QED
      BY <1>1, <1>2, <3>1, <3>2, SocketAssumption DEF Waiting
  <2>3. CASE Sends \/ Reports \/ Takes \/ Watches \/ Unblocks \/ Quiet
    <3>1. \A f \in Fds : IsOpen(f) => sock[f] \in Conns
      BY SocketOf DEF IInv
    <3>2. CASE Sends
      <4>1. \A c \in Conns, msg \in Notice : \A d \in Conns :
              Sent(c, msg)[d].peer = "idle" => conn[d].peer = "idle"
        BY <1>1 DEF Sent, ConnState
      <4> QED
        BY <1>2, <3>1, <3>2, <4>1 DEF Sends, Waiting
    <3>3. CASE Reports \/ Takes \/ Watches \/ Unblocks \/ Quiet
      <4>1. UNCHANGED <<sock, backlog>>
        BY <3>3 DEF Reports, Takes, Watches, Unblocks, Quiet
      <4>2. \A d \in Conns : conn'[d].peer = "idle" => conn[d].peer = "idle"
        <5>1. CASE Reports
          BY <1>1, <5>1 DEF Reports, Reported, ConnState
        <5>2. CASE Takes
          BY <1>1, <5>2 DEF Takes, ConnState
        <5>3. CASE Watches
          BY <1>1, <3>1, <5>3 DEF Watches, ConnState
        <5>4. CASE Unblocks
          BY <1>1, <3>1, <5>4 DEF Unblocks, ConnState
        <5> QED
          BY <3>3, <5>1, <5>2, <5>3, <5>4 DEF Quiet
      <4> QED
        BY <1>2, <4>1, <4>2 DEF Waiting
    <3> QED
      BY <2>3, <3>2, <3>3
  <2> QED
    BY <1>3, <2>1, <2>2, <2>3 DEF NetEffect, Muted
<1>4. CASE Outside
  <2>1. PICK c \in Conns : Environment(c)
    BY <1>4 DEF Outside
  <2>2. CASE Connect(c)
    <3>1. Range(backlog') = Range(backlog) \union {c} /\ UNCHANGED sock /\ Waiting(c)
      BY <1>1, <2>2, RangeAppend DEF Connect, Waiting
    <3>2. \A d \in Conns : conn'[d].peer = "idle" => conn[d].peer = "idle"
      BY <1>1, <2>2 DEF Connect, ConnState
    <3> QED
      BY <1>2, <3>1, <3>2 DEF Waiting
  <2>3. CASE ClientSend(c) \/ ClientClose(c) \/ ClientAbort(c) \/ ResetArrives(c)
    <3>1. UNCHANGED <<sock, backlog>>
      BY <2>3 DEF ClientSend, ClientClose, ClientAbort, ResetArrives, PeerBecomes
    <3>2. \A d \in Conns : conn'[d].peer = "idle" => conn[d].peer = "idle"
      <4>1. CASE ClientSend(c)
        BY <1>1, <4>1 DEF ClientSend, ConnState
      <4>2. CASE \E p \in {"fin", "rsterr", "rst"} : conn' = [conn EXCEPT ![c].peer = p]
        BY <1>1, <4>2 DEF ConnState
      <4> QED
        BY <2>3, <4>1, <4>2 DEF ClientClose, ClientAbort, ResetArrives, PeerBecomes
    <3> QED
      BY <1>2, <3>1, <3>2 DEF Waiting
  <2> QED
    BY <2>1, <2>2, <2>3 DEF Environment
<1> QED
  BY <1>3, <1>4, NextNet

\* A client's input is its own.
LEMMA NextRx ==
  ASSUME IInv, RxOwn, [Next]_vars
  PROVE  RxOwn'
<1>1. conn \in [Conns -> ConnState] /\ \A c \in Conns : conn[c].rx \in Seq(Msg)
  BY DEF IInv, SharedOK, SocketTypeOK, ConnState
<1>2. ASSUME \A c \in Conns : conn'[c].rx = conn[c].rx
      PROVE  RxOwn'
  BY <1>2 DEF RxOwn
<1>3. \A f \in Fds : IsOpen(f) => sock[f] \in Conns
  BY SocketOf DEF IInv
<1>4. CASE NetEffect
  <2>1. CASE Takes
    <3>1. PICK c \in Conns : conn[c].rx # <<>> /\ conn' = [conn EXCEPT ![c].rx = Tail(@)]
      BY <2>1 DEF Takes
    <3>2. Range(Tail(conn[c].rx)) \subseteq Range(conn[c].rx)
      BY <1>1, <3>1, RangeTail
    <3>3. \A d \in Conns : conn'[d].rx = IF d = c THEN Tail(conn[c].rx) ELSE conn[d].rx
      BY <1>1, <3>1 DEF ConnState
    <3> QED
      BY <3>2, <3>3 DEF RxOwn
  <2>2. CASE Sends
    <3>1. \A c \in Conns, msg \in Notice : \A d \in Conns : Sent(c, msg)[d].rx = conn[d].rx
      BY <1>1 DEF Sent, ConnState
    <3> QED
      BY <1>2, <1>3, <2>2, <3>1 DEF Sends
  <2>3. CASE Reports
    BY <1>1, <1>2, <2>3 DEF Reports, Reported, ConnState
  <2>4. CASE Watches \/ Unblocks
    <3>1. CASE Watches
      BY <1>1, <1>2, <1>3, <3>1 DEF Watches, ConnState
    <3>2. CASE Unblocks
      BY <1>1, <1>2, <1>3, <3>2 DEF Unblocks, ConnState
    <3> QED
      BY <2>4, <3>1, <3>2
  <2>5. CASE Closes
    BY <1>1, <1>2, <2>5 DEF Closes, Close, ConnState
  <2>6. CASE Accepts \/ Quiet
    BY <1>2, <2>6 DEF Accepts, Quiet
  <2> QED
    BY <1>4, <2>1, <2>2, <2>3, <2>4, <2>5, <2>6 DEF NetEffect, Muted
<1>5. CASE Outside
  <2>1. PICK c \in Conns : Environment(c)
    BY <1>5 DEF Outside
  <2>2. CASE ClientSend(c)
    <3>1. PICK form \in Forms, to \in Conns :
            conn' = [conn EXCEPT ![c].sent = @ + 1,
                                 ![c].rx = Append(@, [src |-> c, no |-> conn[c].sent + 1,
                                                      form |-> form, to |-> to])]
      BY <2>2, SocketAssumption DEF ClientSend
    <3> DEFINE m == [src |-> c, no |-> conn[c].sent + 1, form |-> form, to |-> to]
    <3>2. m \in Msg /\ m.src = c
      BY <1>1 DEF Msg, ConnState
    <3>3. \A d \in Conns : conn'[d].rx = IF d = c THEN Append(conn[c].rx, m) ELSE conn[d].rx
      BY <1>1, <3>1 DEF ConnState
    <3> HIDE DEF m
    <3>4. Range(Append(conn[c].rx, m)) = Range(conn[c].rx) \union {m}
      BY <1>1, <3>2, RangeAppend
    <3> QED
      BY <3>2, <3>3, <3>4 DEF RxOwn
  <2>3. CASE \E p \in {"up", "fin", "rsterr", "rst"} : conn' = [conn EXCEPT ![c].peer = p]
    BY <1>1, <1>2, <2>3 DEF ConnState
  <2> QED
    BY <2>1, <2>2, <2>3
    DEF Environment, Connect, ClientClose, ClientAbort, ResetArrives, PeerBecomes
<1> QED
  BY <1>4, <1>5, NextNet
-----------------------------------------------------------------------------
(* The invariant, action by action.                                        *)

\* A worker between two events may go to another descriptor, since it has nothing in hand;
\* inside a handler it stays with its own.
LEMMA AtRest ==
  ASSUME NEW t, NEW u, NEW H, ThreadHome(t, H), t.pc \notin InHandler,
         u.buf = t.buf, u.out = t.out, u.pc \notin {"blocked", "erase"}
  PROVE  ThreadHome(u, H)
<1>1. u.buf = <<>> /\ u.out = Nothing /\ Nothing.kind = "none"
  BY DEF ThreadHome, Nothing, Note
<1>2. Range(<<>>) = {}
  BY DEF Range
<1> QED
  BY <1>1, <1>2 DEF ThreadHome, TextHome

\* A worker that stays in its handler, at its descriptor.
LEMMA AtWork ==
  ASSUME NEW t, NEW u, NEW H, ThreadHome(t, H), u.pc \in InHandler \ {"blocked", "erase"},
         u.fd = t.fd, u.buf = t.buf, u.out = t.out
  PROVE  ThreadHome(u, H)
BY DEF ThreadHome

\* A worker that is through with its event has nothing in hand.
LEMMA FinishedHome ==
  ASSUME NEW t \in Thread, NEW H
  PROVE  ThreadHome(Finished(t), H)
<1>1. Finished(t).buf = <<>> /\ Finished(t).out = Nothing /\ Finished(t).pc = "next"
  BY DEF Finished, Thread
<1>2. Nothing.kind = "none" /\ Range(<<>>) = {} /\ "next" \notin InHandler
  BY DEF Nothing, Note, Range, InHandler
<1> QED
  BY <1>1, <1>2 DEF ThreadHome, TextHome

\* The worker that has made the step, and those that have not.
LEMMA ThreadsStep ==
  ASSUME IInv, ThreadsHome, Homes \subseteq Homes', NEW w \in Workers, NEW t,
         Become(w, t), ThreadHome(t, Homes)
  PROVE  ThreadsHome'
<1>1. th'[w] = t /\ \A v \in Workers \ {w} : th'[v] = th[v]
  BY DEF Become, IInv, ThreadsOK
<1>2. \A v \in Workers : ThreadHome(th'[v], Homes)
  BY <1>1 DEF ThreadsHome
<1> QED
  BY <1>2 DEF ThreadsHome, ThreadHome, TextHome

\* A worker that returns.
LEMMA ReturnHome ==
  ASSUME IInv, ThreadsHome, Homes \subseteq Homes', NEW w \in Workers, Return(w)
  PROVE  ThreadsHome'
<1>1. th[w] \in Thread
  BY DEF IInv, ThreadsOK
<1> QED
  BY <1>1, FinishedHome, ThreadsStep DEF Return

\* The names stay, when entries keep theirs or are made without one.
LEMMA NamesStep ==
  ASSUME NamesHome, Homes \subseteq Homes',
         \A f \in Fds : clients'[f] # NoEntry =>
           \/ clients[f] # NoEntry /\ clients'[f].nick = clients[f].nick
           \/ clients'[f].nick = <<>>
           \/ TextHome(clients'[f].nick, f, Homes)
  PROVE  NamesHome'
<1>1. Range(<<>>) = {}
  BY DEF Range
<1> QED
  BY <1>1 DEF NamesHome, TextHome

\* operator[] changes no name.
LEMMA TouchedNames ==
  ASSUME IInv, NEW f \in Fds, NEW g \in Fds, Touched(f)[g] # NoEntry
  PROVE  \/ clients[g] # NoEntry /\ Touched(f)[g].nick = clients[g].nick
         \/ Touched(f)[g].nick = <<>>
<1>1. clients \in [Fds -> ClientInfo \union {NoEntry}] /\ Fresh(None).nick = <<>>
  BY DEF IInv, SharedOK, Fresh
<1> QED
  BY <1>1 DEF Touched, Keys

\* Who is sent nothing hears nothing.
LEMMA MutedInbox ==
  ASSUME IInv, Muted \/ Outside
  PROVE  \A c \in Conns : conn'[c].inbox = conn[c].inbox
<1>1. conn \in [Conns -> ConnState]
  BY DEF IInv, SharedOK, SocketTypeOK
<1>2. \A f \in Fds : IsOpen(f) => sock[f] \in Conns
  BY SocketOf DEF IInv
<1>4. CASE Reports
  BY <1>1, <1>4 DEF Reports, Reported, ConnState
<1>5. CASE Takes
  BY <1>1, <1>5 DEF Takes, ConnState
<1>6. CASE Closes
  BY <1>1, <1>6 DEF Closes, Close, ConnState
<1>7. CASE Accepts \/ Quiet
  BY <1>7 DEF Accepts, Quiet
<1>8. CASE Watches
  BY <1>1, <1>2, <1>8 DEF Watches, ConnState
<1>9. CASE Unblocks
  BY <1>1, <1>2, <1>9 DEF Unblocks, ConnState
<1>10. CASE Outside
  <2>1. PICK c \in Conns : Environment(c)
    BY <1>10 DEF Outside
  <2>2. CASE ClientSend(c)
    BY <1>1, <2>2 DEF ClientSend, ConnState
  <2>3. CASE \E p \in {"up", "fin", "rsterr", "rst"} : conn' = [conn EXCEPT ![c].peer = p]
    BY <1>1, <2>3 DEF ConnState
  <2> QED
    BY <2>1, <2>2, <2>3
    DEF Environment, Connect, ClientClose, ClientAbort, ResetArrives, PeerBecomes
<1> QED
  BY <1>4, <1>5, <1>6, <1>7, <1>8, <1>9, <1>10 DEF Muted

\* Then nobody hears itself.
LEMMA MutedEcho ==
  ASSUME IInv, NoEcho, Muted \/ Outside
  PROVE  NoEcho'
<1>1. \A c \in Conns : conn'[c].inbox = conn[c].inbox
  BY MutedInbox
<1> QED
  BY <1>1 DEF NoEcho

\* A send gives its message to the client at the descriptor, if to anyone.
LEMMA SendInbox ==
  ASSUME IInv, NEW w \in Workers, NEW f \in Fds, NEW msg \in Notice, NEW t, Send(w, f, msg, t)
  PROVE  \A d \in Conns : \A n \in Range(conn'[d].inbox) :
           \/ n \in Range(conn[d].inbox)
           \/ /\ n.kind = msg.kind /\ n.nick = msg.nick /\ n.body = msg.body
              /\ IsOpen(f) /\ d = sock[f]
<1>1. conn \in [Conns -> ConnState]
  BY DEF IInv, SharedOK, SocketTypeOK
<1>2. IsOpen(f) => sock[f] \in Conns
  BY SocketOf DEF IInv
<1>3. CASE SendTaken(f) /\ \E part \in Portions(f, msg) : conn' = Sent(sock[f], part)
  <2>1. IsOpen(f) /\ sock[f] \in Conns
    BY <1>2, <1>3 DEF SendTaken
  <2>7. PICK part \in Portions(f, msg) : conn' = Sent(sock[f], part)
    BY <1>3
  <2>8. part \in Notice /\ part.kind = msg.kind /\ part.nick = msg.nick /\ part.body = msg.body
    BY PortionOK
  <2>2. \A d \in Conns : conn[d].inbox \in Seq(Notice)
    BY <1>1 DEF ConnState
  <2>3. \A d \in Conns : \/ conn'[d].inbox = conn[d].inbox
                         \/ d = sock[f] /\ conn'[d].inbox = Append(conn[sock[f]].inbox, part)
    BY <1>1, <2>1, <2>7 DEF Sent, ConnState
  <2>4. Range(Append(conn[sock[f]].inbox, part)) = Range(conn[sock[f]].inbox) \union {part}
    BY <2>1, <2>2, <2>8, RangeAppend
  <2> TAKE d \in Conns
  <2>5. CASE conn'[d].inbox = conn[d].inbox
    BY <2>5
  <2>6. CASE d = sock[f] /\ conn'[d].inbox = Append(conn[sock[f]].inbox, part)
    BY <2>1, <2>4, <2>6, <2>8
  <2> QED
    BY <2>3, <2>5, <2>6
<1>4. CASE Reports \/ Quiet
  BY <1>4, MutedInbox DEF Muted
<1>5. CASE SendFails(f) /\ conn' = (IF IsOpen(f) THEN Reported(sock[f]) ELSE conn)
  BY <1>2, <1>4, <1>5 DEF Send, SendFails, Reports, Quiet
<1>6. CASE UNCHANGED conn
  BY <1>6
<1> QED
  BY <1>3, <1>5, <1>6 DEF Send

\* A send of something its receiver has not said itself.
LEMMA SendHome ==
  ASSUME IInv, HomeInv, Homes \subseteq Homes', NEW w \in Workers, NEW f \in Fds,
         NEW msg \in Notice, NEW t, Send(w, f, msg, t), ThreadHome(t, Homes),
         IsOpen(f) /\ msg.kind = "say" => \A m \in Range(msg.body) : m.src # sock[f],
         IsOpen(f) /\ msg.kind = "welcome" => \A m \in Range(msg.nick) : m.src # sock[f]
  PROVE  NamesHome' /\ ThreadsHome' /\ NoEcho'
<1>1. conn \in [Conns -> ConnState] /\ UNCHANGED <<sock, backlog, clients>>
  BY DEF IInv, SharedOK, SocketTypeOK, Send, regVars
<1>2. NamesHome'
  BY <1>1 DEF HomeInv, NamesHome, TextHome
<1>3. ThreadsHome'
  <2>1. CASE Become(w, t)
    BY <2>1, ThreadsStep DEF HomeInv
  <2>2. CASE Return(w)
    BY <2>2, ReturnHome DEF HomeInv
  <2>3. CASE UNCHANGED th
    BY <2>3 DEF HomeInv, ThreadsHome, ThreadHome, TextHome
  <2> QED
    BY <2>1, <2>2, <2>3 DEF Send, Die
<1>4. NoEcho'
  <2>1. \A d \in Conns : \A n \in Range(conn'[d].inbox) :
          \/ n \in Range(conn[d].inbox)
          \/ /\ n.kind = msg.kind /\ n.nick = msg.nick /\ n.body = msg.body
             /\ IsOpen(f) /\ d = sock[f]
    BY SendInbox
  <2> QED
    BY <2>1 DEF HomeInv, NoEcho
<1> QED
  BY <1>2, <1>3, <1>4

\* Text of the descriptor a worker serves is nobody else's.
LEMMA NotMine ==
  ASSUME IInv, NEW f \in Fds, NEW k \in Fds \ {f}, IsOpen(k), NEW text, TextHome(text, f, Homes)
  PROVE  \A m \in Range(text) : m.src # sock[k]
BY SocketAssumption DEF TextHome, Homes, IsOpen

\* The steps of a worker with nothing in hand.
LEMMA FrameHome ==
  ASSUME IInv, HomeInv, Homes \subseteq Homes', NEW w \in Workers,
         \/ Lock(w) \/ EpollWait(w) \/ EpollInterrupted(w) \/ Unlock(w) \/ NextEvent(w)
         \/ CheckEvent(w) \/ ErrClose(w) \/ Accept(w)
  PROVE  NamesHome' /\ ThreadsHome'
<1>1. th[w] \in Thread /\ ThreadHome(th[w], Homes)
  BY DEF IInv, ThreadsOK, HomeInv, ThreadsHome
<1>2. th[w].pc \notin InHandler
  <2>1. th[w].pc \in {"lock", "wait", "unlock", "next", "check", "errclose", "accept"}
    BY DEF Lock, EpollWait, EpollInterrupted, Unlock, NextEvent, CheckEvent, ErrClose, Accept, At
  <2> QED
    BY <2>1 DEF InHandler, InBatch
<1>3. ASSUME NEW t, Become(w, t), t.buf = th[w].buf, t.out = th[w].out,
             t.pc \notin {"blocked", "erase"}
      PROVE  ThreadsHome'
  <2>1. ThreadHome(t, Homes)
    BY <1>1, <1>2, <1>3, AtRest
  <2> QED
    BY <1>3, <2>1, ThreadsStep DEF HomeInv
<1>4. ASSUME NEW l \in PCs \ {"blocked", "erase"}, Goto(w, l)
      PROVE  ThreadsHome'
  BY <1>1, <1>3, <1>4 DEF Goto, Thread
<1>5. ASSUME UNCHANGED th
      PROVE  ThreadsHome'
  BY <1>5 DEF HomeInv, ThreadsHome, ThreadHome, TextHome
<1>6. Return(w) => ThreadsHome'
  BY ReturnHome DEF HomeInv
<1>7. ASSUME NEW n, NEW i, NEW f, NEW c, NEW t,
             t \in {[th[w] EXCEPT !.pc = "unlock", !.cnt = n], [th[w] EXCEPT !.pc = "done"],
                    [th[w] EXCEPT !.pc = "next", !.idx = i], [th[w] EXCEPT !.pc = "lock"],
                    [th[w] EXCEPT !.pc = "check", !.fd = f],
                    [th[w] EXCEPT !.pc = "insert", !.fd = f, !.con = c]}
      PROVE  t.buf = th[w].buf /\ t.out = th[w].out /\ t.pc \notin {"blocked", "erase"}
  BY <1>1, <1>7 DEF Thread
<1>8. ThreadsHome'
  <2>1. CASE Lock(w) \/ CheckEvent(w) \/ ErrClose(w)
    <3>1. {"wait", "errclose", "accept", "recv"} \subseteq PCs \ {"blocked", "erase"}
      BY DEF PCs
    <3> QED
      BY <1>4, <1>6, <2>1, <3>1 DEF Lock, CheckEvent, ErrClose
  <2>2. CASE EpollWait(w) \/ EpollInterrupted(w)
    BY <1>3, <1>7, <2>2, ZenonT(60) DEF EpollWait, EpollInterrupted
  <2>3. CASE Unlock(w) \/ NextEvent(w)
    BY <1>3, <1>7, <2>3, ZenonT(60) DEF Unlock, NextEvent
  <2>4. CASE Accept(w)
    <3>1. ASSUME AcceptOne(w) PROVE ThreadsHome'
      <4>1. PICK f \in Fds :
              Become(w, [th[w] EXCEPT !.pc = "insert", !.fd = f, !.con = Head(backlog)])
        BY <3>1 DEF AcceptOne
      <4> DEFINE t == [th[w] EXCEPT !.pc = "insert", !.fd = f, !.con = Head(backlog)]
      <4>2. t.buf = th[w].buf /\ t.out = th[w].out /\ t.pc \notin {"blocked", "erase"}
        BY <1>7
      <4>3. Become(w, t)
        BY <4>1
      <4> HIDE DEF t
      <4> QED
        BY <1>3, <4>2, <4>3
    <3>2. AcceptNone(w) => ThreadsHome'
      BY <1>4 DEF AcceptNone, PCs
    <3> QED
      BY <1>5, <2>4, <3>1, <3>2 DEF Accept, AcceptFails, Die
  <2> QED
    BY <2>1, <2>2, <2>3, <2>4
<1>9. NamesHome'
  <2>1. UNCHANGED clients
    BY DEF Lock, EpollWait, EpollInterrupted, Unlock, NextEvent, CheckEvent, ErrClose, Accept, regVars
  <2> QED
    BY <2>1, NamesStep DEF HomeInv
<1> QED
  BY <1>8, <1>9

\* The steps of a handler that only go on, or return.
LEMMA WorkHome ==
  ASSUME IInv, HomeInv, Homes \subseteq Homes', NEW w \in Workers,
         Insert(w) \/ AddFd(w) \/ SetNonblocking(w) \/ CloseConn(w) \/ Dispatch(w)
  PROVE  NamesHome' /\ ThreadsHome'
<1>1. th[w] \in Thread /\ ThreadHome(th[w], Homes)
  BY DEF IInv, ThreadsOK, HomeInv, ThreadsHome
<1>2. {"insert", "addfd", "nonblock", "close", "dispatch"} \subseteq InHandler
  BY DEF InHandler, InBatch, PCs
<1>3. th[w].pc \in InHandler /\ th[w].fd \in Fds
  BY <1>2, Handler DEF Insert, AddFd, SetNonblocking, CloseConn, Dispatch
<1>4. ASSUME NEW l \in {"addfd", "nonblock", "readname", "talk", "setnick"}, Goto(w, l)
      PROVE  ThreadsHome'
  <2> DEFINE t == [th[w] EXCEPT !.pc = l]
  <2>1. /\ t.pc = l /\ t.fd = th[w].fd /\ t.buf = th[w].buf /\ t.out = th[w].out
        /\ l \in InHandler \ {"blocked", "erase"} /\ Become(w, t)
    BY <1>1, <1>4 DEF Thread, InHandler, InBatch, PCs, Goto
  <2> HIDE DEF t
  <2>2. ThreadHome(t, Homes)
    BY <1>1, <2>1, AtWork
  <2> QED
    BY <2>1, <2>2, ThreadsStep DEF HomeInv
<1>5. UNCHANGED th => ThreadsHome'
  BY DEF HomeInv, ThreadsHome, ThreadHome, TextHome
<1>6. Return(w) => ThreadsHome'
  BY ReturnHome DEF HomeInv
<1>7. ThreadsHome'
  BY <1>4, <1>5, <1>6 DEF Insert, AddFd, SetNonblocking, CloseConn, Dispatch, Die
<1>8. NamesHome'
  <2>1. \A f \in Fds : clients'[f] # NoEntry =>
          \/ clients[f] # NoEntry /\ clients'[f].nick = clients[f].nick
          \/ clients'[f].nick = <<>>
    <3>1. CASE Insert(w)
      BY <1>3, <3>1 DEF Insert, Fresh, IInv, SharedOK
    <3>2. CASE clients' = Touched(th[w].fd)
      BY <1>3, <3>2, TouchedNames
    <3>3. CASE UNCHANGED clients
      BY <3>3
    <3> QED
      BY <3>1, <3>2, <3>3 DEF AddFd, SetNonblocking, CloseConn, Dispatch, regVars
  <2> QED
    BY <2>1, NamesStep DEF HomeInv
<1> QED
  BY <1>7, <1>8

\* What recv takes was sent by the client at the descriptor.
LEMMA RecvHome ==
  ASSUME IInv, SocketsOK, HomeInv, Homes \subseteq Homes', NEW w \in Workers, Recv(w) \/ Blocked(w)
  PROVE  NamesHome' /\ ThreadsHome'
<1>1. th[w] \in Thread /\ ThreadHome(th[w], Homes)
  BY DEF IInv, ThreadsOK, HomeInv, ThreadsHome
<1>2. {"recv", "blocked", "dispatch", "close"} \subseteq InHandler
  BY DEF InHandler, InBatch, PCs
<1>3. th[w].pc \in InHandler /\ th[w].fd \in Fds /\ th[w].fd \in AllFds
  BY <1>2, Handler DEF Recv, Blocked, AllFds
<1>4. IsOpen(th[w].fd) => <<sock[th[w].fd], th[w].fd>> \in Homes
  <2>1. ASSUME IsOpen(th[w].fd)
        PROVE  sock[th[w].fd] \in Conns /\ ~Waiting(sock[th[w].fd])
               /\ \A g \in Fds : sock[g] = sock[th[w].fd] => g = th[w].fd
    BY <1>3, <2>1, SocketOf DEF IInv, SocketsOK, IsOpen
  <2> QED
    BY <1>3, <2>1 DEF Homes
<1>5. ASSUME NEW t, Become(w, t), ThreadHome(t, Homes)
      PROVE  ThreadsHome'
  BY <1>5, ThreadsStep DEF HomeInv
<1>6. ASSUME NEW c \in Conns, <<c, th[w].fd>> \in Homes, RecvFrom(w, c)
      PROVE  ThreadsHome'
  <2>1. CASE conn[c].rx # <<>> /\ Take(w, c)
    <3> DEFINE m == Head(conn[c].rx)
               t == [th[w] EXCEPT !.pc = "recv", !.con = None, !.buf = Append(th[w].buf, m)]
    <3>1. conn[c].rx \in Seq(Msg)
      BY DEF IInv, SharedOK, SocketTypeOK, ConnState
    <3>2. m \in Msg /\ m.src = c
      BY <2>1, <3>1, RangeTail DEF HomeInv, RxOwn
    <3> HIDE DEF m
    <3>3. Range(Append(th[w].buf, m)) = Range(th[w].buf) \union {m}
      BY <1>1, <3>2, RangeAppend DEF Thread
    <3>4. /\ t.pc = "recv" /\ t.fd = th[w].fd /\ t.buf = Append(th[w].buf, m)
          /\ t.out = th[w].out
      BY <1>1 DEF Thread
    <3>5. Become(w, t)
      BY <2>1 DEF Take, m
    <3> HIDE DEF t
    <3>6. TextHome(t.buf, t.fd, Homes)
      BY <1>1, <1>6, <3>2, <3>3, <3>4 DEF ThreadHome, TextHome
    <3>7. ThreadHome(t, Homes)
      BY <1>1, <1>2, <3>4, <3>6 DEF ThreadHome
    <3> QED
      BY <1>5, <3>5, <3>7
  <2>2. CASE Return(w)
    BY <2>2, ReturnHome DEF HomeInv
  <2>3. CASE Become(w, [th[w] EXCEPT !.pc = "close", !.con = None])
    <3> DEFINE t == [th[w] EXCEPT !.pc = "close", !.con = None]
    <3>1. t.pc = "close" /\ t.fd = th[w].fd /\ t.buf = th[w].buf /\ t.out = th[w].out /\ Become(w, t)
      BY <1>1, <2>3 DEF Thread
    <3> HIDE DEF t
    <3> QED
      BY <1>1, <1>2, <1>5, <3>1, AtWork
  <2> QED
    BY <1>6, <2>1, <2>2, <2>3 DEF RecvFrom
<1>7. ASSUME Recv(w)
      PROVE  ThreadsHome'
  <2>1. CASE Return(w)
    BY <2>1, ReturnHome DEF HomeInv
  <2>2. CASE IsOpen(th[w].fd) /\ RecvFrom(w, sock[th[w].fd])
    BY <1>3, <1>4, <1>6, <2>2, SocketOf DEF IInv
  <2>3. CASE Become(w, [th[w] EXCEPT !.pc = "dispatch"])
    <3> DEFINE t == [th[w] EXCEPT !.pc = "dispatch"]
    <3>1. t.pc = "dispatch" /\ t.fd = th[w].fd /\ t.buf = th[w].buf /\ t.out = th[w].out /\ Become(w, t)
      BY <1>1, <2>3 DEF Thread
    <3> HIDE DEF t
    <3> QED
      BY <1>1, <1>2, <1>5, <3>1, AtWork
  <2>4. CASE IsOpen(th[w].fd) /\ Become(w, [th[w] EXCEPT !.pc = "blocked", !.con = sock[th[w].fd]])
    <3> DEFINE t == [th[w] EXCEPT !.pc = "blocked", !.con = sock[th[w].fd]]
    <3>1. /\ t.pc = "blocked" /\ t.fd = th[w].fd /\ t.buf = th[w].buf /\ t.out = th[w].out
          /\ t.con = sock[th[w].fd] /\ Become(w, t)
      BY <1>1, <2>4 DEF Thread
    <3> HIDE DEF t
    <3>2. ThreadHome(t, Homes)
      BY <1>1, <1>2, <1>4, <2>4, <3>1 DEF ThreadHome
    <3> QED
      BY <1>5, <3>1, <3>2
  <2> QED
    BY <1>7, <2>1, <2>2, <2>3, <2>4 DEF Recv
<1>8. ASSUME Blocked(w)
      PROVE  ThreadsHome'
  <2>1. th[w].con \in Conns /\ <<th[w].con, th[w].fd>> \in Homes
    BY <1>1, <1>8 DEF Blocked, At, IInv, ThreadsOK, ThreadOK, ThreadHome
  <2> QED
    BY <1>6, <1>8, <2>1 DEF Blocked
<1>9. NamesHome'
  <2>1. UNCHANGED clients
    BY DEF Recv, Blocked, regVars
  <2> QED
    BY <2>1, NamesStep DEF HomeInv
<1> QED
  BY <1>7, <1>8, <1>9

\* What a worker sets out to send names its own text and its own entry.
LEMMA SpeakHome ==
  ASSUME IInv, HomeInv, Homes \subseteq Homes', NEW w \in Workers,
         ReadName(w) \/ Erase(w) \/ SetNick(w) \/ Welcome(w) \/ Say(w)
  PROVE  NamesHome' /\ ThreadsHome'
<1>1. th[w] \in Thread /\ ThreadHome(th[w], Homes)
  BY DEF IInv, ThreadsOK, HomeInv, ThreadsHome
<1>2. {"readname", "erase", "setnick", "welcome", "say", "bcast"} \subseteq InHandler
  BY DEF InHandler, InBatch, PCs
<1>3. th[w].pc \in InHandler /\ th[w].fd \in Fds /\ "erase" # "bcast" /\ "blocked" # "bcast"
  BY <1>2, Handler DEF ReadName, Erase, SetNick, Welcome, Say, Announce
<1> DEFINE f == th[w].fd
<1> HIDE DEF f
<1>4. clients \in [Fds -> ClientInfo \union {NoEntry}] /\ f \in Fds
  BY <1>3 DEF IInv, SharedOK, f
<1>5. Touched(f) \in [Fds -> ClientInfo \union {NoEntry}] /\ Touched(f)[f] # NoEntry
      /\ TextHome(Touched(f)[f].nick, f, Homes)
  <2>1. Touched(f) \in [Fds -> ClientInfo \union {NoEntry}] /\ Touched(f)[f] # NoEntry
    BY <1>4, TouchedOK, EntryAssumption DEF IInv
  <2>2. \/ clients[f] # NoEntry /\ Touched(f)[f].nick = clients[f].nick
        \/ Touched(f)[f].nick = <<>>
    BY <1>4, <2>1, TouchedNames
  <2>3. Range(<<>>) = {}
    BY DEF Range
  <2> QED
    BY <1>4, <2>1, <2>2, <2>3 DEF HomeInv, NamesHome, TextHome
<1>6. ASSUME NEW t, Become(w, t), ThreadHome(t, Homes)
      PROVE  ThreadsHome'
  BY <1>6, ThreadsStep DEF HomeInv
<1>7. ASSUME clients' = Touched(f)
      PROVE  NamesHome'
  <2>1. \A g \in Fds : clients'[g] # NoEntry =>
          \/ clients[g] # NoEntry /\ clients'[g].nick = clients[g].nick
          \/ clients'[g].nick = <<>>
    BY <1>4, <1>7, TouchedNames
  <2> QED
    BY <2>1, NamesStep DEF HomeInv
<1>8. CASE ReadName(w)
  <2> DEFINE t == [th[w] EXCEPT !.pc = "erase", !.out = Note("leave", clients'[f].nick, <<>>, {})]
  <2>1. /\ t.pc = "erase" /\ t.fd = th[w].fd /\ t.buf = th[w].buf /\ t.out.kind = "leave"
        /\ Become(w, t)
    BY <1>1, <1>8 DEF Thread, ReadName, Note, f
  <2> HIDE DEF t
  <2>2. ThreadHome(t, Homes)
    BY <1>1, <1>2, <2>1 DEF ThreadHome
  <2> QED
    BY <1>6, <1>7, <1>8, <2>1, <2>2 DEF ReadName, f
<1>9. CASE Welcome(w) \/ Say(w)
  <2>1. PICK k \in {"welcome", "say"}, body \in {<<>>, th[w].buf} :
          /\ k = "say" => body = th[w].buf
          /\ clients' = Touched(f)
          /\ Become(w, [th[w] EXCEPT !.pc = "bcast", !.out = Note(k, clients'[f].nick, body, {})])
    BY <1>9 DEF Welcome, Say, Announce, f
  <2> DEFINE t == [th[w] EXCEPT !.pc = "bcast", !.out = Note(k, clients'[f].nick, body, {})]
  <2>2. /\ t.pc = "bcast" /\ t.fd = f /\ t.buf = th[w].buf /\ Become(w, t)
        /\ t.out.kind = k /\ t.out.nick = Touched(f)[f].nick /\ t.out.body = body
    BY <1>1, <2>1 DEF Thread, Note, f
  <2> HIDE DEF t
  <2>3. ThreadHome(t, Homes)
    BY <1>1, <1>2, <1>5, <2>1, <2>2 DEF ThreadHome, f
  <2> QED
    BY <1>6, <1>7, <2>1, <2>2, <2>3
<1>10. CASE SetNick(w)
  <2> DEFINE t == [th[w] EXCEPT !.pc = "welcome"]
  <2>1. /\ t.pc = "welcome" /\ t.fd = th[w].fd /\ t.buf = th[w].buf /\ t.out = th[w].out
        /\ Become(w, t)
    BY <1>1, <1>10 DEF Thread, SetNick, Goto
  <2> HIDE DEF t
  <2>2. ThreadHome(t, Homes)
    BY <1>1, <1>2, <2>1, AtWork
  <2>3. clients' = [Touched(f) EXCEPT ![f].nick = th[w].buf, ![f].named = TRUE]
    BY <1>10 DEF SetNick, f
  <2>4. \A g \in Fds : clients'[g] # NoEntry =>
          \/ clients[g] # NoEntry /\ clients'[g].nick = clients[g].nick
          \/ clients'[g].nick = <<>>
          \/ TextHome(clients'[g].nick, g, Homes)
    <3> TAKE g \in Fds
    <3>1. CASE g = f
      <4>1. clients'[f].nick = th[w].buf
        BY <1>4, <1>5, <2>3, TouchedOK DEF IInv, ClientInfo
      <4> QED
        BY <1>1, <3>1, <4>1 DEF ThreadHome, f
    <3>2. CASE g # f
      <4>1. clients'[g] = Touched(f)[g]
        BY <1>4, <1>5, <2>3, <3>2
      <4> QED
        BY <1>4, <4>1, TouchedNames
    <3> QED
      BY <3>1, <3>2
  <2> QED
    BY <1>6, <2>1, <2>2, <2>4, NamesStep DEF HomeInv
<1>11. CASE Erase(w)
  <2>1. NamesHome'
    <3>1. clients' = [clients EXCEPT ![f] = NoEntry]
      BY <1>11 DEF Erase, Erased, f
    <3>2. \A g \in Fds : clients'[g] # NoEntry => clients'[g] = clients[g]
      BY <1>4, <3>1
    <3> QED
      BY <3>2, NamesStep DEF HomeInv
  <2>2. \A v \in Workers : ThreadHome(th'[v], Homes)
    <3> TAKE v \in Workers
    <3>1. th[v] \in Thread /\ ThreadHome(th[v], Homes)
      BY DEF IInv, ThreadsOK, HomeInv, ThreadsHome
    <3>2. CASE v = w
      <4>1. PICK name \in {th[w].out.nick, Garbage} :
              th'[w] = [th[w] EXCEPT !.pc = "bcast", !.out.nick = name]
        BY <1>11 DEF Erase
      <4>2. th[w].out.kind = "leave"
        BY <1>1, <1>11 DEF ThreadHome, Erase, At
      <4>3. /\ th'[w].pc = "bcast" /\ th'[w].fd = th[w].fd /\ th'[w].buf = th[w].buf
            /\ th'[w].out.kind = th[w].out.kind
        BY <1>1, <4>1 DEF Thread, Notice
      <4> QED
        BY <1>1, <1>2, <3>2, <4>2, <4>3 DEF ThreadHome
    <3>3. CASE v # w
      <4>1. th'[v] \in {th[v], [th[v] EXCEPT !.cur = NoFd]}
        BY <1>11, <3>3 DEF Erase
      <4>2. /\ th'[v].pc = th[v].pc /\ th'[v].fd = th[v].fd /\ th'[v].buf = th[v].buf
            /\ th'[v].out = th[v].out /\ th'[v].con = th[v].con
        BY <3>1, <4>1 DEF Thread
      <4> QED
        BY <3>1, <4>2 DEF ThreadHome
    <3> QED
      BY <3>2, <3>3
  <2>3. ThreadsHome'
    BY <2>2 DEF ThreadsHome, ThreadHome, TextHome
  <2> QED
    BY <2>1, <2>3
<1> QED
  BY <1>8, <1>9, <1>10, <1>11

\* What a worker sends goes to others than those whose text it is.
LEMMA LoopHome ==
  ASSUME IInv, HomeInv, Homes \subseteq Homes', NEW w \in Workers,
         Talk(w) \/ ShowStep(w) \/ BroadcastStep(w) \/ PrivateStep(w)
  PROVE  NamesHome' /\ ThreadsHome' /\ NoEcho'
<1>1. th[w] \in Thread /\ ThreadHome(th[w], Homes)
  BY DEF IInv, ThreadsOK, HomeInv, ThreadsHome
<1>2. {"talk", "show", "bcast", "private"} \subseteq InHandler
  BY DEF InHandler, InBatch, PCs
<1>3. th[w].pc \in InHandler \ {"blocked", "erase"} /\ th[w].fd \in Fds
  BY <1>2, Handler DEF Talk, ShowStep, BroadcastStep, PrivateStep, At
<1>4. ASSUME UNCHANGED <<netVars, regVars>>, ThreadsHome'
      PROVE  NamesHome' /\ ThreadsHome' /\ NoEcho'
  <2>1. NamesHome'
    BY <1>4, NamesStep DEF HomeInv, regVars
  <2> QED
    BY <1>4, <2>1 DEF netVars, HomeInv, NoEcho
<1>5. ASSUME NEW t, Become(w, t), ThreadHome(t, Homes)
      PROVE  ThreadsHome'
  BY <1>5, ThreadsStep DEF HomeInv
<1>6. \A k : ThreadHome(Moved(w, k), Homes)
  <2> TAKE k
  <2>1. /\ Moved(w, k).pc = th[w].pc /\ Moved(w, k).fd = th[w].fd /\ Moved(w, k).buf = th[w].buf
        /\ Moved(w, k).out = th[w].out
    BY <1>1 DEF Moved, Thread
  <2> QED
    BY <1>1, <1>3, <2>1, AtWork
<1>7. Return(w) => ThreadsHome'
  BY ReturnHome DEF HomeInv
<1>8. CASE Talk(w)
  <2> DEFINE msg == Note("caution", <<>>, <<>>, {})
  <2>1. msg \in Notice /\ msg.kind = "caution"
    BY MadeNotices DEF Note
  <2>2. PICK t \in Routed(th[w]) :
          \/ Send(w, th[w].fd, msg, t)
          \/ Become(w, t) /\ UNCHANGED <<netVars, regVars>>
    BY <1>8 DEF Talk
  <2>3. /\ t.pc \in {"show", "private", "say"} /\ t.fd = th[w].fd /\ t.buf = th[w].buf
        /\ t.out = th[w].out \/ t.out.kind = "private"
    BY <1>8, RoutedIs DEF Talk
  <2>4. ThreadHome(t, Homes)
    <3>1. t.pc \in InHandler \ {"blocked", "erase"}
      BY <2>3 DEF InHandler, InBatch, PCs
    <3>2. CASE t.out = th[w].out
      BY <1>1, <2>3, <3>1, <3>2, AtWork
    <3>3. CASE t.out.kind = "private"
      BY <1>1, <2>3, <3>1, <3>3 DEF ThreadHome
    <3> QED
      BY <2>3, <3>2, <3>3
  <2> HIDE DEF msg
  <2>5. CASE Send(w, th[w].fd, msg, t)
    BY <1>3, <2>1, <2>4, <2>5, SendHome
  <2> QED
    BY <1>4, <1>5, <2>2, <2>4, <2>5
<1>9. CASE ShowStep(w)
  <2> DEFINE msg == Note("users", <<>>, <<>>, th[w].out.rows)
  <2>1. CASE Send(w, th[w].fd, msg, Finished(th[w]))
    <3>1. msg \in Notice /\ msg.kind = "users"
      BY MadeNotices DEF Note
    <3> HIDE DEF msg
    <3>2. ThreadHome(Finished(th[w]), Homes)
      BY <1>1, FinishedHome
    <3> QED
      BY <1>3, <2>1, <3>1, <3>2, SendHome
  <2>2. ASSUME NEW k \in Fds, UNCHANGED <<netVars, regVars>>,
               Become(w, [Moved(w, k) EXCEPT !.out.rows = @ \union {clients[k].origin}])
        PROVE  NamesHome' /\ ThreadsHome' /\ NoEcho'
    <3> DEFINE t == [Moved(w, k) EXCEPT !.out.rows = @ \union {clients[k].origin}]
    <3>1. /\ t.pc = th[w].pc /\ t.fd = th[w].fd /\ t.buf = th[w].buf /\ t.out.kind = th[w].out.kind
          /\ t.out.body = th[w].out.body /\ t.out.nick = th[w].out.nick /\ Become(w, t)
      BY <1>1, <2>2 DEF Moved, Thread, Notice
    <3> HIDE DEF t
    <3>2. ThreadHome(t, Homes)
      BY <1>1, <1>3, <3>1 DEF ThreadHome
    <3> QED
      BY <1>4, <1>5, <2>2, <3>1, <3>2
  <2> QED
    BY <1>9, <2>1, <2>2 DEF ShowStep
<1>10. CASE PrivateStep(w)
  <2>1. th[w].out \in Notice /\ th[w].out.kind = "private"
    BY <1>10, MadeNotices DEF PrivateStep, At, IInv, ThreadsOK, ThreadOK
  <2>2. CASE LoopEnds(w)
    BY <1>4, <1>7, <2>2 DEF LoopEnds
  <2>3. ASSUME NEW k \in Fds, Send(w, k, th[w].out, Moved(w, k))
        PROVE  NamesHome' /\ ThreadsHome' /\ NoEcho'
    BY <1>6, <2>1, <2>3, SendHome
  <2>4. ASSUME NEW k \in Fds, Pass(w, k)
        PROVE  NamesHome' /\ ThreadsHome' /\ NoEcho'
    BY <1>4, <1>5, <1>6, <2>4 DEF Pass
  <2>5. ASSUME Die("killed"), UNCHANGED <<netVars, regVars>>
        PROVE  NamesHome' /\ ThreadsHome' /\ NoEcho'
    <3>1. ThreadsHome'
      BY <2>5 DEF Die, HomeInv, ThreadsHome, ThreadHome, TextHome
    <3> QED
      BY <1>4, <2>5, <3>1
  <2> QED
    BY <1>10, <2>2, <2>3, <2>4, <2>5 DEF PrivateStep
<1>11. CASE BroadcastStep(w)
  <2>1. CASE LoopEnds(w)
    BY <1>4, <1>7, <2>1 DEF LoopEnds
  <2>2. ASSUME NEW k \in Fds, Pass(w, k)
        PROVE  NamesHome' /\ ThreadsHome' /\ NoEcho'
    BY <1>4, <1>5, <1>6, <2>2 DEF Pass
  <2>3. ASSUME NEW k \in Fds, k # th[w].fd, Send(w, k, th[w].out, Moved(w, k))
        PROVE  NamesHome' /\ ThreadsHome' /\ NoEcho'
    <3>1. th[w].out \in Notice
      BY MadeNotices
    <3>2. IsOpen(k) /\ th[w].out.kind = "say" =>
            \A m \in Range(th[w].out.body) : m.src # sock[k]
      BY <1>1, <1>3, <2>3, NotMine DEF ThreadHome
    <3>3. IsOpen(k) /\ th[w].out.kind = "welcome" =>
            \A m \in Range(th[w].out.nick) : m.src # sock[k]
      BY <1>1, <1>3, <2>3, NotMine DEF ThreadHome
    <3> QED
      BY <1>6, <2>3, <3>1, <3>2, <3>3, SendHome
  <2> QED
    BY <1>11, <2>1, <2>2, <2>3 DEF BroadcastStep
<1> QED
  BY <1>8, <1>9, <1>10, <1>11

-----------------------------------------------------------------------------
(* The theorems.                                                           *)

\* The invariant holds at the start,
LEMMA InitHome ==
  ASSUME Init
  PROVE  HomeInv
<1>1. RxOwn /\ NoEcho
  <2>1. Range(<<>>) = {}
    BY DEF Range
  <2> QED
    BY <2>1 DEF Init, SocketInit, RxOwn, NoEcho
<1>2. NamesHome
  BY DEF Init, NamesHome
<1>3. ThreadHome(IdleThread, Homes)
  <2>1. Range(<<>>) = {} /\ IdleThread.pc = "lock" /\ IdleThread.buf = <<>>
        /\ IdleThread.out = Nothing /\ Nothing.kind = "none"
    BY DEF Range, IdleThread, Nothing, Note
  <2> QED
    BY <2>1 DEF ThreadHome, TextHome
<1> QED
  BY <1>1, <1>2, <1>3 DEF Init, HomeInv, ThreadsHome

\* and every step keeps it.
LEMMA NextHome ==
  ASSUME IInv, SocketsOK, HomeInv, [Next]_vars
  PROVE  HomeInv'
<1>1. Homes \subseteq Homes'
  BY HomesGrow
<1>2. RxOwn'
  BY NextRx DEF HomeInv
<1>3. ASSUME NEW w \in Workers, Mute(w)
      PROVE  NamesHome' /\ ThreadsHome' /\ NoEcho'
  <2>1. NoEcho'
    BY <1>3, MuteNet, MutedEcho DEF HomeInv
  <2> QED
    BY <1>1, <1>3, <2>1, FrameHome, WorkHome, RecvHome, SpeakHome DEF Mute
<1>4. ASSUME NEW w \in Workers, Talk(w) \/ ShowStep(w) \/ BroadcastStep(w) \/ PrivateStep(w)
      PROVE  NamesHome' /\ ThreadsHome' /\ NoEcho'
  BY <1>1, <1>4, LoopHome
<1>5. ASSUME UNCHANGED <<clients, th>>, Outside \/ UNCHANGED netVars
      PROVE  NamesHome' /\ ThreadsHome' /\ NoEcho'
  <2>1. NamesHome' /\ ThreadsHome'
    BY <1>1, <1>5 DEF HomeInv, NamesHome, ThreadsHome, ThreadHome, TextHome
  <2>2. NoEcho'
    BY <1>5, MutedEcho DEF HomeInv, Muted, Quiet, netVars
  <2> QED
    BY <2>1, <2>2
<1>6. CASE \E w \in Workers : Worker(w)
  BY <1>2, <1>3, <1>4, <1>6 DEF Worker, Mute, HomeInv
<1>7. CASE RaceCrash \/ MainJoin \/ Outside \/ UNCHANGED vars
  BY <1>2, <1>5, <1>7 DEF RaceCrash, MainJoin, Outside, Die, vars, regVars, HomeInv
<1> QED
  BY <1>6, <1>7 DEF Next

\* Each connection has one descriptor, from accept to close, and epoll knows it by that one;
\* none is accepted twice.
THEOREM OneDescriptor == Spec => []SocketsOK
<1>1. Init => IInv /\ SocketsOK
  BY InitIInv, SocketsInit
<1>2. IInv /\ SocketsOK /\ [Next]_vars => (IInv /\ SocketsOK)'
  BY NextIInv, NextSockets
<1> QED
  BY <1>1, <1>2, PTL DEF Spec

\* Nobody is sent its own chat line or its own welcome, however many workers there are and
\* however they meet: a text stays with the descriptor its sender had.
THEOREM NoEchoHolds == Spec => []NoEcho
<1>1. Init => IInv /\ SocketsOK /\ HomeInv
  BY InitIInv, SocketsInit, InitHome
<1>2. IInv /\ SocketsOK /\ HomeInv /\ [Next]_vars => (IInv /\ SocketsOK /\ HomeInv)'
  BY NextIInv, NextSockets, NextHome
<1>3. HomeInv => NoEcho
  BY DEF HomeInv
<1> QED
  BY <1>1, <1>2, <1>3, PTL DEF Spec
=============================================================================
